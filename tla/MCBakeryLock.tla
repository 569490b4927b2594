---- MODULE MCBakeryLock ----
EXTENDS BakeryLock
====
