------------------------------ MODULE MCSpci ------------------------------
EXTENDS Spci
=============================================================================
