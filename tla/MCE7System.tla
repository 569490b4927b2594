----------------------------- MODULE MCE7System -----------------------------
(***************************************************************************)
(* The two Cortex-A32 CPUs of the Ensemble E7, and a flash of two sectors  *)
(* of two pages, into which images of three pages are programmed.          *)
(***************************************************************************)
EXTENDS E7System
=============================================================================
