---------------------------- MODULE MCPsciAffInfo ----------------------------
(***************************************************************************)
(* Two CPUs that turn a third one on, for PsciAffInfo.                     *)
(***************************************************************************)
EXTENDS PsciAffInfo
=============================================================================
