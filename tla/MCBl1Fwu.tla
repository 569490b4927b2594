------------------------------ MODULE MCBl1Fwu ------------------------------
(***************************************************************************)
(* Two secure executables whose memory overlaps, a secure image that is    *)
(* authenticated in place, the non-secure image that runs the update and   *)
(* another one.                                                            *)
(***************************************************************************)
EXTENDS Bl1Fwu, TLC

CONSTANTS bl2u, bl2x, scp, ns1, ns2

MCBase == (bl2u :> 0) @@ (bl2x :> 1) @@ (scp :> 2) @@ (ns1 :> 4) @@ (ns2 :> 4)
MCMaxSize == (bl2u :> 2) @@ (bl2x :> 2) @@ (scp :> 2) @@ (ns1 :> 1) @@ (ns2 :> 1)
=============================================================================
