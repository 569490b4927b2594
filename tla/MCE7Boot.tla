------------------------------ MODULE MCE7Boot ------------------------------
(***************************************************************************)
(* Three tries, a profile of the USB PHY and one other bit, and a counter  *)
(* of sixteen values, so that the long waits wrap.                         *)
(***************************************************************************)
EXTENDS E7Boot

MCDelays == {READ_DELAY, SYNC_DELAY \div 2, SYNC_DELAY, 3 * SYNC_DELAY}
=============================================================================
