--------------------------- MODULE MCEhfDispatch ---------------------------
(***************************************************************************)
(* Model values for EhfDispatch: the priorities of the Arm platforms       *)
(* (include/plat/arm/common/arm_def.h) and two masks of the normal world.  *)
(***************************************************************************)
EXTENDS EhfDispatch

MCNsMasks == {129, 160, 240, 255}
MCNsPriorities == {128, 144, 192}
MCSdeiPriorities == {96, 112}
=============================================================================
