-------------------------------- MODULE Ehf --------------------------------
(***************************************************************************)
(* The Exception Handling Framework of EL3 (bl31/ehf.c) on one CPU: the    *)
(* stack of priority activations, kept as a bit map, and the priority mask *)
(* register (PMR) of the interrupt controller that follows it.             *)
(*                                                                         *)
(* The operations run in EL3 with interrupts masked, several of them in    *)
(* one exception, so each is an operator from the framework's state to the *)
(* state it leaves; the module EhfDispatch has the actions that call them. *)
(* A panic() or a failed assert() is recorded in the field fault and ends  *)
(* the CPU's execution.                                                    *)
(***************************************************************************)
EXTENDS Naturals, FiniteSets, FiniteSetsExt

CONSTANT PriBits          \* exception_data.pri_bits

ASSUME PriBitsAssumption == PriBits \in 1..7

GIC_HIGHEST_NS_PRIORITY == 128

\* The running priority when no interrupt is active.
Idle == 255

IsPriSecure(p) == p < 128

PriToIdx(p) == (p % 128) \div 2^(7 - PriBits)

IdxToPri(i) == (i * 2^(7 - PriBits)) % 128

Faults == {"none", "running priority", "activation mismatch", "activation mask",
           "deactivation mismatch", "deactivation mask", "stash taken",
           "secure mask", "restored mask", "not stashed", "preemption active"}

EhfStates == [active : SUBSET (0..127), init_pri_mask : 0..255,
              ns_pri_mask : 0..255, pmr : 0..255, fault : Faults]

EhfInit(mask) == [active |-> {}, init_pri_mask |-> 0, ns_pri_mask |-> 0,
                  pmr |-> mask, fault |-> "none"]

Fault(e, why) == [e EXCEPT !.fault = why]

\* get_pe_highest_active_idx(): the lowest bit set.
HighestActive(e) == Min(e.active)

\* ehf_activate_priority() with running priority run.
Activate(e, run, p) ==
  LET raised == [e EXCEPT !.active = @ \union {PriToIdx(p)}, !.pmr = p]
  IN  CASE p >= run -> Fault(e, "running priority")
        [] p < run /\ e.active # {} /\ PriToIdx(p) >= HighestActive(e) ->
             Fault(e, "activation mismatch")
        [] OTHER -> IF p >= e.pmr THEN Fault(raised, "activation mask")
                    ELSE [raised EXCEPT !.init_pri_mask =
                                          IF e.active = {} THEN e.pmr ELSE @]

\* Mutant: the first mask comes back with every deactivation.
Deactivate_InitMask(e, run, p) ==
  [e EXCEPT !.active = @ \ {HighestActive(e)}, !.pmr = e.init_pri_mask]

\* ehf_deactivate_priority().  The mask for a remaining activation is the
\* priority being deactivated, as in the code.
Deactivate(e, run, p) ==
  LET rest == e.active \ {HighestActive(e)}
      lowered == [e EXCEPT !.active = rest,
                           !.pmr = IF rest = {} THEN e.init_pri_mask ELSE p]
  IN  CASE p >= run -> Fault(e, "running priority")
        [] p < run /\ (e.active = {} \/ PriToIdx(p) # HighestActive(e)) ->
             Fault(e, "deactivation mismatch")
        [] OTHER -> IF e.pmr > p THEN Fault(lowered, "deactivation mask") ELSE lowered

\* Secure execution is under way: the two world-switch hooks leave the mask alone.
Engaged(e, run) == IsPriSecure(run) \/ e.active # {}

\* ehf_exited_normal_world()
ExitedNormalWorld(e, run) ==
  CASE Engaged(e, run) -> e
    [] ~Engaged(e, run) /\ e.ns_pri_mask # 0 -> Fault(e, "stash taken")
    [] OTHER ->
         LET stashed == [e EXCEPT !.ns_pri_mask = e.pmr, !.pmr = GIC_HIGHEST_NS_PRIORITY]
         IN  IF IsPriSecure(e.pmr) THEN Fault(stashed, "secure mask") ELSE stashed

\* Mutant: the stash is restored but not cleared.
EnteringNormalWorld_KeepsStash(e, run) ==
  IF Engaged(e, run) \/ e.ns_pri_mask = 0 THEN e ELSE [e EXCEPT !.pmr = e.ns_pri_mask]

\* ehf_entering_normal_world()
EnteringNormalWorld(e, run) ==
  IF Engaged(e, run) \/ e.ns_pri_mask = 0 THEN e
  ELSE LET restored == [e EXCEPT !.pmr = e.ns_pri_mask]
       IN  IF e.pmr \notin {GIC_HIGHEST_NS_PRIORITY, e.ns_pri_mask}
           THEN Fault(restored, "restored mask")
           ELSE [restored EXCEPT !.ns_pri_mask = 0]

\* Mutant: the stash stays.
AllowNsPreemption_KeepsStash(e) == [e EXCEPT !.pmr = e.ns_pri_mask]

\* ehf_allow_ns_preemption()
AllowNsPreemption(e) ==
  CASE e.ns_pri_mask = 0 -> Fault(e, "not stashed")
    [] e.ns_pri_mask # 0 /\ e.active # {} -> Fault(e, "preemption active")
    [] OTHER -> [e EXCEPT !.pmr = e.ns_pri_mask, !.ns_pri_mask = 0]

\* ehf_is_ns_preemption_allowed()
IsNsPreemptionAllowed(e, run) == ~Engaged(e, run) /\ e.ns_pri_mask = 0
=============================================================================
