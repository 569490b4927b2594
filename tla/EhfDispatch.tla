---------------------------- MODULE EhfDispatch ----------------------------
(***************************************************************************)
(* One CPU whose EL3 runtime uses the Exception Handling Framework with    *)
(* its clients of this repository:                                         *)
(*   - a secure payload below EL3: the Test Secure Payload behind TSPD     *)
(*     (services/spd/tspd), or the StandaloneMM partition behind SPM       *)
(*     (services/std_svc/spm_mm);                                          *)
(*   - SDEI (services/std_svc/sdei), which lets an EL3 interrupt run a     *)
(*     handler of the normal world at the interrupt's priority, or         *)
(*     dispatches an event explicitly at the event's priority;             *)
(*   - the RAS interrupt handler (lib/extensions/ras, plat/arm/css/sgi)    *)
(*     that ends its interrupt and then dispatches an SDEI event.          *)
(* EL3 runs with interrupts masked, so what it does between an exception   *)
(* and the following ERET is one action.  The normal world may change its  *)
(* priority mask whenever it runs outside an SDEI handler; a handler       *)
(* leaves the mask alone and makes no TSP calls.                           *)
(***************************************************************************)
EXTENDS Ehf, Sequences

CONSTANTS
  Payloads,       \* the builds considered: with the "tsp", with the "mm" partition
  NsMasks,        \* the masks the normal world programs, as seen from EL3
  NsPriorities,   \* the priorities of Non-secure interrupts
  SdeiPriorities, \* PLAT_SDEI_CRITICAL_PRI and PLAT_SDEI_NORMAL_PRI
  SEl1Priority,   \* the priority of the interrupts the TSP owns
  PLAT_RAS_PRI,
  PLAT_SP_PRI

ASSUME PriorityAssumption ==
  /\ Payloads \subseteq {"tsp", "mm"}
  /\ NsMasks \subseteq 129..255 /\ NsPriorities \subseteq 128..254
  /\ SdeiPriorities \union {SEl1Priority, PLAT_RAS_PRI, PLAT_SP_PRI} \subseteq 0..127
  /\ \A p \in SdeiPriorities \union {PLAT_SP_PRI} : IdxToPri(PriToIdx(p)) = p
  /\ \A p \in SdeiPriorities : PLAT_SP_PRI < p
  /\ PLAT_SP_PRI <= PLAT_RAS_PRI

VARIABLES
  payload,  \* the build: which payload runs below EL3
  ehf,      \* the framework's per-CPU data and the PMR
  irqs,     \* the priorities of the active interrupts, the running one last
  world,    \* the security state below EL3: "ns" or "s"
  frames,   \* the dispatches EL3 waits for, the innermost last
  yield,    \* the TSP's yield_smc_active flag
  tsp,      \* what the TSP is doing
  nsmask    \* history: the mask the normal world last programmed

vars == <<payload, ehf, irqs, world, frames, yield, tsp, nsmask>>

Frames == [kind : {"irq", "event", "sp"}, pri : 0..127, from : {"ns", "s"}]

\* Every variable has its type, and the TSP runs only in the secure world.
TypeOK ==
  /\ payload \in Payloads
  /\ ehf \in EhfStates
  /\ irqs \in Seq(0..127)
  /\ world \in {"ns", "s"}
  /\ frames \in Seq(Frames)
  /\ yield \in BOOLEAN
  /\ tsp \in {"none", "fast", "yield", "abort", "intr"}
  /\ nsmask \in NsMasks
  /\ payload = "tsp" /\ world = "s" => tsp # "none"

RunPri == IF irqs = <<>> THEN Idle ELSE irqs[Len(irqs)]

\* The interrupt controller signals a pending interrupt of priority p.
Signalled(p) == p < ehf.pmr /\ p < RunPri

Front(s) == SubSeq(s, 1, Len(s) - 1)

Top == frames[Len(frames)]

Frame(k, p, w) == [kind |-> k, pri |-> p, from |-> w]

Alive == ehf.fault = "none"

\* The secure world runs on behalf of a call or of an interrupt of its own.
Serving == world = "s" /\ (tsp # "none" \/ (frames # <<>> /\ Top.kind = "sp"))

\* The normal world runs outside any SDEI handler.
NsAtBase == Alive /\ world = "ns" /\ frames = <<>>

Init ==
  /\ payload \in Payloads
  /\ nsmask \in NsMasks
  /\ ehf = EhfInit(nsmask)
  /\ irqs = <<>> /\ world = "ns" /\ frames = <<>>
  /\ yield = FALSE /\ tsp = "none"

-----------------------------------------------------------------------------
(* The normal world.                                                        *)

\* A Non-secure write of the PMR has no effect while the mask is in the
\* secure range.
SetNsMask(m) ==
  /\ NsAtBase /\ ~IsPriSecure(ehf.pmr)
  /\ ehf' = [ehf EXCEPT !.pmr = m]
  /\ nsmask' = m
  /\ UNCHANGED <<irqs, world, frames, yield, tsp>>

-----------------------------------------------------------------------------
(* TSPD.                                                                    *)

EnterTsp(e, what, flag) ==
  /\ ehf' = e
  /\ world' = "s" /\ tsp' = what /\ yield' = flag
  /\ UNCHANGED <<irqs, frames, nsmask>>

\* The TSP has acknowledged one of its interrupts.
TspAcked == RunPri = SEl1Priority

\* Mutant: the return does not run the hook.
LeaveTsp_NoHook(flag) ==
  /\ Alive /\ world = "s" /\ ~TspAcked
  /\ world' = "ns" /\ tsp' = "none" /\ yield' = flag
  /\ UNCHANGED <<ehf, irqs, frames, nsmask>>

LeaveTsp(flag) ==
  /\ Alive /\ world = "s" /\ ~TspAcked
  /\ ehf' = EnteringNormalWorld(ehf, RunPri)
  /\ world' = "ns" /\ tsp' = "none" /\ yield' = flag
  /\ UNCHANGED <<irqs, frames, nsmask>>

Tspd == NsAtBase /\ payload = "tsp"

\* A fast or a yielding request; it is refused while a call is preempted.
TspFastCall ==
  Tspd /\ ~yield /\ EnterTsp(ExitedNormalWorld(ehf, RunPri), "fast", yield)

TspYieldCall ==
  Tspd /\ ~yield
  /\ EnterTsp(AllowNsPreemption(ExitedNormalWorld(ehf, RunPri)), "yield", TRUE)

TspReturn ==
  tsp \in {"fast", "yield"} /\ LeaveTsp(IF tsp = "yield" THEN FALSE ELSE yield)

\* A Non-secure interrupt ends the call; tspd_handle_sp_preemption().
TspPreempted ==
  tsp = "yield" /\ (\E p \in NsPriorities : Signalled(p)) /\ LeaveTsp(yield)

TspResume ==
  Tspd /\ yield
  /\ EnterTsp(AllowNsPreemption(ExitedNormalWorld(ehf, RunPri)), "yield", yield)

TspAbort ==
  Tspd /\ yield /\ EnterTsp(ExitedNormalWorld(ehf, RunPri), "abort", FALSE)

\* TSP_FID_ABORT without a preempted call: the context of the normal world is
\* saved and not restored.
TspAbortNothing ==
  /\ Tspd /\ ~yield
  /\ ehf' = ExitedNormalWorld(ehf, RunPri)
  /\ UNCHANGED <<irqs, world, frames, yield, tsp, nsmask>>

TspAbortDone ==
  tsp = "abort" /\ LeaveTsp(yield)

\* An interrupt of the TSP while the normal world runs, and its end.
SEl1Interrupt ==
  Tspd /\ Signalled(SEl1Priority) /\ EnterTsp(ExitedNormalWorld(ehf, RunPri), "intr", yield)

TspHandledSEl1Intr ==
  tsp = "intr" /\ LeaveTsp(yield)

\* The TSP acknowledges and ends its interrupts by itself.
TspAcknowledge ==
  /\ Alive /\ payload = "tsp" /\ world = "s" /\ Signalled(SEl1Priority)
  /\ irqs' = Append(irqs, SEl1Priority)
  /\ UNCHANGED <<ehf, world, frames, yield, tsp, nsmask>>

TspEndOfInterrupt ==
  /\ Alive /\ payload = "tsp" /\ world = "s" /\ TspAcked
  /\ irqs' = Front(irqs)
  /\ UNCHANGED <<ehf, world, frames, yield, tsp, nsmask>>

-----------------------------------------------------------------------------
(* SDEI and RAS.                                                            *)

\* sdei_intr_handler(): the interrupt stays active while its handler runs.
SdeiInterrupt(p) ==
  /\ Alive /\ Signalled(p)
  /\ irqs' = Append(irqs, p)
  /\ ehf' = IF world = "s" THEN EnteringNormalWorld(ehf, p) ELSE ehf
  /\ frames' = Append(frames, Frame("irq", p, world))
  /\ world' = "ns"
  /\ UNCHANGED <<yield, tsp, nsmask>>

\* sdei_event_complete() of a dispatch made for an interrupt.
CompleteInterrupt ==
  /\ Alive /\ world = "ns" /\ frames # <<>> /\ Top.kind = "irq"
  /\ irqs' = Front(irqs)
  /\ world' = Top.from
  /\ frames' = Front(frames)
  /\ UNCHANGED <<ehf, yield, tsp, nsmask>>

\* The dispatch on the top of SDEI's own stack, which knows nothing of the
\* partition's frames.
IsLastDispatch(i) ==
  /\ i \in DOMAIN frames /\ frames[i].kind # "sp"
  /\ \A j \in DOMAIN frames : i < j => frames[j].kind = "sp"

\* The check of the dispatch stack in sdei_dispatch_event(): only a critical
\* event runs above a normal one.
CanDispatch(p) == \A i \in DOMAIN frames : IsLastDispatch(i) => p < frames[i].pri

\* The RAS interrupt is handled and ended in EL3, where the partition is
\* called, then an event of priority p is dispatched.
RasInterrupt(p) ==
  /\ Alive /\ payload = "mm"
  /\ Signalled(PLAT_RAS_PRI)
  /\ CanDispatch(p)
  /\ LET saved == ExitedNormalWorld(ehf, PLAT_RAS_PRI)
         active == Activate(saved, RunPri, p)
     IN  ehf' = EnteringNormalWorld(active, RunPri)
  /\ world' = "ns"
  /\ frames' = Append(frames, Frame("event", p, "ns"))
  /\ UNCHANGED <<irqs, yield, tsp, nsmask>>

\* sdei_dispatch_event() refuses: the PE is masked, the event is not enabled
\* or running, or the dispatch stack does not admit it.  The handler ignores
\* the result, and nothing has replaced the partition's context, which
\* spm_sp_call() made the next one: EL3 returns into the partition, although
\* no call of it is outstanding.
RasUndispatched ==
  /\ Alive /\ payload = "mm"
  /\ Signalled(PLAT_RAS_PRI)
  /\ ehf' = ExitedNormalWorld(ehf, PLAT_RAS_PRI)
  /\ world' = "s"
  /\ UNCHANGED <<irqs, frames, yield, tsp, nsmask>>

\* sdei_event_complete() of an explicit dispatch.
CompleteEvent ==
  /\ Alive /\ world = "ns" /\ frames # <<>> /\ Top.kind = "event"
  /\ ehf' = Deactivate(ehf, RunPri, Top.pri)
  /\ frames' = Front(frames)
  /\ UNCHANGED <<irqs, world, yield, tsp, nsmask>>

-----------------------------------------------------------------------------
(* SPM: mm_communicate().                                                   *)

MmCommunicate ==
  /\ Alive /\ payload = "mm" /\ world = "ns"
  /\ ehf' = ExitedNormalWorld(Activate(ehf, RunPri, PLAT_SP_PRI), RunPri)
  /\ world' = "s"
  /\ frames' = Append(frames, Frame("sp", PLAT_SP_PRI, "ns"))
  /\ UNCHANGED <<irqs, yield, tsp, nsmask>>

\* SP_EVENT_COMPLETE of a call.  Without one the partition's SMC jumps through
\* the stale C context of an earlier call (c_rt_ctx), and the model stops.
MmReturn ==
  /\ Alive /\ payload = "mm" /\ Serving
  /\ ehf' = Deactivate(EnteringNormalWorld(ehf, RunPri), RunPri, PLAT_SP_PRI)
  /\ world' = "ns"
  /\ frames' = Front(frames)
  /\ UNCHANGED <<irqs, yield, tsp, nsmask>>

-----------------------------------------------------------------------------
Step ==
  \/ \E m \in NsMasks : SetNsMask(m)
  \/ TspFastCall
  \/ TspYieldCall
  \/ TspReturn
  \/ TspPreempted
  \/ TspResume
  \/ TspAbort
  \/ TspAbortDone
  \/ SEl1Interrupt
  \/ TspHandledSEl1Intr
  \/ TspAcknowledge
  \/ TspEndOfInterrupt
  \/ \E p \in SdeiPriorities : SdeiInterrupt(p)
  \/ CompleteInterrupt
  \/ \E p \in SdeiPriorities : RasInterrupt(p)
  \/ RasUndispatched
  \/ CompleteEvent
  \/ MmCommunicate
  \/ MmReturn

Next == Step /\ UNCHANGED payload

\* A normal world that aborts a TSP call only when one is preempted.
Spec == Init /\ [][Next]_vars

\* Any normal world.
SpecAnyAbort == Init /\ [][Next \/ (TspAbortNothing /\ UNCHANGED payload)]_vars

-----------------------------------------------------------------------------
(* Properties.                                                              *)

\* When the normal world runs outside any handler it finds the priority mask
\* it programmed: every path out of it and back, through the payload, nested
\* interrupts and dispatches, undoes what the hooks and the activations did
\* to the PMR.
NsMaskRestored == NsAtBase => ehf.pmr = nsmask

\* While the secure world serves a call no Non-secure interrupt reaches it
\* unless the call is a yielding one, and then the normal world's own mask
\* decides; and what ehf_is_ns_preemption_allowed() answers on its behalf is
\* whether the call being served was made preemptible and no secure interrupt
\* is being handled.  (The partition that EL3 returns into after a failed
\* dispatch serves no call, and runs under the normal world's mask.)
PreemptionIsExact ==
  Alive /\ Serving =>
    /\ IF tsp = "yield" THEN ehf.pmr = nsmask
       ELSE \A p \in NsPriorities : ~Signalled(p)
    /\ IsNsPreemptionAllowed(ehf, RunPri) <=> tsp = "yield" /\ ~TspAcked

\* The dispatches nest at strictly rising priority, which is what the two
\* assertions of sdei_intr_handler() about the outstanding dispatch require,
\* and no interrupt at or below the priority of an outstanding dispatch is
\* signalled.
DispatchesNest ==
  Alive => \A i \in DOMAIN frames :
             /\ \A j \in DOMAIN frames : i < j => frames[j].pri < frames[i].pri
             /\ \A p \in SdeiPriorities \union {PLAT_RAS_PRI} : Signalled(p) => p < frames[i].pri

\* The hooks of TSPD and SDEI match: with the TSP the framework never panics
\* and its assertions hold.  (With explicit dispatches, which only the build
\* with the partition has, the second mm_communicate() in the handler of an
\* event fails the check of the old mask in ehf_activate_priority(): a nested
\* deactivation leaves the mask at the priority that it deactivates.)
ActivationsMatch == payload = "tsp" => ehf.fault = "none"
=============================================================================
