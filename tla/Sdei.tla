-------------------------------- MODULE Sdei --------------------------------
(***************************************************************************)
(* services/std_svc/sdei: events of the Software Delegated Exception       *)
(* Interface on several PEs, from bind and register to dispatch, complete  *)
(* and release.                                                            *)
(*                                                                         *)
(* What a call does between sdei_map_lock() and sdei_map_unlock() is one   *)
(* step.  The interrupt handler takes five: the acknowledgement, the look  *)
(* at the map, the locked part, the dispatch after it, and, when the       *)
(* client completed the event, the end of interrupt.  A call that is       *)
(* refused changes nothing and is no step.  SDEI_PRIVATE_RESET and         *)
(* SDEI_SHARED_RESET call unregister and release for one event after the   *)
(* other, with the lock released in between: they are sequences of those   *)
(* steps.  Event 0, the software signal, is not a map of this model.       *)
(***************************************************************************)
EXTENDS Integers, FiniteSets, Sequences

CONSTANTS PE,
          Platforms,  \* the sets of event maps that a platform may define
          Private,    \* the maps that are private to a PE; the others are shared
          Critical,   \* the maps with critical priority
          Dynamic,    \* the maps that are bound at run time
          Explicit,   \* the maps without an interrupt, dispatched by EL3 code
          StaticIntr, \* the interrupts of the other maps
          Ppi, Spi,   \* the interrupts
          Bindable,   \* per platform: the interrupts the client binds
          NsIntr,     \* per platform: the interrupts the Non-secure world also uses itself
          Boot,       \* a PE, whose copy stands for what PEs share
          MaxReg,     \* bound, per map: reg_count
          None

AllMaps == UNION Platforms
Intr == Ppi \cup Spi

ASSUME SdeiAssumption ==
  /\ Boot \in PE /\ MaxReg \in [AllMaps -> Nat] /\ Ppi \cap Spi = {}
  /\ Dynamic \cap Explicit = {} /\ Explicit \subseteq Private

VARIABLES maps,            \* the maps of this platform
          ENABLE_ASSERTIONS, \* the build
          intr, bound,     \* per map: map->intr, and the maps with SDEI_MAPF_BOUND
          reg_count,       \* per map
          se,              \* the event entries
          masked, pending_enables, \* the PEs with pe_masked, and with pending_enables
          stack,           \* per PE: the dispatch stack
          pc, cur,         \* per PE: where EL3 is, and the interrupt and map it is about
          enabled, pending, active, el3, \* GIC: the lines with that property
          route,           \* GIC: the PE a shared interrupt is routed to, or "ANY"
          fresh,           \* history: the lines of EL3 triggered since they were dispatched
          moved            \* history: the maps routed, since they were registered, to a PE
                           \* they were not registered for, or with the interrupt active

client == <<intr, bound, reg_count>>
cpu_state == <<masked, pending_enables, stack>>
el == <<pc, cur>>
gic == <<enabled, pending, active, el3, route>>
hist == <<fresh, moved>>
build == <<maps, ENABLE_ASSERTIONS>>
vars == <<build, client, se, cpu_state, el, gic, hist>>

\* get_event_entry(): private maps have an entry per PE.  The same holds of
\* interrupts: the state of a PPI is banked.
Entry(m, p) == IF m \in Private THEN p ELSE Boot
Line(i, p) == <<i, IF i \in Ppi THEN p ELSE Boot>>
Lines == (Ppi \X PE) \cup (Spi \X {Boot})

\* Mutant: an event that is unregistered while it runs is no longer running.
StateTable_Forgets == [
  reg |-> [REGISTER |-> "reG", RELEASE |-> "reg"],
  reG |-> [ENABLE |-> "rEG", DISABLE |-> "reG", UNREGISTER |-> "reg", ROUTING |-> "reG"],
  rEG |-> [ENABLE |-> "rEG", DISABLE |-> "reG", UNREGISTER |-> "reg", DISPATCH |-> "REG"],
  Reg |-> [COMPLETE |-> "reg"],
  ReG |-> [ENABLE |-> "REG", DISABLE |-> "ReG", UNREGISTER |-> "Reg", COMPLETE |-> "reG"],
  REG |-> [ENABLE |-> "REG", DISABLE |-> "ReG", UNREGISTER |-> "reg", COMPLETE |-> "rEG"]]

\* sdei_state_table: the permitted actions of each state, and the state they
\* lead to.  Capital letters say Running, Enabled, reGistered.
StateTable == [
  reg |-> [REGISTER |-> "reG", RELEASE |-> "reg"],
  reG |-> [ENABLE |-> "rEG", DISABLE |-> "reG", UNREGISTER |-> "reg", ROUTING |-> "reG"],
  rEG |-> [ENABLE |-> "rEG", DISABLE |-> "reG", UNREGISTER |-> "reg", DISPATCH |-> "REG"],
  Reg |-> [COMPLETE |-> "reg"],
  ReG |-> [ENABLE |-> "REG", DISABLE |-> "ReG", UNREGISTER |-> "Reg", COMPLETE |-> "reG"],
  REG |-> [ENABLE |-> "REG", DISABLE |-> "ReG", UNREGISTER |-> "Reg", COMPLETE |-> "rEG"]]

Enabled == {"rEG", "REG"}
Registered == {"reG", "rEG", "ReG", "REG"}
Running == {"Reg", "ReG", "REG"}

\* can_sdei_state_trans() and what it makes of the state.
State(m, p) == se[m][Entry(m, p)].state
Can(m, p, act) == act \in DOMAIN StateTable[State(m, p)]
Trans(m, p, act) == se' = [se EXCEPT ![m][Entry(m, p)].state = StateTable[@][act]]

\* clear_event_entries(), set_sdei_entry().  ep says whether the address is a
\* client's, or 0.
Cleared == [ep |-> FALSE, flags |-> "ANY", aff |-> None]
EntryOf(s, data) == [state |-> s, ep |-> data.ep, flags |-> data.flags, aff |-> data.aff]

TypeOK ==
  /\ maps \in Platforms /\ ENABLE_ASSERTIONS \in BOOLEAN /\ bound \subseteq AllMaps
  /\ intr \in [AllMaps -> Intr \cup {None}] /\ reg_count \in [AllMaps -> Int]
  /\ se \in [AllMaps -> [PE -> [state : DOMAIN StateTable, ep : BOOLEAN,
                                flags : {"ANY", "PE"}, aff : PE \cup {None}]]]
  /\ masked \subseteq PE /\ pending_enables \subseteq PE
  /\ stack \in [PE -> Seq([map : AllMaps, intr : Intr \cup {None}, ep : BOOLEAN])]
  /\ pc \in [PE -> {"ns", "acked", "masked", "found", "dispatch", "eoi", "bind", "slot", "panic"}]
  /\ cur \in [PE -> [map : AllMaps \cup {None}, intr : Intr \cup {None}]]
  /\ {enabled, pending, active, el3, fresh} \subseteq SUBSET Lines
  /\ route \in [Spi -> PE \cup {"ANY"}] /\ moved \subseteq AllMaps

Idle == [map |-> None, intr |-> None]

\* sdei_class_init() and sdei_cpu_on_init().  All interrupts belong to the
\* Non-secure world, which may have them enabled.
Init ==
  /\ maps \in Platforms /\ ENABLE_ASSERTIONS \in BOOLEAN
  /\ intr = [m \in AllMaps |-> IF m \in DOMAIN StaticIntr THEN StaticIntr[m] ELSE None]
  /\ bound = maps \cap DOMAIN StaticIntr
  /\ reg_count = [m \in AllMaps |-> 0]
  /\ se = [m \in AllMaps |-> [p \in PE |-> EntryOf("reg", Cleared)]]
  /\ masked = PE /\ pending_enables = {} /\ stack = [p \in PE |-> <<>>]
  /\ pc = [p \in PE |-> "ns"] /\ cur = [p \in PE |-> Idle]
  /\ enabled = {} /\ pending = {} /\ active = {} /\ el3 = {}
  /\ route = [i \in Spi |-> "ANY"] /\ fresh = {} /\ moved = {}

Goto(p, l) == pc' = [pc EXCEPT ![p] = l]
Return(p) == Goto(p, "ns") /\ cur' = [cur EXCEPT ![p] = Idle]
Panic(p) == Goto(p, "panic") /\ UNCHANGED <<cur, client, se, cpu_state, gic, hist>>
Asserts(condition) == ENABLE_ASSERTIONS => condition

-----------------------------------------------------------------------------
\* Devices trigger interrupts, which the Non-secure world handles while they
\* belong to it.
Trigger(l) == /\ l \notin pending
              /\ pending' = pending \cup {l}
              /\ fresh' = IF l \in el3 THEN fresh \cup {l} ELSE fresh
              /\ UNCHANGED <<client, se, cpu_state, el, enabled, active, el3, route, moved>>

NsEnable(l) == /\ l \notin el3 /\ l \notin enabled
               /\ enabled' = enabled \cup {l}
               /\ UNCHANGED <<client, se, cpu_state, el, pending, active, el3, route, hist>>

NsAck(l) == /\ l \notin el3 /\ l \in enabled \cap pending /\ l \notin active
            /\ pending' = pending \ {l} /\ active' = active \cup {l}
            /\ UNCHANGED <<client, se, cpu_state, el, enabled, el3, route, hist>>

\* An interrupt that EL3 acknowledged is not the Non-secure world's to end.
HeldByEl3(l) == \E p \in PE :
                  \/ cur[p].intr # None /\ pc[p] \notin {"bind", "slot"} /\ l = Line(cur[p].intr, p)
                  \/ \E k \in DOMAIN stack[p] : stack[p][k].intr # None /\ l = Line(stack[p][k].intr, p)

NsEoi(l) == /\ l \in active /\ ~HeldByEl3(l)
            /\ active' = active \ {l}
            /\ UNCHANGED <<client, se, cpu_state, el, enabled, pending, el3, route, hist>>

-----------------------------------------------------------------------------
\* find_event_map_by_intr(), over the private or the shared maps.
MapsWith(i, ms) == {m \in ms : intr[m] = i /\ (m \in Private <=> i \in Ppi)}

\* sdei_interrupt_bind() looks for a map of the interrupt, and for a free
\* slot when it has none.  The order of the maps is the platform's: any free
\* one may be the first.  Explicit maps have no interrupt either: an assertion
\* rules them out ...
Bind(p, i) == /\ pc[p] = "ns" /\ i \in Bindable[maps]
              /\ MapsWith(i, maps) = {}
              /\ Goto(p, "bind") /\ cur' = [cur EXCEPT ![p].intr = i]
              /\ UNCHANGED <<client, se, cpu_state, gic, hist>>

BindSlot(p) ==
  LET i == cur[p].intr
      free == {m \in maps : intr[m] = None /\ (m \in Private <=> i \in Ppi)} IN
  /\ pc[p] = "bind"
  /\ IF free = {} \/ Line(i, p) \in el3
     THEN Return(p)
     ELSE \E m \in free : /\ Goto(p, IF Asserts(m \in Dynamic) THEN "slot" ELSE "panic")
                         /\ cur' = [cur EXCEPT ![p].map = m]
  /\ UNCHANGED <<client, se, cpu_state, gic, hist>>

\* ... and takes the slot, unless it lost it to another bind: then it starts
\* again.
BindTake(p) ==
  LET m == cur[p].map IN
  /\ pc[p] = "slot"
  /\ IF m \notin bound
     THEN /\ intr' = [intr EXCEPT ![m] = cur[p].intr] /\ bound' = bound \cup {m}
          /\ Return(p)
     ELSE /\ UNCHANGED <<intr, bound>>
          /\ IF MapsWith(cur[p].intr, maps) = {}
             THEN Goto(p, "bind") /\ cur' = [cur EXCEPT ![p].map = None]
             ELSE Return(p)
  /\ UNCHANGED <<reg_count, se, cpu_state, gic, hist>>

\* Mutant: the interrupt may be active.
Release_Active(p, m) ==
  /\ pc[p] = "ns" /\ m \in maps \cap Dynamic \cap bound
  /\ reg_count[m] = 0 /\ Can(m, p, "RELEASE")
  /\ intr' = [intr EXCEPT ![m] = None] /\ bound' = bound \ {m}
  /\ UNCHANGED <<reg_count, se, cpu_state, el, gic, hist>>

\* sdei_interrupt_release().
Release(p, m) ==
  /\ pc[p] = "ns" /\ m \in maps \cap Dynamic \cap bound
  /\ reg_count[m] = 0 /\ Can(m, p, "RELEASE")
  /\ Line(intr[m], p) \notin active
  /\ intr' = [intr EXCEPT ![m] = None] /\ bound' = bound \ {m}
  /\ UNCHANGED <<reg_count, se, cpu_state, el, gic, hist>>

-----------------------------------------------------------------------------
\* The registration arguments of a client.  The flags of a private event are
\* set, its affinity is the client's; with RM_ANY it is not even validated.
\* Nothing reads the affinity of an explicit event.
RegArgs(m) == [ep : {TRUE}, flags : IF m \in Private THEN {"PE"} ELSE {"PE", "ANY"},
               aff : IF m \in Explicit THEN {Boot} ELSE PE]

RouteOf(arg) == IF arg.flags = "ANY" THEN "ANY" ELSE arg.aff

\* Mutant: the interrupt stays enabled.
TakeInterrupt_NoDisable(m, p, arg) ==
  LET l == Line(intr[m], p) IN
  /\ l \notin active \cup el3
  /\ enabled' = enabled /\ pending' = pending \ {l}
  /\ el3' = el3 \cup {l}
  /\ route' = IF m \in Private THEN route ELSE [route EXCEPT ![intr[m]] = RouteOf(arg)]

\* sdei_event_register() takes the interrupt of a bound event from the
\* Non-secure world, which must not have it active: it disables it, drops
\* earlier triggers, and maps and routes it.
TakeInterrupt(m, p, arg) ==
  LET l == Line(intr[m], p) IN
  /\ l \notin active \cup el3
  /\ enabled' = enabled \ {l} /\ pending' = pending \ {l}
  /\ el3' = el3 \cup {l}
  /\ route' = IF m \in Private THEN route ELSE [route EXCEPT ![intr[m]] = RouteOf(arg)]

Register(p, m, arg) ==
  /\ pc[p] = "ns" /\ m \in maps /\ reg_count[m] < MaxReg[m]
  /\ Can(m, p, "REGISTER") /\ (m \in Dynamic => m \in bound)
  /\ IF ~Asserts(m \notin Private => reg_count[m] = 0) THEN Panic(p)
     ELSE /\ se' = [se EXCEPT ![m][Entry(m, p)] = EntryOf("reG", arg)]
          /\ reg_count' = [reg_count EXCEPT ![m] = @ + 1]
          /\ IF m \in bound THEN TakeInterrupt(m, p, arg) ELSE UNCHANGED <<enabled, pending, el3, route>>
          /\ UNCHANGED <<intr, bound, cpu_state, el, active, hist>>

\* sdei_event_unregister() gives it back.
Unregister(p, m) ==
  LET s == StateTable[State(m, p)]["UNREGISTER"]
      l == Line(intr[m], p)
      count == reg_count[m] - 1 IN
  /\ pc[p] = "ns" /\ m \in maps /\ Can(m, p, "UNREGISTER")
  /\ IF ~Asserts(/\ IF m \in Private THEN count >= 0 ELSE count = 0
                 /\ m \in bound => l \in el3)
     THEN Panic(p)
     ELSE /\ se' = [se EXCEPT ![m][Entry(m, p)] = EntryOf(s, Cleared)]
          /\ reg_count' = [reg_count EXCEPT ![m] = count]
          /\ IF m \in bound
             THEN enabled' = enabled \ {l} /\ pending' = pending \ {l} /\ el3' = el3 \ {l} /\ fresh' = fresh \ {l}
             ELSE UNCHANGED <<enabled, pending, el3, fresh>>
          /\ moved' = moved \ {m}
          /\ UNCHANGED <<intr, bound, cpu_state, el, active, route>>

\* sdei_event_enable() and sdei_event_disable() switch the interrupt when the
\* enabled state changes.
Enable(p, m) ==
  /\ pc[p] = "ns" /\ m \in maps /\ Can(m, p, "ENABLE") /\ State(m, p) \notin Enabled
  /\ Trans(m, p, "ENABLE")
  /\ enabled' = IF m \in bound THEN enabled \cup {Line(intr[m], p)} ELSE enabled
  /\ UNCHANGED <<client, cpu_state, el, pending, active, el3, route, hist>>

Disable(p, m) ==
  /\ pc[p] = "ns" /\ m \in maps /\ Can(m, p, "DISABLE") /\ State(m, p) \in Enabled
  /\ Trans(m, p, "DISABLE")
  /\ enabled' = IF m \in bound THEN enabled \ {Line(intr[m], p)} ELSE enabled
  /\ UNCHANGED <<client, cpu_state, el, pending, active, el3, route, hist>>

\* sdei_event_routing_set() changes the flags and the route, not the affinity
\* the event was registered with.
RoutingSet(p, m, r) ==
  /\ pc[p] = "ns" /\ m \in maps \cap bound /\ m \notin Private
  /\ Can(m, p, "ROUTING")
  /\ se' = [se EXCEPT ![m][Boot].flags = IF r = "ANY" THEN "ANY" ELSE "PE"]
  /\ route' = [route EXCEPT ![intr[m]] = r]
  /\ moved' = IF r \in {"ANY", se[m][Boot].aff} /\ Line(intr[m], p) \notin active THEN moved
              ELSE moved \cup {m}
  /\ UNCHANGED <<client, cpu_state, el, enabled, pending, active, el3, fresh>>

-----------------------------------------------------------------------------
\* sdei_pe_mask(), also called when a PE wakes up from suspend.
Mask(p) == /\ pc[p] = "ns" /\ p \notin masked
           /\ masked' = masked \cup {p}
           /\ UNCHANGED <<client, se, pending_enables, stack, el, gic, hist>>

\* sdei_cpu_on_init() clears the private entries, whatever they were, and not
\* the count.  (A PE is not turned off from a handler: EL3 would lose the
\* stack that the completion returns to.)
CpuOn(p) == /\ pc[p] = "ns" /\ stack[p] = <<>>
            /\ se' = [m \in AllMaps |-> IF m \in Private THEN [se[m] EXCEPT ![p] = EntryOf("reg", Cleared)] ELSE se[m]]
            /\ masked' = masked \cup {p}
            /\ UNCHANGED <<client, pending_enables, stack, el, gic, hist>>

\* The events whose interrupt an unmasked PE enables again.
Deferred(p) == {m \in maps \cap bound :
                  /\ State(m, p) \in Enabled
                  /\ m \in Private \/ (se[m][Boot].flags = "PE" /\ se[m][Boot].aff = p)}

\* sdei_pe_unmask().
Unmask(p) == /\ pc[p] = "ns" /\ p \in masked
             /\ enabled' = IF p \in pending_enables
                           THEN enabled \cup {Line(intr[m], p) : m \in Deferred(p)} ELSE enabled
             /\ pending_enables' = pending_enables \ {p} /\ masked' = masked \ {p}
             /\ UNCHANGED <<client, se, stack, el, pending, active, el3, route, hist>>

-----------------------------------------------------------------------------
\* The priorities of the dispatches in progress: a critical event preempts
\* normal ones only, a normal event none.
MayPreempt(m, p) == \A k \in DOMAIN stack[p] : m \in Critical /\ stack[p][k].map \notin Critical

\* The GIC signals an interrupt to a PE it is routed to, whose running
\* priority is lower; EL3 acknowledges it.
Ack(p, i) ==
  LET l == Line(i, p) IN
  /\ pc[p] = "ns"
  /\ l \in enabled \cap pending \cap el3 /\ l \notin active
  /\ i \in Spi => route[i] \in {p, "ANY"}
  /\ \A m \in MapsWith(i, maps) : MayPreempt(m, p)
  /\ pending' = pending \ {l} /\ active' = active \cup {l}
  /\ Goto(p, "acked") /\ cur' = [cur EXCEPT ![p].intr = i]
  /\ UNCHANGED <<client, se, cpu_state, enabled, el3, route, hist>>

\* sdei_intr_handler() finds the map of the interrupt, and sees whether the
\* PE is masked ...
Find(p) ==
  LET found == MapsWith(cur[p].intr, maps) IN
  /\ pc[p] = "acked"
  /\ IF found = {} \/ ~Asserts(found \subseteq bound) THEN Panic(p)
     ELSE /\ \E m \in found : cur' = [cur EXCEPT ![p].map = m]
          /\ Goto(p, IF p \in masked THEN "masked" ELSE "found")
          /\ UNCHANGED <<client, se, cpu_state, gic, hist>>

\* The event is routed to a PE, and not to this one.
WrongPe(m, p) == LET e == se[m][Entry(m, p)] IN e.flags = "PE" /\ e.aff # p

\* ... handle_masked_trigger() leaves the trigger pending, and disables the
\* interrupt until the PE is unmasked if it can only come here ...
HandleMasked(p) ==
  LET m == cur[p].map
      l == Line(cur[p].intr, p)
      disable == m \in Private \/ se[m][Boot].flags = "PE" IN
  /\ pc[p] = "masked"
  /\ IF ~Asserts(~WrongPe(m, p)) THEN Panic(p)
     ELSE /\ pending' = pending \cup {l} /\ active' = active \ {l}
          /\ enabled' = IF disable THEN enabled \ {l} ELSE enabled
          /\ pending_enables' = IF disable THEN pending_enables \cup {p} ELSE pending_enables
          /\ Return(p)
          /\ UNCHANGED <<client, se, masked, stack, el3, route, hist>>

\* Mutant: a trigger that finds its event disabled is dropped.
Undeliverable_Drop(m, p, l) == UNCHANGED pending

\* A trigger that finds its event disabled stays pending.
Undeliverable(m, p, l) == pending' = IF State(m, p) \in Registered THEN pending \cup {l} ELSE pending

\* ... otherwise the event runs, unless it was disabled or unregistered
\* meanwhile ...
Handle(p) ==
  LET m == cur[p].map
      l == Line(cur[p].intr, p) IN
  /\ pc[p] = "found"
  /\ IF ~Asserts(m \notin Private => ~WrongPe(m, p)) THEN Panic(p)
     ELSE IF ~Can(m, p, "DISPATCH")
     THEN /\ Undeliverable(m, p, l) /\ active' = active \ {l}
          /\ Return(p)
          /\ UNCHANGED <<client, se, cpu_state, enabled, el3, route, hist>>
     ELSE IF ~Asserts(MayPreempt(m, p)) THEN Panic(p)
     ELSE /\ Trans(m, p, "DISPATCH")
          /\ Goto(p, "dispatch") /\ fresh' = fresh \ ({l} \ pending)
          /\ UNCHANGED <<client, cpu_state, cur, gic, moved>>

\* ... setup_ns_dispatch(), after the lock was released, reads the address of
\* the handler and enters it.
Dispatch(p) ==
  LET m == cur[p].map IN
  /\ pc[p] = "dispatch"
  /\ stack' = [stack EXCEPT ![p] = Append(@, [map |-> m, intr |-> cur[p].intr, ep |-> se[m][Entry(m, p)].ep])]
  /\ Return(p)
  /\ UNCHANGED <<client, se, masked, pending_enables, gic, hist>>

\* sdei_dispatch_event(): EL3 dispatches an explicit event.
DispatchEvent(p, m) ==
  /\ pc[p] = "ns" /\ p \notin masked /\ m \in maps \cap Explicit
  /\ MayPreempt(m, p) /\ Can(m, p, "DISPATCH")
  /\ Trans(m, p, "DISPATCH")
  /\ stack' = [stack EXCEPT ![p] = Append(@, [map |-> m, intr |-> None, ep |-> se[m][p].ep])]
  /\ UNCHANGED <<client, masked, pending_enables, el, gic, hist>>

\* sdei_event_complete() ends the dispatch on top of the stack: the handler of
\* its interrupt goes on, or the caller of sdei_dispatch_event() does ...
Complete(p) ==
  LET top == stack[p][Len(stack[p])] IN
  /\ pc[p] = "ns" /\ stack[p] # <<>>
  /\ Can(top.map, p, "COMPLETE")
  /\ Trans(top.map, p, "COMPLETE")
  /\ stack' = [stack EXCEPT ![p] = SubSeq(@, 1, Len(@) - 1)]
  /\ IF top.intr = None THEN UNCHANGED el
     ELSE Goto(p, "eoi") /\ cur' = [cur EXCEPT ![p] = [map |-> top.map, intr |-> top.intr]]
  /\ UNCHANGED <<client, masked, pending_enables, gic, hist>>

\* Mutant: the interrupt stays active.
Eoi_Missing(p) == /\ pc[p] = "eoi"
                  /\ Return(p)
                  /\ UNCHANGED <<client, se, cpu_state, gic, hist>>

\* ... and the interrupt ends.
Eoi(p) == /\ pc[p] = "eoi"
          /\ IF cur[p].map \notin bound THEN Panic(p)
             ELSE /\ active' = active \ {Line(cur[p].intr, p)}
                  /\ Return(p)
                  /\ UNCHANGED <<client, se, cpu_state, enabled, pending, el3, route, hist>>

-----------------------------------------------------------------------------
Client(p) ==
  \/ Mask(p) \/ Unmask(p) \/ CpuOn(p)
  \/ \E i \in Intr : Bind(p, i)
  \/ \E m \in maps : \/ Release(p, m) \/ Unregister(p, m) \/ Enable(p, m) \/ Disable(p, m)
                     \/ DispatchEvent(p, m)
                     \/ \E arg \in RegArgs(m) : Register(p, m, arg)
                     \/ \E r \in PE \cup {"ANY"} : RoutingSet(p, m, r)

Handler(p) == \/ BindSlot(p) \/ BindTake(p)
              \/ Find(p) \/ HandleMasked(p) \/ Handle(p) \/ Dispatch(p) \/ Eoi(p)

\* Of the other interrupts nothing here can be told.
Used == {i \in Intr : \E m \in maps : i \in Bindable[maps] \/ intr[m] = i}

Device == \E l \in Lines : /\ l[1] \in Used
                          /\ \/ Trigger(l)
                             \/ l[1] \in NsIntr[maps] /\ (NsEnable(l) \/ NsAck(l) \/ NsEoi(l))

Next == /\ \/ Device
           \/ \E p \in PE : Client(p) \/ Handler(p) \/ Complete(p) \/ \E i \in Intr : Ack(p, i)
        /\ UNCHANGED build

Spec == Init /\ [][Next]_vars

\* EL3 code runs to its end, a client's handler completes its event, and a PE
\* takes interrupts if again and again it could.
FairSpec == /\ Spec
            /\ \A p \in PE : /\ WF_vars(Handler(p) /\ UNCHANGED build)
                             /\ WF_vars(Complete(p) /\ UNCHANGED build)
                             /\ SF_vars((\E i \in Intr : Ack(p, i)) /\ UNCHANGED build)
-----------------------------------------------------------------------------
\* A shared event that is being handled stays bound, whatever other PEs do
\* between the acknowledgement of its interrupt, the look at the map, the
\* dispatch and the end of interrupt: sdei_intr_handler() reaches neither of
\* its panics on it, and the registration count is what register and
\* unregister assert.  (A private dynamic event does not: one PE releases it
\* while the handler of another runs, and that one panics.)
HandledStaysBound ==
  /\ \A p \in PE :
       /\ pc[p] \in {"acked", "masked", "found", "dispatch", "eoi"} /\ cur[p].intr \in Spi =>
            \E m \in maps \cap bound : intr[m] = cur[p].intr /\ cur[p].map \in {m, None}
       /\ \A k \in DOMAIN stack[p] :
            stack[p][k].intr \in Spi => stack[p][k].map \in bound /\ intr[stack[p][k].map] = stack[p][k].intr
  /\ \A m \in maps \ Private : reg_count[m] = IF State(m, Boot) \in Registered THEN 1 ELSE 0

\* An event handler runs on one PE at a time, and the RUNNING state of an event
\* says so: the dispatches in progress of an entry are one when it is set, and
\* none otherwise.
Dispatches(m, o) == {<<p, k>> \in PE \X (0..2) :
                       /\ Entry(m, p) = o
                       /\ IF k = 0 THEN pc[p] = "dispatch" /\ cur[p].map = m
                          ELSE k \in DOMAIN stack[p] /\ stack[p][k].map = m}

RunningOnce == \A m \in maps, p \in PE :
                 Cardinality(Dispatches(m, Entry(m, p))) = IF State(m, p) \in Running THEN 1 ELSE 0

\* The events with an interrupt behind them.  (Without assertions a bind takes
\* an explicit event when no private slot is free; of that nothing is said.)
Backed == (maps \cap bound) \ Explicit

\* The GIC follows the event: the interrupt of a registered event is enabled
\* only if the event is, and when the event is enabled, unless the one PE it
\* may go to is masked and will enable it when it is unmasked.  (A shared event
\* that was routed to a PE other than the one it was registered for is an
\* exception: sdei_pe_unmask() compares with the affinity, which
\* sdei_event_routing_set() does not update, and never enables it.)
EnableFollowsEvent ==
  \A m \in Backed, p \in PE :
    LET l == Line(intr[m], p)
        e == se[m][Entry(m, p)] IN
    /\ l \in el3 \cap enabled /\ (m \in Private => e.state \in Registered) => e.state \in Enabled
    /\ e.state \in Enabled /\ l \notin enabled /\ m \notin moved =>
         IF m \in Private THEN p \in pending_enables
         ELSE e.flags = "PE" /\ e.aff \in pending_enables

\* No trigger is lost and none is made up: the interrupt of a registered event
\* is pending, or acknowledged and not yet handled, exactly when it was
\* triggered since the event was registered or last dispatched.
InHand(l) == \E p \in PE : pc[p] \in {"acked", "masked", "found", "panic"} /\ l = Line(cur[p].intr, p)
TriggersAreExact ==
  \A m \in Backed, p \in PE :
    LET l == Line(intr[m], p) IN
    State(m, p) \in Registered => ((l \in fresh) <=> (l \in pending \/ InHand(l)))

\* A trigger does not wait for ever on PEs that could handle it: while its
\* event stays enabled, not running, not routed away from the PE it was
\* registered for, and the PEs it may go to are unmasked, it is dispatched.
Targets(m, p) == IF m \in Private THEN {p}
                 ELSE IF se[m][Boot].flags = "PE" THEN {se[m][Boot].aff} ELSE PE

CannotHandle == {p \in PE : p \in masked \/ pc[p] = "panic"}

TriggerIsDelivered ==
  \A m \in AllMaps \ Explicit : \A p \in {Entry(m, q) : q \in PE} :
    []<>~(/\ m \in Backed /\ Line(intr[m], p) \in pending
          /\ State(m, p) = "rEG" /\ m \notin moved /\ Targets(m, p) \cap CannotHandle = {})

\* "ROUTING_SET is permissible only when event composite state is 'registered,
\* disabled, and not running'. This means that the interrupt is currently
\* disabled, and not active": the route of an active interrupt never changes.
RoutedWhileInactive == [][\A i \in Spi : route'[i] # route[i] => Line(i, Boot) \notin active]_vars

\* An event is dispatched to the address it was registered with.
DispatchesRegisteredHandler == \A p \in PE : \A k \in DOMAIN stack[p] : stack[p][k].ep

\* An interrupt is bound to one event.
OneEventPerInterrupt == \A i \in Intr : Cardinality(MapsWith(i, maps)) <= 1
=============================================================================
