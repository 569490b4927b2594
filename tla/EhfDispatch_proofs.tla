------------------------- MODULE EhfDispatch_proofs -------------------------
(***************************************************************************)
(* The Exception Handling Framework and its clients on one CPU, for every  *)
(* number of priority bits, all priorities and masks, and any nesting of   *)
(* interrupts, dispatches and calls of the payload.                        *)
(***************************************************************************)
EXTENDS EhfDispatch, TLAPS

LOCAL INSTANCE WellFoundedInduction

-----------------------------------------------------------------------------
(* The inductive invariant.                                                 *)

\* A dispatch that the framework knows as an activation.
Activates(i) == frames[i].kind # "irq"

\* The TSP is entered, and runs or is interrupted by an SDEI dispatch.
InTsp == tsp # "none"

\* The dispatches: strictly rising in priority; the partition is the last one,
\* and running.
Stack ==
  /\ \A i, j \in DOMAIN frames : i < j => frames[j].pri < frames[i].pri
  /\ \A i \in DOMAIN frames :
       /\ frames[i].kind = "sp" => frames[i].pri = PLAT_SP_PRI /\ i = Len(frames) /\ world = "s"
       /\ frames[i].kind # "sp" => frames[i].pri \in SdeiPriorities

\* The active interrupts are those of the dispatches, above one that the TSP
\* handles; being strictly ordered, the set of them determines the sequence.
Interrupts ==
  /\ \A i, j \in DOMAIN irqs : i < j => irqs[j] < irqs[i]
  /\ \A i \in DOMAIN frames : frames[i].kind = "irq" => \E k \in DOMAIN irqs : irqs[k] = frames[i].pri
  /\ \A k \in DOMAIN irqs :
       \/ \E i \in DOMAIN frames : frames[i].kind = "irq" /\ irqs[k] = frames[i].pri
       \/ /\ k = 1 /\ irqs[k] = SEl1Priority /\ InTsp
          /\ \A i \in DOMAIN frames : frames[i].pri < SEl1Priority

\* Only the first dispatch interrupts the TSP; the mask of the normal world is
\* in force or in the stash.
TspMask ==
  /\ \A i \in DOMAIN frames : frames[i].kind = "irq" /\ (frames[i].from = "s" => i = 1)
  /\ InTsp <=> world = "s" \/ (frames # <<>> /\ frames[1].from = "s")
  /\ world = "s" => frames = <<>>
  /\ ehf.active = {}
  /\ IF tsp \in {"none", "yield"}
     THEN ehf.pmr = nsmask /\ ehf.ns_pri_mask = 0
     ELSE ehf.pmr = GIC_HIGHEST_NS_PRIORITY /\ ehf.ns_pri_mask = nsmask

\* The activations are the explicit dispatches and the partition's; the mask
\* is the normal world's before the first, and at most the last one's priority
\* after it.
MmMask ==
  /\ ~InTsp /\ ehf.ns_pri_mask = 0
  /\ \A i \in DOMAIN frames : Activates(i) => PriToIdx(frames[i].pri) \in ehf.active
  /\ \A x \in ehf.active : \E i \in DOMAIN frames : Activates(i) /\ x = PriToIdx(frames[i].pri)
  /\ IF ehf.active = {} THEN ehf.pmr = nsmask
     ELSE ehf.init_pri_mask = nsmask /\ \A i \in DOMAIN frames : Activates(i) => ehf.pmr <= frames[i].pri

\* No check of the framework fails but that of the old mask, and that one only
\* where events are dispatched explicitly.
OldMaskOnly == ehf.fault = "none" \/ (payload = "mm" /\ ehf.fault = "activation mask")

EhfInv ==
  /\ TypeOK
  /\ OldMaskOnly
  /\ Alive => /\ Stack /\ Interrupts
              /\ IF payload = "tsp" THEN TspMask ELSE MmMask

-----------------------------------------------------------------------------
(* Priorities and indices.                                                  *)

\* The shift of EHF_PRI_TO_IDX() divides by a positive number.
LEMMA Shift == 2^(7 - PriBits) \in Nat \ {0}
<1>1. PriBits \in {1, 2, 3, 4, 5, 6, 7}
  BY PriBitsAssumption
<1>2. /\ 2^(7 - 1) = 64 /\ 2^(7 - 2) = 32 /\ 2^(7 - 3) = 16 /\ 2^(7 - 4) = 8
      /\ 2^(7 - 5) = 4 /\ 2^(7 - 6) = 2 /\ 2^(7 - 7) = 1
  OBVIOUS
<1>3. 2^(7 - PriBits) \in {64, 32, 16, 8, 4, 2, 1}
  BY <1>1, <1>2, Zenon
<1> QED BY <1>3

\* The index of a secure priority is a bit of the map of activations.
LEMMA IdxRange ==
  ASSUME NEW p \in 0..127
  PROVE  PriToIdx(p) \in 0..127
<1> DEFINE d == 2^(7 - PriBits)
<1>1. d \in Nat \ {0}
  BY Shift, Zenon
<1> HIDE DEF d
<1>2. p % 128 = p
  OBVIOUS
<1>3. p \div d \in 0..127
  BY <1>1
<1> QED BY <1>2, <1>3, Zenon DEF PriToIdx, d

\* The priorities of the dispatches.
Dispatched == SdeiPriorities \union {PLAT_SP_PRI}

\* What is assumed of the priorities and the masks.
LEMMA PriorityFacts ==
  /\ SdeiPriorities \in SUBSET (0..127) /\ Dispatched \in SUBSET (0..127)
  /\ PLAT_SP_PRI \in 0..127 /\ PLAT_RAS_PRI \in 0..127 /\ SEl1Priority \in 0..127
  /\ NsMasks \in SUBSET (129..255) /\ NsPriorities \in SUBSET (128..254)
  /\ \A p \in Dispatched : IdxToPri(PriToIdx(p)) = p
  /\ \A p \in SdeiPriorities : PLAT_SP_PRI < p
  /\ PLAT_SP_PRI <= PLAT_RAS_PRI
  BY PriorityAssumption DEF Dispatched

\* The indices of the dispatches' priorities are ordered as the priorities.
LEMMA IdxOrder ==
  ASSUME NEW p \in Dispatched, NEW q \in Dispatched, p < q
  PROVE  PriToIdx(p) < PriToIdx(q)
<1> DEFINE d == 2^(7 - PriBits)
<1>1. d \in Nat \ {0}
  BY Shift, Zenon
<1>2. p \in 0..127 /\ q \in 0..127 /\ IdxToPri(PriToIdx(p)) = p /\ IdxToPri(PriToIdx(q)) = q
  BY PriorityFacts
<1>3. PriToIdx(p) # PriToIdx(q)
  BY <1>2
<1> HIDE DEF d
<1>4. p % 128 = p /\ q % 128 = q
  BY <1>2
<1>5. p \in Nat /\ q \in Nat /\ p <= q
  BY <1>2
<1>6. p \div d <= q \div d /\ p \div d \in Nat /\ q \div d \in Nat
  BY <1>1, <1>5
<1>7. PriToIdx(p) = p \div d /\ PriToIdx(q) = q \div d
  BY <1>4, Zenon DEF PriToIdx, d
<1>8. \A a, b \in Nat : a <= b /\ a # b => a < b
  OBVIOUS
<1> QED BY <1>3, <1>6, <1>7, <1>8, Zenon

\* The lowest bit of a map that has bits is one of them, and none is lower.
LEMMA HighestIsLowest ==
  ASSUME NEW S \in SUBSET (0..127), S # {}
  PROVE  Min(S) \in S /\ \A y \in S : Min(S) <= y
<1>1. PICK x : x \in S
  BY Zenon
<1>2. \E z \in S : \A y \in S : z <= y
  <2>1. S \in SUBSET Nat
    OBVIOUS
  <2>2. \E z \in S : \A y \in S : ~(<<y, z>> \in OpToRel(<, Nat))
    BY <1>1, <2>1, NatLessThanWellFounded, WFMin, Zenon
  <2>3. PICK z \in S : \A y \in S : ~(<<y, z>> \in OpToRel(<, Nat))
    BY <2>2, Zenon
  <2>4. \A y \in S : ~(y < z)
    BY <2>1, <2>3, Zenon DEF OpToRel
  <2>5. \A y \in S : z <= y
    BY <2>1, <2>4
  <2> QED BY <2>5, Zenon
<1> QED BY <1>2, Zenon DEF Min

\* The lowest bit, given by what it is.
LEMMA LowestIs ==
  ASSUME NEW S \in SUBSET (0..127), NEW x \in S, \A y \in S : x <= y
  PROVE  Min(S) = x
<1>1. Min(S) \in S /\ Min(S) <= x
  BY HighestIsLowest, Zenon
<1>2. x <= Min(S)
  BY <1>1, Zenon
<1>3. x \in 0..127 /\ Min(S) \in 0..127
  BY <1>1, Zenon
<1> QED BY <1>1, <1>2, <1>3

-----------------------------------------------------------------------------
(* The stacks: what is pushed onto and popped off a sequence.               *)

\* What is on a stack is of its type.
LEMMA Elements ==
  ASSUME NEW S, NEW s \in Seq(S)
  PROVE  \A k \in DOMAIN s : s[k] \in S
  OBVIOUS

\* What Append leaves and adds.
LEMMA Pushed ==
  ASSUME NEW S, NEW s \in Seq(S), NEW x \in S
  PROVE  /\ Append(s, x) \in Seq(S) /\ Append(s, x) # <<>>
         /\ Len(s) + 1 \in DOMAIN Append(s, x) /\ Append(s, x)[Len(s) + 1] = x
         /\ Len(Append(s, x)) = Len(s) + 1
         /\ \A i \in DOMAIN s : /\ i \in DOMAIN Append(s, x) /\ Append(s, x)[i] = s[i]
                                /\ i # Len(s) + 1 /\ ~(Len(s) + 1 < i)
         /\ \A i \in DOMAIN Append(s, x) : i = Len(s) + 1 \/ i \in DOMAIN s
         /\ ~(Len(s) + 1 < Len(s) + 1)
         /\ s = <<>> => Len(s) + 1 = 1
         /\ s # <<>> => 1 \in DOMAIN s /\ Len(s) + 1 # 1
<1>1. /\ Append(s, x) \in Seq(S) /\ Append(s, x) # <<>> /\ Len(Append(s, x)) = Len(s) + 1
      /\ \A i \in 1..Len(s) : Append(s, x)[i] = s[i]
      /\ Append(s, x)[Len(s) + 1] = x
  OBVIOUS
<1>2. DOMAIN s = 1..Len(s) /\ DOMAIN Append(s, x) = 1..(Len(s) + 1) /\ Len(s) \in Nat
  BY <1>1
<1>3. (s = <<>> => Len(s) = 0) /\ (s # <<>> => Len(s) # 0)
  OBVIOUS
<1> QED BY <1>1, <1>2, <1>3

\* What is left when the last element is taken off.
LEMMA Popped ==
  ASSUME NEW S, NEW s \in Seq(S), s # <<>>
  PROVE  /\ Front(s) \in Seq(S) /\ Len(s) \in DOMAIN s /\ s[Len(s)] \in S
         /\ \A i \in DOMAIN Front(s) : /\ i \in DOMAIN s /\ Front(s)[i] = s[i]
                                       /\ i # Len(s) /\ i < Len(s)
         /\ \A i \in DOMAIN s : i = Len(s) \/ i \in DOMAIN Front(s)
         /\ Front(s) = <<>> => Len(s) = 1
         /\ Len(s) = 1 => Front(s) = <<>>
         /\ Front(s) # <<>> => 1 \in DOMAIN Front(s) /\ Front(s)[1] = s[1]
<1>1. Len(s) \in Nat \ {0} /\ DOMAIN s = 1..Len(s)
  OBVIOUS
<1>2. \A i \in 1..(Len(s) - 1) : s[i] \in S
  BY <1>1
<1>3. /\ Front(s) \in Seq(S)
      /\ Len(Front(s)) = Len(s) - 1
      /\ \A i \in 1..(Len(s) - 1) : Front(s)[i] = s[i]
  BY <1>1, <1>2 DEF Front
<1>4. DOMAIN Front(s) = 1..(Len(s) - 1)
  BY <1>1, <1>3
<1>5. (Front(s) = <<>> <=> Len(Front(s)) = 0) /\ s[Len(s)] \in S
  BY <1>1, <1>3
<1> QED BY <1>1, <1>3, <1>4, <1>5

-----------------------------------------------------------------------------
(* The operations of the framework.                                         *)

\* The fields of a state of the framework.
LEMMA EhfFields ==
  ASSUME NEW e \in EhfStates
  PROVE  /\ e.active \in SUBSET (0..127) /\ e.init_pri_mask \in 0..255
         /\ e.ns_pri_mask \in 0..255 /\ e.pmr \in 0..255 /\ e.fault \in Faults
  BY Zenon DEF EhfStates

\* The types of the fields, by name: the provers need not look into them.
Maps == SUBSET (0..127)
Masks == 0..255

\* A state of the framework is a record.
LEMMA EhfRecord ==
  EhfStates = [active : Maps, init_pri_mask : Masks, ns_pri_mask : Masks, pmr : Masks, fault : Faults]
  BY Zenon DEF EhfStates, Maps, Masks

\* A comparison of the code, and its opposite.
LEMMA NotAtLeast ==
  \A a \in 0..127 : \A b \in 0..255 : a < b => ~(a >= b)
  OBVIOUS

\* While secure execution is under way, the two hooks do nothing.
LEMMA HooksIdle ==
  ASSUME NEW e, NEW run, Engaged(e, run)
  PROVE  ExitedNormalWorld(e, run) = e /\ EnteringNormalWorld(e, run) = e
  BY Zenon DEF ExitedNormalWorld, EnteringNormalWorld

\* Leaving the normal world stashes its mask and masks its interrupts.
LEMMA Stashes ==
  ASSUME NEW e \in EhfStates, e.active = {}, e.ns_pri_mask = 0, e.pmr \in 129..255,
         NEW x, x = ExitedNormalWorld(e, Idle)
  PROVE  /\ x \in EhfStates /\ x.active = {} /\ x.fault = e.fault
         /\ x.ns_pri_mask = e.pmr /\ x.pmr = GIC_HIGHEST_NS_PRIORITY
<1>1. ~Engaged(e, Idle)
  BY DEF Engaged, IsPriSecure, Idle
<1>2. ~IsPriSecure(e.pmr)
  BY DEF IsPriSecure
<1>3. x = [e EXCEPT !.ns_pri_mask = e.pmr, !.pmr = GIC_HIGHEST_NS_PRIORITY]
  BY <1>1, <1>2, Zenon DEF ExitedNormalWorld
<1>4. GIC_HIGHEST_NS_PRIORITY \in Masks
  BY DEF GIC_HIGHEST_NS_PRIORITY, Masks
<1>5. x \in EhfStates /\ x.active = e.active /\ x.fault = e.fault
  BY <1>3, <1>4, EhfRecord, Zenon
<1>6. x.ns_pri_mask = e.pmr /\ x.pmr = GIC_HIGHEST_NS_PRIORITY
  BY <1>3, EhfRecord, Zenon
<1> QED BY <1>5, <1>6, Zenon

\* A yielding call gives the normal world its mask back.
LEMMA Allows ==
  ASSUME NEW e \in EhfStates, e.active = {}, e.ns_pri_mask # 0,
         NEW x, x = AllowNsPreemption(e)
  PROVE  /\ x \in EhfStates /\ x.active = {} /\ x.fault = e.fault
         /\ x.ns_pri_mask = 0 /\ x.pmr = e.ns_pri_mask
<1>1. x = [e EXCEPT !.pmr = e.ns_pri_mask, !.ns_pri_mask = 0]
  BY Zenon DEF AllowNsPreemption
<1>2. 0 \in Masks
  BY DEF Masks
<1> QED BY <1>1, <1>2, EhfRecord, Zenon

\* Entering the normal world restores the mask, if it is in the stash.
LEMMA Restores ==
  ASSUME NEW e \in EhfStates, e.active = {},
         e.ns_pri_mask # 0 => e.pmr = GIC_HIGHEST_NS_PRIORITY,
         NEW x, x = EnteringNormalWorld(e, Idle)
  PROVE  /\ x \in EhfStates /\ x.active = {} /\ x.fault = e.fault /\ x.ns_pri_mask = 0
         /\ x.pmr = IF e.ns_pri_mask = 0 THEN e.pmr ELSE e.ns_pri_mask
<1>1. ~Engaged(e, Idle)
  BY DEF Engaged, IsPriSecure, Idle
<1>2. CASE e.ns_pri_mask = 0
  BY <1>1, <1>2, Zenon DEF EnteringNormalWorld
<1>3. CASE e.ns_pri_mask # 0
  <2>1. x = [[e EXCEPT !.pmr = e.ns_pri_mask] EXCEPT !.ns_pri_mask = 0]
    BY <1>1, <1>3, Zenon DEF EnteringNormalWorld
  <2>2. 0 \in Masks
    BY DEF Masks
  <2> QED BY <1>3, <2>1, <2>2, EhfRecord, Zenon
<1> QED BY <1>2, <1>3, Zenon

\* The state after an activation of priority p, with the fault the code allows.
ActivatedTo(e, x, p) ==
  /\ x \in EhfStates /\ x.active = e.active \union {PriToIdx(p)} /\ x.pmr = p
  /\ x.ns_pri_mask = e.ns_pri_mask
  /\ \/ x.fault = "activation mask"
     \/ /\ x.fault = e.fault
        /\ x.init_pri_mask = IF e.active = {} THEN e.pmr ELSE e.init_pri_mask

\* An activation above all others is recorded, and the mask follows it; the
\* first one remembers the mask it found.
LEMMA Activated ==
  ASSUME NEW e \in EhfStates, NEW p \in 0..127, NEW run \in 0..255, p < run,
         e.active # {} => PriToIdx(p) < HighestActive(e)
  PROVE  ActivatedTo(e, Activate(e, run, p), p)
<1> DEFINE x == Activate(e, run, p)
<1>a. x = Activate(e, run, p)
  BY Zenon
<1> HIDE DEF x
<1> USE DEF ActivatedTo
<1> DEFINE raised == [e EXCEPT !.active = @ \union {PriToIdx(p)}, !.pmr = p]
<1>1. PriToIdx(p) \in 0..127
  BY IdxRange, Zenon
<1>2. /\ raised \in EhfStates /\ raised.active = e.active \union {PriToIdx(p)} /\ raised.pmr = p
      /\ raised.ns_pri_mask = e.ns_pri_mask /\ raised.fault = e.fault
      /\ raised.init_pri_mask = e.init_pri_mask
  <2>1. e.active \union {PriToIdx(p)} \in Maps /\ p \in Masks
    BY <1>1, EhfFields DEF Maps, Masks
  <2> QED BY <2>1, EhfRecord, Zenon
<1>3. x = IF p >= e.pmr THEN Fault(raised, "activation mask")
          ELSE [raised EXCEPT !.init_pri_mask = IF e.active = {} THEN e.pmr ELSE @]
  <2>1. ~(p >= run)
    BY NotAtLeast, Zenon
  <2>2. CASE e.active = {}
    BY <1>a, <2>1, <2>2, Zenon DEF Activate
  <2>3. CASE e.active # {}
    <3>1. HighestActive(e) \in 0..127
      BY <2>3, EhfFields, HighestIsLowest DEF HighestActive
    <3>2. ~(PriToIdx(p) >= HighestActive(e))
      BY <1>1, <2>3, <3>1
    <3> QED BY <1>a, <2>1, <3>2, Zenon DEF Activate
  <2> QED BY <2>2, <2>3, Zenon
<1> HIDE DEF raised
<1>4. ASSUME p >= e.pmr PROVE ActivatedTo(e, x, p)
  <2>1. x = [raised EXCEPT !.fault = "activation mask"]
    BY <1>3, <1>4, Zenon DEF Fault
  <2>2. "activation mask" \in Faults
    BY Zenon DEF Faults
  <2>3. /\ x \in EhfStates /\ x.active = raised.active /\ x.pmr = raised.pmr
        /\ x.ns_pri_mask = raised.ns_pri_mask /\ x.fault = "activation mask"
    BY <1>2, <2>1, <2>2, EhfRecord, Zenon
  <2> QED BY <1>2, <2>3, Zenon
<1>5. ASSUME ~(p >= e.pmr) PROVE ActivatedTo(e, x, p)
  <2> DEFINE m == IF e.active = {} THEN e.pmr ELSE e.init_pri_mask
  <2>1. m \in Masks
    BY EhfFields DEF Masks
  <2>2. x = [raised EXCEPT !.init_pri_mask = m]
    BY <1>2, <1>3, <1>5, Zenon
  <2> HIDE DEF m
  <2>3. /\ x \in EhfStates /\ x.active = raised.active /\ x.pmr = raised.pmr
        /\ x.ns_pri_mask = raised.ns_pri_mask /\ x.fault = raised.fault /\ x.init_pri_mask = m
    BY <1>2, <2>1, <2>2, EhfRecord, Zenon
  <2> QED BY <1>2, <2>3, Zenon DEF m
<1> QED BY <1>4, <1>5, Zenon DEF x

\* The state after a deactivation of priority p.
DeactivatedTo(e, x, p) ==
  /\ x \in EhfStates /\ x.active = e.active \ {PriToIdx(p)} /\ x.fault = e.fault
  /\ x.ns_pri_mask = e.ns_pri_mask /\ x.init_pri_mask = e.init_pri_mask
  /\ x.pmr = IF x.active = {} THEN e.init_pri_mask ELSE p

\* A deactivation of the last activation takes it off the map; the mask is the
\* first one again when no activation remains.
LEMMA Deactivated ==
  ASSUME NEW e \in EhfStates, NEW p \in 0..127, NEW run \in 0..255, p < run,
         e.active # {}, PriToIdx(p) = HighestActive(e), e.pmr <= p
  PROVE  DeactivatedTo(e, Deactivate(e, run, p), p)
<1> DEFINE x == Deactivate(e, run, p)
<1>a. x = Deactivate(e, run, p)
  BY Zenon
<1> HIDE DEF x
<1> DEFINE rest == e.active \ {HighestActive(e)}
           m == IF rest = {} THEN e.init_pri_mask ELSE p
<1>1. ~(p >= run) /\ ~(e.pmr > p)
  BY EhfFields
<1>2. x = [e EXCEPT !.active = rest, !.pmr = m]
  BY <1>a, <1>1, Zenon DEF Deactivate
<1>3. m \in Masks /\ rest \in Maps
  BY EhfFields DEF Masks, Maps
<1> HIDE DEF m, rest
<1>4. /\ x \in EhfStates /\ x.active = rest /\ x.fault = e.fault /\ x.pmr = m
      /\ x.ns_pri_mask = e.ns_pri_mask /\ x.init_pri_mask = e.init_pri_mask
  BY <1>2, <1>3, EhfRecord, Zenon
<1> QED BY <1>4, Zenon DEF rest, m, x, DeactivatedTo

-----------------------------------------------------------------------------
(* The running priority, and the dispatches and interrupts it is above.     *)

\* No index is in an empty stack, and the last one is in any other.
LEMMA EmptyStack ==
  ASSUME NEW S, NEW s \in Seq(S)
  PROVE  /\ s = <<>> => \A i \in DOMAIN s : FALSE
         /\ s # <<>> => Len(s) \in DOMAIN s
  OBVIOUS

\* The order of priorities.
LEMMA Order ==
  /\ \A a \in 0..127 : a \in Masks
  /\ \A a \in Masks : a <= a /\ ~(a < a)
  /\ \A a, b \in Masks : a < b => a <= b /\ ~(b < a)
  /\ \A a, b, c \in Masks : (a < b /\ b <= c) \/ (a <= b /\ b < c) => a < c
<1>1. \A a \in 0..127 : a \in Masks
  BY DEF Masks
<1>2. \A a \in Masks : a \in Int
  BY DEF Masks
<1> QED BY <1>1, <1>2

\* The running priority is the last active interrupt's, and the highest.
LEMMA RunFacts ==
  ASSUME irqs \in Seq(0..127), \A i, j \in DOMAIN irqs : i < j => irqs[j] < irqs[i]
  PROVE  /\ RunPri \in 0..255
         /\ irqs = <<>> => RunPri = Idle
         /\ irqs # <<>> => /\ Len(irqs) \in DOMAIN irqs /\ RunPri = irqs[Len(irqs)]
                           /\ RunPri \in 0..127
         /\ \A k \in DOMAIN irqs : irqs[k] \in 0..127 /\ RunPri <= irqs[k]
<1>1. CASE irqs = <<>>
  BY <1>1, EmptyStack DEF RunPri, Idle
<1>2. CASE irqs # <<>>
  <2>1. Len(irqs) \in DOMAIN irqs /\ RunPri = irqs[Len(irqs)] /\ DOMAIN irqs = 1..Len(irqs)
    BY <1>2, EmptyStack DEF RunPri
  <2>2. \A k \in DOMAIN irqs : irqs[k] \in 0..127
    BY Elements, Zenon
  <2>3. \A k \in DOMAIN irqs : k = Len(irqs) \/ k < Len(irqs)
    BY <2>1
  <2>4. \A k \in DOMAIN irqs : RunPri <= irqs[k]
    BY <2>1, <2>2, <2>3, Order, Zenon
  <2> QED BY <1>2, <2>1, <2>2, <2>4
<1> QED BY <1>1, <1>2, Zenon

\* The priority of a dispatch.
LEMMA FrameFacts ==
  ASSUME TypeOK, NEW i \in DOMAIN frames
  PROVE  /\ frames[i] \in Frames /\ frames[i].pri \in 0..127
         /\ frames[i].kind \in {"irq", "event", "sp"} /\ frames[i].from \in {"ns", "s"}
<1>1. frames[i] \in Frames
  BY DEF TypeOK
<1> QED BY <1>1, Zenon DEF Frames

\* An interrupt that is signalled is above every dispatch and every active
\* interrupt: the running priority holds back those below an interrupt, and
\* the mask those below an activation.
LEMMA SignalledIsAbove ==
  ASSUME EhfInv, Alive, NEW p \in 0..127, Signalled(p)
  PROVE  /\ \A i \in DOMAIN frames : p < frames[i].pri
         /\ \A k \in DOMAIN irqs : p < irqs[k]
<1>1. p < ehf.pmr /\ p < RunPri /\ ehf.pmr \in 0..255
  BY EhfFields DEF Signalled, EhfInv, TypeOK
<1>2. /\ RunPri \in 0..255
      /\ \A k \in DOMAIN irqs : irqs[k] \in 0..127 /\ RunPri <= irqs[k]
  BY RunFacts, Zenon DEF EhfInv, TypeOK, Interrupts
<1>3. \A k \in DOMAIN irqs : p < irqs[k]
  BY <1>1, <1>2
<1>4. ASSUME NEW i \in DOMAIN frames PROVE p < frames[i].pri
  <2>1. CASE frames[i].kind = "irq"
    <3>1. PICK k \in DOMAIN irqs : irqs[k] = frames[i].pri
      BY <2>1, Zenon DEF EhfInv, Interrupts
    <3> QED BY <1>3, <3>1, Zenon
  <2>2. CASE frames[i].kind # "irq"
    <3>1. MmMask
      BY <2>2, Zenon DEF EhfInv, TspMask
    <3>2. ehf.pmr <= frames[i].pri
      BY <2>2, <3>1, Zenon DEF MmMask, Activates
    <3>3. frames[i].pri \in 0..127
      BY FrameFacts, Zenon DEF EhfInv
    <3>4. p \in Masks /\ ehf.pmr \in Masks /\ frames[i].pri \in Masks
      BY <1>1, <3>3 DEF Masks
    <3> QED BY <1>1, <3>2, <3>4, Order, Zenon
  <2> QED BY <2>1, <2>2, Zenon
<1> QED BY <1>3, <1>4, Zenon

-----------------------------------------------------------------------------
(* Dispatches made and completed.                                           *)

\* A dispatch above all others is made.
LEMMA StackPushed ==
  ASSUME TypeOK, Stack, NEW f \in Frames, frames' = Append(frames, f), tsp' = tsp,
         \A i \in DOMAIN frames : f.pri < frames[i].pri /\ frames[i].kind # "sp",
         f.kind = "sp" => f.pri = PLAT_SP_PRI /\ world' = "s" /\ ~InTsp,
         f.kind # "sp" => f.pri \in SdeiPriorities /\ world' = "ns"
  PROVE  Stack'
<1> DEFINE n == Len(frames) + 1
<1>1. /\ n \in DOMAIN frames' /\ frames'[n] = f /\ Len(frames') = n
      /\ \A i \in DOMAIN frames : /\ i \in DOMAIN frames' /\ frames'[i] = frames[i]
                                  /\ i # n /\ ~(n < i)
      /\ \A i \in DOMAIN frames' : i = n \/ i \in DOMAIN frames
      /\ ~(n < n) /\ (frames = <<>> => n = 1) /\ (frames # <<>> => 1 \in DOMAIN frames /\ n # 1)
  <2>1. frames \in Seq(Frames)
    BY Zenon DEF TypeOK
  <2> QED BY <2>1, Pushed
<1> HIDE DEF n
<1>2. \A i, j \in DOMAIN frames' : i < j => frames'[j].pri < frames'[i].pri
  BY <1>1, Zenon DEF Stack
<1>3. ASSUME NEW i \in DOMAIN frames'
      PROVE  /\ frames'[i].kind = "sp" => frames'[i].pri = PLAT_SP_PRI /\ i = Len(frames') /\ world' = "s"
             /\ frames'[i].kind # "sp" => frames'[i].pri \in SdeiPriorities
  <2>1. CASE i = n
    BY <1>1, <2>1, Zenon
  <2>2. CASE i \in DOMAIN frames
    <3>1. frames'[i] = frames[i] /\ frames[i].kind # "sp"
      BY <1>1, <2>2, Zenon
    <3> QED BY <2>2, <3>1, Zenon DEF Stack
  <2> QED BY <1>1, <1>3, <2>1, <2>2, Zenon
<1> QED BY <1>2, <1>3, Zenon DEF Stack

\* The last dispatch is completed.
LEMMA StackPopped ==
  ASSUME TypeOK, Stack, frames # <<>>, frames' = Front(frames)
  PROVE  Stack'
<1>1. /\ frames' \in Seq(Frames)
      /\ \A i \in DOMAIN frames' : i \in DOMAIN frames /\ frames'[i] = frames[i] /\ i # Len(frames)
  BY Popped, Zenon DEF TypeOK
<1> QED BY <1>1, Zenon DEF Stack

\* An interrupt is dispatched.
LEMMA InterruptPushed ==
  ASSUME TypeOK, Stack, Interrupts, NEW p \in SdeiPriorities, NEW f \in Frames,
         f.kind = "irq", f.pri = p, tsp' = tsp,
         \A i \in DOMAIN frames : p < frames[i].pri, \A k \in DOMAIN irqs : p < irqs[k],
         frames' = Append(frames, f), irqs' = Append(irqs, p)
  PROVE  Interrupts' /\ irqs' \in Seq(0..127) /\ frames' \in Seq(Frames)
<1> DEFINE n == Len(frames) + 1
           m == Len(irqs) + 1
<1>0. p \in 0..127 /\ SEl1Priority \in 0..127
  BY PriorityFacts
<1>1. /\ n \in DOMAIN frames' /\ frames'[n] = f /\ frames' \in Seq(Frames)
      /\ \A i \in DOMAIN frames : i \in DOMAIN frames' /\ frames'[i] = frames[i]
      /\ \A i \in DOMAIN frames' : i = n \/ i \in DOMAIN frames
  <2>1. frames \in Seq(Frames)
    BY Zenon DEF TypeOK
  <2> QED BY <2>1, Pushed
<1>2. /\ m \in DOMAIN irqs' /\ irqs'[m] = p /\ irqs' \in Seq(0..127)
      /\ \A i \in DOMAIN irqs : i \in DOMAIN irqs' /\ irqs'[i] = irqs[i] /\ ~(m < i)
      /\ \A i \in DOMAIN irqs' : i = m \/ i \in DOMAIN irqs
      /\ ~(m < m)
  <2>1. irqs \in Seq(0..127)
    BY Zenon DEF TypeOK
  <2> QED BY <1>0, <2>1, Pushed
<1> HIDE DEF n, m
<1>3. ASSUME NEW i \in DOMAIN irqs', NEW j \in DOMAIN irqs', i < j
      PROVE  irqs'[j] < irqs'[i]
  <2>1. i # m
    BY <1>2, <1>3, Zenon
  <2>2. i \in DOMAIN irqs /\ irqs'[i] = irqs[i]
    BY <1>2, <2>1, Zenon
  <2>3. CASE j = m
    BY <1>2, <2>2, <2>3, Zenon
  <2>4. CASE j \in DOMAIN irqs
    <3>1. irqs[j] < irqs[i] /\ irqs'[j] = irqs[j]
      BY <1>2, <1>3, <2>2, <2>4, Zenon DEF Interrupts
    <3> QED BY <2>2, <3>1, Zenon
  <2> QED BY <1>2, <2>3, <2>4, Zenon
<1>4. ASSUME NEW i \in DOMAIN frames', frames'[i].kind = "irq"
      PROVE  \E k \in DOMAIN irqs' : irqs'[k] = frames'[i].pri
  <2>1. CASE i = n
    BY <1>1, <1>2, <2>1, Zenon
  <2>2. CASE i \in DOMAIN frames
    <3>1. frames'[i] = frames[i]
      BY <1>1, <2>2, Zenon
    <3>2. PICK k \in DOMAIN irqs : irqs[k] = frames[i].pri
      BY <1>4, <2>2, <3>1, Zenon DEF Interrupts
    <3> QED BY <1>2, <3>1, <3>2, Zenon
  <2> QED BY <1>1, <1>4, <2>1, <2>2, Zenon
<1>5. ASSUME NEW k \in DOMAIN irqs'
      PROVE  \/ \E i \in DOMAIN frames' : frames'[i].kind = "irq" /\ irqs'[k] = frames'[i].pri
             \/ /\ k = 1 /\ irqs'[k] = SEl1Priority /\ InTsp'
                /\ \A i \in DOMAIN frames' : frames'[i].pri < SEl1Priority
  <2>1. CASE k = m
    BY <1>1, <1>2, <2>1, Zenon
  <2>2. CASE k \in DOMAIN irqs /\ \E i \in DOMAIN frames : frames[i].kind = "irq" /\ irqs[k] = frames[i].pri
    BY <1>1, <1>2, <2>2, Zenon
  <2>3. CASE /\ k \in DOMAIN irqs /\ k = 1 /\ irqs[k] = SEl1Priority /\ InTsp
             /\ \A i \in DOMAIN frames : frames[i].pri < SEl1Priority
    BY <1>1, <1>2, <2>3, Zenon DEF InTsp
  <2> QED BY <1>2, <1>5, <2>1, <2>2, <2>3, Zenon DEF Interrupts
<1> QED BY <1>1, <1>2, <1>3, <1>4, <1>5, Zenon DEF Interrupts

\* The dispatch of an interrupt is completed: the last active interrupt is the
\* one it was made for.
LEMMA InterruptPopped ==
  ASSUME TypeOK, Stack, Interrupts, frames # <<>>, Top.kind = "irq", tsp' = tsp,
         frames' = Front(frames), irqs' = Front(irqs)
  PROVE  Interrupts' /\ irqs' \in Seq(0..127) /\ frames' \in Seq(Frames)
<1> DEFINE n == Len(frames)
           m == Len(irqs)
<1>1. /\ n \in DOMAIN frames /\ frames' \in Seq(Frames)
      /\ \A i \in DOMAIN frames' : i \in DOMAIN frames /\ frames'[i] = frames[i] /\ i < n
      /\ \A i \in DOMAIN frames : i = n \/ i \in DOMAIN frames'
  BY Popped, Zenon DEF TypeOK
<1>2. irqs # <<>>
  BY <1>1, EmptyStack, Zenon DEF TypeOK, Interrupts, Top
<1>3. /\ m \in DOMAIN irqs /\ irqs' \in Seq(0..127)
      /\ \A i \in DOMAIN irqs' : i \in DOMAIN irqs /\ irqs'[i] = irqs[i] /\ i < m
      /\ \A i \in DOMAIN irqs : i = m \/ i \in DOMAIN irqs'
  BY <1>2, Popped, Zenon DEF TypeOK
<1>4. \A k \in DOMAIN irqs' : irqs[m] < irqs[k]
  BY <1>3, Zenon DEF Interrupts
<1>5. \A i \in DOMAIN frames' : frames[n].pri < frames[i].pri
  BY <1>1, Zenon DEF Stack
<1>6. /\ \A k \in DOMAIN irqs : irqs[k] \in Masks
      /\ \A i \in DOMAIN frames : frames[i].pri \in Masks
  BY RunFacts, FrameFacts, Order, Zenon DEF TypeOK, Interrupts
<1> HIDE DEF n, m
<1>7. irqs[m] = frames[n].pri
  <2>1. PICK k \in DOMAIN irqs : irqs[k] = frames[n].pri
    BY <1>1, Zenon DEF Interrupts, Top, n
  <2>2. CASE k = m
    BY <2>1, <2>2, Zenon
  <2>3. CASE k # m
    <3>1. irqs[m] < frames[n].pri
      BY <1>3, <1>4, <2>1, <2>3, Zenon
    <3>2. k < m /\ k \in DOMAIN irqs'
      BY <1>3, <2>3, Zenon
    <3>3. m # 1
      BY <3>2 DEF TypeOK
    <3>4. PICK i \in DOMAIN frames : irqs[m] = frames[i].pri
      BY <1>3, <3>3, Zenon DEF Interrupts
    <3>5. i \in DOMAIN frames'
      BY <1>1, <1>6, <3>1, <3>4, Order, Zenon
    <3> QED BY <1>1, <1>5, <1>6, <3>1, <3>4, <3>5, Order, Zenon
  <2> QED BY <2>2, <2>3, Zenon
<1>8. ASSUME NEW i \in DOMAIN frames', frames'[i].kind = "irq"
      PROVE  \E k \in DOMAIN irqs' : irqs'[k] = frames'[i].pri
  <2>1. PICK k \in DOMAIN irqs : irqs[k] = frames[i].pri
    BY <1>1, <1>8, Zenon DEF Interrupts
  <2>2. k # m
    BY <1>1, <1>5, <1>6, <1>7, <2>1, Order, Zenon
  <2> QED BY <1>1, <1>3, <2>1, <2>2, Zenon
<1>9. ASSUME NEW k \in DOMAIN irqs'
      PROVE  \/ \E i \in DOMAIN frames' : frames'[i].kind = "irq" /\ irqs'[k] = frames'[i].pri
             \/ /\ k = 1 /\ irqs'[k] = SEl1Priority /\ InTsp'
                /\ \A i \in DOMAIN frames' : frames'[i].pri < SEl1Priority
  <2>1. k \in DOMAIN irqs /\ irqs'[k] = irqs[k] /\ irqs[k] # frames[n].pri
    <3>1. k \in DOMAIN irqs /\ irqs'[k] = irqs[k] /\ irqs[m] < irqs[k]
      BY <1>3, <1>4, Zenon
    <3> QED BY <1>1, <1>6, <1>7, <3>1, Order, Zenon
  <2>2. CASE \E i \in DOMAIN frames : frames[i].kind = "irq" /\ irqs[k] = frames[i].pri
    <3>1. PICK i \in DOMAIN frames : frames[i].kind = "irq" /\ irqs[k] = frames[i].pri
      BY <2>2, Zenon
    <3>2. i \in DOMAIN frames' /\ frames'[i] = frames[i]
      BY <1>1, <2>1, <3>1, Zenon
    <3> QED BY <2>1, <3>1, <3>2, Zenon
  <2>3. CASE /\ k = 1 /\ irqs[k] = SEl1Priority /\ InTsp
             /\ \A i \in DOMAIN frames : frames[i].pri < SEl1Priority
    BY <1>1, <2>1, <2>3, Zenon DEF InTsp
  <2> QED BY <2>1, <2>2, <2>3, Zenon DEF Interrupts
<1>10. \A i, j \in DOMAIN irqs' : i < j => irqs'[j] < irqs'[i]
  BY <1>3, Zenon DEF Interrupts
<1> QED BY <1>1, <1>3, <1>8, <1>9, <1>10, Zenon DEF Interrupts

\* A dispatch that is not an interrupt's comes or goes and leaves the active
\* interrupts alone.
LEMMA InterruptsKept ==
  ASSUME Interrupts, ~InTsp, tsp' = tsp, irqs' = irqs,
         \A i \in DOMAIN frames' : frames'[i].kind = "irq" => i \in DOMAIN frames /\ frames'[i] = frames[i],
         \A i \in DOMAIN frames : frames[i].kind = "irq" => i \in DOMAIN frames' /\ frames'[i] = frames[i]
  PROVE  Interrupts'
<1>1. \A i, j \in DOMAIN irqs' : i < j => irqs'[j] < irqs'[i]
  BY Zenon DEF Interrupts
<1>2. ASSUME NEW i \in DOMAIN frames', frames'[i].kind = "irq"
      PROVE  \E k \in DOMAIN irqs' : irqs'[k] = frames'[i].pri
  <2>1. i \in DOMAIN frames /\ frames'[i] = frames[i]
    BY <1>2, Zenon
  <2>2. PICK k \in DOMAIN irqs : irqs[k] = frames[i].pri
    BY <1>2, <2>1, Zenon DEF Interrupts
  <2> QED BY <2>1, <2>2, Zenon
<1>3. ASSUME NEW k \in DOMAIN irqs'
      PROVE  \E i \in DOMAIN frames' : frames'[i].kind = "irq" /\ irqs'[k] = frames'[i].pri
  <2>1. PICK i \in DOMAIN frames : frames[i].kind = "irq" /\ irqs[k] = frames[i].pri
    BY Zenon DEF Interrupts
  <2>2. i \in DOMAIN frames' /\ frames'[i] = frames[i]
    BY <2>1, Zenon
  <2> QED BY <2>1, <2>2, Zenon
<1> QED BY <1>1, <1>2, <1>3, Zenon DEF Interrupts

-----------------------------------------------------------------------------
(* The steps of the normal world and of the TSP.                            *)

\* Outside any handler the normal world runs with nothing active, nothing in
\* the stash, and its own mask.
LEMMA AtBase ==
  ASSUME EhfInv, NsAtBase
  PROVE  /\ irqs = <<>> /\ RunPri = Idle /\ ~InTsp
         /\ ehf.active = {} /\ ehf.pmr = nsmask /\ ehf.ns_pri_mask = 0 /\ ehf.fault = "none"
<1>1. /\ TypeOK /\ Interrupts /\ frames = <<>> /\ world = "ns" /\ ehf.fault = "none"
      /\ IF payload = "tsp" THEN TspMask ELSE MmMask
  BY Zenon DEF EhfInv, NsAtBase, Alive
<1>2. \A i \in DOMAIN frames : FALSE
  BY <1>1, EmptyStack, Zenon DEF TypeOK
<1>3. ~InTsp
  BY <1>1, Zenon DEF TspMask, MmMask
<1>4. irqs = <<>>
  <2>1. irqs # <<>> => Len(irqs) \in DOMAIN irqs
    BY <1>1, EmptyStack, Zenon DEF TypeOK
  <2> QED BY <1>1, <1>2, <1>3, <2>1, Zenon DEF Interrupts
<1>5. RunPri = Idle
  BY <1>4, Zenon DEF RunPri
<1>6. ehf.active = {}
  BY <1>1, <1>2, Zenon DEF TspMask, MmMask
<1>7. ehf.pmr = nsmask /\ ehf.ns_pri_mask = 0
  BY <1>1, <1>3, <1>6, Zenon DEF TspMask, MmMask, InTsp
<1> QED BY <1>1, <1>3, <1>4, <1>5, <1>6, <1>7, Zenon

\* Stack and Interrupts hold of no dispatches and no interrupts.
LEMMA NothingActive ==
  ASSUME irqs' \in Seq(0..127), frames' \in Seq(Frames), irqs' = <<>>, frames' = <<>>
  PROVE  Stack' /\ Interrupts'
<1>1. (\A i \in DOMAIN irqs' : FALSE) /\ (\A i \in DOMAIN frames' : FALSE)
  BY EmptyStack, Zenon
<1> QED BY <1>1, Zenon DEF Stack, Interrupts

\* The normal world programs another mask.
LEMMA SetNsMaskStep ==
  ASSUME EhfInv, NEW m \in NsMasks, SetNsMask(m), payload' = payload
  PROVE  EhfInv'
<1>1. /\ NsAtBase /\ ehf' = [ehf EXCEPT !.pmr = m] /\ nsmask' = m /\ irqs' = irqs
      /\ world' = world /\ frames' = frames /\ yield' = yield /\ tsp' = tsp
  BY Zenon DEF SetNsMask
<1>2. /\ irqs = <<>> /\ ~InTsp /\ ehf.active = {} /\ ehf.ns_pri_mask = 0 /\ ehf.fault = "none"
  BY <1>1, AtBase, Zenon
<1>3. m \in Masks
  BY PriorityFacts DEF Masks
<1>4. TypeOK /\ ehf \in EhfStates /\ frames = <<>> /\ world = "ns"
  BY <1>1, Zenon DEF EhfInv, TypeOK, NsAtBase
<1>5. /\ ehf' \in EhfStates /\ ehf'.active = {} /\ ehf'.ns_pri_mask = 0 /\ ehf'.fault = "none"
      /\ ehf'.pmr = nsmask'
  BY <1>1, <1>2, <1>3, <1>4, EhfRecord, Zenon
<1>6. TypeOK'
  BY <1>1, <1>4, <1>5, Zenon DEF TypeOK
<1>7. Stack' /\ Interrupts'
  BY <1>1, <1>2, <1>4, NothingActive, Zenon DEF TypeOK
<1>8. \A i \in DOMAIN frames' : FALSE
  BY <1>1, <1>4, EmptyStack, Zenon DEF TypeOK
<1>9. TspMask' /\ MmMask'
  BY <1>1, <1>2, <1>4, <1>5, <1>8, Zenon DEF TspMask, MmMask, InTsp
<1> QED BY <1>5, <1>6, <1>7, <1>9, Zenon DEF EhfInv, OldMaskOnly

\* The TSP is entered, with the mask of the normal world in force for a
\* yielding call and in the stash for any other.
LEMMA EnterTspStep ==
  ASSUME EhfInv, Tspd, payload' = payload, NEW e \in EhfStates, NEW what, NEW flag \in BOOLEAN,
         EnterTsp(e, what, flag), what \in {"fast", "yield", "abort", "intr"},
         e.active = {}, e.fault = "none",
         IF what = "yield" THEN e.pmr = nsmask /\ e.ns_pri_mask = 0
         ELSE e.pmr = GIC_HIGHEST_NS_PRIORITY /\ e.ns_pri_mask = nsmask
  PROVE  EhfInv'
<1>1. /\ ehf' = e /\ world' = "s" /\ tsp' = what /\ yield' = flag
      /\ irqs' = irqs /\ frames' = frames /\ nsmask' = nsmask
  BY Zenon DEF EnterTsp
<1>2. NsAtBase /\ payload = "tsp" /\ frames = <<>> /\ TypeOK /\ what # "none"
  BY Zenon DEF Tspd, NsAtBase, EhfInv
<1>3. irqs = <<>>
  BY <1>2, AtBase, Zenon
<1>4. TypeOK'
  BY <1>1, <1>2, Zenon DEF TypeOK
<1>5. Stack' /\ Interrupts'
  BY <1>1, <1>2, <1>3, NothingActive, Zenon DEF TypeOK
<1>6. \A i \in DOMAIN frames' : FALSE
  BY <1>1, <1>2, EmptyStack, Zenon DEF TypeOK
<1>7. TspMask'
  BY <1>1, <1>2, <1>6, Zenon DEF TspMask, InTsp
<1> QED BY <1>1, <1>2, <1>4, <1>5, <1>7, Zenon DEF EhfInv, OldMaskOnly

\* The calls of the TSP: ehf_exited_normal_world() finds the stash empty and
\* ehf_allow_ns_preemption() finds it full.
LEMMA TspCallStep ==
  ASSUME EhfInv, payload' = payload,
         TspFastCall \/ TspYieldCall \/ TspResume \/ TspAbort \/ SEl1Interrupt
  PROVE  EhfInv'
<1>1. Tspd /\ NsAtBase /\ ehf \in EhfStates /\ yield \in BOOLEAN /\ nsmask \in NsMasks
  BY Zenon DEF TspFastCall, TspYieldCall, TspResume, TspAbort, SEl1Interrupt, Tspd, EhfInv, TypeOK
<1>2. /\ RunPri = Idle /\ ehf.active = {} /\ ehf.pmr = nsmask /\ ehf.ns_pri_mask = 0
      /\ ehf.fault = "none"
  BY <1>1, AtBase, Zenon
<1>3. nsmask \in 129..255 /\ nsmask # 0
  BY <1>1, PriorityFacts
<1> DEFINE x == ExitedNormalWorld(ehf, RunPri)
           y == AllowNsPreemption(x)
<1>4. x = ExitedNormalWorld(ehf, Idle)
  BY <1>2, Zenon
<1>5. y = AllowNsPreemption(x)
  BY Zenon
<1> HIDE DEF x, y
<1>6. /\ x \in EhfStates /\ x.active = {} /\ x.fault = "none"
      /\ x.ns_pri_mask = nsmask /\ x.pmr = GIC_HIGHEST_NS_PRIORITY
  BY <1>1, <1>2, <1>3, <1>4, Stashes, Zenon
<1>7. /\ y \in EhfStates /\ y.active = {} /\ y.fault = "none"
      /\ y.ns_pri_mask = 0 /\ y.pmr = nsmask
  BY <1>3, <1>5, <1>6, Allows, Zenon
<1>8. \/ \E what \in {"fast", "abort", "intr"}, flag \in BOOLEAN : EnterTsp(x, what, flag)
      \/ \E flag \in BOOLEAN : EnterTsp(y, "yield", flag)
  BY <1>1, Zenon DEF TspFastCall, TspYieldCall, TspResume, TspAbort, SEl1Interrupt, x, y
<1>9. ASSUME NEW what \in {"fast", "abort", "intr"}, NEW flag \in BOOLEAN, EnterTsp(x, what, flag)
      PROVE  EhfInv'
  BY <1>1, <1>6, <1>9, EnterTspStep, Zenon
<1>10. ASSUME NEW flag \in BOOLEAN, EnterTsp(y, "yield", flag)
       PROVE  EhfInv'
  BY <1>1, <1>7, <1>10, EnterTspStep, Zenon
<1> QED BY <1>8, <1>9, <1>10, Zenon

\* While the TSP runs there is no dispatch, and the only interrupt that may be
\* active is the one it handles.
LEMMA TspRuns ==
  ASSUME EhfInv, Alive, InTsp, world = "s"
  PROVE  /\ payload = "tsp" /\ frames = <<>> /\ TspMask
         /\ irqs # <<>> => Len(irqs) \in DOMAIN irqs /\ Len(irqs) = 1 /\ TspAcked
         /\ irqs = <<>> => RunPri = Idle
<1>1. /\ TypeOK /\ Interrupts /\ TspMask /\ payload = "tsp"
  BY Zenon DEF EhfInv, MmMask
<1>2. frames = <<>>
  BY <1>1, Zenon DEF TspMask
<1>3. \A i \in DOMAIN frames : FALSE
  BY <1>1, <1>2, EmptyStack, Zenon DEF TypeOK
<1>4. /\ irqs = <<>> => RunPri = Idle
      /\ irqs # <<>> => Len(irqs) \in DOMAIN irqs /\ RunPri = irqs[Len(irqs)]
  BY <1>1, RunFacts, Zenon DEF TypeOK, Interrupts
<1>5. irqs # <<>> => Len(irqs) = 1 /\ irqs[Len(irqs)] = SEl1Priority
  BY <1>1, <1>3, <1>4, Zenon DEF Interrupts
<1> QED BY <1>1, <1>2, <1>4, <1>5, Zenon DEF TspAcked

\* The TSP is left, from a call, an interrupt or an abort: the mask of the
\* normal world is in force again.
LEMMA LeaveTspStep ==
  ASSUME EhfInv, payload' = payload,
         TspReturn \/ TspPreempted \/ TspAbortDone \/ TspHandledSEl1Intr
  PROVE  EhfInv'
<1>1. InTsp /\ TypeOK /\ \E flag \in BOOLEAN : LeaveTsp(flag)
  BY Zenon DEF TspReturn, TspPreempted, TspAbortDone, TspHandledSEl1Intr, InTsp, EhfInv, TypeOK
<1>2. PICK flag \in BOOLEAN : LeaveTsp(flag)
  BY <1>1, Zenon
<1>3. /\ Alive /\ world = "s" /\ ~TspAcked /\ ehf' = EnteringNormalWorld(ehf, RunPri)
      /\ world' = "ns" /\ tsp' = "none" /\ yield' = flag
      /\ irqs' = irqs /\ frames' = frames /\ nsmask' = nsmask
  BY <1>2, Zenon DEF LeaveTsp
<1>4. payload = "tsp" /\ frames = <<>> /\ TspMask /\ irqs = <<>> /\ RunPri = Idle
  BY <1>1, <1>3, TspRuns, Zenon
<1>5. /\ ehf \in EhfStates /\ ehf.active = {} /\ ehf.fault = "none"
      /\ ehf.ns_pri_mask # 0 => ehf.pmr = GIC_HIGHEST_NS_PRIORITY
      /\ nsmask = IF ehf.ns_pri_mask = 0 THEN ehf.pmr ELSE ehf.ns_pri_mask
  <2>1. nsmask # 0
    BY <1>1, PriorityFacts DEF TypeOK
  <2> QED BY <1>1, <1>3, <1>4, <2>1, Zenon DEF TypeOK, TspMask, Alive
<1>6. /\ ehf' \in EhfStates /\ ehf'.active = {} /\ ehf'.fault = "none" /\ ehf'.ns_pri_mask = 0
      /\ ehf'.pmr = nsmask
  BY <1>3, <1>4, <1>5, Restores, Zenon
<1>7. TypeOK'
  BY <1>1, <1>2, <1>3, <1>6, Zenon DEF TypeOK
<1>8. Stack' /\ Interrupts'
  BY <1>1, <1>3, <1>4, NothingActive, Zenon DEF TypeOK
<1>9. TspMask'
  BY <1>3, <1>4, <1>6, Zenon DEF TspMask, InTsp
<1> QED BY <1>4, <1>6, <1>7, <1>8, <1>9, Zenon DEF EhfInv, OldMaskOnly

\* The TSP acknowledges and ends its interrupt.
LEMMA TspInterruptStep ==
  ASSUME EhfInv, payload' = payload, TspAcknowledge \/ TspEndOfInterrupt
  PROVE  EhfInv'
<1>1. /\ Alive /\ payload = "tsp" /\ world = "s" /\ TypeOK
      /\ ehf' = ehf /\ world' = world /\ frames' = frames /\ yield' = yield /\ tsp' = tsp
      /\ nsmask' = nsmask
  BY Zenon DEF TspAcknowledge, TspEndOfInterrupt, EhfInv
<1>2. InTsp
  BY <1>1, Zenon DEF TypeOK, InTsp
<1>3. /\ frames = <<>> /\ TspMask
      /\ irqs # <<>> => Len(irqs) \in DOMAIN irqs /\ Len(irqs) = 1 /\ TspAcked
  BY <1>1, <1>2, TspRuns, Zenon
<1>4. \A i \in DOMAIN frames' : FALSE
  BY <1>1, <1>3, EmptyStack, Zenon DEF TypeOK
<1>5. Interrupts' /\ irqs' \in Seq(0..127)
  <2>0. SEl1Priority \in 0..127
    BY PriorityFacts, Zenon
  <2>1. CASE TspAcknowledge
    <3>1. irqs' = Append(irqs, SEl1Priority) /\ SEl1Priority < RunPri
      BY <2>1, Zenon DEF TspAcknowledge, Signalled
    <3>2. irqs = <<>>
      <4>1. ~TspAcked
        BY <2>0, <3>1 DEF TspAcked
      <4> QED BY <1>3, <4>1, Zenon
    <3>3. /\ irqs' \in Seq(0..127) /\ \A k \in DOMAIN irqs' : k = 1 /\ irqs'[k] = SEl1Priority
      BY <2>0, <3>1, <3>2
    <3>4. ~(1 < 1)
      OBVIOUS
    <3> QED BY <1>1, <1>2, <1>4, <3>3, <3>4, Zenon DEF Interrupts, InTsp
  <2>2. CASE TspEndOfInterrupt
    <3>1. irqs' = Front(irqs) /\ TspAcked
      BY <2>2, Zenon DEF TspEndOfInterrupt
    <3>2. irqs # <<>>
      BY <2>0, <3>1 DEF TspAcked, RunPri, Idle
    <3>3. irqs' = <<>> /\ irqs' \in Seq(0..127)
      BY <1>1, <1>3, <3>1, <3>2, Popped, Zenon DEF TypeOK
    <3>4. \A k \in DOMAIN irqs' : FALSE
      BY <3>3, EmptyStack, Zenon
    <3> QED BY <1>4, <3>3, <3>4, Zenon DEF Interrupts
  <2> QED BY <2>1, <2>2, Zenon
<1>6. TypeOK'
  BY <1>1, <1>5, Zenon DEF TypeOK
<1>7. Stack'
  BY <1>4, Zenon DEF Stack
<1>8. TspMask'
  BY <1>1, <1>3, Zenon DEF TspMask, InTsp
<1> QED BY <1>1, <1>5, <1>6, <1>7, <1>8, Zenon DEF EhfInv, OldMaskOnly, Alive

-----------------------------------------------------------------------------
(* The steps of SDEI.                                                       *)

\* The partition is not interrupted, and dispatches nothing.
LEMMA NoDispatchAbovePartition ==
  ASSUME EhfInv, Alive, NEW i \in DOMAIN frames, frames[i].kind = "sp"
  PROVE  /\ world = "s"
         /\ \A p \in SdeiPriorities \union {PLAT_RAS_PRI} : ~Signalled(p)
<1>1. world = "s" /\ frames[i].pri = PLAT_SP_PRI
  BY Zenon DEF EhfInv, Stack
<1>2. ASSUME NEW p \in SdeiPriorities \union {PLAT_RAS_PRI}, Signalled(p) PROVE FALSE
  <2>1. p \in 0..127 /\ PLAT_SP_PRI \in 0..127 /\ PLAT_SP_PRI <= p
    BY PriorityFacts
  <2>2. p < PLAT_SP_PRI
    BY <1>1, <1>2, <2>1, SignalledIsAbove, Zenon
  <2> QED BY <2>1, <2>2
<1> QED BY <1>1, <1>2, Zenon

\* An SDEI interrupt is dispatched, from either world: its priority is secure,
\* so that the hook leaves the mask alone.
LEMMA SdeiInterruptStep ==
  ASSUME EhfInv, payload' = payload, NEW p \in SdeiPriorities, SdeiInterrupt(p)
  PROVE  EhfInv'
<1> DEFINE f == Frame("irq", p, world)
<1>1. /\ Alive /\ Signalled(p) /\ irqs' = Append(irqs, p) /\ frames' = Append(frames, f)
      /\ world' = "ns" /\ yield' = yield /\ tsp' = tsp /\ nsmask' = nsmask
      /\ ehf' = IF world = "s" THEN EnteringNormalWorld(ehf, p) ELSE ehf
  BY Zenon DEF SdeiInterrupt
<1>2. /\ TypeOK /\ Stack /\ Interrupts /\ world \in {"ns", "s"}
      /\ IF payload = "tsp" THEN TspMask ELSE MmMask
  BY <1>1, Zenon DEF EhfInv, TypeOK
<1>3. p \in 0..127
  BY PriorityFacts
<1>4. (\A i \in DOMAIN frames : p < frames[i].pri) /\ (\A k \in DOMAIN irqs : p < irqs[k])
  BY <1>1, <1>3, SignalledIsAbove, Zenon
<1>5. ehf' = ehf
  <2>1. Engaged(ehf, p)
    BY <1>3 DEF Engaged, IsPriSecure
  <2> QED BY <1>1, <2>1, HooksIdle, Zenon
<1>6. f \in Frames /\ f.kind = "irq" /\ f.pri = p /\ f.from = world
  BY <1>2, <1>3, Zenon DEF Frame, Frames
<1> HIDE DEF f
<1>7. \A i \in DOMAIN frames : frames[i].kind # "sp"
  BY <1>1, NoDispatchAbovePartition, Zenon
<1>8. Interrupts' /\ irqs' \in Seq(0..127) /\ frames' \in Seq(Frames)
  BY <1>1, <1>2, <1>4, <1>6, InterruptPushed, Zenon
<1>10. Stack'
  BY <1>1, <1>2, <1>4, <1>6, <1>7, StackPushed, Zenon
<1>11. TypeOK'
  BY <1>1, <1>2, <1>5, <1>8, Zenon DEF TypeOK
<1> DEFINE n == Len(frames) + 1
<1>12. /\ frames' # <<>> /\ n \in DOMAIN frames' /\ frames'[n] = f
       /\ \A i \in DOMAIN frames : i \in DOMAIN frames' /\ frames'[i] = frames[i]
       /\ \A i \in DOMAIN frames' : i = n \/ i \in DOMAIN frames
       /\ (frames = <<>> => n = 1) /\ (frames # <<>> => 1 \in DOMAIN frames)
  <2>1. frames \in Seq(Frames)
    BY <1>2, Zenon DEF TypeOK
  <2> QED BY <1>1, <1>6, <2>1, Pushed
<1> HIDE DEF n
<1>13. CASE payload = "tsp"
  <2>1. TspMask
    BY <1>2, <1>13, Zenon
  <2>0. (world = "s" => InTsp /\ frames = <<>>) /\ (frames = <<>> /\ InTsp => world = "s")
    BY <2>1, Zenon DEF TspMask
  <2>2. \A i \in DOMAIN frames' : frames'[i].kind = "irq" /\ (frames'[i].from = "s" => i = 1)
    BY <1>6, <1>12, <2>0, <2>1, Zenon DEF TspMask
  <2>3. InTsp' <=> frames'[1].from = "s"
    <3>1. CASE frames = <<>>
      BY <1>1, <1>6, <1>12, <2>0, <3>1, Zenon DEF InTsp
    <3>2. CASE frames # <<>>
      BY <1>1, <1>12, <2>0, <2>1, <3>2, Zenon DEF InTsp, TspMask
    <3> QED BY <3>1, <3>2, Zenon
  <2>4. TspMask'
    BY <1>1, <1>5, <1>12, <2>1, <2>2, <2>3, Zenon DEF TspMask
  <2> QED BY <1>1, <1>5, <1>8, <1>10, <1>11, <1>13, <2>4, Zenon DEF EhfInv, OldMaskOnly, Alive
<1>14. CASE payload # "tsp"
  <2>1. MmMask
    BY <1>2, <1>14, Zenon
  <2>2. \A i \in DOMAIN frames' : Activates(i)' => i \in DOMAIN frames /\ frames'[i] = frames[i] /\ Activates(i)
    BY <1>6, <1>12, Zenon DEF Activates
  <2>3. \A i \in DOMAIN frames : Activates(i) => i \in DOMAIN frames' /\ frames'[i] = frames[i] /\ Activates(i)'
    BY <1>12, Zenon DEF Activates
  <2>4. MmMask'
    <3>1. \A i \in DOMAIN frames' : Activates(i)' => PriToIdx(frames'[i].pri) \in ehf'.active
      BY <1>5, <2>1, <2>2, Zenon DEF MmMask
    <3>2. \A x \in ehf'.active : \E i \in DOMAIN frames' : Activates(i)' /\ x = PriToIdx(frames'[i].pri)
      <4>1. \A x \in ehf.active : \E i \in DOMAIN frames : Activates(i) /\ x = PriToIdx(frames[i].pri)
        BY <2>1, Zenon DEF MmMask
      <4> QED BY <1>5, <2>3, <4>1, Zenon
    <3>3. IF ehf'.active = {} THEN ehf'.pmr = nsmask'
          ELSE /\ ehf'.init_pri_mask = nsmask'
               /\ \A i \in DOMAIN frames' : Activates(i)' => ehf'.pmr <= frames'[i].pri
      BY <1>1, <1>5, <2>1, <2>2, Zenon DEF MmMask
    <3> QED BY <1>1, <1>5, <2>1, <3>1, <3>2, <3>3, Zenon DEF MmMask, InTsp
  <2> QED BY <1>1, <1>5, <1>8, <1>10, <1>11, <1>14, <2>4, Zenon DEF EhfInv, OldMaskOnly, Alive
<1> QED BY <1>13, <1>14, Zenon

\* The handler of an interrupt completes: execution goes on where it was
\* interrupted, without a hook.
LEMMA CompleteInterruptStep ==
  ASSUME EhfInv, payload' = payload, CompleteInterrupt
  PROVE  EhfInv'
<1>1. /\ Alive /\ world = "ns" /\ frames # <<>> /\ Top.kind = "irq"
      /\ irqs' = Front(irqs) /\ world' = Top.from /\ frames' = Front(frames)
      /\ ehf' = ehf /\ yield' = yield /\ tsp' = tsp /\ nsmask' = nsmask
  BY Zenon DEF CompleteInterrupt
<1>2. /\ TypeOK /\ Stack /\ Interrupts
      /\ IF payload = "tsp" THEN TspMask ELSE MmMask
  BY <1>1, Zenon DEF EhfInv
<1> DEFINE n == Len(frames)
<1>3. /\ n \in DOMAIN frames
      /\ \A i \in DOMAIN frames' : i \in DOMAIN frames /\ frames'[i] = frames[i] /\ i # n
      /\ \A i \in DOMAIN frames : i = n \/ i \in DOMAIN frames'
      /\ (frames' = <<>> => n = 1) /\ (n = 1 => frames' = <<>>)
      /\ frames' # <<>> => 1 \in DOMAIN frames' /\ frames'[1] = frames[1]
  BY <1>1, <1>2, Popped, Zenon DEF TypeOK
<1>4. /\ world' \in {"ns", "s"}
      /\ payload = "tsp" => (Top.from = "s" => n = 1 /\ InTsp) /\ (n = 1 /\ InTsp => Top.from = "s")
  BY <1>1, <1>2, <1>3, FrameFacts, Zenon DEF Top, TspMask
<1>5. Interrupts' /\ irqs' \in Seq(0..127) /\ frames' \in Seq(Frames)
  BY <1>1, <1>2, InterruptPopped, Zenon
<1>6. Stack'
  BY <1>1, <1>2, StackPopped, Zenon
<1>7. TypeOK'
  BY <1>1, <1>2, <1>4, <1>5, Zenon DEF TypeOK, InTsp
<1> HIDE DEF n
<1>8. CASE payload = "tsp"
  <2>1. TspMask
    BY <1>2, <1>8, Zenon
  <2>2. InTsp' <=> world' = "s" \/ (frames' # <<>> /\ frames'[1].from = "s")
    <3>1. CASE frames' = <<>>
      BY <1>1, <1>3, <1>4, <1>8, <3>1, Zenon DEF InTsp
    <3>2. CASE frames' # <<>>
      BY <1>1, <1>3, <1>4, <1>8, <2>1, <3>2, Zenon DEF InTsp, TspMask
    <3> QED BY <3>1, <3>2, Zenon
  <2>3. TspMask'
    BY <1>1, <1>3, <1>4, <1>8, <2>1, <2>2, Zenon DEF TspMask
  <2> QED BY <1>1, <1>5, <1>6, <1>7, <1>8, <2>3, Zenon DEF EhfInv, OldMaskOnly, Alive
<1>9. CASE payload # "tsp"
  <2>1. MmMask
    BY <1>2, <1>9, Zenon
  <2>3. \A i \in DOMAIN frames' : Activates(i)' => i \in DOMAIN frames /\ frames'[i] = frames[i] /\ Activates(i)
    BY <1>3, Zenon DEF Activates
  <2>4. \A i \in DOMAIN frames : Activates(i) => i \in DOMAIN frames' /\ frames'[i] = frames[i] /\ Activates(i)'
    BY <1>1, <1>3, Zenon DEF Activates, Top, n
  <2>5. MmMask'
    <3>1. \A i \in DOMAIN frames' : Activates(i)' => PriToIdx(frames'[i].pri) \in ehf'.active
      BY <1>1, <2>1, <2>3, Zenon DEF MmMask
    <3>2. \A x \in ehf'.active : \E i \in DOMAIN frames' : Activates(i)' /\ x = PriToIdx(frames'[i].pri)
      <4>1. \A x \in ehf.active : \E i \in DOMAIN frames : Activates(i) /\ x = PriToIdx(frames[i].pri)
        BY <2>1, Zenon DEF MmMask
      <4> QED BY <1>1, <2>4, <4>1, Zenon
    <3>3. IF ehf'.active = {} THEN ehf'.pmr = nsmask'
          ELSE /\ ehf'.init_pri_mask = nsmask'
               /\ \A i \in DOMAIN frames' : Activates(i)' => ehf'.pmr <= frames'[i].pri
      BY <1>1, <2>1, <2>3, Zenon DEF MmMask
    <3> QED BY <1>1, <2>1, <3>1, <3>2, <3>3, Zenon DEF MmMask, InTsp
  <2> QED BY <1>1, <1>5, <1>6, <1>7, <1>9, <2>5, Zenon DEF EhfInv, OldMaskOnly, Alive
<1> QED BY <1>8, <1>9, Zenon

-----------------------------------------------------------------------------
(* The steps of the build with the partition.                               *)

\* The priorities of the dispatches, and their indices.
LEMMA DispatchFacts ==
  ASSUME TypeOK, Stack, NEW i \in DOMAIN frames
  PROVE  frames[i].pri \in Dispatched
  BY Zenon DEF Stack, Dispatched

\* An activation below which every dispatch is: the framework's checks of the
\* running priority and of the highest activation pass.
LEMMA ActivationIsFirst ==
  ASSUME EhfInv, Alive, payload = "mm", NEW p \in Dispatched,
         \A i \in DOMAIN frames : p < frames[i].pri
  PROVE  ActivatedTo(ehf, Activate(ehf, RunPri, p), p)
<1>1. TypeOK /\ Stack /\ Interrupts /\ MmMask /\ ehf \in EhfStates
  BY Zenon DEF EhfInv, TypeOK
<1>2. p \in 0..127
  BY PriorityFacts
<1>3. p < RunPri /\ RunPri \in 0..255
  <2>1. /\ RunPri \in 0..255 /\ (irqs = <<>> => RunPri = Idle)
        /\ irqs # <<>> => Len(irqs) \in DOMAIN irqs /\ RunPri = irqs[Len(irqs)]
    BY <1>1, RunFacts, Zenon DEF TypeOK, Interrupts
  <2>2. CASE irqs = <<>>
    BY <1>2, <2>1, <2>2 DEF Idle
  <2>3. CASE irqs # <<>>
    <3>1. PICK i \in DOMAIN frames : RunPri = frames[i].pri
      BY <1>1, <2>1, <2>3, Zenon DEF Interrupts, MmMask
    <3> QED BY <2>1, <3>1, Zenon
  <2> QED BY <2>2, <2>3, Zenon
<1>4. ehf.active # {} => PriToIdx(p) < HighestActive(ehf)
  <2> SUFFICES ASSUME ehf.active # {} PROVE PriToIdx(p) < HighestActive(ehf)
    BY Zenon
  <2>1. HighestActive(ehf) \in ehf.active
    BY <1>1, EhfFields, HighestIsLowest, Zenon DEF HighestActive
  <2>2. PICK i \in DOMAIN frames : HighestActive(ehf) = PriToIdx(frames[i].pri)
    BY <1>1, <2>1, Zenon DEF MmMask
  <2>3. frames[i].pri \in Dispatched /\ p < frames[i].pri
    BY <1>1, DispatchFacts, Zenon
  <2> QED BY <2>2, <2>3, IdxOrder, Zenon
<1> QED BY <1>1, <1>2, <1>3, <1>4, Activated, Zenon

\* Such an activation is made, for an event or for the partition.
LEMMA ActivationPushed ==
  ASSUME EhfInv, Alive, payload = "mm", payload' = payload,
         NEW p \in Dispatched, NEW k \in {"event", "sp"},
         k = "sp" => p = PLAT_SP_PRI /\ world' = "s",
         k = "event" => p \in SdeiPriorities /\ world' = "ns",
         \A i \in DOMAIN frames : p < frames[i].pri /\ frames[i].kind # "sp",
         ehf' = Activate(ehf, RunPri, p), frames' = Append(frames, Frame(k, p, "ns")),
         irqs' = irqs, yield' = yield, tsp' = tsp, nsmask' = nsmask
  PROVE  EhfInv'
<1>1. TypeOK /\ Stack /\ Interrupts /\ MmMask /\ ehf \in EhfStates
  BY Zenon DEF EhfInv, TypeOK
<1>2. p \in 0..127
  BY PriorityFacts
<1>5. /\ ehf' \in EhfStates /\ ehf'.active = ehf.active \union {PriToIdx(p)} /\ ehf'.pmr = p
      /\ ehf'.ns_pri_mask = ehf.ns_pri_mask
      /\ \/ ehf'.fault = "activation mask"
         \/ /\ ehf'.fault = ehf.fault
            /\ ehf'.init_pri_mask = IF ehf.active = {} THEN ehf.pmr ELSE ehf.init_pri_mask
  <2>1. ActivatedTo(ehf, ehf', p)
    BY ActivationIsFirst, Zenon
  <2> QED BY <2>1, Zenon DEF ActivatedTo
<1> DEFINE f == Frame(k, p, "ns")
           n == Len(frames) + 1
<1>6. f \in Frames /\ f.kind = k /\ f.pri = p /\ f.from = "ns"
  BY <1>2, Zenon DEF Frame, Frames
<1> HIDE DEF f
<1>7. /\ frames' \in Seq(Frames) /\ frames' # <<>> /\ n \in DOMAIN frames' /\ frames'[n] = f
      /\ Len(frames') = n
      /\ \A i \in DOMAIN frames : i \in DOMAIN frames' /\ frames'[i] = frames[i]
      /\ \A i \in DOMAIN frames' : i = n \/ i \in DOMAIN frames
  <2>1. frames \in Seq(Frames) /\ frames' = Append(frames, f)
    BY <1>1, Zenon DEF TypeOK, f
  <2> QED BY <1>6, <2>1, Pushed
<1> HIDE DEF n
<1>8. TypeOK'
  <2>1. world' \in {"ns", "s"}
    BY Zenon
  <2> QED BY <1>1, <1>5, <1>7, <2>1, Zenon DEF TypeOK
<1>9. ehf'.active # {}
  BY <1>5, Zenon
<1>10. OldMaskOnly'
  BY <1>5, Zenon DEF OldMaskOnly, Alive
<1>11. ASSUME ehf'.fault = "none" PROVE Stack' /\ Interrupts' /\ MmMask'
  <2>1. ~InTsp /\ ehf.ns_pri_mask = 0
    BY <1>1, Zenon DEF MmMask
  <2>3. Stack'
    <3>1. frames' = Append(frames, f)
      BY Zenon DEF f
    <3> QED BY <1>1, <1>6, <2>1, <3>1, StackPushed, Zenon
  <2>4. Interrupts'
    BY <1>1, <1>6, <1>7, <2>1, InterruptsKept, Zenon
  <2>5. ehf'.init_pri_mask = nsmask
    BY <1>1, <1>5, <1>11, Zenon DEF MmMask
  <2>7. ASSUME NEW i \in DOMAIN frames', Activates(i)' PROVE PriToIdx(frames'[i].pri) \in ehf'.active
    <3>1. CASE i = n
      BY <1>5, <1>6, <1>7, <3>1, Zenon
    <3>2. CASE i \in DOMAIN frames
      <4>1. frames'[i] = frames[i] /\ Activates(i)
        BY <1>7, <2>7, <3>2, Zenon DEF Activates
      <4>2. PriToIdx(frames[i].pri) \in ehf.active
        BY <1>1, <3>2, <4>1, Zenon DEF MmMask
      <4> QED BY <1>5, <4>1, <4>2, Zenon
    <3> QED BY <1>7, <2>7, <3>1, <3>2, Zenon
  <2>8. ASSUME NEW x \in ehf'.active
        PROVE  \E i \in DOMAIN frames' : Activates(i)' /\ x = PriToIdx(frames'[i].pri)
    <3>1. CASE x = PriToIdx(p)
      BY <1>6, <1>7, <3>1, Zenon DEF Activates
    <3>2. CASE x \in ehf.active
      <4>1. PICK i \in DOMAIN frames : Activates(i) /\ x = PriToIdx(frames[i].pri)
        BY <1>1, <3>2, Zenon DEF MmMask
      <4> QED BY <1>7, <4>1, Zenon DEF Activates
    <3> QED BY <1>5, <2>8, <3>1, <3>2, Zenon
  <2>9. \A i \in DOMAIN frames' : ehf'.pmr <= frames'[i].pri
    <3>1. /\ p \in Masks /\ \A i \in DOMAIN frames : frames[i].pri \in Masks
      BY <1>1, <1>2, FrameFacts, Order, Zenon
    <3>2. p <= p /\ \A i \in DOMAIN frames : p <= frames[i].pri
      BY <3>1, Order, Zenon
    <3> QED BY <1>5, <1>6, <1>7, <3>2, Zenon
  <2> QED BY <1>5, <1>7, <1>9, <2>1, <2>3, <2>4, <2>5, <2>7, <2>8, <2>9, Zenon DEF MmMask, InTsp
<1> QED BY <1>8, <1>9, <1>10, <1>11, Zenon DEF EhfInv, Alive

\* The last activation is deactivated: it is the highest, and the mask lets
\* nothing between it and the dispatches below through.
LEMMA ActivationPopped ==
  ASSUME EhfInv, Alive, payload = "mm", payload' = payload, frames # <<>>, Top.kind # "irq",
         world' = "ns", ehf' = Deactivate(ehf, RunPri, Top.pri), frames' = Front(frames),
         irqs' = irqs, yield' = yield, tsp' = tsp, nsmask' = nsmask
  PROVE  EhfInv'
<1>1. TypeOK /\ Stack /\ Interrupts /\ MmMask /\ ehf \in EhfStates /\ ehf.fault = "none"
  BY Zenon DEF EhfInv, TypeOK, Alive
<1> DEFINE n == Len(frames)
           p == Top.pri
<1>2. /\ n \in DOMAIN frames /\ frames' \in Seq(Frames)
      /\ \A i \in DOMAIN frames' : i \in DOMAIN frames /\ frames'[i] = frames[i] /\ i < n /\ i # n
      /\ \A i \in DOMAIN frames : i = n \/ i \in DOMAIN frames'
  BY <1>1, Popped, Zenon DEF TypeOK
<1>3. p = frames[n].pri /\ Activates(n) /\ p \in 0..127 /\ p \in Dispatched
  BY <1>1, <1>2, FrameFacts, DispatchFacts, Zenon DEF Top, Activates
<1>4. \A i \in DOMAIN frames' : p < frames[i].pri /\ frames[i].pri \in Dispatched
  BY <1>1, <1>2, DispatchFacts, Zenon DEF Stack, Top
<1> HIDE DEF n, p
<1>5. p < RunPri /\ RunPri \in 0..255
  <2>1. /\ RunPri \in 0..255 /\ (irqs = <<>> => RunPri = Idle)
        /\ irqs # <<>> => Len(irqs) \in DOMAIN irqs /\ RunPri = irqs[Len(irqs)]
    BY <1>1, RunFacts, Zenon DEF TypeOK, Interrupts
  <2>2. CASE irqs = <<>>
    <3>1. RunPri = Idle /\ p \in 0..127
      BY <1>3, <2>1, <2>2, Zenon
    <3> QED BY <2>1, <3>1 DEF Idle
  <2>3. CASE irqs # <<>>
    <3>1. PICK i \in DOMAIN frames : frames[i].kind = "irq" /\ RunPri = frames[i].pri
      BY <1>1, <2>1, <2>3, Zenon DEF Interrupts, MmMask
    <3>2. i # n
      BY <1>3, <3>1, Zenon DEF Activates
    <3> QED BY <1>2, <1>4, <2>1, <3>1, <3>2, Zenon
  <2> QED BY <2>2, <2>3, Zenon
<1>6. \A x \in ehf.active : x = PriToIdx(p) \/ \E i \in DOMAIN frames' : Activates(i) /\ x = PriToIdx(frames[i].pri)
  BY <1>1, <1>2, <1>3, Zenon DEF MmMask
<1>7. \A i \in DOMAIN frames' : PriToIdx(p) < PriToIdx(frames[i].pri)
  BY <1>3, <1>4, IdxOrder, Zenon
<1>8. PriToIdx(p) \in ehf.active /\ ehf.pmr <= p
  BY <1>1, <1>2, <1>3, Zenon DEF MmMask
<1>9. ehf.active \in SUBSET (0..127) /\ ehf.active # {}
  BY <1>1, <1>8, EhfFields, Zenon
<1>10. PriToIdx(p) \in Masks /\ \A i \in DOMAIN frames' : PriToIdx(frames[i].pri) \in Masks
  BY <1>1, <1>2, <1>3, IdxRange, FrameFacts, Order, Zenon
<1>11. PriToIdx(p) = HighestActive(ehf)
  <2>1. ASSUME NEW x \in ehf.active PROVE PriToIdx(p) <= x
    <3>1. CASE x = PriToIdx(p)
      BY <1>10, <3>1, Order, Zenon
    <3>2. ASSUME NEW i \in DOMAIN frames', x = PriToIdx(frames[i].pri) PROVE PriToIdx(p) <= x
      BY <1>7, <1>10, <3>2, Order, Zenon
    <3> QED BY <1>6, <2>1, <3>1, <3>2, Zenon
  <2> QED BY <1>8, <1>9, <2>1, LowestIs, Zenon DEF HighestActive
<1>12. /\ ehf' \in EhfStates /\ ehf'.active = ehf.active \ {PriToIdx(p)} /\ ehf'.fault = ehf.fault
       /\ ehf'.ns_pri_mask = ehf.ns_pri_mask /\ ehf'.init_pri_mask = ehf.init_pri_mask
       /\ ehf'.pmr = IF ehf'.active = {} THEN ehf.init_pri_mask ELSE p
  <2>1. ehf' = Deactivate(ehf, RunPri, p)
    BY Zenon DEF p
  <2>2. DeactivatedTo(ehf, ehf', p)
    BY <1>1, <1>3, <1>5, <1>8, <1>9, <1>11, <2>1, Deactivated, Zenon
  <2> QED BY <2>2, Zenon DEF DeactivatedTo
<1>13. TypeOK'
  BY <1>1, <1>2, <1>12, Zenon DEF TypeOK
<1>14. Stack'
  BY <1>1, StackPopped, Zenon
<1>15. Interrupts'
  <2>1. ~InTsp
    BY <1>1, Zenon DEF MmMask
  <2>2. frames[n].kind # "irq"
    BY Zenon DEF Top, n
  <2> QED BY <1>1, <1>2, <2>1, <2>2, InterruptsKept, Zenon
<1>16. MmMask'
  <2>1. \A i \in DOMAIN frames' : Activates(i)' => PriToIdx(frames'[i].pri) \in ehf'.active
    <3>1. \A i \in DOMAIN frames' : PriToIdx(frames[i].pri) # PriToIdx(p)
      BY <1>7, <1>10, Order, Zenon
    <3> QED BY <1>1, <1>2, <1>12, <3>1, Zenon DEF MmMask, Activates
  <2>2. ASSUME NEW x \in ehf'.active
        PROVE  \E i \in DOMAIN frames' : Activates(i)' /\ x = PriToIdx(frames'[i].pri)
    <3>1. x \in ehf.active /\ x # PriToIdx(p)
      BY <1>12, <2>2, Zenon
    <3>2. PICK i \in DOMAIN frames' : Activates(i) /\ x = PriToIdx(frames[i].pri)
      BY <1>6, <3>1, Zenon
    <3> QED BY <1>2, <3>2, Zenon DEF Activates
  <2>3. \A i \in DOMAIN frames' : p <= frames'[i].pri
    <3>1. /\ p \in Masks /\ \A i \in DOMAIN frames : frames[i].pri \in Masks
      BY <1>1, <1>3, FrameFacts, Order, Zenon
    <3> QED BY <1>2, <1>4, <3>1, Order, Zenon
  <2>4. ehf.init_pri_mask = nsmask
    BY <1>1, <1>9, Zenon DEF MmMask
  <2> QED BY <1>1, <1>12, <2>1, <2>2, <2>3, <2>4, Zenon DEF MmMask, InTsp
<1> QED BY <1>1, <1>12, <1>13, <1>14, <1>15, <1>16, Zenon DEF EhfInv, OldMaskOnly

\* The RAS handler ends its interrupt and dispatches an event: no hook acts,
\* since its own priority is secure and the event's is then active.
LEMMA RasInterruptStep ==
  ASSUME EhfInv, payload' = payload, NEW p \in SdeiPriorities, RasInterrupt(p)
  PROVE  EhfInv'
<1> DEFINE a == Activate(ehf, RunPri, p)
<1>1. /\ Alive /\ payload = "mm" /\ Signalled(PLAT_RAS_PRI) /\ CanDispatch(p)
      /\ ehf' = EnteringNormalWorld(Activate(ExitedNormalWorld(ehf, PLAT_RAS_PRI), RunPri, p), RunPri)
      /\ frames' = Append(frames, Frame("event", p, "ns")) /\ irqs' = irqs
      /\ world' = "ns" /\ yield' = yield /\ tsp' = tsp /\ nsmask' = nsmask
  BY Zenon DEF RasInterrupt
<1>2. TypeOK /\ Stack /\ p \in Dispatched
  BY <1>1, Zenon DEF EhfInv, Dispatched
<1>3. Engaged(ehf, PLAT_RAS_PRI)
  BY PriorityFacts DEF Engaged, IsPriSecure
<1>8. \A i \in DOMAIN frames : frames[i].kind # "sp"
  BY <1>1, NoDispatchAbovePartition, Zenon
<1>4. ASSUME NEW i \in DOMAIN frames PROVE p < frames[i].pri
  <2> DEFINE n == Len(frames)
  <2>1. n \in DOMAIN frames /\ \A j \in DOMAIN frames : ~(n < j) /\ (j = n \/ j < n)
    <3>1. DOMAIN frames = 1..n /\ n \in Nat
      BY <1>2 DEF TypeOK
    <3>2. i \in 1..n
      BY <1>4, <3>1, Zenon
    <3> QED BY <3>1, <3>2
  <2> HIDE DEF n
  <2>2. IsLastDispatch(n)
    BY <1>2, <1>8, <2>1, Zenon DEF IsLastDispatch
  <2>3. p < frames[n].pri
    BY <1>1, <2>1, <2>2, Zenon DEF CanDispatch
  <2>4. p \in Masks /\ frames[n].pri \in Masks /\ frames[i].pri \in Masks
    <3>1. p \in 0..127
      BY PriorityFacts
    <3> QED BY <1>2, <1>4, <2>1, <3>1, FrameFacts, Order, Zenon
  <2>5. i = n \/ frames[n].pri < frames[i].pri
    BY <1>2, <1>4, <2>1, Zenon DEF Stack
  <2>6. ASSUME frames[n].pri < frames[i].pri PROVE p < frames[i].pri
    <3> HIDE <1>1, <1>2, <1>3, <2>1, <2>2, <2>5
    <3> QED BY <2>3, <2>4, <2>6, Order, Zenon
  <2> QED BY <2>3, <2>5, <2>6, Zenon
<1>5. ActivatedTo(ehf, a, p)
  BY <1>1, <1>2, <1>4, ActivationIsFirst, Zenon
<1>6. Engaged(a, RunPri)
  BY <1>5, Zenon DEF ActivatedTo, Engaged
<1>7. ehf' = a
  BY <1>1, <1>3, <1>6, HooksIdle, Zenon
<1> QED BY <1>1, <1>2, <1>4, <1>7, <1>8, ActivationPushed, Zenon

\* The event is not dispatched, and EL3 returns into the partition.
LEMMA RasUndispatchedStep ==
  ASSUME EhfInv, payload' = payload, RasUndispatched
  PROVE  EhfInv'
<1>1. /\ Alive /\ payload = "mm" /\ ehf' = ExitedNormalWorld(ehf, PLAT_RAS_PRI)
      /\ world' = "s" /\ frames' = frames /\ irqs' = irqs
      /\ yield' = yield /\ tsp' = tsp /\ nsmask' = nsmask
  BY Zenon DEF RasUndispatched
<1>2. TypeOK /\ Stack /\ Interrupts /\ MmMask
  BY <1>1, Zenon DEF EhfInv
<1>3. Engaged(ehf, PLAT_RAS_PRI)
  BY PriorityFacts DEF Engaged, IsPriSecure
<1>4. ehf' = ehf
  BY <1>1, <1>3, HooksIdle, Zenon
<1>5. TypeOK'
  BY <1>1, <1>2, <1>4, Zenon DEF TypeOK
<1>6. Stack' /\ Interrupts' /\ MmMask'
  BY <1>1, <1>2, <1>4, Zenon DEF Stack, Interrupts, MmMask, InTsp, Activates
<1> QED BY <1>1, <1>4, <1>5, <1>6, Zenon DEF EhfInv, OldMaskOnly, Alive

\* The handler of an event completes.
LEMMA CompleteEventStep ==
  ASSUME EhfInv, payload' = payload, CompleteEvent
  PROVE  EhfInv'
<1>1. /\ Alive /\ world = "ns" /\ frames # <<>> /\ Top.kind = "event"
      /\ ehf' = Deactivate(ehf, RunPri, Top.pri) /\ frames' = Front(frames)
      /\ irqs' = irqs /\ world' = world /\ yield' = yield /\ tsp' = tsp /\ nsmask' = nsmask
  BY Zenon DEF CompleteEvent
<1>2. Len(frames) \in DOMAIN frames
  BY <1>1, EmptyStack, Zenon DEF EhfInv, TypeOK
<1>3. payload # "tsp"
  BY <1>1, <1>2, Zenon DEF EhfInv, TspMask, Top
<1>4. payload = "mm"
  BY <1>3, PriorityAssumption, Zenon DEF EhfInv, TypeOK
<1> QED BY <1>1, <1>4, ActivationPopped, Zenon

\* mm_communicate() activates the partition's priority, and the hook that
\* follows leaves the mask alone.
LEMMA MmCommunicateStep ==
  ASSUME EhfInv, payload' = payload, MmCommunicate
  PROVE  EhfInv'
<1> DEFINE a == Activate(ehf, RunPri, PLAT_SP_PRI)
<1>1. /\ Alive /\ payload = "mm" /\ world = "ns" /\ world' = "s"
      /\ ehf' = ExitedNormalWorld(a, RunPri)
      /\ frames' = Append(frames, Frame("sp", PLAT_SP_PRI, "ns")) /\ irqs' = irqs
      /\ yield' = yield /\ tsp' = tsp /\ nsmask' = nsmask
  BY Zenon DEF MmCommunicate
<1>2. PLAT_SP_PRI \in Dispatched
  BY Zenon DEF Dispatched
<1>3. \A i \in DOMAIN frames : PLAT_SP_PRI < frames[i].pri /\ frames[i].kind # "sp"
  BY <1>1, PriorityFacts, Zenon DEF EhfInv, Stack
<1>4. ActivatedTo(ehf, a, PLAT_SP_PRI)
  BY <1>1, <1>2, <1>3, ActivationIsFirst, Zenon
<1>5. Engaged(a, RunPri)
  BY <1>4, Zenon DEF ActivatedTo, Engaged
<1>6. ehf' = a
  BY <1>1, <1>5, HooksIdle, Zenon
<1> QED BY <1>1, <1>2, <1>3, <1>6, ActivationPushed, Zenon

\* The partition returns: the hook leaves the mask alone, its own activation
\* being the last, and the deactivation follows.
LEMMA MmReturnStep ==
  ASSUME EhfInv, payload' = payload, MmReturn
  PROVE  EhfInv'
<1>1. /\ Alive /\ payload = "mm" /\ Serving /\ world' = "ns"
      /\ ehf' = Deactivate(EnteringNormalWorld(ehf, RunPri), RunPri, PLAT_SP_PRI)
      /\ frames' = Front(frames) /\ irqs' = irqs /\ yield' = yield /\ tsp' = tsp /\ nsmask' = nsmask
  BY Zenon DEF MmReturn
<1>2. TypeOK /\ Stack /\ MmMask /\ frames # <<>> /\ Top.kind = "sp"
  BY <1>1, Zenon DEF EhfInv, MmMask, InTsp, Serving
<1>3. Len(frames) \in DOMAIN frames
  BY <1>2, EmptyStack, Zenon DEF TypeOK
<1>4. Top.pri = PLAT_SP_PRI /\ ehf.active # {}
  BY <1>2, <1>3, Zenon DEF Stack, Top, MmMask, Activates
<1>5. Engaged(ehf, RunPri)
  BY <1>4, Zenon DEF Engaged
<1>6. ehf' = Deactivate(ehf, RunPri, Top.pri)
  BY <1>1, <1>4, <1>5, HooksIdle, Zenon
<1>7. Top.kind # "irq"
  BY <1>2, Zenon
<1> QED BY <1>1, <1>2, <1>6, <1>7, ActivationPopped, Zenon

-----------------------------------------------------------------------------
(* The theorems.                                                            *)

\* The invariant holds when the normal world first runs.
LEMMA EhfStarts == Init => EhfInv
<1> SUFFICES ASSUME Init PROVE EhfInv
  BY Zenon
<1>1. /\ payload \in Payloads /\ nsmask \in NsMasks /\ ehf = EhfInit(nsmask) /\ irqs = <<>>
      /\ world = "ns" /\ frames = <<>> /\ yield = FALSE /\ tsp = "none"
  BY Zenon DEF Init
<1>2. nsmask \in Masks /\ 0 \in Masks /\ {} \in Maps
  BY <1>1, PriorityFacts DEF Masks, Maps
<1>3. /\ ehf \in EhfStates /\ ehf.active = {} /\ ehf.ns_pri_mask = 0 /\ ehf.pmr = nsmask
      /\ ehf.fault = "none"
  BY <1>1, <1>2, EhfRecord, Zenon DEF EhfInit, Faults
<1>4. irqs \in Seq(0..127) /\ frames \in Seq(Frames)
  BY <1>1
<1>5. TypeOK
  BY <1>1, <1>3, <1>4, Zenon DEF TypeOK
<1>6. (\A i \in DOMAIN irqs : FALSE) /\ (\A i \in DOMAIN frames : FALSE)
  BY <1>1, <1>4, EmptyStack, Zenon
<1>7. Stack /\ Interrupts
  BY <1>6, Zenon DEF Stack, Interrupts
<1>8. TspMask /\ MmMask
  BY <1>1, <1>3, <1>6, Zenon DEF TspMask, MmMask, InTsp
<1> QED BY <1>3, <1>5, <1>7, <1>8, Zenon DEF EhfInv, OldMaskOnly

\* Every step keeps it.
LEMMA EhfStep == EhfInv /\ [Next]_vars => EhfInv'
<1> SUFFICES ASSUME EhfInv, [Next]_vars PROVE EhfInv'
  BY Zenon
<1>1. CASE UNCHANGED vars
  BY <1>1, Zenon DEF vars, EhfInv, TypeOK, OldMaskOnly, Alive, Stack, Interrupts,
                     TspMask, MmMask, InTsp, Activates, Top
<1>2. CASE Step /\ payload' = payload
  <2>1. ASSUME NEW m \in NsMasks, SetNsMask(m) PROVE EhfInv'
    BY <1>2, <2>1, SetNsMaskStep, Zenon
  <2>2. CASE TspFastCall \/ TspYieldCall \/ TspResume \/ TspAbort \/ SEl1Interrupt
    BY <1>2, <2>2, TspCallStep, Zenon
  <2>3. CASE TspReturn \/ TspPreempted \/ TspAbortDone \/ TspHandledSEl1Intr
    BY <1>2, <2>3, LeaveTspStep, Zenon
  <2>4. CASE TspAcknowledge \/ TspEndOfInterrupt
    BY <1>2, <2>4, TspInterruptStep, Zenon
  <2>5. ASSUME NEW p \in SdeiPriorities, SdeiInterrupt(p) PROVE EhfInv'
    BY <1>2, <2>5, SdeiInterruptStep, Zenon
  <2>6. CASE CompleteInterrupt
    BY <1>2, <2>6, CompleteInterruptStep, Zenon
  <2>7. ASSUME NEW p \in SdeiPriorities, RasInterrupt(p) PROVE EhfInv'
    BY <1>2, <2>7, RasInterruptStep, Zenon
  <2>8. CASE CompleteEvent
    BY <1>2, <2>8, CompleteEventStep, Zenon
  <2>9. CASE MmCommunicate
    BY <1>2, <2>9, MmCommunicateStep, Zenon
  <2>10. CASE MmReturn
    BY <1>2, <2>10, MmReturnStep, Zenon
  <2>11. CASE RasUndispatched
    BY <1>2, <2>11, RasUndispatchedStep, Zenon
  <2> QED BY <1>2, <2>1, <2>2, <2>3, <2>4, <2>5, <2>6, <2>7, <2>8, <2>9, <2>10, <2>11, Zenon DEF Step
<1> QED BY <1>1, <1>2, Zenon DEF Next

\* The framework's records agree with the dispatches, the interrupts and the
\* mask of the normal world, in every state of every run.
THEOREM EhfInvariant == Spec => []EhfInv
<1> QED BY EhfStarts, EhfStep, PTL DEF Spec

\* The normal world, outside any handler, finds the mask it programmed: the
\* hooks of ehf_exited_normal_world() and ehf_entering_normal_world(), and the
\* activations and deactivations of ehf.c, undo one another.
THEOREM MaskRestored == Spec => []NsMaskRestored
<1>1. EhfInv => NsMaskRestored
  BY AtBase, Zenon DEF NsMaskRestored
<1> QED BY <1>1, EhfInvariant, PTL

\* While the secure world serves a call, Non-secure interrupts reach it just
\* when the call is a yielding one, and ehf_is_ns_preemption_allowed() tells just this.
THEOREM PreemptionExact == Spec => []PreemptionIsExact
<1>1. EhfInv => PreemptionIsExact
  <2> SUFFICES ASSUME EhfInv, Alive, Serving
               PROVE  /\ IF tsp = "yield" THEN ehf.pmr = nsmask
                         ELSE \A p \in NsPriorities : ~Signalled(p)
                      /\ IsNsPreemptionAllowed(ehf, RunPri) <=> tsp = "yield" /\ ~TspAcked
    BY Zenon DEF PreemptionIsExact
  <2>1. TypeOK /\ Stack /\ Interrupts
    BY Zenon DEF EhfInv
  <2>2. nsmask # 0 /\ \A p \in NsPriorities : ~(p < GIC_HIGHEST_NS_PRIORITY)
    <3>1. nsmask \in NsMasks
      BY <2>1, Zenon DEF TypeOK
    <3> QED BY <3>1, PriorityFacts DEF GIC_HIGHEST_NS_PRIORITY
  <2>3. CASE payload = "tsp"
    <3>1. InTsp
      BY <2>1, <2>3, Zenon DEF TypeOK, InTsp, Serving
    <3>2. TspMask /\ (irqs # <<>> => TspAcked) /\ (irqs = <<>> => RunPri = Idle)
      BY <3>1, TspRuns, Zenon DEF Serving
    <3>3. IsPriSecure(RunPri) <=> TspAcked
      <4>1. SEl1Priority \in 0..127
        BY PriorityFacts, Zenon
      <4>2. ~IsPriSecure(Idle) /\ SEl1Priority # Idle /\ IsPriSecure(SEl1Priority)
        BY <4>1 DEF IsPriSecure, Idle
      <4> QED BY <3>2, <4>2, Zenon DEF TspAcked
    <3>4. ehf.active = {} /\ (ehf.ns_pri_mask = 0 <=> tsp = "yield")
      BY <2>2, <3>1, <3>2, Zenon DEF TspMask, InTsp
    <3>5. IsNsPreemptionAllowed(ehf, RunPri) <=> tsp = "yield" /\ ~TspAcked
      BY <3>3, <3>4, Zenon DEF IsNsPreemptionAllowed, Engaged
    <3> QED BY <2>2, <3>1, <3>2, <3>5, Zenon DEF TspMask, InTsp, Signalled
  <2>4. CASE payload # "tsp"
    <3>1. MmMask /\ tsp = "none" /\ frames # <<>> /\ Top.kind = "sp"
      BY <2>4, Zenon DEF EhfInv, MmMask, InTsp, Serving
    <3>2. Len(frames) \in DOMAIN frames
      BY <2>1, <3>1, EmptyStack, Zenon DEF TypeOK
    <3>3. ehf.active # {} /\ ehf.pmr <= Top.pri /\ Top.pri \in 0..127
      BY <2>1, <3>1, <3>2, FrameFacts, Zenon DEF MmMask, Activates, Top
    <3>4. ehf.pmr \in 0..255
      <4>1. ehf \in EhfStates
        BY <2>1, Zenon DEF TypeOK
      <4> QED BY <4>1, EhfFields
    <3>5. \A p \in NsPriorities : ~(p < ehf.pmr)
      <4>1. \A p \in NsPriorities : p \in 128..254
        BY PriorityFacts, Zenon
      <4>2. \A a \in 0..255 : \A b \in 0..127 : a <= b => \A p \in 128..254 : ~(p < a)
        OBVIOUS
      <4> QED BY <3>3, <3>4, <4>1, <4>2, Zenon
    <3>6. ~IsNsPreemptionAllowed(ehf, RunPri)
      BY <3>3, Zenon DEF IsNsPreemptionAllowed, Engaged
    <3>7. \A p \in NsPriorities : ~Signalled(p)
      BY <3>5, Zenon DEF Signalled
    <3> QED BY <3>1, <3>6, <3>7, Zenon
  <2> QED BY <2>3, <2>4, Zenon
<1> QED BY <1>1, EhfInvariant, PTL

\* The dispatches nest at strictly rising priority, as sdei_intr_handler()
\* asserts, and nothing at or below an outstanding one is signalled.
THEOREM DispatchesAreNested == Spec => []DispatchesNest
<1>1. EhfInv => DispatchesNest
  <2> SUFFICES ASSUME EhfInv, Alive, NEW i \in DOMAIN frames
               PROVE  /\ \A j \in DOMAIN frames : i < j => frames[j].pri < frames[i].pri
                      /\ \A p \in SdeiPriorities \union {PLAT_RAS_PRI} : Signalled(p) => p < frames[i].pri
    BY Zenon DEF DispatchesNest
  <2>1. \A p \in SdeiPriorities \union {PLAT_RAS_PRI} : p \in 0..127
    BY PriorityFacts
  <2>2. \A p \in SdeiPriorities \union {PLAT_RAS_PRI} : Signalled(p) => p < frames[i].pri
    BY <2>1, SignalledIsAbove, Zenon
  <2> QED BY <2>2, Zenon DEF EhfInv, Stack
<1> QED BY <1>1, EhfInvariant, PTL

\* The hooks of TSPD and SDEI match: with the TSP below EL3 no panic and no
\* failed assertion of ehf.c.
THEOREM ActivationsAreMatched == Spec => []ActivationsMatch
<1>1. EhfInv => ActivationsMatch
  BY Zenon DEF EhfInv, OldMaskOnly, ActivationsMatch
<1> QED BY <1>1, EhfInvariant, PTL
=============================================================================
