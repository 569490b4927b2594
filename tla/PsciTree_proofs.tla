-------------------------- MODULE PsciTree_proofs --------------------------
(***************************************************************************)
(* The inductive invariant of lib/psci, and what it says of the power      *)
(* domain tree: the lemmas here are about one pass over the path of a CPU, *)
(* psci_do_state_coordination() on the way down and                        *)
(* psci_set_pwr_domains_to_run() on the way up.                            *)
(*                                                                         *)
(* The heart of the argument is Coordinated: the state of a power domain   *)
(* is always the shallowest of the states requested for it, although each  *)
(* CPU coordinates only as many levels as its own request needs.           *)
(***************************************************************************)
EXTENDS Psci, TLAPS
LOCAL INSTANCE WellFoundedInduction

Lowering == {"off", "suspend", "retention", "system_suspend"}
UnderLocks == {"lock", "work", "unlock", "on_finish", "suspend_finish"}
OnLocked == {"on_validate", "on_platform", "on_context", "on_unlock"}

\* What a CPU is to the tree: it runs, ...
Awake(c) == \/ pc[c] \in OnLocked \cup {"ns", "last_check", "on_lock"}
            \/ pc[c] \in {"lock", "work"} /\ op[c] \in Lowering
            \/ pc[c] = "unlock" /\ next_pc[c] = "ns"

\* ... it is in a multi-level standby state, ...
Retained(c) == \/ pc[c] = "wfi"
               \/ pc[c] \in {"lock", "work"} /\ op[c] = "standby_finish"
               \/ pc[c] = "unlock" /\ next_pc[c] = "wfi"

\* ... it comes out of reset, ...
Booting(c) == \/ pc[c] \in {"reset", "on_finish", "suspend_finish"}
              \/ pc[c] \in {"lock", "work"} /\ op[c] = "warmboot"

\* ... it is suspended to power down, ...
Suspended(c) == \/ pc[c] = "suspended"
                \/ pc[c] = "unlock" /\ next_pc[c] = "suspended"
                \/ Booting(c) /\ aff_info_state[c] = "ON"

\* ... or it was turned off.
TurnedOff(c) == \/ pc[c] \in {"aff_off", "off"}
                \/ pc[c] = "unlock" /\ next_pc[c] = "aff_off"
                \/ Booting(c) /\ aff_info_state[c] = "ON_PENDING"

\* A CPU holds the locks of its ancestors up to a level, and no others.
LockInv == \A c \in CPU, n \in Node : lock[n] = c <=> \E l \in 1..held[c] : Anc[c][l] = n

\* No level up to e is shallower than those above it.
Sound(info, e) ==
  \A k, l \in 0..e : k <= l => find_local_state_type(info[l]) <= find_local_state_type(info[k])

\* What the locals of an operation are at each of its places.
Control(c) ==
  /\ op[c] = "none" <=> pc[c] \notin UnderLocks
  /\ op[c] = "none" => held[c] = 0
  /\ pc[c] = "lock" => held[c] < end_pwrlvl[c]
  /\ pc[c] \in {"work", "on_finish", "suspend_finish"} => held[c] = end_pwrlvl[c]
  /\ pc[c] \in {"on_finish", "suspend_finish"} => op[c] = "warmboot"
  /\ pc[c] # "unlock" => next_pc[c] = "ns"
  /\ next_pc[c] \in {"ns", "aff_off", "suspended", "wfi"}
  /\ next_pc[c] = "aff_off" => op[c] = "off"
  /\ next_pc[c] = "suspended" => op[c] \in {"suspend", "system_suspend"}
  /\ next_pc[c] = "wfi" => op[c] = "retention"

\* What it asked for is fit for coordination, and the levels it wakes are those
\* it put down.
Asked(c) ==
  /\ pc[c] \in {"lock", "work"} /\ op[c] \in Lowering => Sound(state_info[c], end_pwrlvl[c])
  /\ pc[c] \in {"lock", "work"} /\ op[c] \in {"off", "system_suspend"} =>
       end_pwrlvl[c] = MaxLvl /\ state_info[c] = PowerOffState
  /\ pc[c] \in {"lock", "work"} /\ op[c] = "suspend" => is_local_state_off(state_info[c][0])
  /\ op[c] = "warmboot" /\ pc[c] # "unlock" =>
       end_pwrlvl[c] = IF target_pwrlvl[c] = NoLvl THEN MaxLvl ELSE target_pwrlvl[c]

\* What a CPU requests of the tree.
Requesting(c) ==
  /\ Awake(c) => local_state[c] = RUN /\ \A l \in Lvl : req_local[c][l] = RUN
  /\ pc[c] = "standby" => \A l \in Lvl : req_local[c][l] = RUN
  /\ Retained(c) => \A l \in Lvl : l > end_pwrlvl[c] => req_local[c][l] = RUN
  /\ Suspended(c) => \A l \in Lvl : l > target_pwrlvl[c] => req_local[c][l] = RUN
  /\ TurnedOff(c) => \A l \in Lvl : req_local[c][l] = MaxOff
  /\ op[c] = "system_suspend" /\ next_pc[c] = "suspended" => \A l \in Lvl : req_local[c][l] = MaxOff

\* What its affinity state is, and what the warm boot of a suspended CPU needs.
Affinity(c) ==
  /\ pc[c] # "off" /\ ~Booting(c) => aff_info_state[c] = "ON"
  /\ pc[c] = "off" => aff_info_state[c] # "ON"
  /\ Booting(c) => aff_info_state[c] # "OFF"
  /\ pc[c] = "on_finish" => aff_info_state[c] = "ON_PENDING"
  /\ pc[c] = "suspend_finish" => aff_info_state[c] = "ON"
  /\ target_pwrlvl[c] # NoLvl <=> Suspended(c)
  /\ Suspended(c) => ctx_ready[c] /\ is_local_state_off(local_state[c])

\* CPU_ON: the CPU lock, and what its holder has done for the target so far.
TurningOn(c) ==
  /\ cpu_lock[c] # None => target[cpu_lock[c]] = c /\ pc[cpu_lock[c]] \in OnLocked
  /\ pc[c] \in OnLocked => target[c] # None /\ cpu_lock[target[c]] = c
  /\ pc[c] = "on_lock" => target[c] # None
  /\ pc[c] = "on_platform" =>
       aff_info_state[target[c]] = "ON_PENDING" /\ pc[target[c]] = "off" /\ ~poweron[target[c]]
  /\ poweron[c] => pc[c] = "off" /\ aff_info_state[c] = "ON_PENDING"
  /\ aff_info_state[c] = "ON_PENDING" /\ ~ctx_ready[c] =>
       cpu_lock[c] # None /\ pc[cpu_lock[c]] \in {"on_platform", "on_context"}

\* The state of a domain is the shallowest of the states requested for it, and
\* no CPU requests a deeper state of a domain than of one below it.
Coordinated ==
  /\ \A c \in CPU, l \in Lvl :
       /\ pd_state[Anc[c][l]] <= req_local[c][l]
       /\ \E d \in CPU : Anc[d][l] = Anc[c][l] /\ req_local[d][l] = pd_state[Anc[c][l]]
  /\ \A c \in CPU : \A k, l \in Lvl : k <= l =>
       find_local_state_type(req_local[c][l]) <= find_local_state_type(req_local[c][k])
  /\ \A c \in CPU : find_local_state_type(req_local[c][1]) <= find_local_state_type(local_state[c])
  /\ \A n \in Node : Below(n) = {} => pd_state[n] = MaxOff

\* A domain that is down is accounted to a CPU below it, unless none of its
\* CPUs was ever up.
Accounted ==
  /\ \A c \in CPU, l \in Lvl :
       pd_state[Anc[c][l]] # RUN /\ last_cpu[Anc[c][1]] # None => last_cpu[Anc[c][l]] # None
  /\ \A n \in Node : last_cpu[n] # None => last_cpu[n] \in Below(n)

Local(c) == Control(c) /\ Asked(c) /\ Requesting(c) /\ Affinity(c) /\ TurningOn(c)

PsciInv == /\ TypeOK /\ LockInv
           /\ \A c \in CPU : Local(c)
           /\ Coordinated /\ Accounted /\ SnapshotIsCurrent
-----------------------------------------------------------------------------
\* Sets of numbers have a least element, and bounded ones a greatest.
LEMMA MinExists ==
  ASSUME NEW S, S \subseteq Nat, S # {}
  PROVE  \E x \in S : \A y \in S : x <= y
<1>1. PICK x \in S : \A y \in S : ~(<<y, x>> \in OpToRel(<, Nat))
  BY NatLessThanWellFounded, WFMin, Zenon
<1>2. \A y \in S : ~(y < x)
  BY <1>1, Zenon DEF OpToRel
<1> QED BY <1>2

\* A set of levels has a highest one.
LEMMA MaxExists ==
  ASSUME NEW n \in Nat, NEW S, S \subseteq 0..n, S # {}
  PROVE  \E x \in S : \A y \in S : y <= x
<1> DEFINE T == {n - x : x \in S}
<1>1. PICK z \in S : TRUE
  BY Zenon
<1>2. T \subseteq Nat
  OBVIOUS
<1>3. n - z \in T
  BY Zenon
<1>4. \A y \in S : n - y \in T
  BY Zenon
<1>5. \A t \in T : \E x \in S : t = n - x
  BY Zenon
<1> HIDE DEF T
<1>6. PICK t \in T : \A u \in T : t <= u
  BY <1>2, <1>3, MinExists, Zenon
<1> QED BY <1>4, <1>5, <1>6

\* What holds between neighbours holds along the whole chain.
LEMMA Descending ==
  ASSUME NEW n \in Nat, NEW f \in [0..n -> Nat], \A l \in 0..(n - 1) : f[l + 1] <= f[l]
  PROVE  \A k, l \in 0..n : k <= l => f[l] <= f[k]
<1> SUFFICES ASSUME NEW k \in 0..n, NEW l \in 0..n, k <= l, ~(f[l] <= f[k])
             PROVE  FALSE
  BY Zenon
<1> DEFINE S == {m \in 0..n : k <= m /\ ~(f[m] <= f[k])}
<1>1. S \subseteq Nat /\ l \in S
  OBVIOUS
<1>2. PICK m \in S : \A y \in S : m <= y
  <2> HIDE DEF S
  <2> QED BY <1>1, MinExists, Zenon
<1>3. m \in 0..n /\ k < m /\ ~(f[m] <= f[k]) /\ f[m] \in Nat /\ f[k] \in Nat
  OBVIOUS
<1>4. m - 1 \in 0..n /\ k <= m - 1 /\ m - 1 \notin S
  BY <1>2, <1>3
<1>5. f[m - 1] <= f[k] /\ f[m - 1] \in Nat
  BY <1>3, <1>4, Zenon
<1>6. f[m] <= f[m - 1]
  <2>1. m - 1 \in 0..(n - 1) /\ (m - 1) + 1 = m
    BY <1>3
  <2> QED BY <2>1, Zenon
<1> QED BY <1>3, <1>5, <1>6

\* The depth of a state grows with the state.
LEMMA DepthFacts ==
  ASSUME NEW s \in State
  PROVE  /\ find_local_state_type(s) \in Nat
         /\ find_local_state_type(s) = 0 <=> s = RUN
         /\ find_local_state_type(s) >= 2 <=> is_local_state_off(s)
         /\ \A t \in State : s <= t => find_local_state_type(s) <= find_local_state_type(t)
  BY StateAssumption DEF State, find_local_state_type, is_local_state_off, RUN

\* plat_get_target_pwr_state() returns the shallowest state requested.
LEMMA ShallowestFacts ==
  ASSUME NEW S, S \subseteq Nat, S # {}
  PROVE  /\ plat_get_target_pwr_state(S) \in S
         /\ \A t \in S : plat_get_target_pwr_state(S) <= t
  BY MinExists, Zenon DEF plat_get_target_pwr_state

\* A request that passed psci_validate_suspend_req() names a level, and no level
\* up to it is shallower than those above.
LEMMA RequestFacts ==
  ASSUME NEW r \in Requests
  PROVE  /\ r.info \in [0..MaxLvl -> State]
         /\ psci_find_target_suspend_lvl(r.info) \in 0..MaxLvl
         /\ Sound(r.info, psci_find_target_suspend_lvl(r.info))
         /\ r.powerdown \in BOOLEAN
         /\ r.powerdown => is_local_state_off(r.info[0])
<1> DEFINE top == psci_find_target_suspend_lvl(r.info)
           f == [l \in 0..top |-> find_local_state_type(r.info[l])]
           S == {l \in 0..MaxLvl : r.info[l] # RUN}
<1>1. /\ r.info \in [0..MaxLvl -> State] /\ r.powerdown \in BOOLEAN
      /\ r.powerdown => is_local_state_off(r.info[0])
      /\ psci_validate_suspend_req(r.info, r.powerdown)
  BY PlatStatesAssumption, Zenon DEF Requests
<1>2. top # NoLvl
  BY <1>1, Zenon DEF psci_validate_suspend_req
<1>3. top \in 0..MaxLvl
  <2>1. S # {}
    BY <1>2, Zenon DEF psci_find_target_suspend_lvl, HighestLvl
  <2>2. PICK x \in S : \A y \in S : y <= x
    <3> HIDE DEF S
    <3>1. S \subseteq 0..MaxLvl
      BY Zenon DEF S
    <3> QED BY <2>1, <3>1, MaxExists, LevelAssumption, Zenon
  <2>3. x \in 0..MaxLvl /\ r.info[x] # RUN /\ \A k \in (x + 1)..MaxLvl : ~(r.info[k] # RUN)
    BY <2>2, LevelAssumption
  <2> QED BY <2>3, Zenon DEF psci_find_target_suspend_lvl, HighestLvl
<1>4. f \in [0..top -> Nat] /\ \A l \in 0..(top - 1) : f[l + 1] <= f[l]
  <2>1. \A l \in 0..top : r.info[l] \in State
    BY <1>1, <1>3, LevelAssumption
  <2>2. f \in [0..top -> Nat]
    BY <2>1, DepthFacts, Zenon
  <2>3. \A l \in 0..(top - 1) : find_local_state_type(r.info[l + 1]) <= find_local_state_type(r.info[l])
    <3>1. \A l \in 0..(top - 1) : /\ find_local_state_type(r.info[l]) >= find_local_state_type(r.info[l + 1])
                                  /\ l \in 0..top /\ l + 1 \in 0..top
      BY <1>1, <1>3, LevelAssumption DEF psci_validate_suspend_req
    <3> QED BY <2>1, <3>1, DepthFacts, Zenon
  <2> QED BY <1>3, <2>2, <2>3, LevelAssumption
<1>5. \A k, l \in 0..top : k <= l => f[l] <= f[k]
  <2>1. top \in Nat
    BY <1>3, LevelAssumption
  <2> HIDE DEF f, top
  <2> QED BY <1>4, <2>1, Descending, Zenon
<1> QED BY <1>1, <1>3, <1>5, Zenon DEF Sound
-----------------------------------------------------------------------------
\* The domains of the levels up to e are not those of levels above.
LEMMA PathFacts ==
  ASSUME NEW c \in CPU, NEW d \in CPU, NEW k \in Lvl, NEW l \in Lvl
  PROVE  /\ Anc[c][k] \in Node
         /\ Anc[c][k] = Anc[d][l] => k = l /\ \A m \in Lvl : k <= m => Anc[c][m] = Anc[d][m]
  BY TreeAssumption, LevelAssumption DEF Lvl

\* psci_do_state_coordination() of a CPU that ran keeps every domain at the
\* shallowest state requested for it, whatever the other CPUs requested.
LEMMA Coordination ==
  ASSUME TypeOK, Coordinated, Accounted,
         NEW c \in CPU, NEW e \in 0..MaxLvl, NEW info \in [0..MaxLvl -> State],
         Sound(info, e), \A l \in Lvl : req_local[c][l] = RUN,
         psci_do_state_coordination(c, e, info)
  PROVE  /\ Coordinated' /\ Accounted'
         /\ local_state' \in [CPU -> State] /\ req_local' \in [CPU -> [Lvl -> State]]
         /\ pd_state' \in [Node -> State] /\ last_cpu' \in [Node -> CPU \cup {None}]
         /\ local_state'[c] = info[0]
         /\ \A l \in Lvl : req_local'[c][l] = IF l <= e THEN info[l] ELSE RUN
         /\ \A d \in CPU \ {c} : req_local'[d] = req_local[d] /\ local_state'[d] = local_state[d]
         /\ \A n \in Node : (\A l \in 1..e : Anc[c][l] # n) => pd_state'[n] = pd_state[n]
<1> DEFINE R == NewRequests(c, e, info)
           neg(l) == plat_get_target_pwr_state(Requested(R, c, l))
           st == TargetStates(c, e, info)
<1>0. 1..e \subseteq Lvl /\ Lvl \subseteq 0..MaxLvl /\ 0 \in 0..MaxLvl /\ 1 \in Lvl /\ e \in Nat
  BY LevelAssumption DEF Lvl
<1>1. /\ R \in [CPU -> [Lvl -> State]]
      /\ \A d \in CPU \ {c} : R[d] = req_local[d]
      /\ \A l \in Lvl : R[c][l] = IF l <= e THEN info[l] ELSE RUN
  <2>1. R = [req_local EXCEPT ![c] = [l \in Lvl |-> IF l <= e THEN info[l] ELSE req_local[c][l]]]
    BY Zenon DEF NewRequests
  <2>2. [l \in Lvl |-> IF l <= e THEN info[l] ELSE req_local[c][l]] \in [Lvl -> State]
    <3>1. \A l \in Lvl : info[l] \in State /\ req_local[c][l] \in State
      BY <1>0, Zenon DEF TypeOK
    <3> QED BY <3>1, Zenon
  <2> HIDE DEF R
  <2> QED BY <2>1, <2>2, Zenon DEF TypeOK
<1>2. \A l \in 1..e : /\ neg(l) \in State
                      /\ \A d \in CPU : Anc[d][l] = Anc[c][l] => neg(l) <= R[d][l]
                      /\ \E d \in CPU : Anc[d][l] = Anc[c][l] /\ R[d][l] = neg(l)
  <2> SUFFICES ASSUME NEW l \in 1..e
               PROVE  /\ neg(l) \in State
                      /\ \A d \in CPU : Anc[d][l] = Anc[c][l] => neg(l) <= R[d][l]
                      /\ \E d \in CPU : Anc[d][l] = Anc[c][l] /\ R[d][l] = neg(l)
    BY Zenon
  <2> DEFINE Q == Requested(R, c, l)
  <2> HIDE DEF R
  <2>1. \A d \in CPU : R[d][l] \in State
    BY <1>0, <1>1, Zenon
  <2>2. Q \subseteq State /\ R[c][l] \in Q /\ \A d \in CPU : Anc[d][l] = Anc[c][l] => R[d][l] \in Q
    BY <2>1, Zenon DEF Requested
  <2>3. \A q \in Q : \E d \in CPU : Anc[d][l] = Anc[c][l] /\ q = R[d][l]
    BY Zenon DEF Requested
  <2>4. State \subseteq Nat
    BY StateAssumption DEF State
  <2> HIDE DEF Q
  <2>5. neg(l) \in Q /\ \A q \in Q : neg(l) <= q
    <3> SUFFICES plat_get_target_pwr_state(Q) \in Q /\ \A q \in Q : plat_get_target_pwr_state(Q) <= q
      BY Zenon DEF Q
    <3> QED BY <2>2, <2>4, ShallowestFacts, Zenon
  <2> QED BY <2>2, <2>3, <2>5, Zenon
<1>3. /\ st \in [0..MaxLvl -> State] /\ st[0] = info[0]
      /\ \A l \in 1..e : st[l] = IF \E k \in 1..l : neg(k) = RUN THEN RUN ELSE neg(l)
  <2> DEFINE ng == [l \in 1..e |-> neg(l)]
  <2>1. st = [l \in 0..MaxLvl |-> IF l = 0 \/ l > e THEN info[l]
                                  ELSE IF \E k \in 1..l : ng[k] = RUN THEN RUN ELSE ng[l]]
    BY Zenon DEF TargetStates
  <2> HIDE DEF st, R, neg
  <2>2. \A l \in 1..e : ng[l] = neg(l) /\ ng[l] \in State
    BY <1>2, Zenon
  <2>3. RUN \in State
    BY StateAssumption DEF State, RUN
  <2> HIDE DEF ng
  <2>4. \A l \in 0..MaxLvl : ~(l = 0 \/ l > e) => l \in 1..e
    BY <1>0
  <2>5. st \in [0..MaxLvl -> State]
    BY <2>1, <2>2, <2>3, <2>4, Zenon
  <2>6. ASSUME NEW l \in 1..e PROVE st[l] = IF \E k \in 1..l : neg(k) = RUN THEN RUN ELSE neg(l)
    <3>1. l \in 0..MaxLvl /\ ~(l = 0 \/ l > e) /\ 1..l \subseteq 1..e
      BY <1>0
    <3>2. \A k \in 1..l : ng[k] = neg(k)
      BY <2>2, <3>1, Zenon
    <3> QED BY <2>1, <2>2, <3>1, <3>2, Zenon
  <2> QED BY <1>0, <2>1, <2>5, <2>6, Zenon
<1>4. /\ req_local' = R
      /\ local_state' = [local_state EXCEPT ![c] = info[0]]
      /\ pd_state' = [n \in Node |-> IF \E l \in 1..e : Anc[c][l] = n
                                     THEN st[CHOOSE l \in 1..e : Anc[c][l] = n] ELSE pd_state[n]]
      /\ last_cpu' = SetPath(last_cpu, c, LowLevels(e, st), c)
  BY <1>3, Zenon DEF psci_do_state_coordination
<1> HIDE DEF R, neg, st
<1>5. ASSUME NEW l \in 1..e PROVE pd_state'[Anc[c][l]] = st[l]
  <2>1. Anc[c][l] \in Node /\ \A k \in 1..e : Anc[c][k] = Anc[c][l] => k = l
    BY <1>0, PathFacts
  <2>2. (CHOOSE k \in 1..e : Anc[c][k] = Anc[c][l]) = l
    BY <2>1, Zenon
  <2> QED BY <1>4, <2>1, <2>2, Zenon
<1>6. /\ pd_state' \in [Node -> State]
      /\ \A n \in Node : (\A l \in 1..e : Anc[c][l] # n) => pd_state'[n] = pd_state[n]
  <2>1. \A n \in Node : (\E l \in 1..e : Anc[c][l] = n) => pd_state'[n] \in State
    BY <1>0, <1>3, <1>5
  <2>2. \A n \in Node : (\A l \in 1..e : Anc[c][l] # n) => pd_state'[n] = pd_state[n]
    BY <1>4, Zenon
  <2>3. \A n \in Node : pd_state'[n] \in State
    BY <2>1, <2>2, Zenon DEF TypeOK
  <2> QED BY <1>4, <2>2, <2>3, Zenon
<1>7. /\ last_cpu' \in [Node -> CPU \cup {None}]
      /\ \A n \in Node : last_cpu'[n] = last_cpu[n] \/ (last_cpu'[n] = c /\ \E l \in 1..e : Anc[c][l] = n)
      /\ \A l \in 1..e : st[l] # RUN => last_cpu'[Anc[c][l]] = c
  <2>1. last_cpu' = [n \in Node |-> IF \E l \in LowLevels(e, st) : Anc[c][l] = n THEN c ELSE last_cpu[n]]
    BY <1>4, Zenon DEF SetPath
  <2>2. LowLevels(e, st) \subseteq 1..e
    BY Zenon DEF LowLevels
  <2>3. \A l \in 1..e : st[l] # RUN => l \in LowLevels(e, st)
    <3> SUFFICES ASSUME NEW l \in 1..e, st[l] # RUN, NEW k \in 1..l
                 PROVE  st[k] # RUN
      BY Zenon DEF LowLevels
    <3>1. k \in 1..e /\ 1..k \subseteq 1..l
      BY <1>0
    <3> QED BY <1>3, <3>1, Zenon
  <2>4. \A l \in 1..e : Anc[c][l] \in Node
    BY <1>0, PathFacts, Zenon
  <2> QED BY <2>1, <2>2, <2>3, <2>4, Zenon DEF TypeOK
<1>8. /\ local_state' \in [CPU -> State] /\ req_local' \in [CPU -> [Lvl -> State]]
      /\ local_state'[c] = info[0]
      /\ \A d \in CPU \ {c} : req_local'[d] = req_local[d] /\ local_state'[d] = local_state[d]
      /\ \A l \in Lvl : req_local'[c][l] = IF l <= e THEN info[l] ELSE RUN
  BY <1>0, <1>1, <1>4, Zenon DEF TypeOK
\* Requests stay sound.
<1>9. \A d \in CPU : \A k, l \in Lvl : k <= l =>
        find_local_state_type(R[d][l]) <= find_local_state_type(R[d][k])
  <2> SUFFICES ASSUME NEW k \in Lvl, NEW l \in Lvl, k <= l
               PROVE  find_local_state_type(R[c][l]) <= find_local_state_type(R[c][k])
    BY <1>1, Zenon DEF Coordinated
  <2>1. R[c][l] \in State /\ R[c][k] \in State
    BY <1>1, Zenon
  <2>2. CASE l <= e
    BY <1>0, <1>1, <2>2 DEF Sound, Lvl
  <2>3. CASE ~(l <= e)
    BY <1>1, <2>1, <2>3, DepthFacts
  <2> QED BY <2>2, <2>3, Zenon
<1>10. \A d \in CPU : \A k, l \in Lvl : k <= l /\ R[d][k] = RUN => R[d][l] = RUN
  <2> SUFFICES ASSUME NEW d \in CPU, NEW k \in Lvl, NEW l \in Lvl, k <= l, R[d][k] = RUN
               PROVE  R[d][l] = RUN
    BY Zenon
  <2>1. R[d][l] \in State /\ R[d][k] \in State
    BY <1>1, Zenon
  <2> QED BY <1>9, <2>1, DepthFacts
\* A domain of c gets the shallowest request.
<1>11. ASSUME NEW l \in 1..e
       PROVE  /\ \A d \in CPU : Anc[d][l] = Anc[c][l] => st[l] <= R[d][l]
              /\ \E d \in CPU : Anc[d][l] = Anc[c][l] /\ R[d][l] = st[l]
  <2>1. CASE \E k \in 1..l : neg(k) = RUN
    <3>1. st[l] = RUN
      BY <1>3, <2>1, Zenon
    <3>2. \A d \in CPU : R[d][l] \in State
      BY <1>0, <1>1, Zenon
    <3>3. PICK k \in 1..l : neg(k) = RUN
      BY <2>1, Zenon
    <3>4. k \in 1..e /\ k \in Lvl /\ l \in Lvl /\ k <= l
      BY <1>0
    <3>5. PICK d \in CPU : Anc[d][k] = Anc[c][k] /\ R[d][k] = RUN
      BY <1>2, <3>3, <3>4, Zenon
    <3>6. Anc[d][l] = Anc[c][l] /\ R[d][l] = RUN
      BY <1>10, <3>4, <3>5, PathFacts
    <3> QED BY <3>1, <3>2, <3>6, StateAssumption DEF State, RUN
  <2>2. CASE ~\E k \in 1..l : neg(k) = RUN
    BY <1>2, <1>3, <2>2, Zenon
  <2> QED BY <2>1, <2>2, Zenon
<1>12. ASSUME NEW d \in CPU, NEW l \in Lvl
       PROVE  /\ pd_state'[Anc[d][l]] <= R[d][l]
              /\ \E b \in CPU : Anc[b][l] = Anc[d][l] /\ R[b][l] = pd_state'[Anc[d][l]]
  <2>1. CASE l <= e /\ Anc[d][l] = Anc[c][l]
    <3>1. l \in 1..e
      BY <2>1 DEF Lvl
    <3> QED BY <1>5, <1>11, <2>1, <3>1
  <2>2. CASE ~(l <= e /\ Anc[d][l] = Anc[c][l])
    <3>1. \A k \in 1..e : Anc[c][k] # Anc[d][l]
      BY <1>0, <2>2, PathFacts
    <3>2. Anc[d][l] \in Node
      BY PathFacts, Zenon
    <3>3. pd_state'[Anc[d][l]] = pd_state[Anc[d][l]]
      BY <1>6, <3>1, <3>2, Zenon
    <3>4. \A b \in CPU : Anc[b][l] = Anc[d][l] => R[b][l] = req_local[b][l]
      BY <1>1, <2>2, Zenon
    <3>5. PICK b \in CPU : Anc[b][l] = Anc[d][l] /\ req_local[b][l] = pd_state[Anc[d][l]]
      BY Zenon DEF Coordinated
    <3>6. pd_state[Anc[d][l]] <= req_local[d][l]
      BY Zenon DEF Coordinated
    <3> QED BY <3>3, <3>4, <3>5, <3>6, Zenon
  <2> QED BY <2>1, <2>2, Zenon
<1>13. \A d \in CPU : find_local_state_type(R[d][1]) <= find_local_state_type(local_state'[d])
  <2>1. CASE e = 0
    <3>1. R[c][1] = RUN /\ info[0] \in State /\ RUN \in State
      BY <1>0, <1>1, <2>1, StateAssumption DEF State, RUN
    <3>2. find_local_state_type(RUN) = 0 /\ find_local_state_type(info[0]) >= 0
      BY <3>1, DepthFacts
    <3>3. find_local_state_type(R[c][1]) <= find_local_state_type(local_state'[c])
      BY <1>8, <3>1, <3>2, DepthFacts, Zenon
    <3>4. \A d \in CPU \ {c} : find_local_state_type(R[d][1]) <= find_local_state_type(local_state'[d])
      BY <1>1, <1>8, Zenon DEF Coordinated
    <3> QED BY <3>3, <3>4, Zenon
  <2>2. CASE e > 0
    <3>1. R[c][1] = info[1] /\ 0 \in 0..e /\ 1 \in 0..e
      BY <1>0, <1>1, <2>2
    <3>2. find_local_state_type(info[1]) <= find_local_state_type(info[0])
      BY <3>1 DEF Sound
    <3> QED BY <1>0, <1>1, <1>8, <3>1, <3>2, Zenon DEF Coordinated
  <2> QED BY <1>0, <2>1, <2>2
<1>14. \A n \in Node : Below(n) = {} => pd_state'[n] = MaxOff
  <2>1. \A n \in Node : Below(n) = {} => \A l \in 1..e : Anc[c][l] # n
    BY <1>0, Zenon DEF Below
  <2> QED BY <1>6, <2>1, Zenon DEF Coordinated
<1>15. Coordinated'
  <2>0. req_local' = R
    BY <1>4, Zenon
  <2>1. \A d \in CPU, l \in Lvl :
          /\ pd_state'[Anc[d][l]] <= req_local'[d][l]
          /\ \E b \in CPU : Anc[b][l] = Anc[d][l] /\ req_local'[b][l] = pd_state'[Anc[d][l]]
    BY <1>12, <2>0, Zenon
  <2>2. \A d \in CPU : \A k, l \in Lvl : k <= l =>
          find_local_state_type(req_local'[d][l]) <= find_local_state_type(req_local'[d][k])
    BY <1>9, <2>0, Zenon
  <2>3. \A d \in CPU : find_local_state_type(req_local'[d][1]) <= find_local_state_type(local_state'[d])
    BY <1>13, <2>0, Zenon
  <2> QED BY <1>14, <2>1, <2>2, <2>3, Zenon DEF Coordinated, Below
<1>16. ASSUME NEW d \in CPU, NEW l \in Lvl, pd_state'[Anc[d][l]] # RUN, last_cpu'[Anc[d][1]] # None
       PROVE  last_cpu'[Anc[d][l]] # None
  <2>1. Anc[d][l] \in Node /\ Anc[d][1] \in Node
    BY <1>0, PathFacts, Zenon
  <2>2. CASE l <= e /\ Anc[d][l] = Anc[c][l]
    <3>1. l \in 1..e
      BY <2>2 DEF Lvl
    <3> QED BY <1>5, <1>7, <1>16, <2>2, <3>1, PrimaryAssumption
  <2>3. CASE ~(l <= e) /\ Anc[d][l] = Anc[c][l]
    <3>1. R[c][l] = RUN /\ pd_state'[Anc[c][l]] <= R[c][l]
      BY <1>1, <1>12, <2>3, Zenon
    <3>2. pd_state'[Anc[c][l]] \in State
      BY <1>6, <2>1, <2>3, Zenon
    <3> QED BY <1>16, <2>3, <3>1, <3>2, StateAssumption DEF State, RUN
  <2>4. CASE Anc[d][l] # Anc[c][l]
    <3>1. \A k \in 1..e : Anc[c][k] # Anc[d][l] /\ Anc[c][k] # Anc[d][1]
      BY <1>0, <2>4, PathFacts DEF Lvl
    <3>2. /\ pd_state'[Anc[d][l]] = pd_state[Anc[d][l]]
          /\ last_cpu'[Anc[d][1]] = last_cpu[Anc[d][1]] /\ last_cpu'[Anc[d][l]] = last_cpu[Anc[d][l]]
      BY <1>6, <1>7, <2>1, <3>1
    <3> QED BY <1>16, <3>2, Zenon DEF Accounted
  <2> QED BY <2>2, <2>3, <2>4, Zenon
<1>17. \A n \in Node : last_cpu'[n] # None => last_cpu'[n] \in Below(n)
  BY <1>0, <1>7, Zenon DEF Accounted, Below
<1>18. Accounted'
  BY <1>16, <1>17 DEF Accounted, Below
<1> QED BY <1>6, <1>7, <1>8, <1>15, <1>18, Zenon

\* psci_set_pwr_domains_to_run() of a CPU that requested nothing above e wakes
\* all it has to wake.
LEMMA WakeUp ==
  ASSUME TypeOK, Coordinated, Accounted, NEW c \in CPU, NEW e \in 0..MaxLvl, NEW info,
         \A l \in Lvl : l > e => req_local[c][l] = RUN,
         psci_set_pwr_domains_to_run(c, e), psci_stats_update_pwr_up(c, e, info)
  PROVE  /\ Coordinated' /\ Accounted'
         /\ local_state' \in [CPU -> State] /\ req_local' \in [CPU -> [Lvl -> State]]
         /\ pd_state' \in [Node -> State] /\ last_cpu' \in [Node -> CPU \cup {None}]
         /\ local_state'[c] = RUN /\ \A l \in Lvl : req_local'[c][l] = RUN
         /\ \A d \in CPU \ {c} : req_local'[d] = req_local[d] /\ local_state'[d] = local_state[d]
         /\ \A n \in Node : (\A l \in 1..e : Anc[c][l] # n) => pd_state'[n] = pd_state[n]
<1>0. /\ 1..e \subseteq Lvl /\ 1 \in Lvl /\ e \in Nat /\ Lvl \subseteq Nat
      /\ RUN \in State /\ State \subseteq Nat /\ RUN = 0
  BY LevelAssumption, StateAssumption DEF Lvl, State, RUN
<1>1. /\ req_local' = [req_local EXCEPT ![c] = [l \in Lvl |-> IF l <= e THEN RUN ELSE req_local[c][l]]]
      /\ local_state' = [local_state EXCEPT ![c] = RUN]
      /\ pd_state' = [n \in Node |-> IF \E l \in 1..e : Anc[c][l] = n THEN RUN ELSE pd_state[n]]
  BY Zenon DEF psci_set_pwr_domains_to_run, SetPath
<1>2. /\ \A l \in Lvl : req_local'[c][l] = RUN
      /\ \A d \in CPU \ {c} : req_local'[d] = req_local[d] /\ local_state'[d] = local_state[d]
      /\ local_state'[c] = RUN
      /\ req_local' \in [CPU -> [Lvl -> State]] /\ local_state' \in [CPU -> State]
  <2>1. \A l \in Lvl : (IF l <= e THEN RUN ELSE req_local[c][l]) = RUN
    BY <1>0
  <2>2. req_local' = [req_local EXCEPT ![c] = [l \in Lvl |-> RUN]]
    BY <1>1, <2>1, Zenon
  <2> QED BY <1>0, <1>1, <2>2 DEF TypeOK
<1>3. /\ pd_state' \in [Node -> State]
      /\ \A n \in Node : (\A l \in 1..e : Anc[c][l] # n) => pd_state'[n] = pd_state[n]
      /\ \A l \in 1..e : pd_state'[Anc[c][l]] = RUN
  BY <1>0, <1>1, PathFacts, Zenon DEF TypeOK
<1>4. /\ last_cpu' \in [Node -> CPU \cup {None}]
      /\ \A n \in Node : \/ last_cpu'[n] = last_cpu[n]
                         \/ last_cpu'[n] = None /\ \E l \in 1..e : Anc[c][l] = n
  <2>1. CASE last_cpu' = last_cpu
    BY <2>1, Zenon DEF TypeOK
  <2>2. CASE last_cpu' = SetPath(last_cpu, c, LowLevels(e, info), None)
    <3>1. LowLevels(e, info) \subseteq 1..e
      BY Zenon DEF LowLevels
    <3>2. last_cpu' = [n \in Node |-> IF \E l \in LowLevels(e, info) : Anc[c][l] = n THEN None ELSE last_cpu[n]]
      BY <2>2, Zenon DEF SetPath
    <3> QED BY <3>1, <3>2, Zenon DEF TypeOK
  <2> QED BY <2>1, <2>2, Zenon DEF psci_stats_update_pwr_up
\* A domain of c runs.
<1>5. \A l \in Lvl : pd_state'[Anc[c][l]] = RUN
  <2> SUFFICES ASSUME NEW l \in Lvl, l > e
               PROVE  pd_state'[Anc[c][l]] = RUN
    BY <1>0, <1>3 DEF Lvl
  <2>1. Anc[c][l] \in Node /\ \A k \in 1..e : Anc[c][k] # Anc[c][l]
    BY <1>0, PathFacts
  <2>2. pd_state'[Anc[c][l]] = pd_state[Anc[c][l]] /\ pd_state[Anc[c][l]] \in State
    BY <1>3, <2>1, Zenon DEF TypeOK
  <2>3. pd_state[Anc[c][l]] <= req_local[c][l] /\ req_local[c][l] = RUN
    BY Zenon DEF Coordinated
  <2>4. pd_state[Anc[c][l]] \in Nat /\ pd_state[Anc[c][l]] <= 0
    BY <1>0, <2>2, <2>3, Zenon
  <2> QED BY <1>0, <2>2, <2>4
<1>6. ASSUME NEW d \in CPU, NEW l \in Lvl
      PROVE  /\ pd_state'[Anc[d][l]] <= req_local'[d][l]
             /\ \E b \in CPU : Anc[b][l] = Anc[d][l] /\ req_local'[b][l] = pd_state'[Anc[d][l]]
  <2>1. req_local'[d][l] \in Nat /\ Anc[d][l] \in Node
    BY <1>0, <1>2, PathFacts
  <2>2. CASE Anc[d][l] = Anc[c][l]
    BY <1>0, <1>2, <1>5, <2>1, <2>2
  <2>3. CASE Anc[d][l] # Anc[c][l]
    <3>1. \A k \in 1..e : Anc[c][k] # Anc[d][l]
      BY <1>0, <2>3, PathFacts
    <3>2. pd_state'[Anc[d][l]] = pd_state[Anc[d][l]]
      BY <1>3, <2>1, <3>1, Zenon
    <3>3. \A b \in CPU : Anc[b][l] = Anc[d][l] => req_local'[b][l] = req_local[b][l]
      BY <1>2, <2>3, Zenon
    <3>4. PICK b \in CPU : Anc[b][l] = Anc[d][l] /\ req_local[b][l] = pd_state[Anc[d][l]]
      BY Zenon DEF Coordinated
    <3>5. pd_state[Anc[d][l]] <= req_local[d][l]
      BY Zenon DEF Coordinated
    <3> QED BY <3>2, <3>3, <3>4, <3>5, Zenon
  <2> QED BY <2>2, <2>3, Zenon
<1>7. \A d \in CPU : \A k, l \in Lvl : k <= l =>
        find_local_state_type(req_local'[d][l]) <= find_local_state_type(req_local'[d][k])
  <2>1. find_local_state_type(RUN) <= find_local_state_type(RUN)
    BY <1>0, DepthFacts
  <2> QED BY <1>2, <2>1 DEF Coordinated
<1>8. \A d \in CPU : find_local_state_type(req_local'[d][1]) <= find_local_state_type(local_state'[d])
  <2>1. find_local_state_type(RUN) <= find_local_state_type(RUN)
    BY <1>0, DepthFacts
  <2> QED BY <1>0, <1>2, <2>1 DEF Coordinated
<1>9. \A n \in Node : Below(n) = {} => pd_state'[n] = MaxOff
  <2>1. \A n \in Node : Below(n) = {} => \A l \in 1..e : Anc[c][l] # n
    BY <1>0, Zenon DEF Below
  <2> QED BY <1>3, <2>1, Zenon DEF Coordinated
<1>10. Coordinated'
  BY <1>6, <1>7, <1>8, <1>9, Zenon DEF Coordinated, Below
<1>11. ASSUME NEW d \in CPU, NEW l \in Lvl, pd_state'[Anc[d][l]] # RUN, last_cpu'[Anc[d][1]] # None
       PROVE  last_cpu'[Anc[d][l]] # None
  <2>1. Anc[d][l] \in Node /\ Anc[d][1] \in Node
    BY <1>0, PathFacts, Zenon
  <2>2. Anc[d][l] # Anc[c][l]
    BY <1>5, <1>11, Zenon
  <2>3. \A k \in 1..e : Anc[c][k] # Anc[d][l] /\ Anc[c][k] # Anc[d][1]
    BY <1>0, <2>2, PathFacts DEF Lvl
  <2>4. /\ pd_state'[Anc[d][l]] = pd_state[Anc[d][l]]
        /\ last_cpu'[Anc[d][1]] = last_cpu[Anc[d][1]] /\ last_cpu'[Anc[d][l]] = last_cpu[Anc[d][l]]
    BY <1>3, <1>4, <2>1, <2>3
  <2> QED BY <1>11, <2>4, Zenon DEF Accounted
<1>12. Accounted'
  BY <1>4, <1>11 DEF Accounted, Below
<1> QED BY <1>2, <1>3, <1>4, <1>10, <1>12, Zenon
=============================================================================
