---------------------------- MODULE Psci_proofs ----------------------------
(***************************************************************************)
(* The safety properties of lib/psci for every power domain tree, every    *)
(* number of CPUs and levels, and every set of power states a platform may *)
(* offer: one lemma per action shows that it keeps PsciInv, the invariant  *)
(* of PsciTree_proofs, and the theorems follow from it.                    *)
(***************************************************************************)
EXTENDS PsciTree_proofs

\* A step of c leaves what belongs to the other CPUs alone.
OthersLocals(c) ==
  \A d \in CPU \ {c} :
    /\ pc'[d] = pc[d] /\ op'[d] = op[d] /\ end_pwrlvl'[d] = end_pwrlvl[d] /\ held'[d] = held[d]
    /\ state_info'[d] = state_info[d] /\ next_pc'[d] = next_pc[d]
    /\ local_state'[d] = local_state[d] /\ target_pwrlvl'[d] = target_pwrlvl[d]
    /\ req_local'[d] = req_local[d]

OthersStates(c) ==
  \A d \in CPU \ {c} :
    /\ aff_info_state'[d] = aff_info_state[d] /\ ctx_ready'[d] = ctx_ready[d]
    /\ poweron'[d] = poweron[d] /\ target'[d] = target[d]

\* What each variable holds for a CPU.
LEMMA Typed ==
  ASSUME TypeOK, NEW c \in CPU
  PROVE  /\ aff_info_state[c] \in {"ON", "OFF", "ON_PENDING"} /\ local_state[c] \in State
         /\ target_pwrlvl[c] \in 0..NoLvl /\ req_local[c] \in [Lvl -> State]
         /\ cpu_lock[c] \in CPU \cup {None} /\ target[c] \in CPU \cup {None}
         /\ ctx_ready[c] \in BOOLEAN /\ poweron[c] \in BOOLEAN
         /\ pc[c] \in Place /\ next_pc[c] \in Place
         /\ end_pwrlvl[c] \in 0..MaxLvl /\ held[c] \in 0..MaxLvl /\ held[c] <= end_pwrlvl[c]
         /\ state_info[c] \in [0..MaxLvl -> State]
  BY Zenon DEF TypeOK

\* A CPU whose locals and affinity state do not change keeps what follows from
\* them.
LEMMA OthersKeepLocals ==
  ASSUME NEW c \in CPU, OthersLocals(c), NEW d \in CPU \ {c}, aff_info_state'[d] = aff_info_state[d],
         Control(d), Asked(d), Requesting(d)
  PROVE  Control(d)' /\ Asked(d)' /\ Requesting(d)'
<1>1. Control(d)'
  BY Zenon DEF OthersLocals, Control
<1>2. Asked(d)'
  BY Zenon DEF OthersLocals, Asked, Sound, PowerOffState
<1>3. Requesting(d)'
  <2>1. (Awake(d)' <=> Awake(d)) /\ (Retained(d)' <=> Retained(d)) /\ (Booting(d)' <=> Booting(d))
    BY Zenon DEF OthersLocals, Awake, Retained, Booting
  <2>2. (Suspended(d)' <=> Suspended(d)) /\ (TurnedOff(d)' <=> TurnedOff(d))
    BY <2>1, Zenon DEF OthersLocals, Suspended, TurnedOff
  <2> QED BY <2>1, <2>2, Zenon DEF OthersLocals, Requesting
<1> QED BY <1>1, <1>2, <1>3, Zenon

\* The other CPUs' part of the invariant, when c is not in CPU_ON.
LEMMA OthersKeepLocal ==
  ASSUME PsciInv, NEW c \in CPU, OthersLocals(c), OthersStates(c), UNCHANGED cpu_lock,
         pc[c] \notin OnLocked, pc'[c] \notin OnLocked,
         aff_info_state[c] # "OFF", pc[c] # "off" \/ poweron[c]
  PROVE  \A d \in CPU \ {c} : Local(d)'
<1> SUFFICES ASSUME NEW d \in CPU \ {c}
             PROVE  Local(d)'
  BY Zenon
<1>1. Local(d) /\ Local(c)
  BY Zenon DEF PsciInv
<1>2. Control(d)' /\ Asked(d)' /\ Requesting(d)'
  BY <1>1, OthersKeepLocals, Zenon DEF OthersStates, Local
<1>3. Affinity(d)'
  <2>1. Booting(d)' <=> Booting(d)
    BY Zenon DEF OthersLocals, Booting
  <2>2. Suspended(d)' <=> Suspended(d)
    BY <2>1, Zenon DEF OthersLocals, OthersStates, Suspended
  <2> QED BY <1>1, <2>1, <2>2, Zenon DEF Local, Affinity, OthersLocals, OthersStates
<1>4. TurningOn(d)'
  <2>1. cpu_lock[d] \in CPU \cup {None} /\ target[d] \in CPU \cup {None}
    BY Zenon DEF PsciInv, TypeOK
  <2>2. cpu_lock[d] # None => cpu_lock[d] \in CPU \ {c}
    BY <1>1, <2>1, Zenon DEF Local, TurningOn
  <2>3. pc[d] = "on_platform" => target[d] # c
    BY <1>1, Zenon DEF Local, TurningOn
  <2>4. pc[d] \in OnLocked => target[d] \in CPU
    BY <1>1, <2>1, Zenon DEF Local, TurningOn
  <2>5. pc[d] = "on_platform" => pc[d] \in OnLocked
    BY Zenon DEF OnLocked
  <2>6. /\ cpu_lock[d] # None => target'[cpu_lock[d]] = target[cpu_lock[d]] /\ pc'[cpu_lock[d]] = pc[cpu_lock[d]]
        /\ target'[d] = target[d] /\ pc'[d] = pc[d] /\ poweron'[d] = poweron[d]
        /\ aff_info_state'[d] = aff_info_state[d] /\ ctx_ready'[d] = ctx_ready[d]
    BY <2>2, Zenon DEF OthersLocals, OthersStates
  <2>7. pc[d] = "on_platform" => /\ aff_info_state'[target[d]] = aff_info_state[target[d]]
                                 /\ pc'[target[d]] = pc[target[d]] /\ poweron'[target[d]] = poweron[target[d]]
    BY <2>3, <2>4, <2>5, Zenon DEF OthersLocals, OthersStates
  <2> HIDE DEF OnLocked
  <2> QED BY <1>1, <2>6, <2>7, Zenon DEF Local, TurningOn
<1> QED BY <1>2, <1>3, <1>4, Zenon DEF Local

\* c's own part in CPU_ON: whoever turns c on is another CPU.
LEMMA OwnTurningOn ==
  ASSUME NEW c \in CPU, OthersLocals(c), OthersStates(c), UNCHANGED cpu_lock, TypeOK, TurningOn(c),
         pc[c] \notin OnLocked, pc'[c] \notin OnLocked, pc'[c] = "on_lock" => target'[c] # None,
         poweron'[c] => pc'[c] = "off" /\ aff_info_state'[c] = "ON_PENDING",
         aff_info_state'[c] = "ON_PENDING" /\ ~ctx_ready'[c] => aff_info_state[c] = "ON_PENDING" /\ ~ctx_ready[c]
  PROVE  TurningOn(c)'
<1>1. cpu_lock[c] \in CPU \cup {None}
  BY Typed, Zenon
<1>2. cpu_lock[c] # None => cpu_lock[c] \in CPU \ {c}
  BY <1>1, Zenon DEF TurningOn
<1>3. pc'[c] # "on_platform"
  BY Zenon DEF OnLocked
<1> QED BY <1>1, <1>2, <1>3, Zenon DEF TurningOn, OthersLocals, OthersStates

\* What a booting CPU read stays current while others change only domains they
\* have locked.
LEMMA OthersKeepSnapshot ==
  ASSUME PsciInv, NEW c \in CPU, OthersLocals(c),
         \A n \in Node : pd_state'[n] = pd_state[n] \/ lock[n] = c,
         pc'[c] \notin {"on_finish", "suspend_finish"}
  PROVE  SnapshotIsCurrent'
<1> SUFFICES ASSUME NEW d \in CPU \ {c}, pc[d] \in {"on_finish", "suspend_finish"}
             PROVE  state_info'[d] = psci_get_target_local_pwr_states(d, end_pwrlvl[d])'
  BY Zenon DEF SnapshotIsCurrent, OthersLocals, psci_get_target_local_pwr_states
<1>1. /\ held[d] = end_pwrlvl[d] /\ end_pwrlvl[d] \in 0..MaxLvl
      /\ state_info[d] = psci_get_target_local_pwr_states(d, end_pwrlvl[d])
  BY Zenon DEF PsciInv, Local, Control, SnapshotIsCurrent, TypeOK
<1>2. \A l \in 0..MaxLvl : l # 0 /\ l <= end_pwrlvl[d] => pd_state'[Anc[d][l]] = pd_state[Anc[d][l]]
  <2> SUFFICES ASSUME NEW l \in 0..MaxLvl, l # 0, l <= end_pwrlvl[d]
               PROVE  pd_state'[Anc[d][l]] = pd_state[Anc[d][l]]
    BY Zenon
  <2>1. l \in Lvl /\ l \in 1..held[d]
    BY <1>1, LevelAssumption DEF Lvl
  <2>2. Anc[d][l] \in Node
    BY <2>1, PathFacts, Zenon
  <2>3. lock[Anc[d][l]] = d
    BY <2>1, <2>2, Zenon DEF PsciInv, LockInv
  <2> QED BY <2>2, <2>3, Zenon
<1> QED BY <1>1, <1>2, Zenon DEF psci_get_target_local_pwr_states, OthersLocals
-----------------------------------------------------------------------------
\* A step that changes no lock and nothing of the tree.
LEMMA QuietTree ==
  ASSUME PsciInv, UNCHANGED <<local_state, req_local, pd_state, last_cpu, lock, held>>
  PROVE  LockInv' /\ Coordinated' /\ Accounted'
<1>1. LockInv'
  <2>1. LockInv
    BY Zenon DEF PsciInv
  <2> QED BY <2>1, Zenon DEF LockInv
<1>2. Coordinated'
  BY Zenon DEF PsciInv, Coordinated, Below
<1>3. Accounted'
  BY Zenon DEF PsciInv, Accounted, Below
<1> QED BY <1>1, <1>2, <1>3, Zenon

\* An operation starts.
LEMMA StartStep ==
  ASSUME PsciInv, NEW c \in CPU, NEW name \in Lowering \cup {"standby_finish", "warmboot"},
         NEW e \in 0..MaxLvl, NEW info \in [0..MaxLvl -> State],
         StartOp(c, name, e, info), UNCHANGED <<psciVars, onVars, lock>>,
         \/ /\ pc[c] \in {"ns", "last_check"} /\ name \in Lowering /\ Sound(info, e)
            /\ name \in {"off", "system_suspend"} => e = MaxLvl /\ info = PowerOffState
            /\ name = "suspend" => is_local_state_off(info[0])
         \/ pc[c] = "wfi" /\ name = "standby_finish" /\ e = end_pwrlvl[c]
         \/ /\ pc[c] = "reset" /\ name = "warmboot"
            /\ e = IF target_pwrlvl[c] = NoLvl THEN MaxLvl ELSE target_pwrlvl[c]
  PROVE  PsciInv'
<1>1. TypeOK /\ Local(c)
  BY Zenon DEF PsciInv
<1>2. /\ pc' = [pc EXCEPT ![c] = IF e = 0 THEN "work" ELSE "lock"]
      /\ op' = [op EXCEPT ![c] = name] /\ end_pwrlvl' = [end_pwrlvl EXCEPT ![c] = e]
      /\ state_info' = [state_info EXCEPT ![c] = info]
      /\ UNCHANGED <<held, next_pc, psciVars, onVars, lock>>
  BY Zenon DEF StartOp, Goto
<1>3. held[c] = 0 /\ next_pc[c] = "ns"
  BY <1>1, Zenon DEF Local, Control, UnderLocks
<1>4. /\ pc'[c] \in {"work", "lock"} /\ (pc'[c] = "work" <=> e = 0)
      /\ op'[c] = name /\ end_pwrlvl'[c] = e /\ state_info'[c] = info
  BY <1>1, <1>2, Zenon DEF TypeOK
<1>5. TypeOK'
  <2>1. (IF e = 0 THEN "work" ELSE "lock") \in Place
    BY Zenon DEF Place
  <2>2. name \in {"none", "off", "suspend", "retention", "system_suspend", "standby_finish", "warmboot"}
    BY Zenon DEF Lowering
  <2>3. \A d \in CPU : held'[d] <= end_pwrlvl'[d]
    BY <1>1, <1>2, <1>3, <1>4, Typed
  <2> QED BY <1>1, <1>2, <2>1, <2>2, <2>3, Zenon DEF TypeOK, psciVars, onVars
<1>6. OthersLocals(c) /\ OthersStates(c)
  BY <1>1, <1>2, Zenon DEF TypeOK, OthersLocals, OthersStates, psciVars, onVars
<1>7. Control(c)'
  <2>1. pc'[c] = "lock" => held'[c] < end_pwrlvl'[c]
    BY <1>2, <1>3, <1>4
  <2> QED BY <1>2, <1>3, <1>4, <2>1, Zenon DEF Control, UnderLocks, Lowering
<1>8. Asked(c)'
  BY <1>2, <1>4, Zenon DEF Asked, Lowering, psciVars, Sound, PowerOffState
<1>9. Requesting(c)'
  <2>1. CASE pc[c] \in {"ns", "last_check"}
    BY <1>1, <1>2, <1>3, <1>4, <2>1, Zenon DEF Local, Requesting, Awake, Retained, Suspended, TurnedOff, Booting, Lowering, OnLocked, psciVars, onVars
  <2>2. CASE pc[c] = "wfi"
    BY <1>1, <1>2, <1>3, <1>4, <2>2, Zenon DEF Local, Requesting, Awake, Retained, Suspended, TurnedOff, Booting, Lowering, OnLocked, psciVars, onVars
  <2>3. CASE pc[c] = "reset"
    BY <1>1, <1>2, <1>3, <1>4, <2>3, Zenon DEF Local, Requesting, Awake, Retained, Suspended, TurnedOff, Booting, Lowering, OnLocked, psciVars, onVars
  <2> QED BY <2>1, <2>2, <2>3, Zenon
<1>10. Affinity(c)'
  BY <1>1, <1>2, <1>3, <1>4, Zenon DEF Local, Affinity, Booting, Suspended, Lowering, psciVars, onVars
<1>12. aff_info_state[c] # "OFF" /\ pc[c] \notin OnLocked \cup {"off"} /\ pc'[c] \notin OnLocked
  BY <1>1, <1>4, Zenon DEF Local, Affinity, OnLocked, Booting
<1>11. TurningOn(c)'
  <2>1. TurningOn(c) /\ ~poweron[c] /\ pc'[c] # "on_lock"
    BY <1>1, <1>4, <1>12, Zenon DEF Local, TurningOn
  <2> QED BY <1>1, <1>2, <1>6, <1>12, <2>1, OwnTurningOn, Zenon DEF onVars
<1>13. \A d \in CPU : Local(d)'
  <2>1. UNCHANGED cpu_lock
    BY <1>2, Zenon DEF onVars
  <2> QED BY <1>6, <1>7, <1>8, <1>9, <1>10, <1>11, <1>12, <2>1, OthersKeepLocal, Zenon DEF Local
<1>14. LockInv' /\ Coordinated' /\ Accounted'
  BY <1>2, QuietTree, Zenon DEF psciVars
<1>15. SnapshotIsCurrent'
  <2>1. \A n \in Node : pd_state'[n] = pd_state[n]
    BY <1>2, Zenon DEF psciVars
  <2> QED BY <1>4, <1>6, <2>1, OthersKeepSnapshot, Zenon
<1> QED BY <1>5, <1>13, <1>14, <1>15, Zenon DEF PsciInv

\* The calls, wake-ups and boots that start an operation.
LEMMA StartingStep ==
  ASSUME PsciInv, NEW c \in CPU,
         \/ CpuOff(c) \/ SystemSuspendStart(c) \/ (\E r \in Requests : CpuSuspend(c, r))
         \/ WakeFromWfi(c) \/ WarmBoot(c)
  PROVE  PsciInv'
<1>1. TypeOK /\ Local(c)
  BY Zenon DEF PsciInv
<1>2. PowerOffState \in [0..MaxLvl -> State] /\ AllRun \in [0..MaxLvl -> State] /\ MaxLvl \in 0..MaxLvl
  BY LevelAssumption, StateAssumption DEF PowerOffState, AllRun, State, RUN
<1>3. Sound(PowerOffState, MaxLvl)
  <2>1. MaxOff \in State
    BY StateAssumption DEF State
  <2>2. find_local_state_type(MaxOff) <= find_local_state_type(MaxOff)
    BY <2>1, DepthFacts
  <2> QED BY <2>2, Zenon DEF Sound, PowerOffState
<1>4. CASE CpuOff(c)
  <2>1. pc[c] = "ns" /\ StartOp(c, "off", MaxLvl, PowerOffState) /\ UNCHANGED <<psciVars, onVars, lock>>
    BY <1>4, Zenon DEF CpuOff
  <2> QED BY <1>2, <1>3, <2>1, StartStep, Zenon DEF Lowering
<1>5. CASE SystemSuspendStart(c)
  <2>1. /\ pc[c] = "last_check" /\ StartOp(c, "system_suspend", MaxLvl, PowerOffState)
        /\ UNCHANGED <<psciVars, onVars, lock>>
    BY <1>5, Zenon DEF SystemSuspendStart
  <2> QED BY <1>2, <1>3, <2>1, StartStep, Zenon DEF Lowering
<1>6. CASE \E r \in Requests : CpuSuspend(c, r)
  <2>1. PICK r \in Requests : CpuSuspend(c, r)
    BY <1>6, Zenon
  <2> DEFINE name == IF r.powerdown THEN "suspend" ELSE "retention"
             top == psci_find_target_suspend_lvl(r.info)
  <2>2. /\ pc[c] = "ns" /\ StartOp(c, name, top, r.info) /\ UNCHANGED <<psciVars, onVars, lock>>
    BY <2>1, Zenon DEF CpuSuspend
  <2>3. /\ r.info \in [0..MaxLvl -> State] /\ top \in 0..MaxLvl /\ Sound(r.info, top)
        /\ name \in Lowering /\ name \notin {"off", "system_suspend"}
        /\ name = "suspend" => is_local_state_off(r.info[0])
    BY RequestFacts, Zenon DEF Lowering
  <2> HIDE DEF name, top
  <2> QED BY <2>2, <2>3, StartStep, Zenon
<1>7. CASE WakeFromWfi(c)
  <2>1. pc[c] = "wfi" /\ StartOp(c, "standby_finish", end_pwrlvl[c], AllRun) /\ UNCHANGED <<psciVars, onVars, lock>>
    BY <1>7, Zenon DEF WakeFromWfi
  <2>2. end_pwrlvl[c] \in 0..MaxLvl
    BY <1>1, Zenon DEF TypeOK
  <2> QED BY <1>2, <2>1, <2>2, StartStep, Zenon
<1>8. CASE WarmBoot(c)
  <2> DEFINE e == IF target_pwrlvl[c] = NoLvl THEN MaxLvl ELSE target_pwrlvl[c]
  <2>1. pc[c] = "reset" /\ StartOp(c, "warmboot", e, AllRun) /\ UNCHANGED <<psciVars, onVars, lock>>
    BY <1>8, Zenon DEF WarmBoot
  <2>2. e \in 0..MaxLvl
    BY <1>1, LevelAssumption DEF TypeOK, NoLvl
  <2>3. e = IF target_pwrlvl[c] = NoLvl THEN MaxLvl ELSE target_pwrlvl[c]
    BY Zenon
  <2> HIDE DEF e
  <2> QED BY <1>2, <2>1, <2>2, <2>3, StartStep, Zenon
<1> QED BY <1>4, <1>5, <1>6, <1>7, <1>8, Zenon

\* One lock more.
LEMMA AcquireStep ==
  ASSUME PsciInv, NEW c \in CPU, AcquireLock(c)
  PROVE  PsciInv'
<1>1. TypeOK /\ Local(c)
  BY Zenon DEF PsciInv
<1> DEFINE n0 == Anc[c][held[c] + 1]
<1>2. /\ pc[c] = "lock" /\ lock[n0] = None
      /\ lock' = [lock EXCEPT ![n0] = c] /\ held' = [held EXCEPT ![c] = held[c] + 1]
      /\ pc' = [pc EXCEPT ![c] = IF held[c] + 1 = end_pwrlvl[c] THEN "work" ELSE "lock"]
      /\ UNCHANGED <<psciVars, onVars, op, end_pwrlvl, state_info, next_pc>>
  BY Zenon DEF AcquireLock, Goto
<1>3. /\ held[c] \in Nat /\ end_pwrlvl[c] \in 0..MaxLvl /\ held[c] < end_pwrlvl[c]
      /\ held[c] + 1 \in Lvl
  <2>1. held[c] < end_pwrlvl[c] /\ held[c] \in 0..MaxLvl /\ end_pwrlvl[c] \in 0..MaxLvl
    BY <1>1, <1>2, Typed, Zenon DEF Local, Control
  <2> QED BY <2>1, LevelAssumption DEF Lvl
<1>4. n0 \in Node
  BY <1>3, PathFacts, Zenon
<1>5. /\ held'[c] = held[c] + 1 /\ pc'[c] \in {"work", "lock"}
      /\ pc'[c] = "work" <=> held[c] + 1 = end_pwrlvl[c]
  BY <1>1, <1>2, Zenon DEF TypeOK
<1>6. TypeOK'
  <2>0. held[c] + 1 \in 0..MaxLvl /\ held[c] + 1 <= end_pwrlvl[c]
    BY <1>3, LevelAssumption
  <2>1. held' \in [CPU -> 0..MaxLvl] /\ \A d \in CPU : held'[d] <= end_pwrlvl'[d]
    BY <1>1, <1>2, <2>0, Zenon DEF TypeOK
  <2> QED BY <1>1, <1>2, <1>4, <2>1, Zenon DEF TypeOK, Place, psciVars, onVars
<1>7. OthersLocals(c) /\ OthersStates(c)
  BY <1>1, <1>2, Zenon DEF TypeOK, OthersLocals, OthersStates, psciVars, onVars
<1>8. Control(c)' /\ Asked(c)'
  <2>0. pc'[c] = "lock" => held'[c] < end_pwrlvl[c]
    BY <1>3, <1>5
  <2>1. Control(c)'
    BY <1>1, <1>2, <1>5, <2>0, Zenon DEF Local, Control, UnderLocks
  <2>2. Asked(c)'
    BY <1>1, <1>2, <1>5, Zenon DEF Local, Asked, psciVars, Sound, PowerOffState
  <2> QED BY <2>1, <2>2, Zenon
<1>9. Requesting(c)'
  BY <1>1, <1>2, <1>5, Zenon DEF Local, Requesting, Awake, Retained, Suspended, TurnedOff, Booting, psciVars, onVars, OnLocked
<1>10. Affinity(c)'
  BY <1>1, <1>2, <1>5, Zenon DEF Local, Affinity, Booting, Suspended, psciVars, onVars
<1>11. TurningOn(c)'
  <2>1. TurningOn(c) /\ ~poweron[c] /\ pc'[c] # "on_lock" /\ pc[c] \notin OnLocked /\ pc'[c] \notin OnLocked
    BY <1>1, <1>2, <1>5, Zenon DEF Local, TurningOn, OnLocked
  <2> QED BY <1>1, <1>2, <1>7, <2>1, OwnTurningOn, Zenon DEF onVars
<1>12. aff_info_state[c] # "OFF" /\ pc[c] \notin OnLocked \cup {"off"} /\ pc'[c] \notin OnLocked
  BY <1>1, <1>2, <1>5, Zenon DEF Local, Affinity, OnLocked
<1>13. \A d \in CPU : Local(d)'
  <2>1. UNCHANGED cpu_lock
    BY <1>2, Zenon DEF onVars
  <2> QED BY <1>7, <1>8, <1>9, <1>10, <1>11, <1>12, <2>1, OthersKeepLocal, Zenon DEF Local
<1>14. LockInv'
  <2> SUFFICES ASSUME NEW d \in CPU, NEW n \in Node
               PROVE  lock'[n] = d <=> \E l \in 1..held'[d] : Anc[d][l] = n
    BY Zenon DEF LockInv
  <2>1. lock[n] = d <=> \E l \in 1..held[d] : Anc[d][l] = n
    <3>1. LockInv
      BY Zenon DEF PsciInv
    <3> QED BY <3>1, Zenon DEF LockInv
  <2>2. lock'[n] = IF n = n0 THEN c ELSE lock[n]
    BY <1>1, <1>2, <1>4, Zenon DEF TypeOK
  <2>3. CASE d = c
    <3>1. (\E l \in 1..held'[c] : Anc[c][l] = n) <=> (n = n0 \/ \E l \in 1..held[c] : Anc[c][l] = n)
      BY <1>3, <1>5
    <3> HIDE DEF n0
    <3> QED BY <2>1, <2>2, <2>3, <3>1, Zenon
  <2>4. CASE d # c
    <3>1. held'[d] = held[d]
      BY <1>7, <2>4, Zenon DEF OthersLocals
    <3>2. lock[n0] # d
      BY <1>2, PrimaryAssumption, Zenon
    <3> HIDE DEF n0
    <3> QED BY <2>1, <2>2, <2>4, <3>1, <3>2, Zenon
  <2> QED BY <2>3, <2>4, Zenon
<1>15. Coordinated' /\ Accounted'
  <2>1. UNCHANGED <<local_state, req_local, pd_state, last_cpu>>
    BY <1>2, Zenon DEF psciVars
  <2>2. Coordinated'
    BY <2>1, Zenon DEF PsciInv, Coordinated, Below
  <2>3. Accounted'
    BY <2>1, Zenon DEF PsciInv, Accounted, Below
  <2> QED BY <2>2, <2>3, Zenon
<1>16. SnapshotIsCurrent'
  <2>1. \A n \in Node : pd_state'[n] = pd_state[n]
    BY <1>2, Zenon DEF psciVars
  <2> QED BY <1>5, <1>7, <2>1, OthersKeepSnapshot, Zenon
<1> QED BY <1>6, <1>13, <1>14, <1>15, <1>16, Zenon DEF PsciInv

\* What a step of a CPU that is not in CPU_ON has to show.
LEMMA OwnStep ==
  ASSUME PsciInv, NEW c \in CPU, TypeOK', OthersLocals(c), OthersStates(c), UNCHANGED cpu_lock,
         pc[c] \notin OnLocked, pc'[c] \notin OnLocked,
         aff_info_state[c] # "OFF", pc[c] # "off" \/ poweron[c],
         Control(c)', Asked(c)', Requesting(c)', Affinity(c)', TurningOn(c)',
         LockInv', Coordinated', Accounted',
         \A n \in Node : pd_state'[n] = pd_state[n] \/ lock[n] = c,
         pc'[c] \notin {"on_finish", "suspend_finish"}
  PROVE  PsciInv'
<1>1. \A d \in CPU : Local(d)'
  BY OthersKeepLocal, Zenon DEF Local
<1>2. SnapshotIsCurrent'
  BY OthersKeepSnapshot, Zenon
<1> QED BY <1>1, <1>2, Zenon DEF PsciInv

\* One lock fewer, and the end of the operation after the last.
LEMMA ReleaseStep ==
  ASSUME PsciInv, NEW c \in CPU, ReleaseLock(c)
  PROVE  PsciInv'
<1>1. TypeOK /\ Local(c)
  BY Zenon DEF PsciInv
<1>2. /\ pc[c] = "unlock"
      /\ lock' = [n \in Node |-> IF held[c] > 0 /\ n = Anc[c][held[c]] THEN None ELSE lock[n]]
      /\ held' = [held EXCEPT ![c] = IF held[c] > 0 THEN held[c] - 1 ELSE 0]
      /\ UNCHANGED <<psciVars, onVars>>
  BY Zenon DEF ReleaseLock
<1>3. /\ held[c] \in Nat /\ end_pwrlvl[c] \in 0..MaxLvl /\ held[c] <= end_pwrlvl[c] /\ held[c] <= MaxLvl
      /\ held[c] > 0 => held[c] \in Lvl
      /\ next_pc[c] \in {"ns", "aff_off", "suspended", "wfi"}
  <2>1. held[c] <= end_pwrlvl[c] /\ held[c] \in 0..MaxLvl /\ end_pwrlvl[c] \in 0..MaxLvl
    BY <1>1, Typed, Zenon
  <2>2. next_pc[c] \in {"ns", "aff_off", "suspended", "wfi"}
    BY <1>1, Zenon DEF Local, Control
  <2> QED BY <2>1, <2>2, LevelAssumption DEF Lvl
<1>4. held'[c] = IF held[c] > 0 THEN held[c] - 1 ELSE 0
  BY <1>1, <1>2, Zenon DEF TypeOK
<1>5. \/ /\ held[c] <= 1
         /\ pc' = [pc EXCEPT ![c] = next_pc[c]] /\ op' = [op EXCEPT ![c] = "none"]
         /\ end_pwrlvl' = [end_pwrlvl EXCEPT ![c] = IF next_pc[c] = "wfi" THEN end_pwrlvl[c] ELSE 0]
         /\ state_info' = [state_info EXCEPT ![c] = AllRun]
         /\ next_pc' = [next_pc EXCEPT ![c] = "ns"]
      \/ held[c] > 1 /\ UNCHANGED <<pc, op, end_pwrlvl, state_info, next_pc>>
  BY Zenon DEF ReleaseLock, EndOp, Goto
<1>6. \/ /\ held'[c] = 0 /\ pc'[c] = next_pc[c] /\ op'[c] = "none" /\ next_pc'[c] = "ns"
         /\ end_pwrlvl'[c] = IF next_pc[c] = "wfi" THEN end_pwrlvl[c] ELSE 0
      \/ /\ held'[c] \in Nat /\ pc'[c] = "unlock" /\ op'[c] = op[c] /\ next_pc'[c] = next_pc[c]
         /\ end_pwrlvl'[c] = end_pwrlvl[c] /\ state_info'[c] = state_info[c]
  <2>1. held'[c] \in Nat /\ (held[c] <= 1 => held'[c] = 0)
    BY <1>3, <1>4
  <2> QED BY <1>1, <1>2, <1>5, <2>1, Zenon DEF TypeOK
<1>7. TypeOK'
  <2>1. lock' \in [Node -> CPU \cup {None}]
    BY <1>1, <1>2, Zenon DEF TypeOK
  <2>2. end_pwrlvl' \in [CPU -> 0..MaxLvl] /\ held' \in [CPU -> 0..MaxLvl]
    <3>1. (IF held[c] > 0 THEN held[c] - 1 ELSE 0) \in 0..MaxLvl /\ 0 \in 0..MaxLvl
      BY <1>3, LevelAssumption
    <3>2. held' \in [CPU -> 0..MaxLvl]
      BY <1>1, <1>2, <3>1, Zenon DEF TypeOK
    <3>3. end_pwrlvl' \in [CPU -> 0..MaxLvl]
      <4>1. end_pwrlvl \in [CPU -> 0..MaxLvl]
        BY <1>1, Zenon DEF TypeOK
      <4>2. (IF next_pc[c] = "wfi" THEN end_pwrlvl[c] ELSE 0) \in 0..MaxLvl
        BY <1>3, <3>1, Zenon
      <4>3. \/ end_pwrlvl' = [end_pwrlvl EXCEPT ![c] = IF next_pc[c] = "wfi" THEN end_pwrlvl[c] ELSE 0]
            \/ end_pwrlvl' = end_pwrlvl
        BY <1>5, Zenon
      <4> QED BY <4>1, <4>2, <4>3
    <3> QED BY <3>2, <3>3, Zenon
  <2>3. \A d \in CPU : held'[d] <= end_pwrlvl'[d]
    <3>1. held'[c] <= end_pwrlvl'[c]
      BY <1>3, <1>4, <1>6
    <3>2. \A d \in CPU \ {c} : held'[d] = held[d] /\ end_pwrlvl'[d] = end_pwrlvl[d]
      <4>1. DOMAIN held = CPU /\ DOMAIN end_pwrlvl = CPU
        BY <1>1, Zenon DEF TypeOK
      <4>2. \A d \in CPU \ {c} : held'[d] = held[d]
        BY <1>2, <4>1, Zenon
      <4>3. \A d \in CPU \ {c} : end_pwrlvl'[d] = end_pwrlvl[d]
        BY <1>5, <4>1, Zenon
      <4> QED BY <4>2, <4>3, Zenon
    <3> QED BY <1>1, <3>1, <3>2, Typed, Zenon
  <2>4. AllRun \in [0..MaxLvl -> State]
    BY StateAssumption DEF AllRun, State, RUN
  <2>5. /\ pc' \in [CPU -> Place] /\ state_info' \in [CPU -> [0..MaxLvl -> State]]
        /\ next_pc' \in [CPU -> Place]
        /\ op' \in [CPU -> {"none", "off", "suspend", "retention", "system_suspend", "standby_finish", "warmboot"}]
    <3>1. CASE UNCHANGED <<pc, op, end_pwrlvl, state_info, next_pc>>
      BY <1>1, <3>1, Zenon DEF TypeOK
    <3>2. CASE ~ UNCHANGED <<pc, op, end_pwrlvl, state_info, next_pc>>
      <4>1. /\ pc' = [pc EXCEPT ![c] = next_pc[c]] /\ op' = [op EXCEPT ![c] = "none"]
            /\ state_info' = [state_info EXCEPT ![c] = AllRun]
            /\ next_pc' = [next_pc EXCEPT ![c] = "ns"]
        BY <1>5, <3>2, Zenon
      <4>2. pc' \in [CPU -> Place] /\ next_pc' \in [CPU -> Place]
        BY <1>1, <1>3, <4>1, Zenon DEF TypeOK, Place
      <4>3. state_info' \in [CPU -> [0..MaxLvl -> State]]
        BY <1>1, <4>1, <2>4, Zenon DEF TypeOK
      <4>4. op' \in [CPU -> {"none", "off", "suspend", "retention", "system_suspend", "standby_finish", "warmboot"}]
        BY <1>1, <4>1, Zenon DEF TypeOK
      <4> QED BY <4>2, <4>3, <4>4, Zenon
    <3> QED BY <3>1, <3>2, Zenon
  <2> QED BY <1>1, <1>2, <2>1, <2>2, <2>3, <2>5, Zenon DEF TypeOK, psciVars, onVars
<1>8. OthersLocals(c) /\ OthersStates(c)
  <2>1. \A d \in CPU \ {c} : /\ pc'[d] = pc[d] /\ op'[d] = op[d] /\ end_pwrlvl'[d] = end_pwrlvl[d]
                             /\ state_info'[d] = state_info[d] /\ next_pc'[d] = next_pc[d]
    <3>1. CASE UNCHANGED <<pc, op, end_pwrlvl, state_info, next_pc>>
      BY <3>1, Zenon
    <3>2. CASE ~ UNCHANGED <<pc, op, end_pwrlvl, state_info, next_pc>>
      <4>1. /\ pc' = [pc EXCEPT ![c] = next_pc[c]] /\ op' = [op EXCEPT ![c] = "none"]
            /\ end_pwrlvl' = [end_pwrlvl EXCEPT ![c] = IF next_pc[c] = "wfi" THEN end_pwrlvl[c] ELSE 0]
            /\ state_info' = [state_info EXCEPT ![c] = AllRun]
            /\ next_pc' = [next_pc EXCEPT ![c] = "ns"]
        BY <1>5, <3>2, Zenon
      <4> QED BY <1>1, <4>1, Zenon DEF TypeOK
    <3> QED BY <3>1, <3>2, Zenon
  <2>2. \A d \in CPU \ {c} : held'[d] = held[d]
    BY <1>1, <1>2, Zenon DEF TypeOK
  <2> QED BY <1>2, <2>1, <2>2, Zenon DEF OthersLocals, OthersStates, psciVars, onVars
<1>9. Control(c)'
  BY <1>1, <1>2, <1>3, <1>6, Zenon DEF Local, Control, UnderLocks
<1>10. Asked(c)'
  BY <1>3, <1>6, Zenon DEF Asked
<1>11. Requesting(c)'
  <2>1. /\ local_state'[c] = local_state[c] /\ req_local'[c] = req_local[c]
        /\ target_pwrlvl'[c] = target_pwrlvl[c] /\ aff_info_state'[c] = aff_info_state[c]
    BY <1>2, Zenon DEF psciVars, onVars
  <2> QED BY <1>1, <1>2, <1>3, <1>6, <2>1, Zenon DEF Local, Requesting, Awake, Retained, Suspended, TurnedOff, Booting, OnLocked
<1>12. Affinity(c)'
  BY <1>1, <1>2, <1>3, <1>6, Zenon DEF Local, Affinity, Booting, Suspended, psciVars, onVars
<1>13. TurningOn(c)'
  <2>1. TurningOn(c) /\ ~poweron[c] /\ pc[c] \notin OnLocked
    BY <1>1, <1>2, Zenon DEF Local, TurningOn, OnLocked
  <2>2. pc'[c] # "on_lock" /\ pc'[c] \notin OnLocked
    BY <1>3, <1>6, Zenon DEF OnLocked
  <2> QED BY <1>1, <1>2, <1>8, <2>1, <2>2, OwnTurningOn, Zenon DEF onVars
<1>14. aff_info_state[c] # "OFF" /\ pc[c] \notin OnLocked \cup {"off"} /\ pc'[c] \notin OnLocked \cup {"on_finish", "suspend_finish"}
  BY <1>1, <1>2, <1>3, <1>6, Zenon DEF Local, Affinity, OnLocked, Booting
<1>15. LockInv'
  <2> SUFFICES ASSUME NEW d \in CPU, NEW n \in Node
               PROVE  lock'[n] = d <=> \E l \in 1..held'[d] : Anc[d][l] = n
    BY Zenon DEF LockInv
  <2>0. LockInv
    BY Zenon DEF PsciInv
  <2>1. lock[n] = d <=> \E l \in 1..held[d] : Anc[d][l] = n
    BY <2>0, Zenon DEF LockInv
  <2>2. lock'[n] = IF held[c] > 0 /\ n = Anc[c][held[c]] THEN None ELSE lock[n]
    BY <1>2, Zenon
  <2>3. CASE d = c
    <3>1. CASE held[c] = 0
      <4>1. ~(held[c] > 0)
        BY <3>1
      <4> QED BY <1>4, <2>1, <2>2, <2>3, <3>1, <4>1, Zenon
    <3>2. CASE held[c] > 0
      <4>1. held'[c] = held[c] - 1
        BY <1>4, <3>2, Zenon
      <4>2. \A l \in 1..held'[c] : Anc[c][l] # Anc[c][held[c]]
        <5>1. held[c] \in Lvl
          BY <1>3, <3>2, Zenon
        <5>2. \A l \in 1..held'[c] : l \in Lvl /\ l # held[c]
          BY <1>3, <4>1, LevelAssumption DEF Lvl
        <5> QED BY <5>1, <5>2, PathFacts
      <4>3. \A l \in 1..held[c] : l \in 1..held'[c] \/ l = held[c]
        BY <1>3, <4>1
      <4>4. 1..held'[c] \subseteq 1..held[c]
        BY <1>3, <4>1
      <4> QED BY <2>1, <2>2, <2>3, <3>2, <4>2, <4>3, <4>4, PrimaryAssumption, Zenon
    <3> QED BY <1>3, <3>1, <3>2
  <2>4. CASE d # c
    <3>1. held'[d] = held[d]
      BY <1>8, <2>4, Zenon DEF OthersLocals
    <3>2. held[c] > 0 /\ n = Anc[c][held[c]] => lock[n] = c
      <4>1. held[c] > 0 => held[c] \in 1..held[c]
        BY <1>3
      <4> QED BY <2>0, <4>1, Zenon DEF LockInv
    <3> QED BY <2>1, <2>2, <2>4, <3>1, <3>2, PrimaryAssumption, Zenon
  <2> QED BY <2>3, <2>4, Zenon
<1>16. Coordinated' /\ Accounted'
  <2>1. UNCHANGED <<local_state, req_local, pd_state, last_cpu>>
    BY <1>2, Zenon DEF psciVars
  <2>2. Coordinated'
    BY <2>1, Zenon DEF PsciInv, Coordinated, Below
  <2>3. Accounted'
    BY <2>1, Zenon DEF PsciInv, Accounted, Below
  <2> QED BY <2>2, <2>3, Zenon
<1>17. (\A n \in Node : pd_state'[n] = pd_state[n]) /\ UNCHANGED cpu_lock
  BY <1>2, Zenon DEF psciVars, onVars
<1> QED BY <1>7, <1>8, <1>9, <1>10, <1>11, <1>12, <1>13, <1>14, <1>15, <1>16, <1>17, OwnStep, Zenon

-----------------------------------------------------------------------------
\* A power down that is refused or abandoned under the locks.
LEMMA AbandonStep ==
  ASSUME PsciInv, NEW c \in CPU, pc[c] = "work", op[c] \in Lowering, ThenUnlock(c, "ns"),
         UNCHANGED <<psciVars, onVars, lock, op, end_pwrlvl, held, state_info>>
  PROVE  PsciInv'
<1>1. TypeOK /\ Local(c)
  BY Zenon DEF PsciInv
<1>2. pc' = [pc EXCEPT ![c] = "unlock"] /\ next_pc' = [next_pc EXCEPT ![c] = "ns"]
  BY Zenon DEF ThenUnlock, Goto
<1>3. pc'[c] = "unlock" /\ next_pc'[c] = "ns"
  BY <1>1, <1>2, Zenon DEF TypeOK
<1>4. TypeOK'
  BY <1>1, <1>2, Zenon DEF TypeOK, Place, psciVars, onVars
<1>5. OthersLocals(c) /\ OthersStates(c)
  BY <1>1, <1>2, Zenon DEF TypeOK, OthersLocals, OthersStates, psciVars, onVars
<1>6. Control(c)' /\ Asked(c)'
  BY <1>1, <1>3, Zenon DEF Local, Control, Asked, UnderLocks, Lowering
<1>7. Requesting(c)'
  BY <1>1, <1>3, Zenon DEF Local, Requesting, Awake, Retained, Suspended, TurnedOff, Booting, Lowering, OnLocked, psciVars, onVars
<1>8. Affinity(c)'
  BY <1>1, <1>3, Zenon DEF Local, Affinity, Booting, Suspended, Lowering, psciVars, onVars
<1>9. TurningOn(c)'
  <2>1. TurningOn(c) /\ ~poweron[c] /\ pc'[c] # "on_lock" /\ pc[c] \notin OnLocked /\ pc'[c] \notin OnLocked
    BY <1>1, <1>3, Zenon DEF Local, TurningOn, OnLocked
  <2> QED BY <1>1, <1>5, <2>1, OwnTurningOn, Zenon DEF onVars
<1>10. aff_info_state[c] # "OFF" /\ pc[c] \notin OnLocked \cup {"off"} /\ pc'[c] \notin OnLocked \cup {"on_finish", "suspend_finish"}
  BY <1>1, <1>3, Zenon DEF Local, Affinity, OnLocked, Booting, Lowering
<1>11. LockInv' /\ Coordinated' /\ Accounted'
  BY QuietTree, Zenon DEF psciVars
<1>12. (\A n \in Node : pd_state'[n] = pd_state[n]) /\ UNCHANGED cpu_lock
  BY Zenon DEF psciVars, onVars
<1> QED BY <1>4, <1>5, <1>6, <1>7, <1>8, <1>9, <1>10, <1>11, <1>12, OwnStep, Zenon

\* A CPU under the locks of levels 1 to e has locked the domains it changes.
LEMMA ChangesAreLocked ==
  ASSUME PsciInv, NEW c \in CPU, held[c] = end_pwrlvl[c],
         \A n \in Node : (\A l \in 1..end_pwrlvl[c] : Anc[c][l] # n) => pd_state'[n] = pd_state[n]
  PROVE  \A n \in Node : pd_state'[n] = pd_state[n] \/ lock[n] = c
<1>1. LockInv
  BY Zenon DEF PsciInv
<1> QED BY <1>1, Zenon DEF LockInv

\* The coordinated power down or standby of a CPU under its locks.
LEMMA CoordinateStep ==
  ASSUME PsciInv, NEW c \in CPU, pc[c] = "work", op[c] \in Lowering,
         psci_do_state_coordination(c, end_pwrlvl[c], state_info[c]),
         NEW place, ThenUnlock(c, place),
         UNCHANGED <<aff_info_state, cpu_lock, poweron, target, unread, lock, op, end_pwrlvl, held, state_info>>,
         \/ /\ op[c] = "off" /\ place = "aff_off" /\ UNCHANGED <<target_pwrlvl, ctx_ready>>
         \/ /\ op[c] = "retention" /\ place = "wfi" /\ UNCHANGED <<target_pwrlvl, ctx_ready>>
         \/ /\ op[c] \in {"suspend", "system_suspend"} /\ place = "suspended"
            /\ target_pwrlvl' = [target_pwrlvl EXCEPT ![c] = end_pwrlvl[c]]
            /\ ctx_ready' = [ctx_ready EXCEPT ![c] = TRUE]
  PROVE  PsciInv'
<1>1. TypeOK /\ Local(c) /\ Coordinated /\ Accounted /\ LockInv
  BY Zenon DEF PsciInv
<1>2. pc' = [pc EXCEPT ![c] = "unlock"] /\ next_pc' = [next_pc EXCEPT ![c] = place]
  BY Zenon DEF ThenUnlock, Goto
<1>3. pc'[c] = "unlock" /\ next_pc'[c] = place
  BY <1>1, <1>2, Zenon DEF TypeOK
<1>4. /\ end_pwrlvl[c] \in 0..MaxLvl /\ state_info[c] \in [0..MaxLvl -> State]
      /\ Sound(state_info[c], end_pwrlvl[c]) /\ held[c] = end_pwrlvl[c]
      /\ local_state[c] = RUN /\ \A l \in Lvl : req_local[c][l] = RUN
      /\ op[c] \in {"off", "system_suspend"} => end_pwrlvl[c] = MaxLvl /\ state_info[c] = PowerOffState
      /\ op[c] = "suspend" => is_local_state_off(state_info[c][0])
      /\ aff_info_state[c] = "ON"
  BY <1>1, Zenon DEF TypeOK, Local, Asked, Control, Requesting, Awake, Affinity, Booting, Lowering
<1> DEFINE e == end_pwrlvl[c]
           info == state_info[c]
<1>5. /\ Coordinated' /\ Accounted'
      /\ local_state' \in [CPU -> State] /\ req_local' \in [CPU -> [Lvl -> State]]
      /\ pd_state' \in [Node -> State] /\ last_cpu' \in [Node -> CPU \cup {None}]
      /\ local_state'[c] = info[0]
      /\ \A l \in Lvl : req_local'[c][l] = IF l <= e THEN info[l] ELSE RUN
      /\ \A d \in CPU \ {c} : req_local'[d] = req_local[d] /\ local_state'[d] = local_state[d]
      /\ \A n \in Node : (\A l \in 1..e : Anc[c][l] # n) => pd_state'[n] = pd_state[n]
  BY <1>1, <1>4, Coordination, Zenon
<1>6. \A n \in Node : pd_state'[n] = pd_state[n] \/ lock[n] = c
  BY <1>4, <1>5, ChangesAreLocked, Zenon
<1>7. TypeOK'
  <2>1. target_pwrlvl' \in [CPU -> 0..NoLvl]
    <3>1. end_pwrlvl[c] \in 0..NoLvl
      BY <1>4, LevelAssumption DEF NoLvl
    <3> QED BY <1>1, <3>1, Zenon DEF TypeOK
  <2>2. ctx_ready' \in [CPU -> BOOLEAN] /\ pc' \in [CPU -> Place] /\ next_pc' \in [CPU -> Place]
    BY <1>1, <1>2, Zenon DEF TypeOK, Place
  <2> QED BY <1>1, <1>5, <2>1, <2>2, Zenon DEF TypeOK
<1>8. OthersLocals(c) /\ OthersStates(c)
  <2>1. \A d \in CPU \ {c} : pc'[d] = pc[d] /\ next_pc'[d] = next_pc[d]
    BY <1>1, <1>2, Zenon DEF TypeOK
  <2>2. \A d \in CPU \ {c} : target_pwrlvl'[d] = target_pwrlvl[d] /\ ctx_ready'[d] = ctx_ready[d]
    BY <1>1, Zenon DEF TypeOK
  <2> QED BY <1>5, <2>1, <2>2, Zenon DEF OthersLocals, OthersStates
<1>9. Control(c)' /\ Asked(c)'
  BY <1>1, <1>3, Zenon DEF Local, Control, Asked, UnderLocks, Lowering
<1>10. op[c] \in {"off", "system_suspend"} => \A l \in Lvl : req_local'[c][l] = MaxOff
  <2>1. \A l \in Lvl : l \in 0..MaxLvl /\ l <= MaxLvl
    BY LevelAssumption DEF Lvl
  <2> QED BY <1>4, <1>5, <2>1, Zenon DEF PowerOffState
<1>11. \A l \in Lvl : l > e => req_local'[c][l] = RUN
  <2>1. \A l \in Lvl : l > e => ~(l <= e)
    BY <1>4, LevelAssumption DEF Lvl
  <2> QED BY <1>5, <2>1, Zenon
<1>12. place = "suspended" => is_local_state_off(local_state'[c]) /\ target_pwrlvl'[c] = e /\ ctx_ready'[c]
  <2>1. is_local_state_off(PowerOffState[0])
    BY StateAssumption, LevelAssumption DEF is_local_state_off, PowerOffState
  <2> QED BY <1>1, <1>4, <1>5, <2>1, Zenon DEF TypeOK
<1> HIDE DEF e, info
<1>13. Requesting(c)'
  <2>1. e = end_pwrlvl'[c] /\ op'[c] = op[c]
    BY Zenon DEF e
  <2> QED BY <1>3, <1>10, <1>11, <1>12, <2>1, Zenon DEF Requesting, Awake, Retained, Suspended, TurnedOff, Booting, Lowering, OnLocked
<1>14. Affinity(c)'
  <2>1. place = "suspended" => target_pwrlvl'[c] # NoLvl
    BY <1>4, <1>12, LevelAssumption DEF NoLvl, e
  <2>2. place # "suspended" => target_pwrlvl'[c] = NoLvl
    BY <1>1, <1>4, Zenon DEF Local, Affinity, Suspended, Booting, Lowering
  <2> QED BY <1>1, <1>3, <1>4, <1>12, <2>1, <2>2, Zenon DEF Local, Affinity, Booting, Suspended, Lowering
<1>15. TurningOn(c)'
  <2>1. cpu_lock[c] # None => target'[cpu_lock'[c]] = c /\ pc'[cpu_lock'[c]] \in OnLocked
    <3>1. cpu_lock[c] # None => cpu_lock[c] \in CPU \ {c}
      BY <1>1, Typed, Zenon DEF Local, TurningOn, OnLocked
    <3> QED BY <1>1, <1>8, <3>1, Zenon DEF Local, TurningOn, OthersLocals
  <2>2. ~poweron'[c] /\ aff_info_state'[c] = "ON" /\ UNCHANGED cpu_lock
    BY <1>1, <1>4, Zenon DEF Local, TurningOn
  <2>3. pc'[c] \notin OnLocked \cup {"on_lock", "on_platform"}
    BY <1>3, Zenon DEF OnLocked
  <2> QED BY <2>1, <2>2, <2>3, Zenon DEF TurningOn
<1>16. pc[c] \notin OnLocked \cup {"off"} /\ pc'[c] \notin OnLocked \cup {"on_finish", "suspend_finish"}
  BY <1>3, Zenon DEF OnLocked
<1>17. LockInv'
  BY <1>1, Zenon DEF LockInv
<1> QED BY <1>4, <1>5, <1>6, <1>7, <1>8, <1>9, <1>13, <1>14, <1>15, <1>16, <1>17, OwnStep, Zenon

\* CPU_OFF and the suspends under their locks.
LEMMA PowerDownStep ==
  ASSUME PsciInv, NEW c \in CPU, CpuOffWork(c) \/ SuspendWork(c)
  PROVE  PsciInv'
<1>1. CASE CpuOffWork(c)
  <2>1. pc[c] = "work" /\ op[c] \in Lowering /\ op[c] = "off" /\ UNCHANGED <<onVars, lock, op, end_pwrlvl, held, state_info>>
    BY <1>1, Zenon DEF CpuOffWork, Lowering
  <2>2. CASE ThenUnlock(c, "ns") /\ UNCHANGED psciVars
    BY <2>1, <2>2, AbandonStep, Zenon
  <2>3. CASE /\ psci_do_state_coordination(c, end_pwrlvl[c], state_info[c])
             /\ ThenUnlock(c, "aff_off") /\ UNCHANGED target_pwrlvl
    BY <2>1, <2>3, CoordinateStep, Zenon DEF onVars
  <2> QED BY <1>1, <2>2, <2>3, Zenon DEF CpuOffWork
<1>2. CASE SuspendWork(c)
  <2>1. /\ pc[c] = "work" /\ op[c] \in Lowering /\ op[c] \in {"suspend", "retention", "system_suspend"}
        /\ UNCHANGED <<aff_info_state, cpu_lock, poweron, target, unread, lock, op, end_pwrlvl, held, state_info>>
    BY <1>2, Zenon DEF SuspendWork, Lowering
  <2>2. CASE ThenUnlock(c, "ns") /\ UNCHANGED <<psciVars, ctx_ready>>
    BY <2>1, <2>2, AbandonStep, Zenon DEF onVars
  <2>3. CASE /\ psci_do_state_coordination(c, end_pwrlvl[c], state_info[c])
             /\ op[c] = "retention" /\ ThenUnlock(c, "wfi") /\ UNCHANGED <<target_pwrlvl, ctx_ready>>
    BY <2>1, <2>3, CoordinateStep, Zenon
  <2>4. CASE /\ psci_do_state_coordination(c, end_pwrlvl[c], state_info[c])
             /\ op[c] # "retention" /\ ThenUnlock(c, "suspended")
             /\ target_pwrlvl' = [target_pwrlvl EXCEPT ![c] = end_pwrlvl[c]]
             /\ ctx_ready' = [ctx_ready EXCEPT ![c] = TRUE]
    <3>1. op[c] \in {"suspend", "system_suspend"}
      BY <2>1, <2>4, Zenon
    <3> QED BY <2>1, <2>4, <3>1, CoordinateStep, Zenon
  <2> QED BY <1>2, <2>2, <2>3, <2>4, Zenon DEF SuspendWork
<1> QED BY <1>1, <1>2, Zenon

\* A CPU that wakes up under its locks.
LEMMA FinishStep ==
  ASSUME PsciInv, NEW c \in CPU, NEW info,
         pc[c] \in {"work", "on_finish", "suspend_finish"}, op[c] \in {"standby_finish", "warmboot"},
         held[c] = end_pwrlvl[c], \A l \in Lvl : l > end_pwrlvl[c] => req_local[c][l] = RUN,
         psci_set_pwr_domains_to_run(c, end_pwrlvl[c]),
         psci_stats_update_pwr_up(c, end_pwrlvl[c], info), ThenUnlock(c, "ns"),
         target_pwrlvl' \in [CPU -> 0..NoLvl], target_pwrlvl'[c] = NoLvl,
         \A d \in CPU \ {c} : target_pwrlvl'[d] = target_pwrlvl[d],
         ctx_ready' \in [CPU -> BOOLEAN], \A d \in CPU \ {c} : ctx_ready'[d] = ctx_ready[d],
         UNCHANGED <<cpu_lock, poweron, target, unread, lock, op, end_pwrlvl, held, state_info>>
  PROVE  PsciInv'
<1>1. TypeOK /\ Local(c) /\ Coordinated /\ Accounted /\ LockInv
  BY Zenon DEF PsciInv
<1>2. /\ pc' = [pc EXCEPT ![c] = "unlock"] /\ next_pc' = [next_pc EXCEPT ![c] = "ns"]
      /\ aff_info_state' = [aff_info_state EXCEPT ![c] = "ON"]
  BY Zenon DEF ThenUnlock, Goto, psci_set_pwr_domains_to_run
<1>3. pc'[c] = "unlock" /\ next_pc'[c] = "ns" /\ aff_info_state'[c] = "ON"
  BY <1>1, <1>2, Zenon DEF TypeOK
<1>4. end_pwrlvl[c] \in 0..MaxLvl /\ aff_info_state[c] # "OFF"
  BY <1>1, Zenon DEF TypeOK, Local, Affinity, Booting
<1>5. /\ Coordinated' /\ Accounted'
      /\ local_state' \in [CPU -> State] /\ req_local' \in [CPU -> [Lvl -> State]]
      /\ pd_state' \in [Node -> State] /\ last_cpu' \in [Node -> CPU \cup {None}]
      /\ local_state'[c] = RUN /\ \A l \in Lvl : req_local'[c][l] = RUN
      /\ \A d \in CPU \ {c} : req_local'[d] = req_local[d] /\ local_state'[d] = local_state[d]
      /\ \A n \in Node : (\A l \in 1..end_pwrlvl[c] : Anc[c][l] # n) => pd_state'[n] = pd_state[n]
  BY <1>1, <1>4, WakeUp, Zenon
<1>6. \A n \in Node : pd_state'[n] = pd_state[n] \/ lock[n] = c
  BY <1>5, ChangesAreLocked, Zenon
<1>7. TypeOK'
  <2>1. pc' \in [CPU -> Place] /\ next_pc' \in [CPU -> Place] /\ aff_info_state' \in [CPU -> {"ON", "OFF", "ON_PENDING"}]
    BY <1>1, <1>2, Zenon DEF TypeOK, Place
  <2> QED BY <1>1, <1>5, <2>1, Zenon DEF TypeOK
<1>8. OthersLocals(c) /\ OthersStates(c)
  <2>1. \A d \in CPU \ {c} : pc'[d] = pc[d] /\ next_pc'[d] = next_pc[d] /\ aff_info_state'[d] = aff_info_state[d]
    BY <1>1, <1>2, Zenon DEF TypeOK
  <2> QED BY <1>5, <2>1, Zenon DEF OthersLocals, OthersStates
<1>9. Control(c)' /\ Asked(c)'
  BY <1>1, <1>3, Zenon DEF Local, Control, Asked, UnderLocks, Lowering
<1>10. Requesting(c)'
  BY <1>1, <1>3, <1>5, Zenon DEF Local, Control, Requesting, Awake, Retained, Suspended, TurnedOff, Booting, OnLocked
<1>11. Affinity(c)'
  BY <1>3, Zenon DEF Affinity, Booting, Suspended
<1>12. TurningOn(c)'
  <2>1. cpu_lock[c] # None => target'[cpu_lock'[c]] = c /\ pc'[cpu_lock'[c]] \in OnLocked
    <3>1. cpu_lock[c] # None => cpu_lock[c] \in CPU \ {c}
      BY <1>1, Typed, Zenon DEF Local, TurningOn, OnLocked
    <3> QED BY <1>1, <1>8, <3>1, Zenon DEF Local, TurningOn, OthersLocals
  <2>2. ~poweron'[c] /\ UNCHANGED cpu_lock
    BY <1>1, <1>4, Zenon DEF Local, TurningOn
  <2>3. pc'[c] \notin OnLocked \cup {"on_lock", "on_platform"}
    BY <1>3, Zenon DEF OnLocked
  <2> QED BY <1>3, <2>1, <2>2, <2>3, Zenon DEF TurningOn
<1>13. pc[c] \notin OnLocked \cup {"off"} /\ pc'[c] \notin OnLocked \cup {"on_finish", "suspend_finish"}
  BY <1>3, Zenon DEF OnLocked
<1>14. LockInv'
  <2>1. LockInv
    BY Zenon DEF PsciInv
  <2> QED BY <2>1, Zenon DEF LockInv
<1> QED BY <1>4, <1>5, <1>6, <1>7, <1>8, <1>9, <1>10, <1>11, <1>12, <1>13, <1>14, OwnStep, Zenon

\* The end of a standby, of a resume and of a power on.
LEMMA PowerUpStep ==
  ASSUME PsciInv, NEW c \in CPU, psci_suspend_to_standby_finisher(c) \/ WarmBootFinish(c)
  PROVE  PsciInv'
<1>1. TypeOK /\ Local(c)
  BY Zenon DEF PsciInv
<1>2. CASE psci_suspend_to_standby_finisher(c)
  <2>1. /\ pc[c] = "work" /\ op[c] = "standby_finish"
        /\ psci_stats_update_pwr_up(c, end_pwrlvl[c], psci_get_target_local_pwr_states(c, end_pwrlvl[c]))
        /\ psci_set_pwr_domains_to_run(c, end_pwrlvl[c])
        /\ ThenUnlock(c, "ns")
        /\ UNCHANGED <<target_pwrlvl, ctx_ready>>
        /\ UNCHANGED <<cpu_lock, poweron, target, unread, lock, op, end_pwrlvl, held, state_info>>
    BY <1>2, Zenon DEF psci_suspend_to_standby_finisher
  <2>2. held[c] = end_pwrlvl[c] /\ \A l \in Lvl : l > end_pwrlvl[c] => req_local[c][l] = RUN
    BY <1>1, <2>1, Zenon DEF Local, Control, Requesting, Retained
  <2>3. target_pwrlvl[c] = NoLvl
    BY <1>1, <2>1, Zenon DEF Local, Affinity, Suspended, Booting
  <2>4. target_pwrlvl \in [CPU -> 0..NoLvl] /\ ctx_ready \in [CPU -> BOOLEAN]
    BY <1>1, Zenon DEF TypeOK
  <2>5. /\ target_pwrlvl' \in [CPU -> 0..NoLvl] /\ target_pwrlvl'[c] = NoLvl
        /\ \A d \in CPU \ {c} : target_pwrlvl'[d] = target_pwrlvl[d]
        /\ ctx_ready' \in [CPU -> BOOLEAN] /\ \A d \in CPU \ {c} : ctx_ready'[d] = ctx_ready[d]
    BY <2>1, <2>3, <2>4, Zenon
  <2>6. pc[c] \in {"work", "on_finish", "suspend_finish"} /\ op[c] \in {"standby_finish", "warmboot"}
    BY <2>1, Zenon
  <2> QED BY ONLY PsciInv, c \in CPU, <2>1, <2>2, <2>5, <2>6, FinishStep
<1>3. CASE WarmBootFinish(c)
  <2>1. /\ psci_set_pwr_domains_to_run(c, end_pwrlvl[c])
        /\ psci_stats_update_pwr_up(c, end_pwrlvl[c], state_info[c])
        /\ ThenUnlock(c, "ns")
        /\ UNCHANGED <<cpu_lock, poweron, target, unread, lock, op, end_pwrlvl, held, state_info>>
    BY <1>3, Zenon DEF WarmBootFinish
  <2>2. ctx_ready' \in [CPU -> BOOLEAN] /\ \A d \in CPU \ {c} : ctx_ready'[d] = ctx_ready[d]
    BY <1>1, <1>3, Zenon DEF TypeOK, WarmBootFinish
  <2>3. target_pwrlvl \in [CPU -> 0..NoLvl] /\ NoLvl \in 0..NoLvl /\ end_pwrlvl[c] \in 0..MaxLvl
    <3>1. NoLvl \in 0..NoLvl
      BY LevelAssumption DEF NoLvl
    <3> QED BY <1>1, <3>1, Typed, Zenon DEF TypeOK
  <2>4. pc[c] \in {"on_finish", "suspend_finish"} => held[c] = end_pwrlvl[c] /\ op[c] = "warmboot"
    BY <1>1, Zenon DEF Local, Control
  <2>5. CASE pc[c] = "on_finish" /\ UNCHANGED target_pwrlvl
    <3>1. target_pwrlvl[c] = NoLvl
      BY <1>1, <2>4, <2>5, Zenon DEF Local, Affinity, Suspended, Booting
    <3>2. end_pwrlvl[c] = MaxLvl
      BY <1>1, <2>4, <2>5, <3>1, Zenon DEF Local, Asked
    <3>3. \A l \in Lvl : ~(l > end_pwrlvl[c])
      BY <3>2, LevelAssumption DEF Lvl
    <3>4. /\ target_pwrlvl' \in [CPU -> 0..NoLvl] /\ target_pwrlvl'[c] = NoLvl
          /\ \A d \in CPU \ {c} : target_pwrlvl'[d] = target_pwrlvl[d]
      BY <2>3, <2>5, <3>1, Zenon
    <3>5. \A l \in Lvl : l > end_pwrlvl[c] => req_local[c][l] = RUN
      BY <3>3, Zenon
    <3>6. pc[c] \in {"work", "on_finish", "suspend_finish"} /\ op[c] \in {"standby_finish", "warmboot"} /\ held[c] = end_pwrlvl[c]
      BY <2>4, <2>5, Zenon
    <3> QED BY ONLY PsciInv, c \in CPU, <2>1, <2>2, <3>4, <3>5, <3>6, FinishStep
  <2>6. CASE pc[c] = "suspend_finish" /\ target_pwrlvl' = [target_pwrlvl EXCEPT ![c] = NoLvl]
    <3>1. target_pwrlvl[c] # NoLvl /\ Suspended(c)
      BY <1>1, <2>4, <2>6, Zenon DEF Local, Affinity, Suspended, Booting
    <3>2. end_pwrlvl[c] = target_pwrlvl[c]
      BY <1>1, <2>4, <2>6, <3>1, Zenon DEF Local, Asked
    <3>3. \A l \in Lvl : l > end_pwrlvl[c] => req_local[c][l] = RUN
      BY <1>1, <3>1, <3>2, Zenon DEF Local, Requesting
    <3>4. target_pwrlvl' \in [CPU -> 0..NoLvl] /\ target_pwrlvl'[c] = NoLvl /\ \A d \in CPU \ {c} : target_pwrlvl'[d] = target_pwrlvl[d]
      BY <2>3, <2>6, Zenon
    <3>5. pc[c] \in {"work", "on_finish", "suspend_finish"} /\ op[c] \in {"standby_finish", "warmboot"} /\ held[c] = end_pwrlvl[c]
      BY <2>4, <2>6, Zenon
    <3> QED BY ONLY PsciInv, c \in CPU, <2>1, <2>2, <3>3, <3>4, <3>5, FinishStep
  <2> QED BY <1>3, <2>5, <2>6, Zenon DEF WarmBootFinish
<1> QED BY <1>2, <1>3, Zenon

-----------------------------------------------------------------------------
\* The affinity state of a CPU that is turned off, its reset, and the call that
\* turns another CPU on, and the check of SYSTEM_SUSPEND: steps that leave the
\* tree and the locks alone.
LEMMA QuietStep ==
  ASSUME PsciInv, NEW c \in CPU,
         \/ SetAffinityOff(c) \/ PowerUp(c) \/ (\E t \in CPU : CpuOn(c, t))
         \/ SystemSuspend(c) \/ IsLastOnCpu(c)
  PROVE  PsciInv'
<1>1. TypeOK /\ Local(c)
  BY Zenon DEF PsciInv
<1>2. UNCHANGED <<psciVars, opVars, lock, cpu_lock, ctx_ready>>
  BY Zenon DEF SetAffinityOff, PowerUp, CpuOn, SystemSuspend, IsLastOnCpu
<1>3. LockInv' /\ Coordinated' /\ Accounted' /\ (\A n \in Node : pd_state'[n] = pd_state[n])
  BY <1>2, QuietTree, Zenon DEF psciVars, opVars
<1>4. cpu_lock[c] # None /\ pc[c] \notin OnLocked => cpu_lock[c] \in CPU \ {c}
  BY <1>1, Zenon DEF Local, TurningOn, TypeOK
<1>5. CASE SetAffinityOff(c)
  <2>1. /\ pc[c] = "aff_off" /\ aff_info_state' = [aff_info_state EXCEPT ![c] = "OFF"]
        /\ pc' = [pc EXCEPT ![c] = "off"] /\ UNCHANGED <<poweron, target, unread>>
    BY <1>5, Zenon DEF SetAffinityOff, Goto
  <2>2. aff_info_state'[c] = "OFF" /\ pc'[c] = "off"
    BY <1>1, <2>1, Zenon DEF TypeOK
  <2>3. TypeOK'
    BY <1>1, <1>2, <2>1, Zenon DEF TypeOK, Place, psciVars, opVars
  <2>4. OthersLocals(c) /\ OthersStates(c)
    BY <1>1, <1>2, <2>1, Zenon DEF TypeOK, OthersLocals, OthersStates, psciVars, opVars
  <2>5. Control(c)' /\ Asked(c)'
    BY <1>1, <1>2, <2>1, <2>2, Zenon DEF Local, Control, Asked, UnderLocks, opVars, psciVars
  <2>6. Requesting(c)'
    BY <1>1, <1>2, <2>1, <2>2, Zenon DEF Local, Control, Requesting, Awake, Retained, Suspended, TurnedOff, Booting, OnLocked, UnderLocks, opVars, psciVars
  <2>7. Affinity(c)'
    BY <1>1, <1>2, <2>1, <2>2, Zenon DEF Local, Control, Affinity, Booting, Suspended, UnderLocks, opVars, psciVars
  <2>8. TurningOn(c)'
    <3>1. TurningOn(c) /\ ~poweron'[c] /\ pc[c] \notin OnLocked /\ pc'[c] \notin OnLocked
      BY <1>1, <2>1, <2>2, Zenon DEF Local, TurningOn, OnLocked
    <3> QED BY <1>1, <1>2, <2>2, <2>4, <3>1, OwnTurningOn, Zenon
  <2>9. /\ pc[c] \notin OnLocked \cup {"off"} /\ pc'[c] \notin OnLocked \cup {"on_finish", "suspend_finish"}
        /\ aff_info_state[c] # "OFF" /\ UNCHANGED cpu_lock
    BY <1>1, <1>2, <2>1, <2>2, Zenon DEF OnLocked, Local, Affinity, Booting
  <2> QED BY <1>3, <2>3, <2>4, <2>5, <2>6, <2>7, <2>8, <2>9, OwnStep, Zenon
<1>6. CASE PowerUp(c)
  <2>1. /\ \/ pc[c] = "suspended" /\ UNCHANGED poweron
           \/ pc[c] = "off" /\ poweron[c] /\ poweron' = [poweron EXCEPT ![c] = FALSE]
        /\ pc' = [pc EXCEPT ![c] = "reset"] /\ UNCHANGED <<aff_info_state, target, unread>>
    BY <1>6, Zenon DEF PowerUp, Goto
  <2>2. pc'[c] = "reset" /\ ~poweron'[c]
    BY <1>1, <2>1, Zenon DEF TypeOK, Local, TurningOn
  <2>3. TypeOK'
    BY <1>1, <1>2, <2>1, Zenon DEF TypeOK, Place, psciVars, opVars
  <2>4. OthersLocals(c) /\ OthersStates(c)
    <3>1. \A d \in CPU \ {c} : pc'[d] = pc[d] /\ poweron'[d] = poweron[d]
      BY <1>1, <2>1, Zenon DEF TypeOK
    <3> QED BY <1>2, <2>1, <3>1, Zenon DEF OthersLocals, OthersStates, psciVars, opVars
  <2>5. Control(c)' /\ Asked(c)'
    BY <1>1, <1>2, <2>1, <2>2, Zenon DEF Local, Control, Asked, UnderLocks, opVars, psciVars
  <2>6. /\ \/ pc[c] = "suspended" /\ aff_info_state[c] = "ON"
           \/ pc[c] = "off" /\ aff_info_state[c] = "ON_PENDING" /\ poweron[c]
        /\ op[c] = "none" /\ next_pc[c] = "ns"
    BY <1>1, <2>1, Zenon DEF Local, Affinity, Booting, TurningOn, Control, UnderLocks
  <2>7. Requesting(c)'
    BY <1>1, <1>2, <2>1, <2>2, <2>6, Zenon DEF Local, Requesting, Awake, Retained, Suspended, TurnedOff, Booting, OnLocked, opVars, psciVars
  <2>8. Affinity(c)'
    BY <1>1, <1>2, <2>1, <2>2, <2>6, Zenon DEF Local, Affinity, Booting, Suspended, opVars, psciVars
  <2>9. TurningOn(c)'
    <3>1. TurningOn(c) /\ pc[c] \notin OnLocked /\ pc'[c] \notin OnLocked /\ pc'[c] # "on_lock"
      BY <1>1, <2>2, <2>6, Zenon DEF Local, OnLocked
    <3> QED BY <1>1, <1>2, <2>1, <2>2, <2>4, <3>1, OwnTurningOn, Zenon
  <2>10. /\ pc[c] \notin OnLocked /\ pc'[c] \notin OnLocked \cup {"on_finish", "suspend_finish"}
         /\ aff_info_state[c] # "OFF" /\ (pc[c] # "off" \/ poweron[c]) /\ UNCHANGED cpu_lock
    BY <1>2, <2>2, <2>6, Zenon DEF OnLocked
  <2> QED BY <1>3, <2>3, <2>4, <2>5, <2>7, <2>8, <2>9, <2>10, OwnStep, Zenon
<1>7. CASE \E t \in CPU : CpuOn(c, t)
  <2>1. PICK t \in CPU : CpuOn(c, t)
    BY <1>7, Zenon
  <2>2. /\ pc[c] = "ns" /\ target' = [target EXCEPT ![c] = t] /\ pc' = [pc EXCEPT ![c] = "on_lock"]
        /\ UNCHANGED <<aff_info_state, poweron, unread>>
    BY <2>1, Zenon DEF CpuOn, Goto
  <2>3. target'[c] = t /\ pc'[c] = "on_lock" /\ t # None
    BY <1>1, <2>2, PrimaryAssumption, Zenon DEF TypeOK
  <2>4. TypeOK'
    BY <1>1, <1>2, <2>2, Zenon DEF TypeOK, Place, psciVars, opVars
  <2>5. OthersLocals(c) /\ OthersStates(c)
    BY <1>1, <1>2, <2>2, Zenon DEF TypeOK, OthersLocals, OthersStates, psciVars, opVars
  <2>6. Control(c)' /\ Asked(c)'
    BY <1>1, <1>2, <2>2, <2>3, Zenon DEF Local, Control, Asked, UnderLocks, opVars, psciVars
  <2>7. Requesting(c)'
    BY <1>1, <1>2, <2>2, <2>3, Zenon DEF Local, Control, Requesting, Awake, Retained, Suspended, TurnedOff, Booting, OnLocked, UnderLocks, opVars, psciVars
  <2>8. Affinity(c)'
    BY <1>1, <1>2, <2>2, <2>3, Zenon DEF Local, Control, Affinity, Booting, Suspended, UnderLocks, opVars, psciVars
  <2>9. TurningOn(c)'
    <3>1. TurningOn(c) /\ ~poweron[c] /\ pc[c] \notin OnLocked /\ pc'[c] \notin OnLocked
      BY <1>1, <2>2, <2>3, Zenon DEF Local, TurningOn, OnLocked
    <3> QED BY <1>1, <1>2, <2>2, <2>3, <2>5, <3>1, OwnTurningOn, Zenon
  <2>10. /\ pc[c] \notin OnLocked \cup {"off"} /\ pc'[c] \notin OnLocked \cup {"on_finish", "suspend_finish"}
         /\ aff_info_state[c] # "OFF" /\ UNCHANGED cpu_lock
    BY <1>1, <1>2, <2>2, <2>3, Zenon DEF OnLocked, Local, Affinity, Booting
  <2> QED BY <1>3, <2>4, <2>5, <2>6, <2>7, <2>8, <2>9, <2>10, OwnStep, Zenon
<1>8. CASE SystemSuspend(c) \/ IsLastOnCpu(c)
  <2>1. /\ pc[c] \in {"ns", "last_check"} /\ UNCHANGED <<aff_info_state, poweron, target>>
        /\ unread' = [unread EXCEPT ![c] = CPU \ {c}] \/ (\E d \in unread[c] : unread' = [unread EXCEPT ![c] = @ \ {d}])
             \/ unread' = [unread EXCEPT ![c] = {}]
    BY <1>8, Zenon DEF SystemSuspend, IsLastOnCpu
  <2>2. PICK place \in {"ns", "last_check"} : pc' = [pc EXCEPT ![c] = place]
    <3>1. pc[c] = "last_check" => pc = [pc EXCEPT ![c] = "last_check"]
      <4>1. pc \in [CPU -> Place]
        BY <1>1, Zenon DEF TypeOK
      <4> QED BY <4>1
    <3> QED BY <1>8, <3>1, Zenon DEF SystemSuspend, IsLastOnCpu, Goto
  <2>3. pc'[c] \in {"ns", "last_check"}
    BY <1>1, <2>2, Zenon DEF TypeOK
  <2>4. TypeOK'
    <3>1. unread' \in [CPU -> SUBSET CPU]
      <4>1. unread \in [CPU -> SUBSET CPU]
        BY <1>1, Zenon DEF TypeOK
      <4>2. unread[c] \ {c} \subseteq CPU /\ \A d : unread[c] \ {d} \in SUBSET CPU
        BY <4>1
      <4> QED BY <2>1, <4>1, <4>2
    <3>2. pc' \in [CPU -> Place]
      BY <1>1, <2>2, Zenon DEF TypeOK, Place
    <3> QED BY <1>1, <1>2, <2>1, <3>1, <3>2, Zenon DEF TypeOK, psciVars, opVars
  <2>5. OthersLocals(c) /\ OthersStates(c)
    BY <1>1, <1>2, <2>1, <2>2, Zenon DEF TypeOK, OthersLocals, OthersStates, psciVars, opVars
  <2>6. Control(c)' /\ Asked(c)'
    BY <1>1, <1>2, <2>1, <2>3, Zenon DEF Local, Control, Asked, UnderLocks, opVars, psciVars
  <2>7. Requesting(c)'
    BY <1>1, <1>2, <2>1, <2>3, Zenon DEF Local, Control, Requesting, Awake, Retained, Suspended, TurnedOff, Booting, OnLocked, UnderLocks, opVars, psciVars
  <2>8. Affinity(c)'
    BY <1>1, <1>2, <2>1, <2>3, Zenon DEF Local, Control, Affinity, Booting, Suspended, UnderLocks, opVars, psciVars
  <2>9. TurningOn(c)'
    <3>1. TurningOn(c) /\ ~poweron[c] /\ pc[c] \notin OnLocked /\ pc'[c] \notin OnLocked /\ pc'[c] # "on_lock"
      BY <1>1, <2>1, <2>3, Zenon DEF Local, TurningOn, OnLocked
    <3> QED BY <1>1, <1>2, <2>1, <2>5, <3>1, OwnTurningOn, Zenon
  <2>10. /\ pc[c] \notin OnLocked \cup {"off"} /\ pc'[c] \notin OnLocked \cup {"on_finish", "suspend_finish"}
         /\ aff_info_state[c] # "OFF" /\ UNCHANGED cpu_lock
    BY <1>1, <1>2, <2>1, <2>3, Zenon DEF OnLocked, Local, Affinity, Booting
  <2> QED BY <1>3, <2>4, <2>5, <2>6, <2>7, <2>8, <2>9, <2>10, OwnStep, Zenon
<1> QED BY <1>5, <1>6, <1>7, <1>8, Zenon

\* The CPU standby fast path, which does not touch the tree.
LEMMA StandbyStep ==
  ASSUME PsciInv, NEW c \in CPU, WakeFromStandby(c) \/ \E r \in Requests : CpuStandby(c, r)
  PROVE  PsciInv'
<1>1. TypeOK /\ Local(c)
  BY Zenon DEF PsciInv
<1>2. PICK s \in State, place \in {"standby", "ns"} :
         /\ \/ pc[c] = "ns" /\ place = "standby"
            \/ pc[c] = "standby" /\ place = "ns" /\ s = RUN
         /\ local_state' = [local_state EXCEPT ![c] = s] /\ pc' = [pc EXCEPT ![c] = place]
         /\ UNCHANGED <<target_pwrlvl, req_local, pd_state, last_cpu, lock, opVars, onVars>>
  <2>1. \A r \in Requests : r.info[0] \in State
    BY RequestFacts, LevelAssumption
  <2>2. RUN \in State
    BY StateAssumption DEF State, RUN
  <2>3. CASE WakeFromStandby(c)
    BY <2>2, <2>3, Zenon DEF WakeFromStandby, Goto
  <2>4. CASE \E r \in Requests : CpuStandby(c, r)
    <3>1. PICK r \in Requests : CpuStandby(c, r)
      BY <2>4, Zenon
    <3> QED BY <2>1, <3>1, Zenon DEF CpuStandby, Goto
  <2> QED BY <2>3, <2>4, Zenon
<1>3. pc'[c] = place /\ local_state'[c] = s
  BY <1>1, <1>2, Zenon DEF TypeOK
<1>4. /\ op[c] = "none" /\ next_pc[c] = "ns" /\ target_pwrlvl[c] = NoLvl
      /\ aff_info_state[c] = "ON" /\ \A l \in Lvl : req_local[c][l] = RUN
  BY <1>1, <1>2, Zenon DEF Local, Control, UnderLocks, Requesting, Awake, Affinity, Booting, Suspended
<1>5. TypeOK'
  BY <1>1, <1>2, Zenon DEF TypeOK, Place, onVars, opVars
<1>6. OthersLocals(c) /\ OthersStates(c)
  BY <1>1, <1>2, Zenon DEF TypeOK, OthersLocals, OthersStates, onVars, opVars
<1>7. Control(c)' /\ Asked(c)'
  BY <1>1, <1>2, <1>3, <1>4, Zenon DEF Local, Control, Asked, UnderLocks, opVars
<1>8. Requesting(c)'
  BY <1>2, <1>3, <1>4, Zenon DEF Requesting, Awake, Retained, Suspended, TurnedOff, Booting, OnLocked, opVars
<1>9. Affinity(c)'
  BY <1>2, <1>3, <1>4, Zenon DEF Affinity, Booting, Suspended, opVars, onVars
<1>10. TurningOn(c)'
  <2>1. TurningOn(c) /\ ~poweron[c] /\ pc[c] \notin OnLocked /\ pc'[c] \notin OnLocked /\ pc'[c] # "on_lock"
    BY <1>1, <1>2, <1>3, Zenon DEF Local, TurningOn, OnLocked
  <2> QED BY <1>1, <1>2, <1>6, <2>1, OwnTurningOn, Zenon DEF onVars
<1>11. LockInv' /\ Accounted' /\ (\A n \in Node : pd_state'[n] = pd_state[n])
  <2>1. LockInv /\ Accounted /\ UNCHANGED <<lock, held, pd_state, last_cpu>>
    BY <1>2, Zenon DEF PsciInv, opVars
  <2>2. LockInv'
    BY <2>1, Zenon DEF LockInv
  <2>3. Accounted'
    BY <2>1, Zenon DEF Accounted, Below
  <2> QED BY <2>1, <2>2, <2>3, Zenon
<1>12. Coordinated'
  <2>0. 1 \in Lvl
    BY LevelAssumption DEF Lvl
  <2>1. Coordinated /\ 1 \in Lvl /\ UNCHANGED <<pd_state, req_local>>
    BY <1>2, <2>0, Zenon DEF PsciInv
  <2>2. find_local_state_type(req_local[c][1]) <= find_local_state_type(local_state'[c])
    <3>1. \A x \in State : find_local_state_type(RUN) <= find_local_state_type(x)
      BY StateAssumption DEF find_local_state_type, State, RUN
    <3> QED BY <1>2, <1>3, <1>4, <2>1, <3>1, Zenon
  <2>3. \A d \in CPU : find_local_state_type(req_local'[d][1]) <= find_local_state_type(local_state'[d])
    BY <1>6, <2>1, <2>2, Zenon DEF Coordinated, OthersLocals
  <2> QED BY <2>1, <2>3, Zenon DEF Coordinated, Below
<1>13. /\ pc[c] \notin OnLocked \cup {"off"} /\ pc'[c] \notin OnLocked \cup {"on_finish", "suspend_finish"}
       /\ UNCHANGED cpu_lock
  BY <1>2, <1>3, Zenon DEF OnLocked, onVars
<1> QED BY <1>4, <1>5, <1>6, <1>7, <1>8, <1>9, <1>10, <1>11, <1>12, <1>13, OwnStep, Zenon

\* A booting CPU reads what its domains emerge from.
LEMMA SnapshotStep ==
  ASSUME PsciInv, NEW c \in CPU, WarmBootWork(c)
  PROVE  PsciInv'
<1>1. TypeOK /\ Local(c) /\ SnapshotIsCurrent
  BY Zenon DEF PsciInv
<1> DEFINE place == IF aff_info_state[c] = "ON_PENDING" THEN "on_finish" ELSE "suspend_finish"
           snap == psci_get_target_local_pwr_states(c, end_pwrlvl[c])
<1>2. /\ pc[c] = "work" /\ op[c] = "warmboot"
      /\ state_info' = [state_info EXCEPT ![c] = snap] /\ pc' = [pc EXCEPT ![c] = place]
      /\ UNCHANGED <<psciVars, onVars, lock, op, end_pwrlvl, held, next_pc>>
  BY Zenon DEF WarmBootWork, Goto
<1>3. state_info'[c] = snap /\ pc'[c] = place
  BY <1>1, <1>2, Zenon DEF TypeOK
<1>4. /\ aff_info_state[c] \in {"ON", "ON_PENDING"} /\ next_pc[c] = "ns" /\ held[c] = end_pwrlvl[c]
      /\ place \in {"on_finish", "suspend_finish"}
      /\ place = "on_finish" <=> aff_info_state[c] = "ON_PENDING"
  BY <1>1, <1>2, Zenon DEF Local, Control, Affinity, Booting, TypeOK
<1>5. snap \in [0..MaxLvl -> State]
  <2>1. \A l \in 0..MaxLvl : l # 0 => Anc[c][l] \in Node
    BY PathFacts, LevelAssumption DEF Lvl
  <2>2. local_state[c] \in State /\ RUN \in State /\ \A n \in Node : pd_state[n] \in State
    <3>1. RUN \in State
      BY StateAssumption DEF State, RUN
    <3> QED BY <1>1, <3>1, Zenon DEF TypeOK
  <2> QED BY <2>1, <2>2, Zenon DEF psci_get_target_local_pwr_states
<1>6. TypeOK'
  <2>1. pc' \in [CPU -> Place] /\ state_info' \in [CPU -> [0..MaxLvl -> State]]
    BY <1>1, <1>2, <1>5, Zenon DEF TypeOK, Place
  <2> QED BY <1>1, <1>2, <2>1, Zenon DEF TypeOK, psciVars, onVars
<1>7. SnapshotIsCurrent'
  <2> SUFFICES ASSUME NEW d \in CPU, pc'[d] \in {"on_finish", "suspend_finish"}
               PROVE  state_info'[d] = psci_get_target_local_pwr_states(d, end_pwrlvl[d])'
    BY Zenon DEF SnapshotIsCurrent
  <2>1. psci_get_target_local_pwr_states(d, end_pwrlvl[d])' = psci_get_target_local_pwr_states(d, end_pwrlvl[d])
    BY <1>2, Zenon DEF psci_get_target_local_pwr_states, psciVars
  <2>2. CASE d = c
    BY <1>3, <2>1, <2>2, Zenon
  <2>3. CASE d # c
    <3>1. pc'[d] = pc[d] /\ state_info'[d] = state_info[d]
      BY <1>1, <1>2, <2>3, Zenon DEF TypeOK
    <3> QED BY <1>1, <2>1, <3>1, Zenon DEF SnapshotIsCurrent
  <2> QED BY <2>2, <2>3, Zenon
<1>8. OthersLocals(c) /\ OthersStates(c)
  BY <1>1, <1>2, Zenon DEF TypeOK, OthersLocals, OthersStates, psciVars, onVars
<1> HIDE DEF place, snap
<1>9. Control(c)' /\ Asked(c)'
  BY <1>1, <1>2, <1>3, <1>4, Zenon DEF Local, Control, Asked, UnderLocks, Lowering, psciVars
<1>10. Requesting(c)'
  BY <1>1, <1>2, <1>3, <1>4, Zenon DEF Local, Requesting, Awake, Retained, Suspended, TurnedOff, Booting, OnLocked, Lowering, psciVars, onVars
<1>11. Affinity(c)'
  BY <1>1, <1>2, <1>3, <1>4, Zenon DEF Local, Affinity, Booting, Suspended, psciVars, onVars
<1>12. TurningOn(c)'
  <2>1. TurningOn(c) /\ ~poweron[c] /\ pc[c] \notin OnLocked /\ pc'[c] \notin OnLocked /\ pc'[c] # "on_lock"
    BY <1>1, <1>2, <1>3, <1>4, Zenon DEF Local, TurningOn, OnLocked
  <2> QED BY <1>1, <1>2, <1>8, <2>1, OwnTurningOn, Zenon DEF onVars
<1>13. pc[c] \notin OnLocked \cup {"off"} /\ pc'[c] \notin OnLocked /\ UNCHANGED cpu_lock /\ aff_info_state[c] # "OFF"
  BY <1>2, <1>3, <1>4, Zenon DEF OnLocked, onVars
<1>14. \A d \in CPU : Local(d)'
  BY <1>8, <1>9, <1>10, <1>11, <1>12, <1>13, OthersKeepLocal, Zenon DEF Local
<1>15. LockInv' /\ Coordinated' /\ Accounted'
  BY <1>2, QuietTree, Zenon DEF psciVars
<1> QED BY <1>6, <1>7, <1>14, <1>15, Zenon DEF PsciInv
-----------------------------------------------------------------------------
\* What every step of CPU_ON leaves true, whatever it does to its target t.
LEMMA CpuOnStep ==
  ASSUME PsciInv, NEW c \in CPU, NEW t \in CPU, NEW place \in OnLocked \cup {"ns"},
         pc[c] \in OnLocked \cup {"on_lock"}, pc' = [pc EXCEPT ![c] = place],
         UNCHANGED <<psciVars, opVars, lock>>,
         \A d \in CPU \ {t} : aff_info_state'[d] = aff_info_state[d],
         aff_info_state'[t] = aff_info_state[t] \/ (pc[t] = "off" /\ aff_info_state'[t] # "ON"),
         \A d \in CPU : ctx_ready[d] => ctx_ready'[d],
         TypeOK', \A d \in CPU : TurningOn(d)'
  PROVE  PsciInv'
<1>1. TypeOK /\ Local(c)
  BY Zenon DEF PsciInv
<1>2. pc'[c] = place /\ \A d \in CPU \ {c} : pc'[d] = pc[d]
  BY <1>1, Zenon DEF TypeOK
<1>3. place \notin UnderLocks \cup {"off", "wfi", "standby", "suspended", "aff_off", "reset"}
  BY Zenon DEF OnLocked, UnderLocks
<1>4. pc[c] \notin UnderLocks \cup {"off", "wfi", "standby", "suspended", "aff_off", "reset"}
  BY Zenon DEF OnLocked, UnderLocks
<1>5. aff_info_state[c] = "ON" /\ op[c] = "none" /\ next_pc[c] = "ns" /\ Awake(c)
  BY <1>1, <1>4, Zenon DEF Local, Control, Affinity, Booting, UnderLocks, Awake
<1>7. LockInv' /\ Coordinated' /\ Accounted'
  BY QuietTree, Zenon DEF psciVars, opVars
<1>8. SnapshotIsCurrent'
  <2>1. OthersLocals(c) /\ (\A n \in Node : pd_state'[n] = pd_state[n])
    BY <1>2, Zenon DEF OthersLocals, psciVars, opVars
  <2>2. pc'[c] \notin {"on_finish", "suspend_finish"}
    BY <1>2, <1>3, Zenon DEF UnderLocks
  <2> QED BY <2>1, <2>2, OthersKeepSnapshot, Zenon
<1>9. \A d \in CPU : Local(d)'
  <2> SUFFICES ASSUME NEW d \in CPU
               PROVE  Local(d)'
    BY Zenon
  <2>0. Local(d)
    BY Zenon DEF PsciInv
  <2>1. CASE d = c
    <3>0. /\ op'[c] = "none" /\ next_pc'[c] = "ns" /\ held'[c] = held[c]
          /\ local_state'[c] = local_state[c] /\ req_local'[c] = req_local[c]
          /\ target_pwrlvl'[c] = target_pwrlvl[c]
      BY <1>5, Zenon DEF psciVars, opVars
    <3>1. Control(c)' /\ Asked(c)'
      BY <1>1, <1>2, <1>3, <1>5, <3>0, Zenon DEF Local, Control, Asked, UnderLocks
    <3>2. Requesting(c)'
      <4>1. Awake(c)' /\ ~Retained(c)' /\ ~Suspended(c)' /\ ~TurnedOff(c)' /\ pc'[c] # "standby"
        BY <1>2, <1>3, Zenon DEF Awake, Retained, Suspended, TurnedOff, Booting, UnderLocks
      <4>2. local_state[c] = RUN /\ \A l \in Lvl : req_local[c][l] = RUN
        BY <1>1, <1>5, Zenon DEF Local, Requesting
      <4> QED BY <3>0, <4>1, <4>2, Zenon DEF Requesting
    <3>3. aff_info_state'[c] = "ON"
      BY <1>4, <1>5, Zenon
    <3>4. Affinity(c)'
      <4>1. ~Booting(c)' /\ ~Suspended(c)' /\ pc'[c] # "off"
        BY <1>2, <1>3, Zenon DEF Booting, Suspended, UnderLocks
      <4>2. target_pwrlvl[c] = NoLvl
        BY <1>1, <1>4, Zenon DEF Local, Affinity, Booting, Suspended, UnderLocks
      <4> QED BY <1>2, <1>3, <3>0, <3>3, <4>1, <4>2, Zenon DEF Affinity, UnderLocks
    <3> QED BY <2>1, <3>1, <3>2, <3>4, Zenon DEF Local
  <2>2. CASE d # c
    <3>1. /\ pc'[d] = pc[d] /\ op'[d] = op[d] /\ next_pc'[d] = next_pc[d] /\ held'[d] = held[d]
          /\ end_pwrlvl'[d] = end_pwrlvl[d] /\ state_info'[d] = state_info[d]
          /\ local_state'[d] = local_state[d] /\ req_local'[d] = req_local[d]
          /\ target_pwrlvl'[d] = target_pwrlvl[d]
      BY <1>2, <2>2, Zenon DEF psciVars, opVars
    <3>2. Control(d)'
      BY <2>0, <3>1, Zenon DEF Local, Control
    <3>3. Asked(d)'
      BY <2>0, <3>1, Zenon DEF Local, Asked, Sound, PowerOffState
    <3>4. aff_info_state'[d] = aff_info_state[d] \/ (pc[d] = "off" /\ aff_info_state'[d] # "ON")
      BY Zenon
    <3>5. (Booting(d)' <=> Booting(d)) /\ (Suspended(d)' <=> Suspended(d)) /\ (TurnedOff(d)' <=> TurnedOff(d))
      BY <3>1, <3>4, Zenon DEF Booting, Suspended, TurnedOff
    <3>6. Requesting(d)'
      <4>1. (Awake(d)' <=> Awake(d)) /\ (Retained(d)' <=> Retained(d))
        BY <3>1, Zenon DEF Awake, Retained
      <4> QED BY <2>0, <3>1, <3>5, <4>1, Zenon DEF Local, Requesting
    <3>7. Affinity(d)'
      BY <2>0, <3>1, <3>4, <3>5, Zenon DEF Local, Affinity, Booting
    <3> QED BY <3>2, <3>3, <3>6, <3>7, Zenon DEF Local
  <2> QED BY <2>1, <2>2, Zenon
<1> QED BY <1>7, <1>8, <1>9, Zenon DEF PsciInv

\* The CPU lock of CPU_ON is taken: nobody else can be in CPU_ON for the target.
LEMMA CpuOnLockStep ==
  ASSUME PsciInv, NEW c \in CPU, CpuOnLock(c)
  PROVE  PsciInv'
<1>1. TypeOK /\ Local(c) /\ \A d \in CPU : TurningOn(d)
  BY Zenon DEF PsciInv, Local
<1> DEFINE t == target[c]
<1>2. /\ pc[c] = "on_lock" /\ cpu_lock[t] = None
      /\ cpu_lock' = [cpu_lock EXCEPT ![t] = c] /\ pc' = [pc EXCEPT ![c] = "on_validate"]
      /\ UNCHANGED <<psciVars, opVars, lock, aff_info_state, ctx_ready, poweron, target, unread>>
  BY Zenon DEF CpuOnLock, Goto
<1>3. t \in CPU
  BY <1>1, <1>2, Typed, Zenon DEF TurningOn
<1>4. /\ cpu_lock'[t] = c /\ \A d \in CPU \ {t} : cpu_lock'[d] = cpu_lock[d]
      /\ pc'[c] = "on_validate" /\ \A d \in CPU \ {c} : pc'[d] = pc[d]
  BY <1>1, <1>2, <1>3, Zenon DEF TypeOK
<1>5. TypeOK'
  BY <1>1, <1>2, Zenon DEF TypeOK, Place, psciVars, opVars
<1>6. \A d \in CPU : TurningOn(d)'
  <2> SUFFICES ASSUME NEW d \in CPU
               PROVE  TurningOn(d)'
    BY Zenon
  <2>1. TurningOn(d) /\ cpu_lock[d] \in CPU \cup {None} /\ cpu_lock[d] # c /\ target[d] \in CPU \cup {None}
    <3>1. TurningOn(d) /\ cpu_lock[d] \in CPU \cup {None} /\ target[d] \in CPU \cup {None}
      BY <1>1, Typed, Zenon
    <3>2. pc[c] \notin OnLocked
      BY <1>2, Zenon DEF OnLocked
    <3> QED BY <3>1, <3>2, PrimaryAssumption, Zenon DEF TurningOn
  <2>2. cpu_lock'[d] # None => target'[cpu_lock'[d]] = d /\ pc'[cpu_lock'[d]] \in OnLocked
    <3>1. CASE d = t
      BY <1>2, <1>4, <3>1, Zenon DEF OnLocked
    <3>2. CASE d # t
      BY <1>2, <1>4, <2>1, <3>2, Zenon DEF TurningOn
    <3> QED BY <3>1, <3>2, Zenon
  <2>3. pc'[d] \in OnLocked => target'[d] # None /\ cpu_lock'[target'[d]] = d
    <3>1. CASE d = c
      BY <1>2, <1>3, <1>4, <3>1, PrimaryAssumption, Zenon
    <3>2. CASE d # c
      <4>1. pc'[d] \in OnLocked => target[d] \in CPU /\ cpu_lock[target[d]] = d
        BY <1>4, <2>1, <3>2, Zenon DEF TurningOn
      <4> QED BY <1>2, <1>4, <4>1, PrimaryAssumption, Zenon
    <3> QED BY <3>1, <3>2, Zenon
  <2>4. pc'[d] = "on_platform" =>
          aff_info_state'[target'[d]] = "ON_PENDING" /\ pc'[target'[d]] = "off" /\ ~poweron'[target'[d]]
    <3> SUFFICES ASSUME pc'[d] = "on_platform"
                 PROVE  aff_info_state[target[d]] = "ON_PENDING" /\ pc'[target[d]] = "off" /\ ~poweron[target[d]]
      BY <1>2, Zenon
    <3>1. pc[d] = "on_platform" /\ target[d] \in CPU
      BY <1>4, <2>1, Zenon DEF TurningOn, OnLocked
    <3> QED BY <1>2, <1>4, <2>1, <3>1, Zenon DEF TurningOn
  <2>5. aff_info_state[d] = "ON_PENDING" /\ ~ctx_ready[d] =>
          cpu_lock'[d] # None /\ pc'[cpu_lock'[d]] \in {"on_platform", "on_context"}
    <3> SUFFICES ASSUME aff_info_state[d] = "ON_PENDING", ~ctx_ready[d]
                 PROVE  cpu_lock'[d] # None /\ pc'[cpu_lock'[d]] \in {"on_platform", "on_context"}
      BY Zenon
    <3>1. cpu_lock[d] \in CPU \ {c} /\ pc[cpu_lock[d]] \in {"on_platform", "on_context"}
      BY <2>1, Zenon DEF TurningOn
    <3>2. d # t
      BY <1>2, <3>1, PrimaryAssumption, Zenon
    <3> QED BY <1>4, <3>1, <3>2, PrimaryAssumption, Zenon
  <2>6. pc'[d] = "on_lock" => target[d] # None
    BY <1>4, <2>1, Zenon DEF TurningOn
  <2>7. poweron[d] => pc'[d] = "off" /\ aff_info_state[d] = "ON_PENDING"
    BY <1>2, <1>4, <2>1, Zenon DEF TurningOn
  <2> HIDE DEF t
  <2> QED BY <1>2, <2>2, <2>3, <2>4, <2>5, <2>6, <2>7, Zenon DEF TurningOn
<1> HIDE DEF t
<1>7. "on_validate" \in OnLocked
  BY Zenon DEF OnLocked
<1> QED BY <1>2, <1>3, <1>5, <1>6, <1>7, CpuOnStep, Zenon

\* A step of CPU_ON under the CPU lock of its target t.
LEMMA CpuOnLockedStep ==
  ASSUME PsciInv, NEW c \in CPU, NEW t, t = target[c], NEW place \in OnLocked,
         pc[c] \in OnLocked, pc' = [pc EXCEPT ![c] = place],
         UNCHANGED <<psciVars, opVars, lock, cpu_lock, target, unread>>,
         aff_info_state' \in [CPU -> {"ON", "OFF", "ON_PENDING"}],
         poweron' \in [CPU -> BOOLEAN], ctx_ready' \in [CPU -> BOOLEAN],
         \A d \in CPU \ {t} : /\ aff_info_state'[d] = aff_info_state[d] /\ poweron'[d] = poweron[d]
                              /\ ctx_ready'[d] = ctx_ready[d],
         aff_info_state'[t] = aff_info_state[t] \/ (pc[t] = "off" /\ aff_info_state'[t] # "ON"),
         ctx_ready[t] => ctx_ready'[t],
         poweron'[t] => pc[t] = "off" /\ aff_info_state'[t] = "ON_PENDING",
         place = "on_platform" => aff_info_state'[t] = "ON_PENDING" /\ pc[t] = "off" /\ ~poweron'[t],
         aff_info_state'[t] = "ON_PENDING" /\ ~ctx_ready'[t] => place \in {"on_platform", "on_context"}
  PROVE  PsciInv'
<1>1. TypeOK /\ Local(c) /\ \A d \in CPU : TurningOn(d)
  BY Zenon DEF PsciInv, Local
<1>2. t \in CPU /\ cpu_lock[t] = c
  BY <1>1, Typed, Zenon DEF TurningOn
<1>3. pc'[c] = place /\ (\A d \in CPU \ {c} : pc'[d] = pc[d]) /\ place \notin {"on_lock", "off"} /\ pc[c] # "off"
  <2>1. pc'[c] = place /\ \A d \in CPU \ {c} : pc'[d] = pc[d]
    BY <1>1, Zenon DEF TypeOK
  <2> QED BY <2>1, Zenon DEF OnLocked
<1>4. TypeOK'
  <2>1. place \in Place
    BY Zenon DEF OnLocked, Place
  <2> QED BY <1>1, <2>1, Zenon DEF TypeOK, psciVars, opVars
<1>5. \A d \in CPU : TurningOn(d)'
  <2> SUFFICES ASSUME NEW d \in CPU
               PROVE  TurningOn(d)'
    BY Zenon
  <2>1. TurningOn(d) /\ cpu_lock[d] \in CPU \cup {None} /\ target[d] \in CPU \cup {None}
    BY <1>1, Zenon DEF TypeOK
  <2>2. cpu_lock[d] # None => target[cpu_lock[d]] = d /\ pc'[cpu_lock[d]] \in OnLocked
    <3>1. cpu_lock[d] # None => target[cpu_lock[d]] = d /\ pc[cpu_lock[d]] \in OnLocked
      BY <2>1, Zenon DEF TurningOn
    <3> QED BY <1>3, <2>1, <3>1, Zenon
  <2>3. pc'[d] \in OnLocked => target[d] # None /\ cpu_lock[target[d]] = d
    BY <1>2, <1>3, <2>1, PrimaryAssumption, Zenon DEF TurningOn
  <2>4. pc'[d] = "on_platform" =>
          aff_info_state'[target[d]] = "ON_PENDING" /\ pc'[target[d]] = "off" /\ ~poweron'[target[d]]
    <3> SUFFICES ASSUME pc'[d] = "on_platform"
                 PROVE  aff_info_state'[target[d]] = "ON_PENDING" /\ pc'[target[d]] = "off" /\ ~poweron'[target[d]]
      BY Zenon
    <3>1. CASE d = c
      <4>1. target[d] = t /\ place = "on_platform"
        BY <1>3, <3>1, Zenon
      <4>2. t # c
        BY <1>3, <4>1, Zenon
      <4> QED BY <1>2, <1>3, <4>1, <4>2, Zenon
    <3>2. CASE d # c
      <4>1. pc[d] = "on_platform" /\ target[d] \in CPU /\ cpu_lock[target[d]] = d
        BY <1>3, <2>1, <3>2, Zenon DEF TurningOn, OnLocked
      <4>2. target[d] # t /\ pc[target[d]] = "off"
        BY <1>2, <2>1, <3>2, <4>1, Zenon DEF TurningOn
      <4> QED BY <1>3, <2>1, <4>1, <4>2, Zenon DEF TurningOn
    <3> QED BY <3>1, <3>2, Zenon
  <2>5. aff_info_state'[d] = "ON_PENDING" /\ ~ctx_ready'[d] =>
          cpu_lock[d] # None /\ pc'[cpu_lock[d]] \in {"on_platform", "on_context"}
    <3>1. CASE d = t
      BY <1>2, <1>3, <3>1, PrimaryAssumption, Zenon
    <3>2. CASE d # t
      <4>1. cpu_lock[d] # c
        BY <2>1, <3>2, PrimaryAssumption, Zenon DEF TurningOn
      <4> QED BY <1>3, <2>1, <3>2, <4>1, Zenon DEF TurningOn
    <3> QED BY <3>1, <3>2, Zenon
  <2>6. pc'[d] = "on_lock" => target[d] # None
    BY <1>3, <2>1, Zenon DEF TurningOn
  <2>7. poweron'[d] => pc'[d] = "off" /\ aff_info_state'[d] = "ON_PENDING"
    <3>1. poweron'[d] => pc[d] = "off" /\ aff_info_state'[d] = "ON_PENDING"
      BY <2>1, Zenon DEF TurningOn
    <3> QED BY <1>3, <3>1, Zenon
  <2> QED BY <2>2, <2>3, <2>4, <2>5, <2>6, <2>7, Zenon DEF TurningOn
<1>6. \A d \in CPU : ctx_ready[d] => ctx_ready'[d]
  BY Zenon
<1>7. place \in OnLocked \cup {"ns"} /\ pc[c] \in OnLocked \cup {"on_lock"} /\ UNCHANGED <<psciVars, opVars, lock>>
  BY Zenon
<1>8. \A d \in CPU \ {t} : aff_info_state'[d] = aff_info_state[d]
  BY Zenon
<1>9. aff_info_state'[t] = aff_info_state[t] \/ (pc[t] = "off" /\ aff_info_state'[t] # "ON")
  BY Zenon
<1> QED BY ONLY PsciInv, c \in CPU, pc' = [pc EXCEPT ![c] = place],
           <1>2, <1>4, <1>5, <1>6, <1>7, <1>8, <1>9, CpuOnStep, Zenon

\* The steps of CPU_ON after the CPU lock was taken.
LEMMA CpuOnWorkStep ==
  ASSUME PsciInv, NEW c \in CPU, CpuOnValidate(c) \/ CpuOnPlatform(c) \/ CpuOnContext(c)
  PROVE  PsciInv'
<1>1. TypeOK /\ Local(c)
  BY Zenon DEF PsciInv
<1> DEFINE t == target[c]
<1>2. pc[c] \in OnLocked /\ pc[c] \in {"on_validate", "on_platform", "on_context"}
  BY Zenon DEF CpuOnValidate, CpuOnPlatform, CpuOnContext, OnLocked
<1>3. t \in CPU /\ cpu_lock[t] = c /\ TurningOn(t) /\ Affinity(t)
  <2>1. t \in CPU /\ cpu_lock[t] = c
    BY <1>1, <1>2, Typed, Zenon DEF Local, TurningOn
  <2> QED BY <2>1, Zenon DEF PsciInv, Local
<1>4. /\ UNCHANGED <<psciVars, opVars, lock, cpu_lock, target, unread>>
      /\ "on_unlock" \in OnLocked /\ "on_platform" \in OnLocked /\ "on_context" \in OnLocked
  BY Zenon DEF CpuOnValidate, CpuOnPlatform, CpuOnContext, OnLocked
<1>5. /\ aff_info_state \in [CPU -> {"ON", "OFF", "ON_PENDING"}]
      /\ poweron \in [CPU -> BOOLEAN] /\ ctx_ready \in [CPU -> BOOLEAN]
  BY <1>1, Zenon DEF TypeOK
<1>6. aff_info_state[t] = "ON_PENDING" /\ ~ctx_ready[t] => pc[c] \in {"on_platform", "on_context"}
  BY <1>3, Zenon DEF TurningOn
<1>7. poweron[t] => pc[t] = "off" /\ aff_info_state[t] = "ON_PENDING"
  BY <1>3, Zenon DEF TurningOn
<1>8. CASE CpuOnValidate(c)
  <2>1. pc[c] = "on_validate" /\ UNCHANGED <<ctx_ready, poweron>>
    BY <1>8, Zenon DEF CpuOnValidate
  <2>2. CASE aff_info_state[t] # "OFF"
    <3>1. pc' = [pc EXCEPT ![c] = "on_unlock"] /\ UNCHANGED aff_info_state
      BY <1>8, <2>2, Zenon DEF CpuOnValidate, Goto
    <3> HIDE DEF t
    <3>2. t = target[c]
      BY Zenon DEF t
    <3> QED BY <1>2, <1>4, <1>5, <1>6, <1>7, <2>1, <3>1, <3>2, CpuOnLockedStep, Zenon
  <2>3. CASE aff_info_state[t] = "OFF"
    <3>1. pc' = [pc EXCEPT ![c] = "on_platform"] /\ aff_info_state' = [aff_info_state EXCEPT ![t] = "ON_PENDING"]
      BY <1>8, <2>3, Zenon DEF CpuOnValidate, Goto
    <3>2. pc[t] = "off" /\ ~poweron[t]
      BY <1>3, <1>7, <2>3, Zenon DEF Affinity
    <3> HIDE DEF t
    <3>3. t = target[c]
      BY Zenon DEF t
    <3>4. /\ aff_info_state' \in [CPU -> {"ON", "OFF", "ON_PENDING"}] /\ aff_info_state'[t] = "ON_PENDING"
          /\ \A d \in CPU \ {t} : aff_info_state'[d] = aff_info_state[d]
      BY <1>3, <1>5, <3>1, Zenon
    <3> QED BY <1>2, <1>4, <1>5, <1>7, <2>1, <3>1, <3>2, <3>3, <3>4, CpuOnLockedStep, Zenon
  <2> QED BY <2>2, <2>3, Zenon
<1>9. CASE CpuOnPlatform(c)
  <2>1. pc[c] = "on_platform" /\ UNCHANGED ctx_ready
    BY <1>9, Zenon DEF CpuOnPlatform
  <2>2. aff_info_state[t] = "ON_PENDING" /\ pc[t] = "off" /\ ~poweron[t]
    BY <1>1, <2>1, Zenon DEF Local, TurningOn
  <2> HIDE DEF t
  <2>3. t = target[c]
    BY Zenon DEF t
  <2>4. CASE poweron' = [poweron EXCEPT ![t] = TRUE] /\ Goto(c, "on_context") /\ UNCHANGED aff_info_state
    <3>1. pc' = [pc EXCEPT ![c] = "on_context"] /\ UNCHANGED <<aff_info_state, ctx_ready>>
      BY <2>1, <2>4, Zenon DEF Goto
    <3>2. /\ poweron' \in [CPU -> BOOLEAN] /\ poweron'[t]
          /\ \A d \in CPU \ {t} : poweron'[d] = poweron[d]
      BY <1>3, <1>5, <2>4, Zenon
    <3> QED BY <1>2, <1>4, <1>5, <2>2, <2>3, <3>1, <3>2, CpuOnLockedStep, Zenon
  <2>5. CASE aff_info_state' = [aff_info_state EXCEPT ![t] = "OFF"] /\ Goto(c, "on_unlock") /\ UNCHANGED poweron
    <3>1. pc' = [pc EXCEPT ![c] = "on_unlock"] /\ UNCHANGED <<poweron, ctx_ready>>
      BY <2>1, <2>5, Zenon DEF Goto
    <3>2. /\ aff_info_state' \in [CPU -> {"ON", "OFF", "ON_PENDING"}] /\ aff_info_state'[t] = "OFF"
          /\ \A d \in CPU \ {t} : aff_info_state'[d] = aff_info_state[d]
      BY <1>3, <1>5, <2>5, Zenon
    <3> QED BY <1>2, <1>4, <1>5, <2>2, <2>3, <3>1, <3>2, CpuOnLockedStep, Zenon
  <2> QED BY <1>9, <2>4, <2>5, Zenon DEF CpuOnPlatform, t
<1>10. CASE CpuOnContext(c)
  <2>1. /\ ctx_ready' = [ctx_ready EXCEPT ![t] = TRUE] /\ pc' = [pc EXCEPT ![c] = "on_unlock"]
        /\ UNCHANGED <<aff_info_state, poweron>>
    BY <1>10, Zenon DEF CpuOnContext, Goto
  <2> HIDE DEF t
  <2>2. t = target[c]
    BY Zenon DEF t
  <2>3. /\ ctx_ready' \in [CPU -> BOOLEAN] /\ ctx_ready'[t]
        /\ \A d \in CPU \ {t} : ctx_ready'[d] = ctx_ready[d]
    BY <1>3, <1>5, <2>1, Zenon
  <2>4. pc' = [pc EXCEPT ![c] = "on_unlock"] /\ UNCHANGED <<aff_info_state, poweron>>
    BY <2>1, Zenon
  <2> QED BY <1>2, <1>4, <1>5, <1>7, <2>2, <2>3, <2>4, CpuOnLockedStep, Zenon
<1> QED BY <1>8, <1>9, <1>10, Zenon

\* CPU_ON drops the CPU lock: the context of a target that is on its way is ready.
LEMMA CpuOnUnlockStep ==
  ASSUME PsciInv, NEW c \in CPU, CpuOnUnlock(c)
  PROVE  PsciInv'
<1>1. TypeOK /\ Local(c) /\ \A d \in CPU : TurningOn(d)
  BY Zenon DEF PsciInv, Local
<1> DEFINE t == target[c]
<1>2. /\ pc[c] = "on_unlock" /\ cpu_lock' = [cpu_lock EXCEPT ![t] = None]
      /\ target' = [target EXCEPT ![c] = None] /\ pc' = [pc EXCEPT ![c] = "ns"]
      /\ UNCHANGED <<psciVars, opVars, lock, aff_info_state, ctx_ready, poweron, unread>>
  BY Zenon DEF CpuOnUnlock, Goto
<1>3. t \in CPU /\ cpu_lock[t] = c
  BY <1>1, <1>2, Typed, Zenon DEF TurningOn, OnLocked
<1>4. /\ cpu_lock'[t] = None /\ \A d \in CPU \ {t} : cpu_lock'[d] = cpu_lock[d]
      /\ pc'[c] = "ns" /\ \A d \in CPU \ {c} : pc'[d] = pc[d] /\ target'[d] = target[d]
  BY <1>1, <1>2, <1>3, Zenon DEF TypeOK
<1>5. TypeOK'
  BY <1>1, <1>2, Zenon DEF TypeOK, Place, psciVars, opVars
<1>6. \A d \in CPU : TurningOn(d)'
  <2> SUFFICES ASSUME NEW d \in CPU
               PROVE  TurningOn(d)'
    BY Zenon
  <2>1. TurningOn(d) /\ cpu_lock[d] \in CPU \cup {None} /\ target[d] \in CPU \cup {None}
    BY <1>1, Zenon DEF TypeOK
  <2>2. d # t => cpu_lock[d] # c
    BY <2>1, PrimaryAssumption, Zenon DEF TurningOn
  <2> HIDE DEF t
  <2>3. cpu_lock'[d] # None => target'[cpu_lock'[d]] = d /\ pc'[cpu_lock'[d]] \in OnLocked
    BY <1>4, <2>1, <2>2, Zenon DEF TurningOn
  <2>4. pc'[d] \in OnLocked =>
          d # c /\ target'[d] = target[d] /\ target[d] \in CPU \ {t} /\ cpu_lock'[target'[d]] = d
    <3> SUFFICES ASSUME pc'[d] \in OnLocked
                 PROVE  d # c /\ target'[d] = target[d] /\ target[d] \in CPU \ {t} /\ cpu_lock'[target'[d]] = d
      BY Zenon
    <3>1. d # c
      BY <1>4, Zenon DEF OnLocked
    <3>2. pc[d] \in OnLocked /\ target'[d] = target[d]
      BY <1>4, <3>1, Zenon
    <3>3. target[d] \in CPU /\ cpu_lock[target[d]] = d
      BY <2>1, <3>2, Zenon DEF TurningOn
    <3> QED BY <1>3, <1>4, <3>1, <3>2, <3>3, Zenon
  <2>5. pc'[d] = "on_platform" =>
          aff_info_state'[target'[d]] = "ON_PENDING" /\ pc'[target'[d]] = "off" /\ ~poweron'[target'[d]]
    <3> SUFFICES ASSUME pc'[d] = "on_platform"
                 PROVE  aff_info_state[target[d]] = "ON_PENDING" /\ pc'[target[d]] = "off" /\ ~poweron[target[d]]
      BY <1>2, <2>4, Zenon DEF OnLocked
    <3>1. pc[d] = "on_platform" /\ target[d] \in CPU
      BY <1>4, <2>4, Zenon DEF OnLocked
    <3> QED BY <1>2, <1>4, <2>1, <3>1, Zenon DEF TurningOn
  <2>6. aff_info_state[d] = "ON_PENDING" /\ ~ctx_ready[d] =>
          cpu_lock'[d] # None /\ pc'[cpu_lock'[d]] \in {"on_platform", "on_context"}
    <3> SUFFICES ASSUME aff_info_state[d] = "ON_PENDING", ~ctx_ready[d]
                 PROVE  cpu_lock'[d] # None /\ pc'[cpu_lock'[d]] \in {"on_platform", "on_context"}
      BY Zenon
    <3>1. cpu_lock[d] \in CPU /\ pc[cpu_lock[d]] \in {"on_platform", "on_context"}
      BY <2>1, Zenon DEF TurningOn
    <3>2. cpu_lock[d] # c
      BY <1>2, <3>1, Zenon
    <3>3. d # t
      BY <1>3, <3>2, Zenon
    <3> QED BY <1>4, <3>1, <3>2, <3>3, PrimaryAssumption, Zenon
  <2>7. pc'[d] = "on_lock" => target'[d] # None
    BY <1>4, <2>1, Zenon DEF TurningOn
  <2>8. poweron[d] => pc'[d] = "off" /\ aff_info_state[d] = "ON_PENDING"
    BY <1>2, <1>4, <2>1, Zenon DEF TurningOn
  <2>9. pc'[d] \in OnLocked => target'[d] # None
    BY <2>4, PrimaryAssumption, Zenon
  <2> QED BY <1>2, <2>3, <2>4, <2>5, <2>6, <2>7, <2>8, <2>9, Zenon DEF TurningOn
<1> HIDE DEF t
<1>7. pc[c] \in OnLocked \cup {"on_lock"} /\ "ns" \in OnLocked \cup {"ns"}
  BY <1>2, Zenon DEF OnLocked
<1>8. pc' = [pc EXCEPT ![c] = "ns"] /\ UNCHANGED <<psciVars, opVars, lock, aff_info_state, ctx_ready>>
  BY <1>2, Zenon
<1> QED BY <1>3, <1>5, <1>6, <1>7, <1>8, CpuOnStep, Zenon
-----------------------------------------------------------------------------
\* psci_setup() leaves a coordinated tree.
LEMMA PsciInit == Init => PsciInv
<1> SUFFICES ASSUME Init
             PROVE  PsciInv
  BY Zenon
<1>1. /\ RUN \in State /\ MaxOff \in State /\ RUN = 0 /\ 0 \in 0..MaxLvl /\ NoLvl \in 0..NoLvl /\ 1 \in Lvl
      /\ State \subseteq Nat /\ NoLvl # 0
  BY LevelAssumption, StateAssumption DEF RUN, State, NoLvl, Lvl
<1>2. /\ \A n \in Node : pd_state[n] = IF \E l \in Lvl : Anc[Primary][l] = n THEN RUN ELSE MaxOff
      /\ pd_state \in [Node -> State]
  BY <1>1, Zenon DEF Init, SetPath
<1>3. TypeOK
  <2>1. /\ aff_info_state \in [CPU -> {"ON", "OFF", "ON_PENDING"}] /\ local_state \in [CPU -> State]
        /\ target_pwrlvl \in [CPU -> 0..NoLvl] /\ cpu_lock \in [CPU -> CPU \cup {None}]
        /\ ctx_ready \in [CPU -> BOOLEAN] /\ poweron \in [CPU -> BOOLEAN] /\ target \in [CPU -> CPU \cup {None}]
    BY <1>1, Zenon DEF Init
  <2>2. req_local \in [CPU -> [Lvl -> State]] /\ state_info \in [CPU -> [0..MaxLvl -> State]]
    BY <1>1, Zenon DEF Init, AllRun
  <2>3. last_cpu \in [Node -> CPU \cup {None}] /\ lock \in [Node -> CPU \cup {None}] /\ unread \in [CPU -> SUBSET CPU]
    BY Zenon DEF Init
  <2>4. /\ pc \in [CPU -> Place] /\ next_pc \in [CPU -> Place]
        /\ op \in [CPU -> {"none", "off", "suspend", "retention", "system_suspend", "standby_finish", "warmboot"}]
    BY Zenon DEF Init, Place
  <2>5. end_pwrlvl \in [CPU -> 0..MaxLvl] /\ held \in [CPU -> 0..MaxLvl] /\ \A c \in CPU : held[c] <= end_pwrlvl[c]
    <3>1. end_pwrlvl = [c \in CPU |-> 0] /\ held = [c \in CPU |-> 0]
      BY Zenon DEF Init
    <3> QED BY <1>1, <3>1
  <2> QED BY <1>2, <2>1, <2>2, <2>3, <2>4, <2>5, Zenon DEF TypeOK
<1>4. LockInv
  <2>1. \A c \in CPU, n \in Node : lock[n] # c /\ held[c] = 0
    BY PrimaryAssumption, Zenon DEF Init
  <2>2. ~ \E l \in 1..0 : TRUE
    OBVIOUS
  <2> QED BY <2>1, <2>2, Zenon DEF LockInv
<1>5. \A c \in CPU : Local(c)
  <2> SUFFICES ASSUME NEW c \in CPU
               PROVE  Local(c)
    BY Zenon
  <2>1. /\ pc[c] = IF c = Primary THEN "ns" ELSE "off"
        /\ aff_info_state[c] = IF c = Primary THEN "ON" ELSE "OFF"
        /\ op[c] = "none" /\ held[c] = 0 /\ next_pc[c] = "ns" /\ cpu_lock[c] = None /\ target_pwrlvl[c] = NoLvl
        /\ poweron[c] = FALSE /\ local_state[c] = IF c = Primary THEN RUN ELSE MaxOff
        /\ \A l \in Lvl : req_local[c][l] = IF c = Primary THEN RUN ELSE MaxOff
    BY Zenon DEF Init
  <2>2. Control(c) /\ Asked(c)
    BY <2>1, Zenon DEF Control, Asked, UnderLocks
  <2>3. Requesting(c)
    BY <2>1, Zenon DEF Requesting, Awake, Retained, Suspended, TurnedOff, Booting, OnLocked
  <2>4. Affinity(c) /\ TurningOn(c)
    BY <2>1, Zenon DEF Affinity, Booting, Suspended, TurningOn, OnLocked
  <2> QED BY <2>2, <2>3, <2>4, Zenon DEF Local
<1>6. Coordinated
  <2>1. \A c \in CPU, l \in Lvl : req_local[c][l] = IF c = Primary THEN RUN ELSE MaxOff
    BY Zenon DEF Init
  <2>2. \A c \in CPU, l \in Lvl : pd_state[Anc[c][l]] = IF Anc[Primary][l] = Anc[c][l] THEN RUN ELSE MaxOff
    <3> SUFFICES ASSUME NEW c \in CPU, NEW l \in Lvl
                 PROVE  pd_state[Anc[c][l]] = IF Anc[Primary][l] = Anc[c][l] THEN RUN ELSE MaxOff
      BY Zenon
    <3>1. Anc[c][l] \in Node /\ \A k \in Lvl : Anc[Primary][k] = Anc[c][l] => k = l
      BY PathFacts, PrimaryAssumption
    <3> QED BY <1>2, <3>1, Zenon
  <2>3. \A c \in CPU, l \in Lvl : pd_state[Anc[c][l]] <= req_local[c][l]
    <3>1. RUN <= MaxOff /\ RUN <= RUN /\ MaxOff <= MaxOff
      BY <1>1
    <3> QED BY <2>1, <2>2, <3>1, Zenon
  <2>4. \A c \in CPU, l \in Lvl : \E d \in CPU : Anc[d][l] = Anc[c][l] /\ req_local[d][l] = pd_state[Anc[c][l]]
    <3> SUFFICES ASSUME NEW c \in CPU, NEW l \in Lvl
                 PROVE  \E d \in CPU : Anc[d][l] = Anc[c][l] /\ req_local[d][l] = pd_state[Anc[c][l]]
      BY Zenon
    <3>1. CASE Anc[Primary][l] = Anc[c][l]
      BY <2>1, <2>2, <3>1, PrimaryAssumption, Zenon
    <3>2. CASE Anc[Primary][l] # Anc[c][l]
      BY <2>1, <2>2, <3>2, Zenon
    <3> QED BY <3>1, <3>2, Zenon
  <2>5. \A c \in CPU : local_state[c] = req_local[c][1]
    BY <1>1, <2>1, Zenon DEF Init
  <2>6. \A c \in CPU : \A k, l \in Lvl : find_local_state_type(req_local[c][l]) <= find_local_state_type(req_local[c][k])
    BY <1>1, <2>1 DEF find_local_state_type
  <2>7. \A n \in Node : Below(n) = {} => pd_state[n] = MaxOff
    BY <1>2, PrimaryAssumption, Zenon DEF Below
  <2>8. \A c \in CPU : find_local_state_type(req_local[c][1]) <= find_local_state_type(local_state[c])
    BY <1>1, <2>5, <2>6, Zenon
  <2> QED BY <2>3, <2>4, <2>6, <2>7, <2>8, Zenon DEF Coordinated
<1>7. Accounted
  <2>1. \A c \in CPU : last_cpu[Anc[c][1]] = None
    BY <1>1, PathFacts, Zenon DEF Init
  <2>2. \A n \in Node : last_cpu[n] = None
    BY Zenon DEF Init
  <2> QED BY <2>1, <2>2, Zenon DEF Accounted
<1>8. SnapshotIsCurrent
  BY Zenon DEF Init, SnapshotIsCurrent
<1> QED BY <1>3, <1>4, <1>5, <1>6, <1>7, <1>8, Zenon DEF PsciInv

\* Every step of every CPU keeps the invariant.
LEMMA PsciStep == PsciInv /\ [Next]_vars => PsciInv'
<1> SUFFICES ASSUME PsciInv, [Next]_vars
             PROVE  PsciInv'
  BY Zenon
<1>1. CASE UNCHANGED vars
  <2>1. UNCHANGED <<local_state, req_local, pd_state, last_cpu, lock, held>>
    BY <1>1, Zenon DEF vars
  <2>2. TypeOK' /\ SnapshotIsCurrent'
    <3>1. TypeOK /\ SnapshotIsCurrent
      BY Zenon DEF PsciInv
    <3>2. TypeOK'
      BY <1>1, <3>1, Zenon DEF vars, TypeOK
    <3>3. SnapshotIsCurrent'
      BY <1>1, <3>1, Zenon DEF vars, SnapshotIsCurrent, psci_get_target_local_pwr_states
    <3> QED BY <3>2, <3>3, Zenon
  <2>3. \A c \in CPU : Local(c)'
    <3> SUFFICES ASSUME NEW c \in CPU
                 PROVE  Local(c)'
      BY Zenon
    <3>1. Local(c)
      BY Zenon DEF PsciInv
    <3>2. Control(c)' /\ Asked(c)'
      BY <1>1, <3>1, Zenon DEF vars, Local, Control, Asked, Sound, PowerOffState
    <3>3. Requesting(c)'
      <4>1. (Awake(c)' <=> Awake(c)) /\ (Retained(c)' <=> Retained(c)) /\ (Booting(c)' <=> Booting(c))
        BY <1>1, Zenon DEF vars, Awake, Retained, Booting
      <4>2. (Suspended(c)' <=> Suspended(c)) /\ (TurnedOff(c)' <=> TurnedOff(c))
        BY <1>1, <4>1, Zenon DEF vars, Suspended, TurnedOff
      <4> QED BY <1>1, <3>1, <4>1, <4>2, Zenon DEF vars, Local, Requesting
    <3>4. Affinity(c)'
      BY <1>1, <3>1, Zenon DEF vars, Local, Affinity, Suspended, Booting
    <3>5. TurningOn(c)'
      BY <1>1, <3>1, Zenon DEF vars, Local, TurningOn
    <3> QED BY <3>2, <3>3, <3>4, <3>5, Zenon DEF Local
  <2> QED BY <2>1, <2>2, <2>3, QuietTree, Zenon DEF PsciInv
<1>2. CASE Next
  <2>1. PICK c \in CPU : Call(c) \/ Wake(c) \/ Work(c) \/ AcquireLock(c) \/ CpuOnLock(c)
    BY <1>2, Zenon DEF Next
  <2>2. CASE Call(c)
    BY <2>2, StartingStep, StandbyStep, QuietStep, Zenon DEF Call
  <2>3. CASE Wake(c)
    BY <2>3, StandbyStep, StartingStep, QuietStep, Zenon DEF Wake
  <2>4. CASE Work(c)
    BY <2>4, PowerDownStep, QuietStep, PowerUpStep, ReleaseStep, StartingStep, SnapshotStep,
       CpuOnWorkStep, CpuOnUnlockStep, Zenon DEF Work
  <2> QED BY <2>1, <2>2, <2>3, <2>4, AcquireStep, CpuOnLockStep, Zenon
<1> QED BY <1>1, <1>2, Zenon

-----------------------------------------------------------------------------
\* The inductive invariant holds in every state lib/psci reaches, whatever the
\* power domain tree and however its CPUs interleave.
THEOREM Inductive == Spec => []PsciInv
  BY PsciInit, PsciStep, PTL DEF Spec

\* A CPU in the non-secure world is ON and every domain above it runs: what
\* psci_set_pwr_domains_to_run() wakes is all that psci_do_state_coordination()
\* lowered, in whatever order the CPUs of a domain go down and come back.
THEOREM Powered == Spec => []RunningCpuIsPowered
<1>1. PsciInv => RunningCpuIsPowered
  <2> SUFFICES ASSUME PsciInv, NEW c \in CPU, pc[c] = "ns"
               PROVE  /\ aff_info_state[c] = "ON" /\ local_state[c] = RUN
                      /\ \A l \in Lvl : pd_state[Anc[c][l]] = RUN /\ req_local[c][l] = RUN
    BY Zenon DEF RunningCpuIsPowered
  <2>1. Local(c) /\ Coordinated /\ TypeOK
    BY Zenon DEF PsciInv
  <2>2. aff_info_state[c] = "ON" /\ local_state[c] = RUN /\ \A l \in Lvl : req_local[c][l] = RUN
    BY <2>1, Zenon DEF Local, Affinity, Booting, Requesting, Awake
  <2>3. ASSUME NEW l \in Lvl
        PROVE  pd_state[Anc[c][l]] = RUN
    <3>1. pd_state[Anc[c][l]] <= RUN
      BY <2>1, <2>2, Zenon DEF Coordinated
    <3>2. pd_state[Anc[c][l]] \in State
      BY <2>1, PathFacts, Zenon DEF TypeOK
    <3> QED BY <3>1, <3>2, StateAssumption DEF State, RUN
  <2> QED BY <2>2, <2>3, Zenon
<1> QED BY <1>1, Inductive, PTL

\* No domain is deeper than a CPU or a domain below it, although each CPU
\* coordinates its levels with the requests of the others as they are then.
THEOREM NotDeeper == Spec => []DomainNotDeeper
<1>1. PsciInv => DomainNotDeeper
  <2> SUFFICES ASSUME PsciInv, NEW c \in CPU, NEW l \in Lvl
               PROVE  find_local_state_type(pd_state[Anc[c][l]]) <=
                        find_local_state_type(IF l = 1 THEN local_state[c] ELSE pd_state[Anc[c][l - 1]])
    BY Zenon DEF DomainNotDeeper
  <2>1. Coordinated /\ TypeOK
    BY Zenon DEF PsciInv
  <2>2. \A d \in CPU, k \in Lvl : pd_state[Anc[d][k]] \in State /\ req_local[d][k] \in State
    BY <2>1, PathFacts DEF TypeOK
  <2>3. \A d \in CPU, k \in Lvl : find_local_state_type(pd_state[Anc[d][k]]) <= find_local_state_type(req_local[d][k])
    BY <2>1, <2>2, DepthFacts, Zenon DEF Coordinated
  <2>4. \A s \in State : find_local_state_type(s) \in 0..2
    BY DEF find_local_state_type
  <2>5. CASE l = 1
    <3>1. local_state[c] \in State
      BY <2>1, Zenon DEF TypeOK
    <3>2. find_local_state_type(req_local[c][1]) <= find_local_state_type(local_state[c])
      BY <2>1, Zenon DEF Coordinated
    <3>3. /\ find_local_state_type(pd_state[Anc[c][1]]) <= find_local_state_type(req_local[c][1])
          /\ find_local_state_type(pd_state[Anc[c][1]]) \in 0..2
          /\ find_local_state_type(req_local[c][1]) \in 0..2 /\ find_local_state_type(local_state[c]) \in 0..2
      BY <2>2, <2>3, <2>4, <2>5, <3>1, Zenon
    <3>4. find_local_state_type(pd_state[Anc[c][1]]) <= find_local_state_type(local_state[c])
      BY <3>2, <3>3
    <3> QED BY <2>5, <3>4, Zenon
  <2>6. CASE l # 1
    <3>1. l - 1 \in Lvl /\ l \in Lvl /\ l - 1 <= l
      BY <2>6, LevelAssumption DEF Lvl
    <3>2. PICK d \in CPU : Anc[d][l - 1] = Anc[c][l - 1] /\ req_local[d][l - 1] = pd_state[Anc[c][l - 1]]
      BY <2>1, <3>1, Zenon DEF Coordinated
    <3>3. Anc[d][l] = Anc[c][l]
      BY <3>1, <3>2, PathFacts
    <3>4. find_local_state_type(req_local[d][l]) <= find_local_state_type(req_local[d][l - 1])
      BY <2>1, <3>1, Zenon DEF Coordinated
    <3>5. find_local_state_type(pd_state[Anc[c][l]]) <= find_local_state_type(req_local[d][l])
      BY <2>3, <3>3, Zenon
    <3>6. /\ find_local_state_type(pd_state[Anc[c][l]]) \in 0..2 /\ find_local_state_type(req_local[d][l]) \in 0..2
          /\ find_local_state_type(pd_state[Anc[c][l - 1]]) \in 0..2
          /\ find_local_state_type(req_local[d][l]) <= find_local_state_type(pd_state[Anc[c][l - 1]])
      BY <2>2, <2>4, <3>1, <3>2, <3>4, Zenon
    <3>7. find_local_state_type(pd_state[Anc[c][l]]) <= find_local_state_type(pd_state[Anc[c][l - 1]])
      BY <3>5, <3>6
    <3> QED BY <2>6, <3>7, Zenon
  <2> QED BY <2>5, <2>6, Zenon
<1> QED BY <1>1, Inductive, PTL

\* There are at most two CPUs, as on devkit_e7.
TwoCpus == \A a, b, c \in CPU : a = b \/ b = c \/ a = c

\* What SYSTEM_SUSPEND has found out about another CPU is still so.
LastInv ==
  \A c \in CPU : \A d \in CPU \ {c} :
    op[c] = "system_suspend" \/ (pc[c] = "last_check" /\ d \notin unread[c]) => aff_info_state[d] = "OFF"

\* A step of a leaves where another CPU is, and what it has looked at, alone.
LEMMA OneActs ==
  ASSUME TypeOK, NEW a \in CPU, NEW c \in CPU \ {a},
         Call(a) \/ Wake(a) \/ Work(a) \/ AcquireLock(a) \/ CpuOnLock(a)
  PROVE  pc'[c] = pc[c] /\ op'[c] = op[c] /\ unread'[c] = unread[c]
<1> USE Zenon DEF Goto, StartOp, ThenUnlock, opVars, onVars
<1>0. pc \in [CPU -> Place] /\ DOMAIN op = CPU /\ DOMAIN unread = CPU
  BY Zenon DEF TypeOK
<1>1. CASE CpuOff(a)
  BY <1>0, <1>1 DEF CpuOff
<1>2. CASE SystemSuspend(a) \/ IsLastOnCpu(a)
  BY <1>0, <1>2 DEF SystemSuspend, IsLastOnCpu
<1>3. CASE SystemSuspendStart(a)
  BY <1>0, <1>3 DEF SystemSuspendStart
<1>4. CASE \E r \in Requests : CpuStandby(a, r) \/ CpuSuspend(a, r)
  BY <1>0, <1>4 DEF CpuStandby, CpuSuspend
<1>5. CASE \E t \in CPU : CpuOn(a, t)
  BY <1>0, <1>5 DEF CpuOn
<1>6. CASE WakeFromStandby(a) \/ WakeFromWfi(a)
  BY <1>0, <1>6 DEF WakeFromStandby, WakeFromWfi
<1>7. CASE PowerUp(a)
  BY <1>0, <1>7 DEF PowerUp
<1>8. CASE CpuOffWork(a) \/ SetAffinityOff(a)
  BY <1>0, <1>8 DEF CpuOffWork, SetAffinityOff
<1>9. CASE SuspendWork(a)
  BY <1>0, <1>9 DEF SuspendWork
<1>10. CASE psci_suspend_to_standby_finisher(a)
  BY <1>0, <1>10 DEF psci_suspend_to_standby_finisher
<1>11. CASE ReleaseLock(a)
  BY <1>0, <1>11 DEF ReleaseLock, EndOp
<1>12. CASE WarmBoot(a) \/ WarmBootWork(a)
  BY <1>0, <1>12 DEF WarmBoot, WarmBootWork
<1>13. CASE WarmBootFinish(a)
  BY <1>0, <1>13 DEF WarmBootFinish
<1>14. CASE CpuOnValidate(a) \/ CpuOnPlatform(a)
  BY <1>0, <1>14 DEF CpuOnValidate, CpuOnPlatform
<1>15. CASE CpuOnContext(a) \/ CpuOnUnlock(a)
  BY <1>0, <1>15 DEF CpuOnContext, CpuOnUnlock
<1>16. CASE AcquireLock(a) \/ CpuOnLock(a)
  BY <1>0, <1>16 DEF AcquireLock, CpuOnLock
<1> QED BY <1>1, <1>2, <1>3, <1>4, <1>5, <1>6, <1>7, <1>8, <1>9, <1>10, <1>11, <1>12, <1>13, <1>14,
           <1>15, <1>16 DEF Call, Wake, Work

\* What a's own step does to what it knows: an operation becomes SYSTEM_SUSPEND
\* only after the check, the check moves on only past a CPU that is OFF, and
\* a changes the affinity state of another CPU only in CPU_ON.
LEMMA LastActs ==
  ASSUME PsciInv, NEW c \in CPU, NEW d \in CPU \ {c},
         Call(c) \/ Wake(c) \/ Work(c) \/ AcquireLock(c) \/ CpuOnLock(c),
         op'[c] = "system_suspend" \/ (pc'[c] = "last_check" /\ d \notin unread'[c])
  PROVE  /\ aff_info_state'[d] = aff_info_state[d]
         /\ \/ op[c] = "system_suspend"
            \/ pc[c] = "last_check" /\ d \notin unread[c]
            \/ aff_info_state[d] = "OFF"
<1>0. /\ pc \in [CPU -> Place] /\ op \in [CPU -> {"none", "off", "suspend", "retention", "system_suspend",
                                                   "standby_finish", "warmboot"}]
      /\ unread \in [CPU -> SUBSET CPU] /\ aff_info_state \in [CPU -> {"ON", "OFF", "ON_PENDING"}]
  BY Zenon DEF PsciInv, TypeOK
<1>a. op[c] = "none" <=> pc[c] \notin UnderLocks
  BY Zenon DEF PsciInv, Local, Control
<1>b. /\ next_pc[c] \in {"ns", "aff_off", "suspended", "wfi"}
  BY Zenon DEF PsciInv, Local, Control
<1> USE Zenon DEF Goto, StartOp, ThenUnlock, opVars, onVars, UnderLocks
<1>1. CASE CpuOff(c)
  BY <1>0, <1>1 DEF CpuOff
<1>2. CASE SystemSuspend(c)
  BY <1>0, <1>a, <1>2 DEF SystemSuspend
<1>3. CASE IsLastOnCpu(c)
  BY <1>0, <1>a, <1>3 DEF IsLastOnCpu
<1>4. CASE SystemSuspendStart(c)
  BY <1>0, <1>4 DEF SystemSuspendStart
<1>5. CASE \E r \in Requests : CpuStandby(c, r) \/ CpuSuspend(c, r)
  BY <1>0, <1>a, <1>5 DEF CpuStandby, CpuSuspend
<1>6. CASE \E t \in CPU : CpuOn(c, t)
  BY <1>0, <1>a, <1>6 DEF CpuOn
<1>7. CASE WakeFromStandby(c) \/ WakeFromWfi(c)
  BY <1>0, <1>a, <1>7 DEF WakeFromStandby, WakeFromWfi
<1>8. CASE PowerUp(c)
  BY <1>0, <1>a, <1>8 DEF PowerUp
<1>9. CASE CpuOffWork(c) \/ SetAffinityOff(c)
  BY <1>0, <1>a, <1>9 DEF CpuOffWork, SetAffinityOff
<1>10. CASE SuspendWork(c)
  BY <1>0, <1>10 DEF SuspendWork
<1>11. CASE psci_suspend_to_standby_finisher(c)
  BY <1>0, <1>11 DEF psci_suspend_to_standby_finisher, psci_set_pwr_domains_to_run
<1>12. CASE ReleaseLock(c)
  BY <1>0, <1>b, <1>12 DEF ReleaseLock, EndOp
<1>13. CASE WarmBoot(c) \/ WarmBootWork(c)
  BY <1>0, <1>13 DEF WarmBoot, WarmBootWork
<1>14. CASE WarmBootFinish(c)
  BY <1>0, <1>14 DEF WarmBootFinish, psci_set_pwr_domains_to_run
<1>15. CASE CpuOnValidate(c) \/ CpuOnPlatform(c)
  BY <1>0, <1>a, <1>15 DEF CpuOnValidate, CpuOnPlatform
<1>16. CASE CpuOnContext(c) \/ CpuOnUnlock(c)
  BY <1>0, <1>a, <1>16 DEF CpuOnContext, CpuOnUnlock
<1>17. CASE AcquireLock(c) \/ CpuOnLock(c)
  BY <1>0, <1>a, <1>17 DEF AcquireLock, CpuOnLock
<1> QED BY <1>1, <1>2, <1>3, <1>4, <1>5, <1>6, <1>7, <1>8, <1>9, <1>10, <1>11, <1>12, <1>13, <1>14,
           <1>15, <1>16, <1>17 DEF Call, Wake, Work

\* A CPU that is off and was not powered on takes no step.
LEMMA OffIsStill ==
  ASSUME NEW d \in CPU, pc[d] = "off", ~poweron[d],
         Call(d) \/ Wake(d) \/ Work(d) \/ AcquireLock(d) \/ CpuOnLock(d)
  PROVE  FALSE
<1>1. CASE Call(d)
  BY <1>1, Zenon DEF Call, CpuOff, SystemSuspend, CpuStandby, CpuSuspend, CpuOn
<1>2. CASE Wake(d)
  BY <1>2, Zenon DEF Wake, WakeFromStandby, WakeFromWfi, PowerUp
<1>3. CASE Work(d)
  BY <1>3, Zenon DEF Work, CpuOffWork, SetAffinityOff, IsLastOnCpu, SystemSuspendStart, SuspendWork,
                     psci_suspend_to_standby_finisher, ReleaseLock, WarmBoot, WarmBootWork, WarmBootFinish,
                     CpuOnValidate, CpuOnPlatform, CpuOnContext, CpuOnUnlock
<1>4. CASE AcquireLock(d) \/ CpuOnLock(d)
  BY <1>4, Zenon DEF AcquireLock, CpuOnLock
<1> QED BY <1>1, <1>2, <1>3, <1>4, Zenon

\* With two CPUs nobody is left to turn on the CPU that was found OFF.
LEMMA LastStep == TwoCpus /\ PsciInv /\ LastInv /\ [Next]_vars => LastInv'
<1> SUFFICES ASSUME TwoCpus, PsciInv, LastInv, [Next]_vars, NEW c \in CPU, NEW d \in CPU \ {c},
                    op'[c] = "system_suspend" \/ (pc'[c] = "last_check" /\ d \notin unread'[c])
             PROVE  aff_info_state'[d] = "OFF"
  BY Zenon DEF LastInv
<1>1. CASE UNCHANGED vars
  BY <1>1, Zenon DEF vars, LastInv
<1>2. CASE Next
  <2>1. PICK a \in CPU : Call(a) \/ Wake(a) \/ Work(a) \/ AcquireLock(a) \/ CpuOnLock(a)
    BY <1>2, Zenon DEF Next
  <2>2. CASE a = c
    BY <2>1, <2>2, LastActs, Zenon DEF LastInv
  <2>3. CASE a = d
    <3>1. pc'[c] = pc[c] /\ op'[c] = op[c] /\ unread'[c] = unread[c]
      BY <2>1, <2>3, OneActs, Zenon DEF PsciInv
    <3>2. aff_info_state[d] = "OFF"
      BY <3>1, Zenon DEF LastInv
    <3>3. pc[d] = "off" /\ ~poweron[d]
      BY <3>2, Zenon DEF PsciInv, Local, Affinity, TurningOn
    <3> QED BY <2>1, <2>3, <3>3, OffIsStill, Zenon
  <2> QED BY <2>2, <2>3, Zenon DEF TwoCpus
<1> QED BY <1>1, <1>2, Zenon

\* On two CPUs the unlocked psci_is_last_on_cpu() of SYSTEM_SUSPEND stays true,
\* and the whole tree goes off.
THEOREM SuspendTotal == TwoCpus => (Spec => []SystemSuspendIsTotal)
<1> SUFFICES ASSUME TwoCpus
             PROVE  Spec => []SystemSuspendIsTotal
  OBVIOUS
<1>1. PsciInv /\ LastInv => SystemSuspendIsTotal
  <2> SUFFICES ASSUME PsciInv, LastInv, NEW c \in CPU, op[c] = "system_suspend"
               PROVE  /\ \A d \in CPU \ {c} : aff_info_state[d] = "OFF"
                      /\ next_pc[c] = "suspended" => \A n \in Node : is_local_state_off(pd_state[n])
    BY Zenon DEF SystemSuspendIsTotal
  <2>1. Local(c) /\ Coordinated /\ (\A d \in CPU : Local(d))
    BY Zenon DEF PsciInv
  <2>2. \A d \in CPU \ {c} : aff_info_state[d] = "OFF"
    BY Zenon DEF LastInv
  <2>3. ASSUME next_pc[c] = "suspended", NEW n \in Node
        PROVE  is_local_state_off(pd_state[n])
    <3>1. \A d \in CPU \ {c} : pc[d] = "off"
      BY <2>1, <2>2, Zenon DEF Local, Affinity
    <3>2. \A d \in CPU : \A l \in Lvl : req_local[d][l] = MaxOff
      BY <2>1, <2>3, <3>1, Zenon DEF Local, Requesting, TurnedOff
    <3>3. \A d \in CPU, l \in Lvl : pd_state[Anc[d][l]] = MaxOff
      BY <2>1, <3>2 DEF Coordinated
    <3>4. pd_state[n] = MaxOff
      BY <2>1, <3>3 DEF Coordinated, Below
    <3> QED BY <3>4, StateAssumption, Zenon DEF is_local_state_off
  <2> QED BY <2>2, <2>3, Zenon
<1>2. Init => LastInv
  BY Zenon DEF Init, LastInv
<1>3. PsciInv /\ LastInv /\ [Next]_vars => LastInv'
  BY LastStep, Zenon
<1> QED BY <1>1, <1>2, <1>3, Inductive, PTL DEF Spec

\* What psci_warmboot_entrypoint() read under the locks is current until its
\* finishers have acted on it.
THEOREM Snapshot == Spec => []SnapshotIsCurrent
  BY Inductive, PTL DEF PsciInv

\* The panic of psci_warmboot_entrypoint() and the asserts of the finishers are
\* never met, and a CPU enters only a context that was initialised.
THEOREM Finishers == Spec => []FinisherAssertsHold
<1>1. PsciInv => FinisherAssertsHold
  <2> SUFFICES ASSUME PsciInv, NEW c \in CPU
               PROVE  /\ pc[c] = "reset" => aff_info_state[c] # "OFF"
                      /\ pc[c] = "on_finish" /\ cpu_lock[c] = None =>
                           aff_info_state[c] = "ON_PENDING" /\ ctx_ready[c]
                      /\ pc[c] = "suspend_finish" =>
                           /\ aff_info_state[c] = "ON" /\ ctx_ready[c]
                           /\ is_local_state_off(state_info[c][0])
                      /\ pc[c] \in {"on_finish", "suspend_finish"} /\ last_cpu[Anc[c][1]] # None =>
                           \A l \in LowLevels(end_pwrlvl[c], state_info[c]) :
                             last_cpu[Anc[c][l]] \in Below(Anc[c][l])
                      /\ last_cpu[Anc[c][1]] # None =>
                           \A l \in LowLevels(end_pwrlvl[c], psci_get_target_local_pwr_states(c, end_pwrlvl[c])) :
                             last_cpu[Anc[c][l]] \in Below(Anc[c][l])
    BY Zenon DEF FinisherAssertsHold
  <2>1. Local(c) /\ Accounted /\ SnapshotIsCurrent /\ TypeOK
    BY Zenon DEF PsciInv
  <2>2. pc[c] = "reset" => aff_info_state[c] # "OFF"
    BY <2>1, Zenon DEF Local, Affinity, Booting
  <2>3. pc[c] = "on_finish" /\ cpu_lock[c] = None => aff_info_state[c] = "ON_PENDING" /\ ctx_ready[c]
    BY <2>1, Zenon DEF Local, Affinity, TurningOn
  <2>4. ASSUME pc[c] \in {"on_finish", "suspend_finish"}
        PROVE  /\ state_info[c][0] = local_state[c] /\ end_pwrlvl[c] \in 0..MaxLvl
               /\ \A l \in 1..end_pwrlvl[c] : l \in Lvl /\ state_info[c][l] = pd_state[Anc[c][l]]
    <3>1. end_pwrlvl[c] \in 0..MaxLvl /\ state_info[c] = psci_get_target_local_pwr_states(c, end_pwrlvl[c])
      BY <2>1, <2>4, Typed, Zenon DEF SnapshotIsCurrent
    <3>2. 0 \in 0..MaxLvl /\ \A l \in 1..end_pwrlvl[c] : l \in Lvl /\ l \in 0..MaxLvl /\ l # 0 /\ l <= end_pwrlvl[c]
      BY <3>1, LevelAssumption DEF Lvl
    <3> QED BY <3>1, <3>2, Zenon DEF psci_get_target_local_pwr_states
  <2>5. pc[c] = "suspend_finish" => aff_info_state[c] = "ON" /\ ctx_ready[c] /\ is_local_state_off(state_info[c][0])
    BY <2>1, <2>4, Zenon DEF Local, Affinity, Suspended, Booting
  <2>6. ASSUME pc[c] \in {"on_finish", "suspend_finish"}, last_cpu[Anc[c][1]] # None,
               NEW l \in LowLevels(end_pwrlvl[c], state_info[c])
        PROVE  last_cpu[Anc[c][l]] \in Below(Anc[c][l])
    <3>1. l \in 1..end_pwrlvl[c] /\ state_info[c][l] # RUN
      BY <2>4, <2>6 DEF LowLevels
    <3>2. l \in Lvl /\ pd_state[Anc[c][l]] # RUN /\ Anc[c][l] \in Node
      BY <2>4, <2>6, <3>1, PathFacts, Zenon
    <3> QED BY <2>1, <2>6, <3>2, Zenon DEF Accounted
  <2> DEFINE info == psci_get_target_local_pwr_states(c, end_pwrlvl[c])
  <2>7. ASSUME last_cpu[Anc[c][1]] # None, NEW l \in LowLevels(end_pwrlvl[c], info)
        PROVE  last_cpu[Anc[c][l]] \in Below(Anc[c][l])
    <3>1. end_pwrlvl[c] \in 0..MaxLvl
      BY <2>1, Typed, Zenon
    <3>2. l \in 1..end_pwrlvl[c] /\ info[l] # RUN
      <4> HIDE DEF info
      <4> QED BY <2>7, <3>1 DEF LowLevels
    <3>3. l \in Lvl /\ l \in 0..MaxLvl /\ l # 0 /\ l <= end_pwrlvl[c]
      BY <3>1, <3>2, LevelAssumption DEF Lvl
    <3>4. pd_state[Anc[c][l]] # RUN /\ Anc[c][l] \in Node
      BY <3>2, <3>3, PathFacts, Zenon DEF psci_get_target_local_pwr_states
    <3> QED BY <2>1, <2>7, <3>3, <3>4, Zenon DEF Accounted
  <2> QED BY <2>2, <2>3, <2>5, <2>6, <2>7, Zenon
<1> QED BY <1>1, Inductive, PTL
=============================================================================
