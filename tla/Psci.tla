-------------------------------- MODULE Psci --------------------------------
(***************************************************************************)
(* lib/psci: the power domain tree and the operations that move CPUs and   *)
(* domains between running, retention and off: CPU_ON, CPU_OFF,            *)
(* CPU_SUSPEND (power-down, multi-level standby and the CPU standby fast   *)
(* path), SYSTEM_SUSPEND and the warm boot that ends them.                 *)
(*                                                                         *)
(* A step is what one CPU does between two points where others can see     *)
(* it: taking or dropping one lock, the work done under the locks of its   *)
(* ancestors, or one access of state that no lock protects.  The locks     *)
(* are the FcfsLock that BakeryLock implements.  Memory is coherent here;  *)
(* PsciAffInfo models the cache maintenance of aff_info_state.             *)
(***************************************************************************)
EXTENDS Integers

CONSTANTS CPU,      \* CPU power domains
          Node,     \* the other power domains, psci_non_cpu_pd_nodes[]
          MaxLvl,   \* PLAT_MAX_PWR_LVL
          Anc,      \* Anc[c][l]: the ancestor of c at level l
          MaxRet,   \* PLAT_MAX_RET_STATE
          MaxOff,   \* PLAT_MAX_OFF_STATE
          PlatStates, \* the states validate_power_state() of the platform returns
          Primary,  \* the CPU that boots first
          None      \* no CPU, no lock holder

RUN == 0                        \* PSCI_LOCAL_STATE_RUN
Lvl == 1..MaxLvl
State == 0..MaxOff              \* plat_local_state_t
NoLvl == MaxLvl + 1             \* PSCI_INVALID_PWR_LVL

ASSUME LevelAssumption == MaxLvl \in Nat \ {0}
ASSUME StateAssumption == MaxRet \in Nat /\ MaxOff \in Nat /\ MaxRet < MaxOff
ASSUME PlatStatesAssumption == PlatStates \subseteq [0..MaxLvl -> State]
ASSUME PrimaryAssumption == Primary \in CPU /\ None \notin CPU
\* The tree: two CPUs that share an ancestor share all those above it, and a
\* domain is at one level.
ASSUME TreeAssumption ==
  /\ Anc \in [CPU -> [Lvl -> Node]]
  /\ \A c, d \in CPU : \A k, l \in Lvl :
       Anc[c][k] = Anc[d][l] => k = l /\ \A m \in k..MaxLvl : Anc[c][m] = Anc[d][m]

is_local_state_off(s) == s > MaxRet

\* find_local_state_type(): RUN, RETN, OFF in order of depth.
find_local_state_type(s) == IF s = RUN THEN 0 ELSE IF s > MaxRet THEN 2 ELSE 1

\* The highest level that satisfies P, or PSCI_INVALID_PWR_LVL.
HighestLvl(P(_)) ==
  IF \E l \in 0..MaxLvl : P(l)
  THEN CHOOSE l \in 0..MaxLvl : P(l) /\ \A k \in (l + 1)..MaxLvl : ~P(k)
  ELSE NoLvl

psci_find_max_off_lvl(info) == HighestLvl(LAMBDA l : is_local_state_off(info[l]))

psci_find_target_suspend_lvl(info) == HighestLvl(LAMBDA l : info[l] # RUN)

\* psci_validate_suspend_req(): a level is never shallower than the one above
\* it, and a standby request turns no level off.
psci_validate_suspend_req(info, powerdown) ==
  LET target == psci_find_target_suspend_lvl(info)
  IN  /\ target # NoLvl
      /\ \A l \in 0..(target - 1) :
           find_local_state_type(info[l]) >= find_local_state_type(info[l + 1])
      /\ ~powerdown => psci_find_max_off_lvl(info) = NoLvl

\* What validate_power_state() of a platform returns for CPU_SUSPEND: requests
\* that pass psci_validate_suspend_req(), where powering down means at least
\* the CPU.
Requests == {r \in [info : PlatStates, powerdown : BOOLEAN] :
               /\ psci_validate_suspend_req(r.info, r.powerdown)
               /\ r.powerdown => is_local_state_off(r.info[0])}

\* psci_set_power_off_state()
PowerOffState == [l \in 0..MaxLvl |-> MaxOff]

AllRun == [l \in 0..MaxLvl |-> RUN]

-----------------------------------------------------------------------------
VARIABLES aff_info_state,  \* per-CPU: "ON", "OFF" or "ON_PENDING"
          local_state,     \* per-CPU: psci_svc_cpu_data.local_state
          target_pwrlvl,   \* per-CPU: the level of a suspend to power down
          req_local,       \* psci_req_local_pwr_states[level][cpu]
          pd_state,        \* psci_non_cpu_pd_nodes[].local_state
          last_cpu,        \* last_cpu_in_non_cpu_pd[], None for -1
          lock,            \* psci_locks[]: who holds the lock of a domain
          cpu_lock,        \* the CPU spin lock of CPU_ON
          ctx_ready,       \* the next non-secure context has been initialised
          poweron,         \* the platform was asked to power the CPU on
          pc,              \* where the CPU is
          op,              \* the operation it takes the domain locks for
          end_pwrlvl,      \* how far up it takes them
          held,            \* how far up it holds them
          state_info,      \* the local state_info of the operation
          next_pc,         \* where it goes once the locks are dropped
          target,          \* the CPU it turns on
          unread           \* the CPUs psci_is_last_on_cpu() has still to look at

vars == <<aff_info_state, local_state, target_pwrlvl, req_local, pd_state, last_cpu, lock,
          cpu_lock, ctx_ready, poweron, pc, op, end_pwrlvl, held, state_info, next_pc, target,
          unread>>

\* Groups of variables that actions leave alone together.
psciVars == <<local_state, target_pwrlvl, req_local, pd_state, last_cpu>>
opVars == <<op, end_pwrlvl, held, state_info, next_pc>>
onVars == <<aff_info_state, cpu_lock, ctx_ready, poweron, target, unread>>

Goto(c, place) == pc' = [pc EXCEPT ![c] = place]

\* The CPUs below a domain, and the levels of c whose domain is n.
Below(n) == {c \in CPU : \E l \in Lvl : Anc[c][l] = n}

\* f with the domains of c at the levels ls set to v.
SetPath(f, c, ls, v) ==
  [n \in Node |-> IF \E l \in ls : Anc[c][l] = n THEN v ELSE f[n]]

\* psci_setup(): every domain off but those of the primary CPU.
Init ==
  /\ aff_info_state = [c \in CPU |-> IF c = Primary THEN "ON" ELSE "OFF"]
  /\ local_state = [c \in CPU |-> IF c = Primary THEN RUN ELSE MaxOff]
  /\ target_pwrlvl = [c \in CPU |-> NoLvl]
  /\ req_local = [c \in CPU |-> [l \in Lvl |-> IF c = Primary THEN RUN ELSE MaxOff]]
  /\ pd_state = SetPath([n \in Node |-> MaxOff], Primary, Lvl, RUN)
  /\ last_cpu = [n \in Node |-> None]
  /\ lock = [n \in Node |-> None]
  /\ cpu_lock = [c \in CPU |-> None]
  /\ ctx_ready = [c \in CPU |-> FALSE]
  /\ poweron = [c \in CPU |-> FALSE]
  /\ pc = [c \in CPU |-> IF c = Primary THEN "ns" ELSE "off"]
  /\ op = [c \in CPU |-> "none"]
  /\ end_pwrlvl = [c \in CPU |-> 0]
  /\ held = [c \in CPU |-> 0]
  /\ state_info = [c \in CPU |-> AllRun]
  /\ next_pc = [c \in CPU |-> "ns"]
  /\ target = [c \in CPU |-> None]
  /\ unread = [c \in CPU |-> {}]

-----------------------------------------------------------------------------
\* Start an operation that takes the locks of c up to level e.
StartOp(c, name, e, info) ==
  /\ op' = [op EXCEPT ![c] = name]
  /\ end_pwrlvl' = [end_pwrlvl EXCEPT ![c] = e]
  /\ state_info' = [state_info EXCEPT ![c] = info]
  /\ Goto(c, IF e = 0 THEN "work" ELSE "lock")
  /\ UNCHANGED <<held, next_pc>>

\* Mutant: the lock is taken without waiting for it.
AcquireLock_NoWait(c) ==
  /\ pc[c] = "lock"
  /\ lock' = [lock EXCEPT ![Anc[c][held[c] + 1]] = c]
  /\ held' = [held EXCEPT ![c] = @ + 1]
  /\ Goto(c, IF held[c] + 1 = end_pwrlvl[c] THEN "work" ELSE "lock")
  /\ UNCHANGED <<psciVars, onVars, op, end_pwrlvl, state_info, next_pc>>

\* psci_acquire_pwr_domain_locks(): one more lock, lowest level first.
AcquireLock(c) ==
  /\ pc[c] = "lock"
  /\ lock[Anc[c][held[c] + 1]] = None
  /\ lock' = [lock EXCEPT ![Anc[c][held[c] + 1]] = c]
  /\ held' = [held EXCEPT ![c] = @ + 1]
  /\ Goto(c, IF held[c] + 1 = end_pwrlvl[c] THEN "work" ELSE "lock")
  /\ UNCHANGED <<psciVars, onVars, op, end_pwrlvl, state_info, next_pc>>

\* The operation is over: forget its locals.
EndOp(c) ==
  /\ Goto(c, next_pc[c])
  /\ op' = [op EXCEPT ![c] = "none"]
  /\ end_pwrlvl' = [end_pwrlvl EXCEPT ![c] = IF next_pc[c] = "wfi" THEN @ ELSE 0]
  /\ state_info' = [state_info EXCEPT ![c] = AllRun]
  /\ next_pc' = [next_pc EXCEPT ![c] = "ns"]

\* psci_release_pwr_domain_locks(): one lock fewer, highest level first; after
\* the last one the operation goes on to what it does without locks.
ReleaseLock(c) ==
  /\ pc[c] = "unlock"
  /\ lock' = [n \in Node |-> IF held[c] > 0 /\ n = Anc[c][held[c]] THEN None ELSE lock[n]]
  /\ held' = [held EXCEPT ![c] = IF @ > 0 THEN @ - 1 ELSE 0]
  /\ \/ held[c] <= 1 /\ EndOp(c)
     \/ held[c] > 1 /\ UNCHANGED <<pc, op, end_pwrlvl, state_info, next_pc>>
  /\ UNCHANGED <<psciVars, onVars>>

\* The work under the locks is done; where to go when they are dropped.
ThenUnlock(c, place) ==
  /\ Goto(c, "unlock")
  /\ next_pc' = [next_pc EXCEPT ![c] = place]

-----------------------------------------------------------------------------
\* Mutant: the deepest of the states requested.
plat_get_target_pwr_state_Deepest(states) == CHOOSE s \in states : \A t \in states : s >= t

\* plat_get_target_pwr_state(): the shallowest of the states requested.
plat_get_target_pwr_state(states) == CHOOSE s \in states : \A t \in states : s <= t

\* The states requested for the ancestor of c at level l.
Requested(req, c, l) == {req[d][l] : d \in {d \in CPU : Anc[d][l] = Anc[c][l]}}

\* psci_do_state_coordination(), the requests: c's for every level up to e.
NewRequests(c, e, info) ==
  [req_local EXCEPT ![c] = [l \in Lvl |-> IF l <= e THEN info[l] ELSE @[l]]]

\* psci_do_state_coordination(), the result: what is negotiated at each level,
\* RUN from the first level that has to run.
TargetStates(c, e, info) ==
  LET neg == [l \in 1..e |-> plat_get_target_pwr_state(Requested(NewRequests(c, e, info), c, l))]
  IN  [l \in 0..MaxLvl |-> IF l = 0 \/ l > e THEN info[l]
                           ELSE IF \E k \in 1..l : neg[k] = RUN THEN RUN ELSE neg[l]]

\* The levels up to e below the first that runs.
LowLevels(e, info) == {l \in 1..e : \A k \in 1..l : info[k] # RUN}

\* psci_set_target_local_pwr_states(), and psci_stats_update_pwr_down(): c is
\* the last CPU of the domains that go down.
psci_do_state_coordination(c, e, info) ==
  LET states == TargetStates(c, e, info)
  IN  /\ req_local' = NewRequests(c, e, info)
      /\ local_state' = [local_state EXCEPT ![c] = states[0]]
      /\ pd_state' = [n \in Node |-> IF \E l \in 1..e : Anc[c][l] = n
                                     THEN states[CHOOSE l \in 1..e : Anc[c][l] = n]
                                     ELSE pd_state[n]]
      /\ last_cpu' = SetPath(last_cpu, c, LowLevels(e, states), c)

\* psci_set_pwr_domains_to_run()
psci_set_pwr_domains_to_run(c, e) ==
  /\ pd_state' = SetPath(pd_state, c, 1..e, RUN)
  /\ req_local' = [req_local EXCEPT ![c] = [l \in Lvl |-> IF l <= e THEN RUN ELSE @[l]]]
  /\ aff_info_state' = [aff_info_state EXCEPT ![c] = "ON"]
  /\ local_state' = [local_state EXCEPT ![c] = RUN]

\* psci_get_target_local_pwr_states()
psci_get_target_local_pwr_states(c, e) ==
  [l \in 0..MaxLvl |-> IF l = 0 THEN local_state[c]
                       ELSE IF l <= e THEN pd_state[Anc[c][l]] ELSE RUN]

\* psci_stats_update_pwr_up(): the domains c wakes are no longer accounted to
\* the CPU that put them down.  A first power up returns early.
psci_stats_update_pwr_up(c, e, info) ==
  last_cpu' = IF last_cpu[Anc[c][1]] = None THEN last_cpu
              ELSE SetPath(last_cpu, c, LowLevels(e, info), None)

-----------------------------------------------------------------------------
\* psci_cpu_off(): all levels are to be powered off.
CpuOff(c) ==
  /\ pc[c] = "ns"
  /\ StartOp(c, "off", MaxLvl, PowerOffState)
  /\ UNCHANGED <<psciVars, onVars, lock>>

\* psci_do_cpu_off() under the locks.  The Secure Payload may refuse.
CpuOffWork(c) ==
  /\ pc[c] = "work" /\ op[c] = "off"
  /\ \/ /\ ThenUnlock(c, "ns")
        /\ UNCHANGED psciVars
     \/ /\ psci_do_state_coordination(c, end_pwrlvl[c], state_info[c])
        /\ ThenUnlock(c, "aff_off")
        /\ UNCHANGED target_pwrlvl
  /\ UNCHANGED <<onVars, lock, op, end_pwrlvl, held, state_info>>

\* psci_do_cpu_off() without locks: tell the others, and power down.
SetAffinityOff(c) ==
  /\ pc[c] = "aff_off"
  /\ aff_info_state' = [aff_info_state EXCEPT ![c] = "OFF"]
  /\ Goto(c, "off")
  /\ UNCHANGED <<psciVars, opVars, lock, cpu_lock, ctx_ready, poweron, target, unread>>

\* psci_cpu_suspend(), the CPU standby fast path.
CpuStandby(c, r) ==
  /\ pc[c] = "ns"
  /\ ~r.powerdown /\ psci_find_target_suspend_lvl(r.info) = 0
  /\ local_state' = [local_state EXCEPT ![c] = r.info[0]]
  /\ Goto(c, "standby")
  /\ UNCHANGED <<target_pwrlvl, req_local, pd_state, last_cpu, lock, opVars, onVars>>

WakeFromStandby(c) ==
  /\ pc[c] = "standby"
  /\ local_state' = [local_state EXCEPT ![c] = RUN]
  /\ Goto(c, "ns")
  /\ UNCHANGED <<target_pwrlvl, req_local, pd_state, last_cpu, lock, opVars, onVars>>

\* psci_cpu_suspend() otherwise: psci_cpu_suspend_start().
CpuSuspend(c, r) ==
  /\ pc[c] = "ns"
  /\ r.powerdown \/ psci_find_target_suspend_lvl(r.info) > 0
  /\ StartOp(c, IF r.powerdown THEN "suspend" ELSE "retention",
             psci_find_target_suspend_lvl(r.info), r.info)
  /\ UNCHANGED <<psciVars, onVars, lock>>

\* psci_system_suspend() begins with psci_is_last_on_cpu().
SystemSuspend(c) ==
  /\ pc[c] = "ns"
  /\ unread' = [unread EXCEPT ![c] = CPU \ {c}]
  /\ Goto(c, "last_check")
  /\ UNCHANGED <<psciVars, opVars, lock, aff_info_state, cpu_lock, ctx_ready, poweron, target>>

\* Mutant: a CPU that is being turned on does not count.
IsLastOnCpu_PendingIgnored(c) ==
  /\ pc[c] = "last_check"
  /\ \E d \in unread[c] :
       \/ /\ aff_info_state[d] # "ON"
          /\ unread' = [unread EXCEPT ![c] = @ \ {d}]
          /\ UNCHANGED pc
       \/ /\ aff_info_state[d] = "ON"
          /\ unread' = [unread EXCEPT ![c] = {}]
          /\ Goto(c, "ns")
  /\ UNCHANGED <<psciVars, opVars, lock, aff_info_state, cpu_lock, ctx_ready, poweron, target>>

\* One round of the loop of psci_is_last_on_cpu(): the state of one other CPU
\* is read without a lock, and the call is denied unless it is OFF.  The
\* order in which the platform numbers the CPUs is left open.
IsLastOnCpu(c) ==
  /\ pc[c] = "last_check"
  /\ \E d \in unread[c] :
       \/ /\ aff_info_state[d] = "OFF"
          /\ unread' = [unread EXCEPT ![c] = @ \ {d}]
          /\ UNCHANGED pc
       \/ /\ aff_info_state[d] # "OFF"
          /\ unread' = [unread EXCEPT ![c] = {}]
          /\ Goto(c, "ns")
  /\ UNCHANGED <<psciVars, opVars, lock, aff_info_state, cpu_lock, ctx_ready, poweron, target>>

\* The rest of psci_system_suspend(): every level is to be powered off.  A call
\* with an invalid entry point ends like one that is denied, and is left out.
SystemSuspendStart(c) ==
  /\ pc[c] = "last_check" /\ unread[c] = {}
  /\ StartOp(c, "system_suspend", MaxLvl, PowerOffState)
  /\ UNCHANGED <<psciVars, onVars, lock>>

\* psci_cpu_suspend_start() under the locks: abandoned when an interrupt is
\* pending, else coordinate and save what the wake-up needs.
SuspendWork(c) ==
  /\ pc[c] = "work" /\ op[c] \in {"suspend", "retention", "system_suspend"}
  /\ \/ /\ ThenUnlock(c, "ns")
        /\ UNCHANGED <<psciVars, ctx_ready>>
     \/ /\ psci_do_state_coordination(c, end_pwrlvl[c], state_info[c])
        /\ IF op[c] = "retention"
           THEN ThenUnlock(c, "wfi") /\ UNCHANGED <<target_pwrlvl, ctx_ready>>
           ELSE /\ ThenUnlock(c, "suspended")
                /\ target_pwrlvl' = [target_pwrlvl EXCEPT ![c] = end_pwrlvl[c]]
                /\ ctx_ready' = [ctx_ready EXCEPT ![c] = TRUE]
  /\ UNCHANGED <<aff_info_state, cpu_lock, poweron, target, unread, lock, op, end_pwrlvl, held, state_info>>

\* The wfi() of a retention state returns: psci_suspend_to_standby_finisher().
WakeFromWfi(c) ==
  /\ pc[c] = "wfi"
  /\ StartOp(c, "standby_finish", end_pwrlvl[c], AllRun)
  /\ UNCHANGED <<psciVars, onVars, lock>>

psci_suspend_to_standby_finisher(c) ==
  /\ pc[c] = "work" /\ op[c] = "standby_finish"
  /\ psci_stats_update_pwr_up(c, end_pwrlvl[c],
                              psci_get_target_local_pwr_states(c, end_pwrlvl[c]))
  /\ psci_set_pwr_domains_to_run(c, end_pwrlvl[c])
  /\ ThenUnlock(c, "ns")
  /\ UNCHANGED <<target_pwrlvl, cpu_lock, ctx_ready, poweron, target, unread,
                 lock, op, end_pwrlvl, held, state_info>>

-----------------------------------------------------------------------------
\* A powered down CPU comes out of reset: a suspended one on any wake-up
\* event, one that is off when the platform powers it on.
PowerUp(c) ==
  /\ \/ pc[c] = "suspended" /\ UNCHANGED poweron
     \/ pc[c] = "off" /\ poweron[c] /\ poweron' = [poweron EXCEPT ![c] = FALSE]
  /\ Goto(c, "reset")
  /\ UNCHANGED <<psciVars, opVars, lock, aff_info_state, cpu_lock, ctx_ready, target, unread>>

\* psci_warmboot_entrypoint() up to the locks; it panics when the affinity
\* state is OFF (see FinisherAssertsHold).
WarmBoot(c) ==
  /\ pc[c] = "reset"
  /\ aff_info_state[c] # "OFF"
  /\ StartOp(c, "warmboot", IF target_pwrlvl[c] = NoLvl THEN MaxLvl ELSE target_pwrlvl[c], AllRun)
  /\ UNCHANGED <<psciVars, onVars, lock>>

\* psci_warmboot_entrypoint() under the locks: what the domains emerge from,
\* and whether this is a power on or a resume.
WarmBootWork(c) ==
  /\ pc[c] = "work" /\ op[c] = "warmboot"
  /\ state_info' = [state_info EXCEPT ![c] = psci_get_target_local_pwr_states(c, end_pwrlvl[c])]
  /\ Goto(c, IF aff_info_state[c] = "ON_PENDING" THEN "on_finish" ELSE "suspend_finish")
  /\ UNCHANGED <<psciVars, onVars, lock, op, end_pwrlvl, held, next_pc>>

\* Mutant: the level of the last suspend is not forgotten.
WarmBootFinish_LevelKept(c) ==
  /\ (pc[c] = "on_finish" /\ cpu_lock[c] = None) \/ pc[c] = "suspend_finish"
  /\ psci_set_pwr_domains_to_run(c, end_pwrlvl[c])
  /\ psci_stats_update_pwr_up(c, end_pwrlvl[c], state_info[c])
  /\ ctx_ready' = [ctx_ready EXCEPT ![c] = FALSE]
  /\ ThenUnlock(c, "ns")
  /\ UNCHANGED <<target_pwrlvl, cpu_lock, poweron, target, unread, lock, op, end_pwrlvl, held, state_info>>

\* psci_cpu_on_finish() waits for the CPU that turns this one on to drop the
\* CPU lock; psci_cpu_suspend_finish() forgets the suspend level.  Both enter
\* the saved non-secure context.
WarmBootFinish(c) ==
  /\ \/ pc[c] = "on_finish" /\ cpu_lock[c] = None /\ UNCHANGED target_pwrlvl
     \/ pc[c] = "suspend_finish" /\ target_pwrlvl' = [target_pwrlvl EXCEPT ![c] = NoLvl]
  /\ psci_set_pwr_domains_to_run(c, end_pwrlvl[c])
  /\ psci_stats_update_pwr_up(c, end_pwrlvl[c], state_info[c])
  /\ ctx_ready' = [ctx_ready EXCEPT ![c] = FALSE]
  /\ ThenUnlock(c, "ns")
  /\ UNCHANGED <<cpu_lock, poweron, target, unread, lock, op, end_pwrlvl, held, state_info>>

-----------------------------------------------------------------------------
\* psci_cpu_on(): c turns t on.
CpuOn(c, t) ==
  /\ pc[c] = "ns"
  /\ target' = [target EXCEPT ![c] = t]
  /\ Goto(c, "on_lock")
  /\ UNCHANGED <<psciVars, opVars, lock, aff_info_state, cpu_lock, ctx_ready, poweron, unread>>

\* psci_spin_lock_cpu()
CpuOnLock(c) ==
  /\ pc[c] = "on_lock"
  /\ cpu_lock[target[c]] = None
  /\ cpu_lock' = [cpu_lock EXCEPT ![target[c]] = c]
  /\ Goto(c, "on_validate")
  /\ UNCHANGED <<psciVars, opVars, lock, aff_info_state, ctx_ready, poweron, target, unread>>

\* Mutant: the error path returns without dropping the CPU lock.
CpuOnValidate_LockKept(c) ==
  /\ pc[c] = "on_validate"
  /\ IF aff_info_state[target[c]] # "OFF"
     THEN Goto(c, "ns") /\ UNCHANGED aff_info_state
     ELSE /\ aff_info_state' = [aff_info_state EXCEPT ![target[c]] = "ON_PENDING"]
          /\ Goto(c, "on_platform")
  /\ UNCHANGED <<psciVars, opVars, lock, cpu_lock, ctx_ready, poweron, target, unread>>

\* cpu_on_validate_state(), and the target becomes ON_PENDING.
CpuOnValidate(c) ==
  /\ pc[c] = "on_validate"
  /\ IF aff_info_state[target[c]] # "OFF"
     THEN Goto(c, "on_unlock") /\ UNCHANGED aff_info_state
     ELSE /\ aff_info_state' = [aff_info_state EXCEPT ![target[c]] = "ON_PENDING"]
          /\ Goto(c, "on_platform")
  /\ UNCHANGED <<psciVars, opVars, lock, cpu_lock, ctx_ready, poweron, target, unread>>

\* Mutant: the CPU lock is dropped before the context is initialised.
CpuOnPlatform_UnlockedEarly(c) ==
  /\ pc[c] = "on_platform"
  /\ poweron' = [poweron EXCEPT ![target[c]] = TRUE]
  /\ cpu_lock' = [cpu_lock EXCEPT ![target[c]] = None]
  /\ Goto(c, "on_context")
  /\ UNCHANGED <<psciVars, opVars, lock, aff_info_state, ctx_ready, target, unread>>

\* pwr_domain_on() of the platform: the target is powered on, or the call
\* fails and the state is restored.
CpuOnPlatform(c) ==
  /\ pc[c] = "on_platform"
  /\ \/ /\ poweron' = [poweron EXCEPT ![target[c]] = TRUE]
        /\ Goto(c, "on_context")
        /\ UNCHANGED aff_info_state
     \/ /\ aff_info_state' = [aff_info_state EXCEPT ![target[c]] = "OFF"]
        /\ Goto(c, "on_unlock")
        /\ UNCHANGED poweron
  /\ UNCHANGED <<psciVars, opVars, lock, cpu_lock, ctx_ready, target, unread>>

\* Mutant: CPU_ON returns with the CPU lock of the target held.
CpuOnContext_LockKept(c) ==
  /\ pc[c] = "on_context"
  /\ ctx_ready' = [ctx_ready EXCEPT ![target[c]] = TRUE]
  /\ Goto(c, "ns")
  /\ UNCHANGED <<psciVars, opVars, lock, aff_info_state, cpu_lock, poweron, target, unread>>

\* cm_init_context_by_index(): the target may already be running.
CpuOnContext(c) ==
  /\ pc[c] = "on_context"
  /\ ctx_ready' = [ctx_ready EXCEPT ![target[c]] = TRUE]
  /\ Goto(c, "on_unlock")
  /\ UNCHANGED <<psciVars, opVars, lock, aff_info_state, cpu_lock, poweron, target, unread>>

\* psci_spin_unlock_cpu()
CpuOnUnlock(c) ==
  /\ pc[c] = "on_unlock"
  /\ cpu_lock' = [cpu_lock EXCEPT ![target[c]] = None]
  /\ target' = [target EXCEPT ![c] = None]
  /\ Goto(c, "ns")
  /\ UNCHANGED <<psciVars, opVars, lock, aff_info_state, ctx_ready, poweron, unread>>

\* What the non-secure world asks of PSCI.
Call(c) == \/ CpuOff(c) \/ SystemSuspend(c)
           \/ \E r \in Requests : CpuStandby(c, r) \/ CpuSuspend(c, r)
           \/ \E t \in CPU : CpuOn(c, t)

\* Wake-up events.
Wake(c) == WakeFromStandby(c) \/ WakeFromWfi(c) \/ PowerUp(c)

\* The steps of PSCI itself, other than waiting for a lock.
Work(c) == \/ CpuOffWork(c) \/ SetAffinityOff(c) \/ IsLastOnCpu(c) \/ SystemSuspendStart(c) \/ SuspendWork(c)
           \/ psci_suspend_to_standby_finisher(c) \/ ReleaseLock(c)
           \/ WarmBoot(c) \/ WarmBootWork(c) \/ WarmBootFinish(c)
           \/ CpuOnValidate(c) \/ CpuOnPlatform(c) \/ CpuOnContext(c) \/ CpuOnUnlock(c)

Next == \E c \in CPU : Call(c) \/ Wake(c) \/ Work(c) \/ AcquireLock(c) \/ CpuOnLock(c)

Spec == Init /\ [][Next]_vars

\* PSCI code runs with interrupts masked and does not stop half way.  Domain
\* locks are granted in order of arrival (BakeryLock!EveryContenderServed),
\* so a CPU that finds a lock free again and again is not passed over; the
\* CPU spin lock is contended only by callers that leave EL3 in between.
\* Nobody has to call PSCI, and no wake-up event has to come, except that
\* the platform powers on a CPU when asked to.
FairSpec ==
  /\ Spec
  /\ \A c \in CPU : /\ WF_vars(Work(c)) /\ SF_vars(WarmBootFinish(c))
                    /\ SF_vars(AcquireLock(c)) /\ SF_vars(CpuOnLock(c))
                    /\ WF_vars(pc[c] = "off" /\ PowerUp(c))

-----------------------------------------------------------------------------
Place == {"ns", "last_check", "lock", "work", "unlock", "aff_off", "off", "standby", "wfi",
          "suspended", "reset", "on_finish", "suspend_finish", "on_lock", "on_validate",
          "on_platform", "on_context", "on_unlock"}

\* Every variable keeps its type, and a CPU never holds more locks than the
\* operation asks for.
TypeOK ==
  /\ aff_info_state \in [CPU -> {"ON", "OFF", "ON_PENDING"}]
  /\ local_state \in [CPU -> State]
  /\ target_pwrlvl \in [CPU -> 0..NoLvl]
  /\ req_local \in [CPU -> [Lvl -> State]]
  /\ pd_state \in [Node -> State]
  /\ last_cpu \in [Node -> CPU \cup {None}]
  /\ lock \in [Node -> CPU \cup {None}]
  /\ cpu_lock \in [CPU -> CPU \cup {None}]
  /\ ctx_ready \in [CPU -> BOOLEAN]
  /\ poweron \in [CPU -> BOOLEAN]
  /\ pc \in [CPU -> Place]
  /\ op \in [CPU -> {"none", "off", "suspend", "retention", "system_suspend",
                     "standby_finish", "warmboot"}]
  /\ end_pwrlvl \in [CPU -> 0..MaxLvl]
  /\ held \in [CPU -> 0..MaxLvl] /\ \A c \in CPU : held[c] <= end_pwrlvl[c]
  /\ state_info \in [CPU -> [0..MaxLvl -> State]]
  /\ next_pc \in [CPU -> Place]
  /\ target \in [CPU -> CPU \cup {None}]
  /\ unread \in [CPU -> SUBSET CPU]

\* A CPU that runs in the non-secure world is ON, and every power domain
\* above it runs and is requested to run: no wake-up path resets fewer levels
\* than the power-down path lowered.
RunningCpuIsPowered ==
  \A c \in CPU : pc[c] = "ns" =>
    /\ aff_info_state[c] = "ON" /\ local_state[c] = RUN
    /\ \A l \in Lvl : pd_state[Anc[c][l]] = RUN /\ req_local[c][l] = RUN

\* A power domain is never deeper than a CPU or a domain below it: whoever
\* coordinates last, a domain is not turned off under a CPU that runs or only
\* retains, although the levels are coordinated one after the other and from
\* different CPUs ("the state level X will enter is not shallower than the
\* state level X + 1 will enter").
DomainNotDeeper ==
  \A c \in CPU : \A l \in Lvl :
    find_local_state_type(pd_state[Anc[c][l]]) <=
      find_local_state_type(IF l = 1 THEN local_state[c] ELSE pd_state[Anc[c][l - 1]])

\* The unlocked check of psci_is_last_on_cpu() stays valid until the system
\* is down: the other CPUs stay OFF, and the whole tree is turned off ("all
\* the other cores in the system have been turned OFF and the current CPU is
\* the last running CPU").  This is so of two CPUs: of three, one can turn on
\* a CPU that was already looked at, and turn itself off before it is.
SystemSuspendIsTotal ==
  \A c \in CPU : op[c] = "system_suspend" =>
    /\ \A d \in CPU \ {c} : aff_info_state[d] = "OFF"
    /\ next_pc[c] = "suspended" => \A n \in Node : is_local_state_off(pd_state[n])

\* psci_warmboot_entrypoint() never meets its panic on a CPU whose affinity
\* state is OFF, though CPU_ON may race with CPU_OFF or fail; the asserts of the
\* finishers hold, the context that the CPU enters has been initialised
\* although the caller of CPU_ON writes it after the target was powered on, and
\* the statistics of a domain that is woken are charged to the CPU that put it
\* down (the assert of psci_stats_update_pwr_up()).
FinisherAssertsHold ==
  \A c \in CPU :
    /\ pc[c] = "reset" => aff_info_state[c] # "OFF"
    /\ pc[c] = "on_finish" /\ cpu_lock[c] = None =>
         aff_info_state[c] = "ON_PENDING" /\ ctx_ready[c]
    /\ pc[c] = "suspend_finish" =>
         /\ aff_info_state[c] = "ON" /\ ctx_ready[c]
         /\ is_local_state_off(state_info[c][0])
    /\ pc[c] \in {"on_finish", "suspend_finish"} /\ last_cpu[Anc[c][1]] # None =>
         \A l \in LowLevels(end_pwrlvl[c], state_info[c]) :
           last_cpu[Anc[c][l]] \in Below(Anc[c][l])
    /\ pc[c] = "work" /\ op[c] = "standby_finish" /\ last_cpu[Anc[c][1]] # None =>
         \A l \in LowLevels(end_pwrlvl[c], psci_get_target_local_pwr_states(c, end_pwrlvl[c])) :
           last_cpu[Anc[c][l]] \in Below(Anc[c][l])

\* What a booting CPU read about its domains is still so when it acts on it.
SnapshotIsCurrent ==
  \A c \in CPU : pc[c] \in {"on_finish", "suspend_finish"} =>
    state_info[c] = psci_get_target_local_pwr_states(c, end_pwrlvl[c])

\* "This function updates the PSCI STATS (residency time and count) for CPU
\* and NON-CPU power domains": a domain that runs has had its last low power
\* period accounted.
RunningDomainIsAccounted == \A n \in Node : pd_state[n] = RUN => last_cpu[n] = None

\* The CPUs never wait for each other for ever: every PSCI call returns or
\* powers the CPU down, and every boot ends.
EveryCallCompletes ==
  \A c \in CPU : pc[c] \notin {"ns", "off", "standby", "wfi", "suspended"} ~>
                   pc[c] \in {"ns", "off", "standby", "wfi", "suspended"}

\* A CPU that was powered on by a successful CPU_ON gets to run.
PoweredOnCpuRuns == \A c \in CPU : poweron[c] ~> pc[c] = "ns"
=============================================================================
