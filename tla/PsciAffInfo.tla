---------------------------- MODULE PsciAffInfo ----------------------------
(***************************************************************************)
(* lib/psci without hardware-assisted coherency: the cache maintenance     *)
(* around the aff_info_state of one CPU, which the CPU itself writes with  *)
(* its caches off (CPU_OFF) and others write with caches on (CPU_ON).      *)
(*                                                                         *)
(* mem is what main memory holds, line the copy in the callers' cache.     *)
(* Cached accesses go through line; accesses with caches off go to mem.    *)
(* The hardware may fill the line from memory or write a dirty line back   *)
(* at any time.  When the CPU that goes off takes its cluster out of       *)
(* coherency, its own cache maintenance no longer reaches the callers'     *)
(* cache.                                                                  *)
(***************************************************************************)
EXTENDS Integers

CONSTANTS Caller,   \* CPUs that call CPU_ON and AFFINITY_INFO
          None

VARIABLES mem,      \* aff_info_state in main memory
          line,     \* [val, dirty] in the callers' cache; val None when absent
          coherent, \* the target's cluster takes part in coherency
          tpc,      \* where the target is
          cpc,      \* where each caller is
          seen,     \* the value a caller read last
          cpu_lock, \* psci_cpu_pd_nodes[target].cpu_lock
          poweron,  \* the platform was asked to power the target on
          during    \* history: the states the target had since a caller's flush

vars == <<mem, line, coherent, tpc, cpc, seen, cpu_lock, poweron, during>>

Aff == {"ON", "OFF", "ON_PENDING"}
NoLine == [val |-> None, dirty |-> FALSE]

ASSUME CallerAssumption == None \notin Caller \cup Aff

\* A cached read sees the line, or memory when there is none, and leaves a copy.
Value == IF line.val = None THEN mem ELSE line.val
Filled == [val |-> Value, dirty |-> line.dirty]

\* flush_cpu_data_by_index(): clean and invalidate.
Flush == /\ mem' = IF line.dirty THEN line.val ELSE mem
         /\ line' = NoLine

\* A cached write.
CachedWrite(v) == line' = [val |-> v, dirty |-> TRUE] /\ UNCHANGED mem

\* The state of the target, and what it was since a caller flushed its copy.
State == IF line.dirty THEN line.val ELSE mem

Observe == during' = [c \in Caller |-> IF cpc[c] \in {"ns", "on_flush"} THEN {State}
                                       ELSE IF cpc[c] \in {"info_read", "on_validate"}
                                            THEN during[c] \cup {State} ELSE {}]

Init == /\ mem = "ON" /\ line = NoLine /\ coherent = TRUE
        /\ tpc = "ns" /\ cpc = [c \in Caller |-> "ns"]
        /\ seen = [c \in Caller |-> "ON"]
        /\ cpu_lock = None /\ poweron = FALSE
        /\ during = [c \in Caller |-> {}]

-----------------------------------------------------------------------------
\* The caches of the hardware: a speculative fill, or an eviction.
Speculate == /\ line.val = None
             /\ line' = [val |-> mem, dirty |-> FALSE]
             /\ UNCHANGED <<mem, coherent, tpc, cpc, seen, cpu_lock, poweron>>
             /\ Observe

Evict == /\ line.val # None
         /\ Flush
         /\ UNCHANGED <<coherent, tpc, cpc, seen, cpu_lock, poweron>>
         /\ Observe

-----------------------------------------------------------------------------
\* psci_do_cpu_off(): psci_do_pwrdown_sequence() turned the caches off, and
\* the platform may have taken the cluster out of coherency.
CpuOff == /\ tpc = "ns"
          /\ tpc' = "off_flush"
          /\ coherent' \in BOOLEAN
          /\ UNCHANGED <<mem, line, cpc, seen, cpu_lock, poweron>>
          /\ Observe

\* psci_flush_cpu_data(aff_info_state)
OffFlush == /\ tpc = "off_flush"
            /\ tpc' = "off_set"
            /\ IF coherent THEN Flush ELSE UNCHANGED <<mem, line>>
            /\ UNCHANGED <<coherent, cpc, seen, cpu_lock, poweron>>
            /\ Observe

\* psci_set_aff_info_state(AFF_STATE_OFF) with caches off, and psci_dsbish()
OffSet == /\ tpc = "off_set"
          /\ tpc' = "off_inv"
          /\ mem' = "OFF"
          /\ UNCHANGED <<line, coherent, cpc, seen, cpu_lock, poweron>>
          /\ Observe

\* psci_inv_cpu_data(aff_info_state): a dirty line is lost.
OffInv == /\ tpc = "off_inv"
          /\ tpc' = "off"
          /\ line' = IF coherent THEN NoLine ELSE line
          /\ UNCHANGED <<mem, coherent, cpc, seen, cpu_lock, poweron>>
          /\ Observe

\* The platform powers the target up; psci_warmboot_entrypoint() reads its
\* state with caches off and panics when it is OFF (see BootSeesPending).
PowerUp == /\ tpc = "off" /\ poweron
           /\ mem # "OFF"
           /\ tpc' = "boot" /\ poweron' = FALSE /\ coherent' = TRUE
           /\ UNCHANGED <<mem, line, cpc, seen, cpu_lock>>
           /\ Observe

\* psci_cpu_on_finish(): caches on, wait for the CPU lock, and then
\* psci_set_pwr_domains_to_run() sets the state ...
OnFinish == /\ tpc = "boot" /\ cpu_lock = None
            /\ CachedWrite("ON")
            /\ tpc' = "boot_flush"
            /\ UNCHANGED <<coherent, cpc, seen, cpu_lock, poweron>>
            /\ Observe

\* ... and flushes it.
OnFinishFlush == /\ tpc = "boot_flush"
                 /\ Flush
                 /\ tpc' = "ns"
                 /\ UNCHANGED <<coherent, cpc, seen, cpu_lock, poweron>>
                 /\ Observe

-----------------------------------------------------------------------------
\* A step of caller c from place p to place q.
CallerStep(c, p, q) == /\ cpc[c] = p
                       /\ cpc' = [cpc EXCEPT ![c] = q]
                       /\ UNCHANGED <<coherent, tpc>>
                       /\ Observe

\* Mutant: AFFINITY_INFO reads without cache maintenance.
AffinityInfo_NoFlush(c) ==
  CallerStep(c, "ns", "info_read") /\ UNCHANGED <<mem, line, seen, cpu_lock, poweron>>

\* psci_affinity_info(): flush, then read.
AffinityInfo(c) == CallerStep(c, "ns", "info_read") /\ Flush /\ UNCHANGED <<seen, cpu_lock, poweron>>

AffinityInfoRead(c) == /\ CallerStep(c, "info_read", "ns")
                       /\ line' = Filled
                       /\ seen' = [seen EXCEPT ![c] = Value]
                       /\ UNCHANGED <<mem, cpu_lock, poweron>>

\* psci_cpu_on_start(): psci_spin_lock_cpu() ...
CpuOn(c) == /\ CallerStep(c, "ns", "on_flush")
            /\ cpu_lock = None
            /\ cpu_lock' = c
            /\ UNCHANGED <<mem, line, seen, poweron>>

\* ... the flush ahead of the first read ...
OnFlush(c) == CallerStep(c, "on_flush", "on_validate") /\ Flush /\ UNCHANGED <<seen, cpu_lock, poweron>>

\* ... cpu_on_validate_state() ...
OnValidate(c) == /\ CallerStep(c, "on_validate", IF Value = "OFF" THEN "on_set" ELSE "on_unlock")
                 /\ line' = Filled
                 /\ seen' = [seen EXCEPT ![c] = Value]
                 /\ UNCHANGED <<mem, cpu_lock, poweron>>

\* ... the update, twice if the first one was lost to OffInv ...
OnSet(c) == /\ CallerStep(c, "on_set", "on_set_flush") \/ CallerStep(c, "on_retry", "on_retry_flush")
            /\ CachedWrite("ON_PENDING")
            /\ UNCHANGED <<seen, cpu_lock, poweron>>

OnSetFlush(c) == /\ \/ CallerStep(c, "on_set_flush", "on_check")
                    \/ CallerStep(c, "on_retry_flush", "on_recheck")
                 /\ Flush
                 /\ UNCHANGED <<seen, cpu_lock, poweron>>

\* Mutant: the update is not tried again.
OnCheck_NoRetry(c) ==
  /\ CallerStep(c, "on_check", "on_platform")
  /\ line' = Filled
  /\ seen' = [seen EXCEPT ![c] = Value]
  /\ UNCHANGED <<mem, cpu_lock, poweron>>

OnCheck(c) == /\ \/ CallerStep(c, "on_check", IF Value = "ON_PENDING" THEN "on_platform" ELSE "on_retry")
                 \/ CallerStep(c, "on_recheck", "on_platform")
              /\ line' = Filled
              /\ seen' = [seen EXCEPT ![c] = Value]
              /\ UNCHANGED <<mem, cpu_lock, poweron>>

\* ... pwr_domain_on() of the platform and cm_init_context_by_index() ...
OnPlatform(c) == /\ CallerStep(c, "on_platform", "on_unlock")
                 /\ poweron' = TRUE
                 /\ UNCHANGED <<mem, line, seen, cpu_lock>>

\* ... or the platform fails and OFF is restored ...
OnPlatformFails(c) == /\ CallerStep(c, "on_platform", "on_restore_flush")
                      /\ CachedWrite("OFF")
                      /\ UNCHANGED <<seen, cpu_lock, poweron>>

OnRestoreFlush(c) == /\ CallerStep(c, "on_restore_flush", "on_unlock")
                     /\ Flush
                     /\ UNCHANGED <<seen, cpu_lock, poweron>>

\* ... psci_spin_unlock_cpu().
OnUnlock(c) == /\ CallerStep(c, "on_unlock", "ns")
               /\ cpu_lock' = None
               /\ UNCHANGED <<mem, line, seen, poweron>>

Target == CpuOff \/ OffFlush \/ OffSet \/ OffInv \/ PowerUp \/ OnFinish \/ OnFinishFlush

Handler(c) == \/ AffinityInfoRead(c) \/ OnFlush(c) \/ OnValidate(c) \/ OnSet(c) \/ OnSetFlush(c)
              \/ OnCheck(c) \/ OnPlatform(c) \/ OnPlatformFails(c) \/ OnRestoreFlush(c) \/ OnUnlock(c)

Next == \/ Speculate \/ Evict \/ Target
        \/ \E c \in Caller : AffinityInfo(c) \/ CpuOn(c) \/ Handler(c)

Spec == Init /\ [][Next]_vars

-----------------------------------------------------------------------------
\* Types; an absent line is not dirty.
TypeOK ==
  /\ mem \in Aff
  /\ line \in [val : Aff, dirty : BOOLEAN] \cup {NoLine}
  /\ coherent \in BOOLEAN /\ poweron \in BOOLEAN
  /\ tpc \in {"ns", "off_flush", "off_set", "off_inv", "off", "boot", "boot_flush"}
  /\ cpc \in [Caller -> {"ns", "info_read", "on_flush", "on_validate", "on_set", "on_set_flush",
                         "on_check", "on_retry", "on_retry_flush", "on_recheck", "on_platform",
                         "on_restore_flush", "on_unlock"}]
  /\ seen \in [Caller -> Aff]
  /\ cpu_lock \in Caller \cup {None}
  /\ during \in [Caller -> SUBSET Aff]

\* When the platform is asked to power the target on, ON_PENDING is in main
\* memory: the invalidation by a CPU that is just going off loses the first
\* update at most, and the retry, whose asserts hold, makes up for it.  So the
\* target never boots into the panic of psci_warmboot_entrypoint(), and finds
\* ON_PENDING until it sets ON.
PendingReachesMemory ==
  /\ \A c \in Caller : /\ cpc[c] = "on_retry" => seen[c] = "OFF"
                       /\ cpc[c] = "on_platform" => seen[c] = "ON_PENDING" /\ mem = "ON_PENDING"
  /\ tpc = "off" /\ poweron => mem = "ON_PENDING"
  /\ tpc = "boot" => mem = "ON_PENDING" /\ Value = "ON_PENDING"

\* AFFINITY_INFO and CPU_ON never act on a line that was stale when they were
\* called: what they read is a state the target has had since; in particular
\* a CPU that left coherency while it went off is not seen ON for ever.
ReadsAreCurrent ==
  [][\A c \in Caller : cpc[c] \in {"info_read", "on_validate"} /\ cpc'[c] # cpc[c] =>
       seen'[c] \in during'[c]]_vars

\* "Restore the state on error": after a CPU_ON that the platform refused, the
\* target is OFF and can be turned on again.
FailedCpuOnRestoresOff == cpu_lock = None /\ tpc = "off" /\ ~poweron => State = "OFF"
=============================================================================
