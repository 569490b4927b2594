------------------------- MODULE PsciAffInfo_proofs -------------------------
(***************************************************************************)
(* The two properties of the cache maintenance around aff_info_state, for  *)
(* any number of CPUs that call CPU_ON and AFFINITY_INFO.                  *)
(***************************************************************************)
EXTENDS PsciAffInfo, TLAPS

Setting == {"on_set", "on_set_flush", "on_check", "on_retry", "on_retry_flush",
            "on_recheck", "on_platform", "on_restore_flush"}
Locked == Setting \cup {"on_flush", "on_validate", "on_unlock"}

\* Memory holds v, and so does the cache, if it has a copy.
Quiet(v) == mem = v /\ ~line.dirty /\ line.val \in {None, v}

\* v was written to the cache and has not reached memory, which holds m.
Dirty(v, m) == mem = m /\ line.dirty /\ line.val = v

\* A CPU_ON holds the CPU lock; only one that found the target OFF, or the
\* target itself when it is back, writes the state.
LockInv == /\ \A c \in Caller : cpc[c] \in Locked => cpu_lock = c
           /\ line.dirty => \/ tpc = "boot_flush"
                            \/ \E c \in Caller : cpc[c] \in {"on_set_flush", "on_retry_flush", "on_restore_flush"}

\* What such a CPU_ON finds at each place.  Its first update is lost only if
\* the invalidation of the target, the last thing it does, comes after it.
SetInv == \A c \in Caller :
  /\ cpc[c] \in Setting => tpc \in {"off_inv", "off"} /\ ~poweron
  /\ cpc[c] = "on_set" => Quiet("OFF")
  /\ cpc[c] = "on_set_flush" => Dirty("ON_PENDING", "OFF") \/ Quiet("ON_PENDING") \/ (tpc = "off" /\ Quiet("OFF"))
  /\ cpc[c] = "on_check" => Quiet("ON_PENDING") \/ (tpc = "off" /\ Quiet("OFF"))
  /\ cpc[c] = "on_retry" => tpc = "off" /\ Quiet("OFF") /\ seen[c] = "OFF"
  /\ cpc[c] = "on_retry_flush" => tpc = "off" /\ (Dirty("ON_PENDING", "OFF") \/ Quiet("ON_PENDING"))
  /\ cpc[c] = "on_recheck" => tpc = "off" /\ Quiet("ON_PENDING")
  /\ cpc[c] = "on_platform" => Quiet("ON_PENDING") /\ seen[c] = "ON_PENDING"
  /\ cpc[c] = "on_restore_flush" => Dirty("OFF", "ON_PENDING") \/ Quiet("OFF") \/ Quiet("ON_PENDING")

\* What the state is at each place of the target.  Only a copy made before
\* the target wrote OFF with its caches off can differ from memory.
TargetInv ==
  /\ tpc \in {"ns", "off_flush", "off_set"} => Quiet("ON") /\ ~poweron
  /\ tpc \in {"off_inv", "off"} =>
       /\ mem \in {"OFF", "ON_PENDING"}
       /\ line.dirty \/ line.val \in {None, mem} \/ (line.val = "ON" /\ mem = "OFF")
  /\ poweron => Quiet("ON_PENDING")
  /\ tpc = "boot" => Quiet("ON_PENDING") /\ ~poweron
  /\ tpc = "boot_flush" => (Dirty("ON", "ON_PENDING") \/ Quiet("ON")) /\ ~poweron

\* A copy in the cache is no older than the flush of a caller that is reading.
ReadInv == \A c \in Caller : cpc[c] \in {"info_read", "on_validate"} =>
             line.val = None \/ line.dirty \/ line.val \in during[c] \cup {State}

AffInv == TypeOK /\ LockInv /\ SetInv /\ TargetInv
-----------------------------------------------------------------------------
\* The line of the cache, field by field.
LEMMA LineFacts ==
  ASSUME TypeOK
  PROVE  /\ mem \in Aff /\ line.dirty \in BOOLEAN /\ line.val \in Aff \cup {None}
         /\ line.dirty => line.val \in Aff
         /\ State \in Aff /\ Value \in Aff
<1> USE CallerAssumption
<1>1. CASE line = NoLine
  BY <1>1 DEF TypeOK, NoLine, State, Value
<1>2. CASE line \in [val : Aff, dirty : BOOLEAN]
  BY <1>2 DEF TypeOK, State, Value
<1> QED BY <1>1, <1>2 DEF TypeOK

\* A flush brings memory up to date and drops the line.
LEMMA FlushFacts ==
  ASSUME TypeOK, Flush
  PROVE  /\ mem' = State /\ line' = NoLine /\ ~line'.dirty /\ line'.val = None
         /\ mem' \in Aff
  BY LineFacts DEF Flush, State, NoLine

\* A read leaves a copy of what it saw.
LEMMA FilledFacts ==
  ASSUME TypeOK, line' = Filled
  PROVE  /\ line'.val = Value /\ line'.dirty = line.dirty
         /\ line' \in [val : Aff, dirty : BOOLEAN]
  BY LineFacts DEF Filled

\* A cached write leaves memory alone.
LEMMA WriteFacts ==
  ASSUME NEW v \in Aff, CachedWrite(v)
  PROVE  /\ line'.val = v /\ line'.dirty /\ mem' = mem
         /\ line' \in [val : Aff, dirty : BOOLEAN]
  BY DEF CachedWrite

\* Every step keeps the history within the states of the target.
LEMMA ObserveFacts ==
  ASSUME TypeOK, Observe
  PROVE  during' \in [Caller -> SUBSET Aff]
  BY LineFacts DEF Observe, TypeOK

-----------------------------------------------------------------------------
\* The steps of the caches change no place, and only move a value.
LEMMA CacheStep ==
  ASSUME AffInv, Speculate \/ Evict
  PROVE  AffInv'
<1> USE DEF AffInv
<1>1. /\ UNCHANGED <<tpc, cpc, seen, cpu_lock, poweron, coherent>> /\ Observe
      /\ ~line'.dirty
      /\ \/ line.val = None /\ line'.val = mem /\ mem' = mem
         \/ line'.val = None /\ mem' = State
      /\ mem' \in Aff
      /\ line' \in [val : Aff, dirty : BOOLEAN] \cup {NoLine}
  <2>1. CASE Speculate
    BY <2>1, LineFacts DEF Speculate
  <2>2. CASE Evict
    BY <2>2, FlushFacts DEF Evict
  <2> QED BY <2>1, <2>2
<1>2. TypeOK'
  BY <1>1, ObserveFacts DEF TypeOK
<1>3. line.val = None => ~line.dirty
  BY LineFacts, CallerAssumption
<1>4. \A v \in Aff : Quiet(v) => Quiet(v)'
  BY <1>1, <1>3 DEF Quiet, State
<1>5. \A v, m \in Aff : Dirty(v, m) => Quiet(v)'
  BY <1>1, <1>3 DEF Quiet, Dirty, State
<1>6. LockInv'
  BY <1>1 DEF LockInv
<1>7. SetInv'
  BY <1>1, <1>4, <1>5 DEF SetInv, Aff
<1>8. TargetInv'
  <2>1. tpc \in {"off_inv", "off"} =>
          /\ mem' \in {"OFF", "ON_PENDING"}
          /\ line'.val \in {None, mem'} \/ (line'.val = "ON" /\ mem' = "OFF")
    <3>1. CASE line.dirty
      BY <1>1, <1>3, <3>1 DEF LockInv, SetInv, TargetInv, Quiet, Dirty, State
    <3>2. CASE ~line.dirty
      BY <1>1, <3>2 DEF TargetInv, State
    <3> QED BY <3>1, <3>2
  <2> QED BY <1>1, <1>4, <1>5, <2>1 DEF TargetInv, Aff
<1> QED BY <1>2, <1>6, <1>7, <1>8

\* CPU_OFF of the target.
LEMMA OffStep ==
  ASSUME AffInv, CpuOff \/ OffFlush \/ OffSet \/ OffInv
  PROVE  AffInv'
<1> USE DEF AffInv
<1>1. CASE CpuOff
  <2>1. TypeOK'
    BY <1>1, ObserveFacts DEF CpuOff, TypeOK
  <2>2. LockInv' /\ SetInv' /\ TargetInv'
    BY <1>1 DEF CpuOff, LockInv, SetInv, TargetInv, Quiet, Dirty
  <2> QED BY <2>1, <2>2
<1>2. CASE OffFlush
  <2>1. Quiet("ON") /\ ~poweron
    BY <1>2 DEF OffFlush, TargetInv
  <2>2. Quiet("ON")' /\ line' \in [val : Aff, dirty : BOOLEAN] \cup {NoLine}
    BY <1>2, <2>1, FlushFacts DEF OffFlush, Quiet, State, TypeOK
  <2>3. TypeOK'
    BY <1>2, <2>2, ObserveFacts DEF OffFlush, TypeOK, Quiet, Aff
  <2>4. LockInv' /\ SetInv' /\ TargetInv'
    BY <1>2, <2>1, <2>2 DEF OffFlush, LockInv, SetInv, TargetInv, Quiet, Dirty
  <2> QED BY <2>3, <2>4
<1>3. CASE OffSet
  <2>1. TypeOK'
    BY <1>3, ObserveFacts DEF OffSet, TypeOK, Aff
  <2>2. LockInv' /\ SetInv' /\ TargetInv'
    BY <1>3 DEF OffSet, LockInv, SetInv, TargetInv, Quiet, Dirty
  <2> QED BY <2>1, <2>2
<1>4. CASE OffInv
  <2>1. TypeOK'
    BY <1>4, ObserveFacts DEF OffInv, TypeOK
  <2>2. line' = line \/ (line'.val = None /\ ~line'.dirty)
    BY <1>4 DEF OffInv, NoLine
  <2>3. LockInv' /\ TargetInv'
    BY <1>4, <2>2 DEF OffInv, LockInv, TargetInv, Quiet, Dirty
  <2>4. SetInv'
    BY <1>4, <2>2 DEF OffInv, SetInv, Quiet, Dirty
  <2> QED BY <2>1, <2>3, <2>4
<1> QED BY <1>1, <1>2, <1>3, <1>4

\* The target is back.
LEMMA BootStep ==
  ASSUME AffInv, PowerUp \/ OnFinish \/ OnFinishFlush
  PROVE  AffInv'
<1> USE DEF AffInv
<1>1. CASE PowerUp
  <2>1. TypeOK'
    BY <1>1, ObserveFacts DEF PowerUp, TypeOK
  <2>2. LockInv' /\ SetInv' /\ TargetInv'
    BY <1>1 DEF PowerUp, LockInv, SetInv, Setting, TargetInv, Quiet, Dirty
  <2> QED BY <2>1, <2>2
<1>2. CASE OnFinish
  <2>1. "ON" \in Aff
    BY DEF Aff
  <2>2. Dirty("ON", "ON_PENDING")' /\ line' \in [val : Aff, dirty : BOOLEAN] /\ ~poweron
    BY <1>2, <2>1, WriteFacts DEF OnFinish, TargetInv, Quiet, Dirty
  <2>3. TypeOK'
    BY <1>2, <2>2, ObserveFacts DEF OnFinish, TypeOK, Dirty, Aff
  <2>4. LockInv' /\ SetInv' /\ TargetInv'
    BY <1>2, <2>2 DEF OnFinish, LockInv, SetInv, Setting, TargetInv, Quiet, Dirty
  <2> QED BY <2>3, <2>4
<1>3. CASE OnFinishFlush
  <2>1. Quiet("ON")' /\ line' = NoLine /\ ~poweron
    BY <1>3, FlushFacts DEF OnFinishFlush, TargetInv, Quiet, Dirty, State
  <2>2. TypeOK'
    BY <1>3, <2>1, ObserveFacts DEF OnFinishFlush, TypeOK, Quiet, Aff
  <2>3. LockInv' /\ SetInv' /\ TargetInv'
    BY <1>3, <2>1 DEF OnFinishFlush, LockInv, SetInv, TargetInv, Quiet, Dirty
  <2> QED BY <2>2, <2>3
<1> QED BY <1>1, <1>2, <1>3
-----------------------------------------------------------------------------
\* What every step of a caller has in common: the other callers are where they
\* were, and none of them is setting the state while this one has the lock.
LEMMA CallerFacts ==
  ASSUME AffInv, NEW c \in Caller, NEW p, NEW q, CallerStep(c, p, q)
  PROVE  /\ cpc[c] = p /\ cpc'[c] = q /\ \A d \in Caller \ {c} : cpc'[d] = cpc[d]
         /\ UNCHANGED <<coherent, tpc>> /\ Observe
         /\ cpc' = [cpc EXCEPT ![c] = q]
         /\ p \in Locked => \A d \in Caller \ {c} : cpc[d] \notin Locked
  BY DEF AffInv, CallerStep, TypeOK, LockInv

\* AFFINITY_INFO changes no more than the caches do by themselves.
LEMMA InfoStep ==
  ASSUME AffInv, NEW c \in Caller, AffinityInfo(c) \/ AffinityInfoRead(c)
  PROVE  AffInv'
<1> USE DEF AffInv
<1>1. /\ cpc[c] \in {"ns", "info_read"} /\ cpc'[c] \in {"ns", "info_read"}
      /\ \A d \in Caller \ {c} : cpc'[d] = cpc[d] /\ seen'[d] = seen[d]
      /\ cpc' = [cpc EXCEPT ![c] = cpc'[c]]
      /\ UNCHANGED <<tpc, cpu_lock, poweron, coherent>> /\ Observe
      /\ seen' \in [Caller -> Aff]
  BY CallerFacts, LineFacts DEF AffinityInfo, AffinityInfoRead, TypeOK
<1>2. /\ \/ line'.dirty = line.dirty /\ line'.val = Value /\ mem' = mem
         \/ ~line'.dirty /\ line'.val = None /\ mem' = State
      /\ mem' \in Aff /\ line' \in [val : Aff, dirty : BOOLEAN] \cup {NoLine}
  <2>1. CASE AffinityInfo(c)
    BY <2>1, FlushFacts DEF AffinityInfo
  <2>2. CASE AffinityInfoRead(c)
    BY <2>2, FilledFacts, LineFacts DEF AffinityInfoRead
  <2> QED BY <2>1, <2>2
<1>3. TypeOK'
  BY <1>1, <1>2, ObserveFacts DEF TypeOK
<1>4. \A v \in Aff : Quiet(v) => Quiet(v)'
  BY <1>2 DEF Quiet, State, Value
<1>5. \A v, m \in Aff : Dirty(v, m) => Dirty(v, m)' \/ Quiet(v)'
  BY <1>2, CallerAssumption DEF Quiet, Dirty, State, Value
<1>6. LockInv'
  BY <1>1, <1>2 DEF LockInv, Locked, Setting
<1>7. SetInv'
  BY <1>1, <1>4, <1>5 DEF SetInv, Setting, Aff
<1>8. TargetInv'
  <2>1. tpc \in {"off_inv", "off"} =>
          /\ mem' \in {"OFF", "ON_PENDING"}
          /\ line'.dirty \/ line'.val \in {None, mem'} \/ (line'.val = "ON" /\ mem' = "OFF")
    <3>1. CASE line.dirty
      BY <1>2, <3>1 DEF LockInv, SetInv, TargetInv, Quiet, Dirty, State
    <3>2. CASE ~line.dirty
      BY <1>2, <3>2 DEF TargetInv, State, Value
    <3> QED BY <3>1, <3>2
  <2> QED BY <1>1, <1>4, <1>5, <2>1 DEF TargetInv, Aff
<1> QED BY <1>3, <1>6, <1>7, <1>8

\* CPU_ON up to its first read of the state.
LEMMA OnReadStep ==
  ASSUME AffInv, NEW c \in Caller, CpuOn(c) \/ OnFlush(c) \/ OnValidate(c)
  PROVE  AffInv'
<1> USE DEF AffInv
<1>1. CASE CpuOn(c)
  <2>1. /\ cpc[c] = "ns" /\ cpc'[c] = "on_flush" /\ \A d \in Caller \ {c} : cpc'[d] = cpc[d] /\ cpc[d] \notin Locked
        /\ UNCHANGED <<tpc, coherent, mem, line, seen, poweron>> /\ Observe /\ cpu_lock' = c
        /\ cpc' = [cpc EXCEPT ![c] = "on_flush"]
    BY <1>1, CallerFacts, CallerAssumption DEF CpuOn, LockInv
  <2>2. TypeOK'
    BY <2>1, ObserveFacts DEF TypeOK
  <2>3. LockInv' /\ SetInv' /\ TargetInv'
    BY <2>1 DEF LockInv, SetInv, Locked, Setting, TargetInv, Quiet, Dirty
  <2> QED BY <2>2, <2>3
<1>2. CASE OnFlush(c) \/ OnValidate(c)
  <2>1. /\ cpc[c] \in {"on_flush", "on_validate"}
        /\ cpc' = [cpc EXCEPT ![c] = cpc'[c]]
        /\ \A d \in Caller \ {c} : cpc'[d] = cpc[d] /\ cpc[d] \notin Locked
        /\ UNCHANGED <<tpc, coherent, cpu_lock, poweron>> /\ Observe /\ seen' \in [Caller -> Aff]
    <3>1. CASE OnFlush(c)
      BY <3>1, CallerFacts DEF OnFlush, Locked, TypeOK
    <3>2. CASE OnValidate(c)
      BY <3>2, CallerFacts, LineFacts DEF OnValidate, Locked, TypeOK
    <3> QED BY <1>2, <3>1, <3>2
  <2>2. /\ \/ cpc'[c] = "on_validate" /\ ~line'.dirty /\ line'.val = None /\ mem' = State
           \/ /\ cpc'[c] = (IF Value = "OFF" THEN "on_set" ELSE "on_unlock")
              /\ line'.dirty = line.dirty /\ line'.val = Value /\ mem' = mem
        /\ mem' \in Aff /\ line' \in [val : Aff, dirty : BOOLEAN] \cup {NoLine}
    <3>1. CASE OnFlush(c)
      BY <3>1, CallerFacts, FlushFacts DEF OnFlush
    <3>2. CASE OnValidate(c)
      BY <3>2, CallerFacts, FilledFacts, LineFacts DEF OnValidate
    <3> QED BY <1>2, <3>1, <3>2
  <2>3. line.dirty => tpc = "boot_flush"
    BY <2>1 DEF LockInv, Locked, Setting
  <2>4. TypeOK' /\ cpu_lock' = c
    <3>1. cpc'[c] \in {"on_validate", "on_set", "on_unlock"}
      BY <2>2
    <3> QED BY <2>1, <2>2, <3>1, ObserveFacts DEF TypeOK, LockInv, Locked
  <2>5. LockInv'
    BY <2>1, <2>2, <2>3, <2>4 DEF LockInv
  <2>6. \A v \in Aff : Quiet(v) => Quiet(v)'
    BY <2>2 DEF Quiet, State, Value
  <2>7. TargetInv'
    BY <2>1, <2>2, <2>3, <2>6, CallerAssumption DEF TargetInv, Dirty, Quiet, State, Value, Aff
  <2>8. cpc'[c] = "on_set" => Quiet("OFF")' /\ tpc \in {"off_inv", "off"} /\ ~poweron
    BY <2>1, <2>2, <2>3, CallerAssumption DEF TargetInv, TypeOK, Dirty, Quiet, Value, Aff
  <2>9. SetInv'
    BY <2>1, <2>2, <2>8 DEF SetInv, Locked, Setting
  <2> QED BY <2>4, <2>5, <2>7, <2>9
<1> QED BY <1>1, <1>2

\* A step of the CPU_ON that has the lock, once it found the target OFF: the
\* facts of SetInv about it are all there is to show.
LEMMA SetterStep ==
  ASSUME AffInv, TypeOK', NEW c \in Caller, cpc[c] \in Setting,
         NEW q \in Setting \cup {"on_unlock"}, cpc' = [cpc EXCEPT ![c] = q],
         UNCHANGED <<tpc, cpu_lock>>,
         \A d \in Caller \ {c} : cpc[d] \notin Locked,
         q \in Setting => ~poweron',
         poweron' => Quiet("ON_PENDING")',
         q = "on_set" => Quiet("OFF")',
         q = "on_set_flush" => Dirty("ON_PENDING", "OFF")',
         q = "on_check" => Quiet("ON_PENDING")' \/ (tpc = "off" /\ Quiet("OFF")'),
         q = "on_retry" => tpc = "off" /\ Quiet("OFF")' /\ seen'[c] = "OFF",
         q = "on_retry_flush" => tpc = "off" /\ Dirty("ON_PENDING", "OFF")',
         q = "on_recheck" => tpc = "off" /\ Quiet("ON_PENDING")',
         q = "on_platform" => Quiet("ON_PENDING")' /\ seen'[c] = "ON_PENDING",
         q = "on_restore_flush" => Dirty("OFF", "ON_PENDING")',
         q = "on_unlock" => Quiet("OFF")' \/ Quiet("ON_PENDING")'
  PROVE  AffInv'
<1>1. /\ cpc'[c] = q /\ \A d \in Caller \ {c} : cpc'[d] = cpc[d] /\ cpc'[d] \notin Locked
      /\ tpc \in {"off_inv", "off"} /\ cpu_lock' = c
  BY DEF AffInv, TypeOK, SetInv, LockInv, Locked
<1>2. SetInv'
  BY <1>1 DEF SetInv, Setting, Locked
<1>3. LockInv'
  BY <1>1 DEF LockInv, Setting, Locked, Quiet
<1>4. TargetInv'
  BY <1>1 DEF TargetInv, Setting, Quiet, Dirty
<1> QED BY <1>2, <1>3, <1>4 DEF AffInv

\* The update, the retry and what follows.
LEMMA OnSetStep ==
  ASSUME AffInv, NEW c \in Caller, OnSet(c) \/ OnPlatformFails(c)
  PROVE  AffInv'
<1>1. /\ \/ cpc[c] = "on_set" /\ cpc' = [cpc EXCEPT ![c] = "on_set_flush"] /\ CachedWrite("ON_PENDING")
         \/ cpc[c] = "on_retry" /\ cpc' = [cpc EXCEPT ![c] = "on_retry_flush"] /\ CachedWrite("ON_PENDING")
         \/ cpc[c] = "on_platform" /\ cpc' = [cpc EXCEPT ![c] = "on_restore_flush"] /\ CachedWrite("OFF")
      /\ UNCHANGED <<tpc, coherent, cpu_lock, poweron, seen>> /\ Observe
      /\ \A d \in Caller \ {c} : cpc[d] \notin Locked
  BY CallerFacts DEF OnSet, OnPlatformFails, Locked, Setting
<1>2. "ON_PENDING" \in Aff /\ "OFF" \in Aff
  BY DEF Aff
<1>3. /\ line'.dirty /\ mem' = mem /\ line' \in [val : Aff, dirty : BOOLEAN]
      /\ line'.val = IF cpc[c] = "on_platform" THEN "OFF" ELSE "ON_PENDING"
  BY <1>1, <1>2, WriteFacts
<1>4. TypeOK'
  BY <1>1, <1>3, ObserveFacts DEF AffInv, TypeOK
<1>5. cpc[c] \in Setting /\ ~poweron /\ (cpc[c] = "on_retry" => tpc = "off")
      /\ mem = (IF cpc[c] = "on_platform" THEN "ON_PENDING" ELSE "OFF")
  BY <1>1 DEF AffInv, SetInv, Setting, Quiet
<1> QED BY <1>1, <1>3, <1>4, <1>5, SetterStep DEF Setting, Dirty

\* The flushes behind the writes.
LEMMA OnFlushStep ==
  ASSUME AffInv, NEW c \in Caller, OnSetFlush(c) \/ OnRestoreFlush(c)
  PROVE  AffInv'
<1>1. /\ \/ cpc[c] = "on_set_flush" /\ cpc' = [cpc EXCEPT ![c] = "on_check"]
         \/ cpc[c] = "on_retry_flush" /\ cpc' = [cpc EXCEPT ![c] = "on_recheck"]
         \/ cpc[c] = "on_restore_flush" /\ cpc' = [cpc EXCEPT ![c] = "on_unlock"]
      /\ UNCHANGED <<tpc, coherent, cpu_lock, poweron, seen>> /\ Observe /\ Flush
      /\ \A d \in Caller \ {c} : cpc[d] \notin Locked
  BY CallerFacts DEF OnSetFlush, OnRestoreFlush, Locked, Setting
<1>2. line' = NoLine /\ mem' = State /\ mem' \in Aff /\ ~line'.dirty /\ line'.val = None
  BY <1>1, FlushFacts DEF AffInv
<1>3. TypeOK'
  BY <1>1, <1>2, ObserveFacts DEF AffInv, TypeOK
<1>4. cpc[c] \in Setting /\ ~poweron
  BY <1>1 DEF AffInv, SetInv, Setting
<1>5. /\ cpc[c] = "on_set_flush" => Quiet("ON_PENDING")' \/ (tpc = "off" /\ Quiet("OFF")')
      /\ cpc[c] = "on_retry_flush" => tpc = "off" /\ Quiet("ON_PENDING")'
      /\ cpc[c] = "on_restore_flush" => Quiet("OFF")' \/ Quiet("ON_PENDING")'
  BY <1>2 DEF AffInv, SetInv, Quiet, Dirty, State
<1> QED BY <1>1, <1>3, <1>4, <1>5, SetterStep DEF Setting

\* The read behind the update decides on the retry.
LEMMA OnCheckStep ==
  ASSUME AffInv, NEW c \in Caller, OnCheck(c)
  PROVE  AffInv'
<1>1. /\ \/ cpc[c] = "on_check" /\ cpc' = [cpc EXCEPT ![c] = IF Value = "ON_PENDING" THEN "on_platform" ELSE "on_retry"]
         \/ cpc[c] = "on_recheck" /\ cpc' = [cpc EXCEPT ![c] = "on_platform"]
      /\ UNCHANGED <<tpc, coherent, cpu_lock, poweron, mem>> /\ Observe
      /\ line' = Filled /\ seen' = [seen EXCEPT ![c] = Value]
      /\ \A d \in Caller \ {c} : cpc[d] \notin Locked
  BY CallerFacts DEF OnCheck, Locked, Setting
<1>2. /\ line'.val = Value /\ line'.dirty = line.dirty /\ line' \in [val : Aff, dirty : BOOLEAN]
      /\ Value \in Aff /\ seen'[c] = Value
  BY <1>1, FilledFacts, LineFacts DEF AffInv, TypeOK
<1>3. TypeOK'
  BY <1>1, <1>2, ObserveFacts DEF AffInv, TypeOK
<1>4. cpc[c] \in Setting /\ ~poweron
  BY <1>1 DEF AffInv, SetInv, Setting
<1>5. /\ Quiet("ON_PENDING") => Value = "ON_PENDING" /\ Quiet("ON_PENDING")'
      /\ Quiet("OFF") => Value = "OFF" /\ Quiet("OFF")'
  BY <1>1, <1>2 DEF Quiet, Value
<1>6. /\ cpc[c] = "on_check" => Quiet("ON_PENDING") \/ (tpc = "off" /\ Quiet("OFF"))
      /\ cpc[c] = "on_recheck" => Quiet("ON_PENDING")
  BY DEF AffInv, SetInv
<1> QED BY <1>1, <1>2, <1>3, <1>4, <1>5, <1>6, SetterStep DEF Setting

\* The platform is called, and the lock released.
LEMMA OnEndStep ==
  ASSUME AffInv, NEW c \in Caller, OnPlatform(c) \/ OnUnlock(c)
  PROVE  AffInv'
<1>1. CASE OnPlatform(c)
  <2>1. /\ cpc[c] = "on_platform" /\ cpc' = [cpc EXCEPT ![c] = "on_unlock"] /\ poweron' = TRUE
        /\ UNCHANGED <<tpc, coherent, cpu_lock, mem, line, seen>> /\ Observe
        /\ \A d \in Caller \ {c} : cpc[d] \notin Locked
    BY <1>1, CallerFacts DEF OnPlatform, Locked, Setting
  <2>2. TypeOK'
    BY <2>1, ObserveFacts DEF AffInv, TypeOK
  <2>3. Quiet("ON_PENDING")'
    BY <2>1 DEF AffInv, SetInv, Quiet
  <2> QED BY <2>1, <2>2, <2>3, SetterStep DEF Setting
<1>2. CASE OnUnlock(c)
  <2>1. /\ cpc[c] = "on_unlock" /\ cpc'[c] = "ns" /\ cpc' = [cpc EXCEPT ![c] = "ns"]
        /\ UNCHANGED <<tpc, coherent, poweron, mem, line, seen>> /\ cpu_lock' = None /\ Observe
        /\ \A d \in Caller \ {c} : cpc'[d] = cpc[d] /\ cpc[d] \notin Locked
    BY <1>2, CallerFacts DEF OnUnlock, Locked
  <2>2. TypeOK'
    BY <2>1, ObserveFacts DEF AffInv, TypeOK
  <2>3. LockInv' /\ SetInv' /\ TargetInv'
    BY <2>1 DEF AffInv, LockInv, SetInv, Locked, Setting, TargetInv, Quiet, Dirty
  <2> QED BY <2>2, <2>3 DEF AffInv
<1> QED BY <1>1, <1>2
-----------------------------------------------------------------------------
\* The target runs, and nobody calls.
LEMMA AffInit == Init => AffInv /\ ReadInv
<1> SUFFICES ASSUME Init PROVE AffInv /\ ReadInv
  OBVIOUS
<1> USE DEF Init
<1>1. mem = "ON" /\ line = NoLine /\ ~line.dirty /\ line.val = None
  BY DEF NoLine
<1>2. \A c \in Caller : cpc[c] = "ns" /\ during[c] = {}
  OBVIOUS
<1>3. TypeOK
  BY <1>1 DEF TypeOK, Aff
<1>4. LockInv /\ SetInv /\ TargetInv /\ ReadInv
  BY <1>1, <1>2 DEF LockInv, SetInv, TargetInv, ReadInv, Quiet, Locked, Setting
<1> QED BY <1>3, <1>4 DEF AffInv

\* One step per action.
LEMMA AffStep == AffInv /\ [Next]_vars => AffInv'
<1> SUFFICES ASSUME AffInv, [Next]_vars PROVE AffInv'
  OBVIOUS
<1>1. CASE Speculate \/ Evict
  BY <1>1, CacheStep
<1>2. CASE Target
  BY <1>2, OffStep, BootStep DEF Target
<1>3. ASSUME NEW c \in Caller, AffinityInfo(c) \/ CpuOn(c) \/ Handler(c) PROVE AffInv'
  BY <1>3, InfoStep, OnReadStep, OnSetStep, OnFlushStep, OnCheckStep, OnEndStep DEF Handler
<1>4. CASE UNCHANGED vars
  <2>1. TypeOK' /\ LockInv'
    BY <1>4 DEF vars, AffInv, TypeOK, LockInv
  <2>2. SetInv'
    BY <1>4 DEF vars, AffInv, SetInv, Quiet, Dirty
  <2>3. TargetInv'
    BY <1>4 DEF vars, AffInv, TargetInv, Quiet, Dirty
  <2> QED BY <2>1, <2>2, <2>3 DEF AffInv
<1> QED BY <1>1, <1>2, <1>3, <1>4 DEF Next

\* The inductive invariant holds.
LEMMA AffInvariance == Spec => []AffInv
  BY AffInit, AffStep, PTL DEF Spec

\* However many CPUs call CPU_ON while the target goes off, the platform is
\* asked to power it on only when ON_PENDING is in main memory, where the
\* target, which boots with its caches off, reads it.
THEOREM Pending == Spec => []PendingReachesMemory
<1>1. AffInv => PendingReachesMemory
  BY DEF AffInv, LockInv, SetInv, TargetInv, Quiet, PendingReachesMemory, Value
<1> QED BY <1>1, AffInvariance, PTL
-----------------------------------------------------------------------------
\* What a step does to the line and to the history of a caller that is reading.
LEMMA LineStep ==
  ASSUME AffInv, [Next]_vars
  PROVE  \/ line' = line \/ line'.val = None \/ line'.dirty
         \/ line'.val = State /\ ~line.dirty
         \/ line'.val = line.val /\ line'.dirty = line.dirty
<1>1. Flush => line'.val = None
  BY DEF Flush, NoLine
<1>2. \A v \in Aff : CachedWrite(v) => line'.dirty
  BY DEF CachedWrite
<1>3. line' = Filled => line'.val = Value /\ line'.dirty = line.dirty
  BY DEF Filled
<1>4. Value = State \/ Value = line.val
  BY LineFacts, CallerAssumption DEF AffInv, Value, State
<1>5. "ON" \in Aff /\ "OFF" \in Aff /\ "ON_PENDING" \in Aff
  BY DEF Aff
<1>6. CASE Speculate \/ Evict
  <2>1. CASE Speculate
    BY <2>1, LineFacts, CallerAssumption DEF AffInv, Speculate, State
  <2> QED BY <1>1, <1>6, <2>1 DEF Evict
<1>7. CASE Target
  BY <1>1, <1>2, <1>5, <1>7 DEF Target, CpuOff, OffFlush, OffSet, OffInv, PowerUp, OnFinish, OnFinishFlush, NoLine
<1>8. ASSUME NEW c \in Caller, AffinityInfo(c) \/ CpuOn(c) \/ Handler(c)
      PROVE  line' = line \/ line'.val = None \/ line'.dirty \/ line' = Filled
  BY <1>1, <1>2, <1>5, <1>8 DEF AffinityInfo, CpuOn, Handler, AffinityInfoRead, OnFlush, OnValidate, OnSet,
     OnSetFlush, OnCheck, OnPlatform, OnPlatformFails, OnRestoreFlush, OnUnlock
<1>9. CASE UNCHANGED vars
  BY <1>9 DEF vars
<1> QED BY <1>3, <1>4, <1>6, <1>7, <1>8, <1>9 DEF Next

\* Every step adds the state to the history of a caller that is reading.
LEMMA HistoryStep ==
  ASSUME AffInv, [Next]_vars, NEW c \in Caller,
         cpc[c] \in {"info_read", "on_validate"}
  PROVE  UNCHANGED vars \/ during'[c] = during[c] \cup {State}
<1>1. Next => Observe
  BY DEF Next, Speculate, Evict, Target, CpuOff, OffFlush, OffSet, OffInv, PowerUp, OnFinish, OnFinishFlush,
     AffinityInfo, CpuOn, Handler, AffinityInfoRead, OnFlush, OnValidate, OnSet,
     OnSetFlush, OnCheck, OnPlatform, OnPlatformFails, OnRestoreFlush, OnUnlock, CallerStep
<1>2. Observe => during'[c] = during[c] \cup {State}
  BY DEF Observe
<1> QED BY <1>1, <1>2

\* A caller begins to read when it has just flushed the line.
LEMMA ReadBegins ==
  ASSUME AffInv, Next, NEW c \in Caller,
         cpc[c] \notin {"info_read", "on_validate"}, cpc'[c] \in {"info_read", "on_validate"}
  PROVE  line'.val = None
<1>1. cpc' # cpc
  OBVIOUS
<1>2. PICK d \in Caller : AffinityInfo(d) \/ CpuOn(d) \/ Handler(d)
  BY <1>1 DEF Next, Speculate, Evict, Target, CpuOff, OffFlush, OffSet, OffInv, PowerUp, OnFinish, OnFinishFlush
<1>3. \A p, q : CallerStep(d, p, q) => q = cpc'[d] /\ (d # c => cpc'[c] = cpc[c])
  BY DEF CallerStep, AffInv, TypeOK
<1>4. d = c /\ Flush
  BY <1>2, <1>3 DEF AffinityInfo, CpuOn, Handler, AffinityInfoRead, OnFlush, OnValidate, OnSet,
     OnSetFlush, OnCheck, OnPlatform, OnPlatformFails, OnRestoreFlush, OnUnlock
<1> QED BY <1>4 DEF Flush, NoLine

\* ReadInv is inductive, given AffInv.
LEMMA ReadStep == AffInv /\ ReadInv /\ [Next]_vars => ReadInv'
<1> SUFFICES ASSUME AffInv, ReadInv, [Next]_vars, NEW c \in Caller, cpc'[c] \in {"info_read", "on_validate"}
             PROVE  line'.val = None \/ line'.dirty \/ line'.val \in during'[c] \cup {State'}
  BY DEF ReadInv
<1>1. CASE UNCHANGED vars
  BY <1>1 DEF vars, ReadInv, State
<1>2. CASE Next /\ cpc[c] \notin {"info_read", "on_validate"}
  BY <1>2, ReadBegins
<1>3. CASE cpc[c] \in {"info_read", "on_validate"} /\ during'[c] = during[c] \cup {State}
  BY <1>3, LineStep DEF ReadInv
<1> QED BY <1>1, <1>2, <1>3, HistoryStep

\* However many callers there are and whatever the caches do by themselves,
\* AFFINITY_INFO and CPU_ON return or act on a state that the target has had
\* since they flushed their copy of it.
THEOREM Current == Spec => ReadsAreCurrent
<1>1. AffInv /\ ReadInv /\ [Next]_vars =>
        [\A c \in Caller : cpc[c] \in {"info_read", "on_validate"} /\ cpc'[c] # cpc[c] =>
           seen'[c] \in during'[c]]_vars
  <2> SUFFICES ASSUME AffInv, ReadInv, Next, NEW c \in Caller,
                      cpc[c] \in {"info_read", "on_validate"}, cpc'[c] # cpc[c]
               PROVE  seen'[c] \in during'[c]
    BY DEF vars
  <2>1. PICK d \in Caller : AffinityInfo(d) \/ CpuOn(d) \/ Handler(d)
    BY DEF Next, Speculate, Evict, Target, CpuOff, OffFlush, OffSet, OffInv, PowerUp, OnFinish, OnFinishFlush
  <2>2. \A p, q : CallerStep(d, p, q) => p = cpc[d] /\ (d # c => cpc'[c] = cpc[c])
    BY DEF CallerStep, AffInv, TypeOK
  <2>3. d = c /\ seen' = [seen EXCEPT ![c] = Value]
    BY <2>1, <2>2 DEF AffinityInfo, CpuOn, Handler, AffinityInfoRead, OnFlush, OnValidate, OnSet,
       OnSetFlush, OnCheck, OnPlatform, OnPlatformFails, OnRestoreFlush, OnUnlock
  <2>4. seen'[c] = Value
    BY <2>3 DEF AffInv, TypeOK
  <2>5. Value \in during[c] \cup {State}
    BY LineFacts, CallerAssumption DEF AffInv, ReadInv, Value, State
  <2>6. during'[c] = during[c] \cup {State}
    BY HistoryStep DEF vars
  <2> QED BY <2>4, <2>5, <2>6
<1> QED BY <1>1, AffInit, AffStep, ReadStep, PTL DEF Spec, ReadsAreCurrent
=============================================================================
