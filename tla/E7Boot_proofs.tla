--------------------------- MODULE E7Boot_proofs ---------------------------
(***************************************************************************)
(* The safety of the exchange between the boot of SP_MIN and the secure    *)
(* enclave (SE), for every number of tries, every run profile, every       *)
(* counter and all delays, when one wait of READ_DELAY is longer than the  *)
(* SE takes to serve a request.  Nothing is asked of the other two waits:  *)
(* when they are too short the boot fails, and does no harm.               *)
(***************************************************************************)
EXTENDS E7Boot, TLAPS

-----------------------------------------------------------------------------
(* delay_in_us() by itself: accurate for every counter, frequency and delay. *)

Modulus == MAX_REFCLK_COUNT + 1

\* A number below the modulus, modulo it.
LEMMA BelowModulus ==
  ASSUME NEW M \in Nat \ {0}, NEW n \in Nat, n < M
  PROVE  n % M = n /\ n \div M = 0
  OBVIOUS

\* A number between the modulus and twice the modulus, modulo it.
LEMMA AboveModulus ==
  ASSUME NEW M \in Nat \ {0}, NEW n \in Nat, M <= n, n < 2 * M
  PROVE  n % M = n - M /\ n \div M = 1
  OBVIOUS

\* The ticks that one turn of the loop adds: all that passed, or all but one
\* when the counter wrapped.
LEMMA CountOfTicks ==
  ASSUME DelayConstants, NEW c \in 0..MAX_REFCLK_COUNT, NEW t \in MinTick..MaxTick
  PROVE  /\ Wrap(c + t) \in 0..MAX_REFCLK_COUNT
         /\ (c + t) \div Modulus \in {0, 1}
         /\ CountOf(c, Wrap(c + t)) = t - ((c + t) \div Modulus)
<1> DEFINE M == Modulus
<1>1. /\ M \in Nat \ {0} /\ t \in Nat /\ 0 < t /\ t < M /\ c \in Nat /\ c < M
      /\ M = MAX_REFCLK_COUNT + 1 /\ MAX_REFCLK_COUNT \in Nat
  BY DEF DelayConstants, Modulus
<1>2. CASE c + t < M
  <2> HIDE DEF M
  <2>0. c + t \in Nat
    BY <1>1
  <2>1. (c + t) % M = c + t /\ (c + t) \div M = 0
    BY <1>1, <1>2, <2>0, BelowModulus
  <2> QED BY <1>1, <1>2, <2>1 DEF CountOf, Wrap, Modulus, M
<1>3. CASE M <= c + t
  <2>1. (c + t) % M = c + t - M /\ (c + t) \div M = 1
    BY <1>1, <1>3, AboveModulus
  <2>2. (t - 1) % M = t - 1
    BY <1>1, BelowModulus
  <2>3. (MAX_REFCLK_COUNT - c) + (c + t - M) = t - 1
    BY <1>1
  <2> QED BY <1>1, <1>3, <2>1, <2>2, <2>3 DEF CountOf, Wrap, Modulus
<1> QED BY <1>1, <1>2, <1>3

\* The invariant: the last value read is the counter's, and the count is the
\* time that passed less the wraps, at most one turn above the total.
Inv ==
  /\ DelayTypeOK
  /\ delay_pc = "loop" => pre_timestamp = counter
  /\ delay_pc \in {"loop", "done"} => cur_count = elapsed - wraps /\ cur_count <= total_count + MaxTick
  /\ delay_pc = "done" => total_count <= cur_count

\* The invariant holds before the first call.
LEMMA InvInit == DelayConstants /\ DelayInit => Inv
  BY DEF DelayConstants, DelayInit, Inv, DelayTypeOK

\* The call reads the counter and computes the total.
LEMMA StartStep == DelayConstants /\ Inv /\ DelayStart => Inv'
<1> SUFFICES ASSUME DelayConstants, Inv, DelayStart PROVE Inv'
  OBVIOUS
<1>1. \A d \in Delays : TotalCount(d) \in 0..(Word - 1)
  <2> TAKE d \in Delays
  <2> DEFINE p == d * (CntFrq \div MICRO_UNIT)
  <2>1. CntFrq \div MICRO_UNIT \in Nat
    BY DEF DelayConstants
  <2>2. p \in Nat
    BY <2>1 DEF DelayConstants
  <2> HIDE DEF p
  <2>3. p % Word \in 0..(Word - 1)
    BY <2>2 DEF DelayConstants
  <2> QED BY <2>3 DEF TotalCount, p
<1>2. total_count' \in 0..(Word - 1)
  BY <1>1 DEF DelayStart
<1> QED BY <1>2 DEF DelayConstants, Inv, DelayTypeOK, DelayStart

\* A turn of the loop counts the ticks that passed, and the count does not
\* overflow.
LEMMA IterateStep == DelayConstants /\ Inv /\ Iterate => Inv'
<1> SUFFICES ASSUME DelayConstants, Inv, Iterate PROVE Inv'
  OBVIOUS
<1>1. PICK t \in MinTick..MaxTick :
        /\ counter' = Wrap(counter + t)
        /\ cur_count' = Wrap(cur_count + CountOf(pre_timestamp, Wrap(counter + t)))
        /\ pre_timestamp' = Wrap(counter + t)
        /\ elapsed' = elapsed + t
        /\ wraps' = wraps + (counter + t) \div Modulus
  BY DEF Iterate, Modulus
<1> DEFINE w == (counter + t) \div Modulus
<1>2. /\ pre_timestamp = counter /\ counter \in 0..MAX_REFCLK_COUNT
      /\ cur_count \in Nat /\ cur_count < total_count /\ total_count < Word
      /\ cur_count = elapsed - wraps /\ elapsed \in Nat /\ wraps \in Nat /\ total_count \in Nat
      /\ t \in Nat /\ 0 < t /\ t <= MaxTick /\ MaxTick \in Nat
      /\ Word \in Nat /\ Word + MaxTick <= MAX_REFCLK_COUNT /\ MAX_REFCLK_COUNT \in Nat
  BY DEF DelayConstants, Inv, DelayTypeOK, Iterate
<1>3. /\ Wrap(counter + t) \in 0..MAX_REFCLK_COUNT /\ w \in {0, 1}
      /\ CountOf(counter, Wrap(counter + t)) = t - w
  BY <1>2, CountOfTicks
<1> HIDE DEF w
<1>4. Wrap(cur_count + (t - w)) = cur_count + (t - w)
  <2>1. cur_count + (t - w) \in Nat /\ cur_count + (t - w) < MAX_REFCLK_COUNT + 1
    BY <1>2, <1>3
  <2>2. MAX_REFCLK_COUNT + 1 \in Nat \ {0}
    BY <1>2
  <2> QED BY <2>1, <2>2, BelowModulus DEF Wrap
<1>5. cur_count' = cur_count + (t - w) /\ wraps' = wraps + w
  BY <1>1, <1>2, <1>3, <1>4 DEF w
<1>6. /\ cur_count' \in 0..MAX_REFCLK_COUNT /\ cur_count' = elapsed' - wraps'
      /\ cur_count' <= total_count + MaxTick /\ elapsed' \in Nat /\ wraps' \in Nat
  BY <1>1, <1>2, <1>3, <1>5
<1> QED BY <1>1, <1>3, <1>6 DEF Inv, DelayTypeOK, Iterate

\* The return, and what the caller does between two calls.
LEMMA OtherStep ==
  DelayConstants /\ Inv /\ (DelayReturn \/ (\E calls \in BOOLEAN : Proceed(calls)) \/ UNCHANGED delay_vars) => Inv'
<1> SUFFICES ASSUME DelayConstants, Inv,
                    DelayReturn \/ (\E calls \in BOOLEAN : Proceed(calls)) \/ UNCHANGED delay_vars
             PROVE  Inv'
  OBVIOUS
<1>1. CASE DelayReturn
  BY <1>1 DEF DelayConstants, Inv, DelayTypeOK, DelayReturn
<1>2. ASSUME NEW calls \in BOOLEAN, Proceed(calls) PROVE Inv'
  <2>1. delay_pc' \in {"start", "idle"}
    BY <1>2 DEF Proceed
  <2> QED BY <1>2, <2>1 DEF DelayConstants, Inv, DelayTypeOK, Proceed
<1>3. CASE UNCHANGED delay_vars
  BY <1>3 DEF Inv, DelayTypeOK, delay_vars
<1> QED BY <1>1, <1>2, <1>3

\* Every step keeps the invariant.
LEMMA InvStep == DelayConstants /\ Inv /\ [DelayNext]_delay_vars => Inv'
  BY StartStep, IterateStep, OtherStep DEF DelayNext

\* In every run of delay_in_us() the count is the time that passed, less one
\* tick for each wrap of the counter: the adjustment of the loop loses no
\* more.
THEOREM DelayCounts == DelaySpec => []CountFollowsTime
<1>1. Inv => CountFollowsTime
  BY DEF Inv, CountFollowsTime
<1> QED BY <1>1, DelayAssumption, InvInit, InvStep, PTL DEF DelaySpec

\* delay_in_us() never returns early, and late by no more than one turn of
\* its loop and one tick for each wrap.
THEOREM DelayAccurate == DelaySpec => []DelayIsAccurate
<1>1. Inv => DelayIsAccurate
  <2> SUFFICES ASSUME Inv PROVE DelayIsAccurate
    OBVIOUS
  <2> QED BY DelayAssumption DEF DelayConstants, Inv, DelayTypeOK, DelayIsAccurate
<1> QED BY <1>1, DelayAssumption, InvInit, InvStep, PTL DEF DelaySpec

-----------------------------------------------------------------------------
(* The exchange of the boot with the SE.                                    *)

\* The only condition on the waits: the SE serves a request it accepted while
\* the CPU is in delay_in_us(READ_DELAY).
ReadDelaySuffices == Latency < TotalCount(READ_DELAY)

-----------------------------------------------------------------------------
(* The inductive invariant.                                                 *)

Heartbeat == [id |-> "heartbeat", run |-> {}]

\* The SE has done what the request of the cycle asks for, or refused it.
Served == /\ cycle = "key" => key \/ "key" \in refused
          /\ cycle = "get" => payload.run = profile \/ "get" \in refused
          /\ cycle = "set" => UsbPhy \in profile \/ "set" \in refused

BootTypes == /\ pc \in {"sync", "start", "send", "send_ready", "poll", "request",
                        "request_ready", "request_poll", "response", "end", "done", "failed"}
             /\ cycle \in Cycles /\ saved \in SUBSET Bits /\ profile \in SUBSET Bits
             /\ payload \in Payloads
             /\ channel \in BOOLEAN /\ key \in BOOLEAN /\ up \in BOOLEAN

\* What is announced, what is being served and what is in the buffer, at
\* every place of the boot.
Exchange ==
  /\ request # None => up
  /\ pc \in {"sync", "start", "end", "done"} => ~channel /\ request = None
  /\ pc \in {"start", "send", "send_ready", "poll"} => payload = Heartbeat
  /\ pc \in {"send", "send_ready", "poll"} => request \in {None, Heartbeat}
  /\ pc = "request" => ~channel /\ request \in {None, Heartbeat}
  /\ pc = "request_ready" => ~channel /\ request = None /\ payload = RequestOf(cycle)
  /\ pc = "request_poll" => \/ channel /\ request = None /\ payload = RequestOf(cycle)
                            \/ ~channel /\ request = RequestOf(cycle)
                            \/ ~channel /\ request = None /\ Served
  /\ pc = "response" => ~channel /\ (request = RequestOf(cycle) \/ (request = None /\ Served))
  /\ pc = "end" => Served
  /\ pc = "failed" => /\ request \in {None, Heartbeat, RequestOf(cycle)}
                      /\ channel => /\ payload \in {Heartbeat, RequestOf(cycle)}
                                    /\ request \in {None, Heartbeat}

\* What the earlier cycles achieved.
Progress ==
  /\ pc = "end" /\ cycle = "get" => saved = profile \/ "get" \in refused
  /\ pc = "done" => cycle = "set" /\ (UsbPhy \in profile \/ "set" \in refused)
  /\ cycle # "key" => key \/ "key" \in refused
  /\ cycle = "set" => profile \in {saved, saved \cup {UsbPhy}} \/ "get" \in refused

\* While the CPU waits to use the buffer, a request that is still being served
\* has been for as long as the wait.
Timing ==
  /\ age \in 0..Latency
  /\ pc \in {"request", "response"} =>
       /\ delay_pc # "idle"
       /\ delay_pc \in {"loop", "done"} => /\ total_count = TotalCount(READ_DELAY)
                                           /\ request # None => elapsed <= age

BootInv == BootTypes /\ Exchange /\ Progress /\ Timing /\ Inv

-----------------------------------------------------------------------------
(* The constants and the messages.                                          *)

\* What is assumed of the constants.
LEMMA Constants ==
  /\ DelayConstants /\ None \notin Payloads /\ UsbPhy \in Bits /\ Latency \in Nat
  /\ READ_DELAY \in Nat
<1>1. READ_DELAY \in Delays
  BY BootAssumption, Zenon
<1> QED BY <1>1, DelayAssumption, SeAssumption, BootAssumption, Zenon DEF DelayConstants

\* What the messages are that the CPU puts into the buffer.
LEMMA RequestFacts ==
  ASSUME BootTypes
  PROVE  /\ Heartbeat \in Payloads /\ Heartbeat # None /\ Heartbeat.id = "heartbeat"
         /\ RequestOf(cycle) \in Payloads /\ RequestOf(cycle) # None /\ RequestOf(cycle).id = cycle
         /\ cycle = "set" => RequestOf(cycle).run = saved \cup {UsbPhy}
<1> DEFINE Goal == /\ RequestOf(cycle) \in Payloads /\ RequestOf(cycle).id = cycle
                   /\ cycle = "set" => RequestOf(cycle).run = saved \cup {UsbPhy}
<1>1. Heartbeat \in Payloads /\ Heartbeat.id = "heartbeat"
  BY DEF Heartbeat, Payloads, Services
<1>2. CASE cycle = "key"
  <2>1. RequestOf(cycle) = [id |-> "key", run |-> {}]
    BY <1>2 DEF RequestOf
  <2>2. Goal
    BY <1>2, <2>1 DEF Payloads, Services
  <2> QED BY <1>1, <2>2, Constants, Zenon
<1>3. CASE cycle = "get"
  <2>1. RequestOf(cycle) = [id |-> "get", run |-> {}]
    BY <1>3 DEF RequestOf
  <2>2. Goal
    BY <1>3, <2>1 DEF Payloads, Services
  <2> QED BY <1>1, <2>2, Constants, Zenon
<1>4. CASE cycle = "set"
  <2>1. RequestOf(cycle) = [id |-> "set", run |-> saved \cup {UsbPhy}]
    BY <1>4 DEF RequestOf
  <2>2. saved \cup {UsbPhy} \in SUBSET Bits
    BY Constants DEF BootTypes
  <2>3. Goal
    BY <1>4, <2>1, <2>2 DEF Payloads, Services
  <2> QED BY <1>1, <2>3, Constants, Zenon
<1> QED BY <1>2, <1>3, <1>4, Zenon DEF BootTypes, Cycles

\* The buffer holds a run profile.
LEMMA PayloadRun == ASSUME BootTypes PROVE payload.run \in SUBSET Bits
  BY DEF BootTypes, Payloads

\* A request is no longer being served when delay_in_us(READ_DELAY) returned.
LEMMA ReadIsOver ==
  ASSUME ReadDelaySuffices, BootInv, pc \in {"request", "response"}, delay_pc \in {"idle", "done"}
  PROVE  request = None
<1> SUFFICES ASSUME request # None PROVE FALSE
  BY Zenon
<1>1. /\ total_count = TotalCount(READ_DELAY) /\ elapsed <= age
      /\ age \in 0..Latency /\ delay_pc = "done"
  BY Zenon DEF BootInv, Timing
<1>2. cur_count = elapsed - wraps /\ total_count <= cur_count
  BY <1>1, Zenon DEF BootInv, Inv
<1>3. elapsed \in Nat /\ wraps \in Nat /\ total_count \in 0..(Word - 1)
  BY Zenon DEF BootInv, Inv, DelayTypeOK
<1>4. Latency \in Nat /\ Word \in Nat
  BY Constants, Zenon DEF DelayConstants
<1> QED BY <1>1, <1>2, <1>3, <1>4 DEF ReadDelaySuffices

-----------------------------------------------------------------------------
(* The steps of the CPU.                                                    *)

\* The CPU is in a wait before it looks at a response or replaces one.
LEMMA CpuTiming ==
  ASSUME BootInv, Cpu
  PROVE  Timing' /\ Inv'
<1>1. age' = age /\ Proceed(DelayBefore(pc', cycle') >= 0)
  BY Zenon DEF Cpu
<1>2. Inv'
  <2>1. (DelayBefore(pc', cycle') >= 0) \in BOOLEAN
    OBVIOUS
  <2>2. \E calls \in BOOLEAN : Proceed(calls)
    BY <1>1, <2>1, Zenon
  <2> QED BY <2>2, Constants, OtherStep, Zenon DEF BootInv
<1>3. delay_pc' = IF DelayBefore(pc', cycle') >= 0 THEN "start" ELSE "idle"
  BY <1>1, Zenon DEF Proceed
<1>4. ASSUME pc' \in {"request", "response"} PROVE delay_pc' = "start"
  <2>1. DelayBefore(pc', cycle') = READ_DELAY
    BY <1>4 DEF DelayBefore
  <2> QED BY <1>3, <2>1, Constants
<1>5. Timing'
  BY <1>1, <1>4, Zenon DEF BootInv, Timing
<1> QED BY <1>2, <1>5, Zenon

\* Every step of the CPU keeps what is announced, served and in the buffer in
\* order, and finds the buffer free when it replaces a message.
LEMMA CpuStep ==
  ASSUME ReadDelaySuffices, BootInv, Cpu
  PROVE  /\ BootInv'
         /\ profile' = profile /\ request' = request
         /\ payload' # payload => ~channel /\ request = None
<1> USE DEF BootInv
<1>a. Timing' /\ Inv'
  BY CpuTiming, Zenon
<1>b. delay_pc \in {"idle", "done"} /\ CpuNext
  BY Zenon DEF Cpu, Proceed
<1>c. request' = request /\ up' = up /\ profile' = profile /\ key' = key /\ refused' = refused
  BY <1>b, Zenon DEF CpuNext, Sync, mhu_secure_message_start, SyncSend, SyncSent, SyncPoll, SendRequest,
                     RequestSent, RequestPoll, Response, mhu_secure_message_end, se
<1>1. CASE Sync
  <2>1. /\ pc = "sync" /\ payload' = Heartbeat /\ pc' = "start"
        /\ cycle' = cycle /\ saved' = saved /\ channel' = channel
    BY <1>1, Zenon DEF Sync, Heartbeat
  <2>2. BootTypes'
    BY <1>c, <2>1, RequestFacts, Zenon DEF BootTypes
  <2>3. Exchange'
    BY <1>c, <2>1, Zenon DEF Exchange
  <2>4. Progress'
    BY <1>c, <2>1, Zenon DEF Progress
  <2> QED BY <1>a, <1>c, <2>1, <2>2, <2>3, <2>4, Zenon DEF Exchange
<1>2. CASE mhu_secure_message_start
  <2>1. /\ pc = "start" /\ payload' = payload /\ pc' = "send"
        /\ cycle' = cycle /\ saved' = saved /\ channel' = channel
    BY <1>2, Zenon DEF mhu_secure_message_start
  <2>2. BootTypes'
    BY <1>c, <2>1, Zenon DEF BootTypes
  <2>3. Exchange'
    BY <1>c, <2>1, Zenon DEF Exchange
  <2>4. Progress'
    BY <1>c, <2>1, Zenon DEF Progress
  <2> QED BY <1>a, <1>c, <2>1, <2>2, <2>3, <2>4, Zenon
<1>3. CASE SyncSend
  <2>1. /\ pc = "send" /\ payload' = payload /\ cycle' = cycle /\ saved' = saved
        /\ pc' \in {"failed", "send_ready"} /\ channel' = channel
    BY <1>3, Zenon DEF SyncSend, SyncFails
  <2>2. BootTypes'
    BY <1>c, <2>1, Zenon DEF BootTypes
  <2>3. Exchange'
    BY <1>c, <2>1, Zenon DEF Exchange
  <2>4. Progress'
    BY <1>c, <2>1, Zenon DEF Progress
  <2> QED BY <1>a, <1>c, <2>1, <2>2, <2>3, <2>4, Zenon
<1>4. CASE SyncSent
  <2>1. /\ pc = "send_ready" /\ payload' = payload /\ cycle' = cycle /\ saved' = saved
        /\ pc' = "poll" /\ channel' = TRUE
    BY <1>4, Zenon DEF SyncSent
  <2>2. BootTypes'
    BY <1>c, <2>1, Zenon DEF BootTypes
  <2>3. Exchange'
    BY <1>c, <2>1, Zenon DEF Exchange
  <2>4. Progress'
    BY <1>c, <2>1, Zenon DEF Progress
  <2> QED BY <1>a, <1>c, <2>1, <2>2, <2>3, <2>4, Zenon
<1>5. CASE SyncPoll
  <2>1. /\ pc = "poll" /\ payload' = payload /\ cycle' = cycle /\ saved' = saved
        /\ channel' = channel
        /\ pc' \in {"send", "failed"} \/ (pc' = "request" /\ ~channel)
    BY <1>5, Zenon DEF SyncPoll, SyncFails
  <2>2. BootTypes'
    BY <1>c, <2>1, Zenon DEF BootTypes
  <2>3. Exchange'
    BY <1>c, <2>1, Zenon DEF Exchange
  <2>4. Progress'
    BY <1>c, <2>1, Zenon DEF Progress
  <2> QED BY <1>a, <1>c, <2>1, <2>2, <2>3, <2>4, Zenon
<1>6. CASE SendRequest
  <2>1. /\ pc = "request" /\ payload' = RequestOf(cycle) /\ pc' = "request_ready"
        /\ cycle' = cycle /\ saved' = saved /\ channel' = channel
    BY <1>6, Zenon DEF SendRequest
  <2>2. request = None /\ ~channel
    BY <1>b, <2>1, ReadIsOver, Zenon DEF Exchange
  <2>3. RequestOf(cycle)' = RequestOf(cycle)
    BY <2>1, Zenon DEF RequestOf
  <2>4. BootTypes'
    BY <1>c, <2>1, RequestFacts, Zenon DEF BootTypes
  <2>5. Exchange'
    BY <1>c, <2>1, <2>2, <2>3, Zenon DEF Exchange
  <2>6. Progress'
    BY <1>c, <2>1, Zenon DEF Progress
  <2> QED BY <1>a, <1>c, <2>2, <2>4, <2>5, <2>6, Zenon
<1>7. CASE RequestSent
  <2>1. /\ pc = "request_ready" /\ payload' = payload /\ pc' = "request_poll"
        /\ cycle' = cycle /\ saved' = saved /\ channel' = TRUE
    BY <1>7, Zenon DEF RequestSent
  <2>2. RequestOf(cycle)' = RequestOf(cycle)
    BY <2>1, Zenon DEF RequestOf
  <2>3. BootTypes'
    BY <1>c, <2>1, Zenon DEF BootTypes
  <2>4. Exchange'
    BY <1>c, <2>1, <2>2, Zenon DEF Exchange
  <2>5. Progress'
    BY <1>c, <2>1, Zenon DEF Progress
  <2> QED BY <1>a, <1>c, <2>1, <2>3, <2>4, <2>5, Zenon
<1>8. CASE RequestPoll
  <2>1. /\ pc = "request_poll" /\ payload' = payload /\ cycle' = cycle /\ saved' = saved
        /\ channel' = channel
        /\ pc' = "failed" \/ (pc' = "response" /\ ~channel)
    BY <1>8, Zenon DEF RequestPoll, SyncFails
  <2>2. RequestOf(cycle)' = RequestOf(cycle)
    BY <2>1, Zenon DEF RequestOf
  <2>3. BootTypes'
    BY <1>c, <2>1, Zenon DEF BootTypes
  <2>4. Exchange'
    BY <1>c, <2>1, <2>2, Zenon DEF Exchange, Served
  <2>5. Progress'
    BY <1>c, <2>1, Zenon DEF Progress
  <2> QED BY <1>a, <1>c, <2>1, <2>3, <2>4, <2>5, Zenon
<1>9. CASE Response
  <2>1. /\ pc = "response" /\ payload' = payload /\ pc' = "end" /\ cycle' = cycle
        /\ channel' = channel /\ saved' = IF cycle = "get" THEN payload.run ELSE saved
    BY <1>9, Zenon DEF Response
  <2>2. request = None /\ ~channel
    BY <1>b, <2>1, ReadIsOver, Zenon DEF Exchange
  <2>3. Served
    BY <2>1, <2>2, RequestFacts, Zenon DEF Exchange
  <2>4. cycle = "get" => saved' = profile \/ "get" \in refused
    BY <2>1, <2>3, Zenon DEF Served
  <2>5. BootTypes'
    BY <1>c, <2>1, PayloadRun, Zenon DEF BootTypes
  <2>6. Exchange'
    BY <1>c, <2>1, <2>2, <2>3, Zenon DEF Exchange, Served
  <2>7. Progress'
    BY <1>c, <2>1, <2>4, Zenon DEF Progress
  <2> QED BY <1>a, <1>c, <2>1, <2>5, <2>6, <2>7, Zenon
<1>10. CASE mhu_secure_message_end
  <2>1. /\ pc = "end" /\ payload' = payload /\ channel' = channel /\ saved' = saved
        /\ \/ cycle = "key" /\ cycle' = "get" /\ pc' = "sync"
           \/ cycle = "get" /\ cycle' = "set" /\ pc' = "sync"
           \/ cycle = "set" /\ cycle' = "set" /\ pc' = "done"
    BY <1>10 DEF mhu_secure_message_end, BootTypes, Cycles
  <2>2. BootTypes'
    BY <1>c, <2>1, Zenon DEF BootTypes, Cycles
  <2>3. Exchange'
    BY <1>c, <2>1, Zenon DEF Exchange
  <2>4. Progress'
    BY <1>c, <2>1, Zenon DEF Progress, Exchange, Served
  <2> QED BY <1>a, <1>c, <2>1, <2>2, <2>3, <2>4, Zenon
<1> QED BY <1>b, <1>1, <1>2, <1>3, <1>4, <1>5, <1>6, <1>7, <1>8, <1>9, <1>10, Zenon DEF CpuNext

-----------------------------------------------------------------------------
(* The steps of the SE.                                                     *)

\* A step of the SE starts the time anew in which it has to do the next.
LEMMA SeTiming ==
  ASSUME BootInv, Se, request' # None => ~(pc \in {"request", "response"})
  PROVE  Timing' /\ Inv'
<1>1. age' = 0 /\ UNCHANGED delay_vars /\ pc' = pc
  BY Zenon DEF Se, SeNext, SeStarts, SeStops, SeAccepts, SeResponds, SeRefuses, cpu
<1>2. Inv'
  BY <1>1, Constants, OtherStep, Zenon DEF BootInv
<1>3. 0 \in 0..Latency
  BY Constants
<1>4. Timing'
  BY <1>1, <1>3, Zenon DEF BootInv, Timing, delay_vars
<1> QED BY <1>2, <1>4, Zenon

\* The SE serves one request at a time, the one that the CPU waits for, and
\* changes the run profile only as the set cycle asks.
LEMMA SeStep ==
  ASSUME BootInv, Se
  PROVE  /\ BootInv'
         /\ profile' \in {profile, profile \cup {UsbPhy}} \/ "get" \in refused
         /\ payload' # payload => request' # request
<1> USE DEF BootInv
<1>a. UNCHANGED cpu /\ SeNext
  BY Zenon DEF Se, SeNext, SeStarts, SeStops, SeAccepts, SeResponds, SeRefuses
<1>b. pc' = pc /\ cycle' = cycle /\ saved' = saved
  BY <1>a, Zenon DEF cpu
<1>c. RequestOf(cycle)' = RequestOf(cycle)
  BY <1>b, Zenon DEF RequestOf
<1>1. CASE SeStarts \/ SeStops
  <2>1. /\ channel' = channel /\ payload' = payload /\ request' = request
        /\ profile' = profile /\ key' = key /\ refused' = refused /\ request = None /\ up' \in BOOLEAN
    BY <1>1, Zenon DEF SeStarts, SeStops, Exchange
  <2>2. Timing' /\ Inv'
    BY <2>1, SeTiming, Zenon
  <2>3. BootTypes' /\ Progress'
    BY <1>b, <2>1, Zenon DEF BootTypes, Progress
  <2>4. Exchange'
    BY <1>b, <1>c, <2>1, Zenon DEF Exchange, Served
  <2> QED BY <2>1, <2>2, <2>3, <2>4, Zenon
<1>2. CASE SeAccepts
  <2>1. /\ up /\ channel /\ request = None /\ channel' = FALSE /\ request' = payload
        /\ payload' = payload /\ up' = up /\ profile' = profile /\ key' = key /\ refused' = refused
    BY <1>2, Zenon DEF SeAccepts
  <2>2. Timing' /\ Inv'
    BY <2>1, SeTiming, Zenon DEF Exchange
  <2>3. BootTypes' /\ Progress'
    BY <1>b, <2>1, Zenon DEF BootTypes, Progress
  <2>4. Exchange'
    BY <1>b, <1>c, <2>1, RequestFacts, Zenon DEF Exchange
  <2> QED BY <2>1, <2>2, <2>3, <2>4, Zenon
<1>3. CASE SeResponds
  <2>1. /\ request # None /\ request' = None /\ channel' = channel /\ up' = up /\ refused' = refused
        /\ profile' = IF request.id = "set" THEN request.run ELSE profile
        /\ key' = (key \/ request.id = "key")
        /\ payload' = IF request.id = "get" THEN [payload EXCEPT !.run = profile] ELSE payload
    BY <1>3, Zenon DEF SeResponds
  <2>2. Timing' /\ Inv'
    BY <2>1, SeTiming, Zenon
  <2>3. request \in {Heartbeat, RequestOf(cycle)}
    <3>1. pc \in {"send", "send_ready", "poll", "request", "request_poll", "response", "failed"}
      BY <2>1, Zenon DEF Exchange, BootTypes
    <3> QED BY <2>1, <3>1, Zenon DEF Exchange
  <2>4. CASE request = Heartbeat
    <3>1. profile' = profile /\ key' = key /\ payload' = payload
      BY <2>1, <2>4, RequestFacts, Zenon DEF BootTypes
    <3>2. BootTypes' /\ Progress'
      BY <1>b, <2>1, <3>1, Zenon DEF BootTypes, Progress
    <3>3. pc \in {"send", "send_ready", "poll", "request", "failed"} \/ request = RequestOf(cycle)
      BY <2>1, Zenon DEF Exchange, BootTypes
    <3>4. request # RequestOf(cycle)
      BY <2>4, RequestFacts, Zenon DEF BootTypes, Cycles
    <3>5. Exchange'
      BY <1>b, <1>c, <2>1, <3>1, <3>3, <3>4, Zenon DEF Exchange
    <3> QED BY <2>1, <2>2, <3>1, <3>2, <3>5, Zenon
  <2>5. CASE request = RequestOf(cycle)
    <3>1. request.id = cycle /\ request # Heartbeat /\ (cycle = "set" => request.run = saved \cup {UsbPhy})
      BY <2>5, RequestFacts, Zenon DEF BootTypes, Cycles
    <3>2. pc \in {"request_poll", "response", "failed"} /\ ~channel
      BY <2>1, <3>1, Zenon DEF Exchange, BootTypes
    <3>3. cycle = "get" => payload' = [payload EXCEPT !.run = profile]
      BY <2>1, <3>1, Zenon
    <3>4. cycle = "get" => payload'.run = profile /\ payload' \in Payloads
      BY <3>3 DEF BootTypes, Payloads
    <3>5. cycle # "get" => payload' = payload
      BY <2>1, <3>1, Zenon
    <3>6. cycle # "set" => profile' = profile
      BY <2>1, <3>1, Zenon
    <3>7. cycle = "set" => profile' = saved \cup {UsbPhy}
      BY <2>1, <3>1, Zenon
    <3>8. key' \in BOOLEAN /\ (key => key') /\ (cycle = "key" => key')
      BY <2>1, <3>1, Zenon DEF BootTypes
    <3>9. cycle = "set" => /\ profile' \in {profile, profile \cup {UsbPhy}} \/ "get" \in refused
                           /\ profile' \in SUBSET Bits /\ UsbPhy \in profile'
      BY <3>7, Constants DEF Progress, BootTypes
    <3>10. Served'
      BY <1>b, <2>1, <3>4, <3>6, <3>8, <3>9, Zenon DEF Served
    <3>11. BootTypes'
      BY <1>b, <2>1, <3>4, <3>5, <3>6, <3>8, <3>9, Zenon DEF BootTypes
    <3>12. Exchange'
      BY <1>b, <2>1, <3>2, <3>10, Zenon DEF Exchange
    <3>13. Progress'
      BY <1>b, <2>1, <3>2, <3>7, <3>8, Zenon DEF Progress
    <3> QED BY <2>1, <2>2, <3>6, <3>9, <3>11, <3>12, <3>13, Zenon DEF BootTypes
  <2> QED BY <2>3, <2>4, <2>5, Zenon
<1>4. CASE SeRefuses
  <2>1. /\ request # None /\ request' = None /\ channel' = channel /\ up' = up
        /\ profile' = profile /\ key' = key /\ refused' = refused \cup {request.id} /\ request.id \in Cycles
    BY <1>4, Zenon DEF SeRefuses
  <2>2. Timing' /\ Inv'
    BY <2>1, SeTiming, Zenon
  <2>3. request \in {Heartbeat, RequestOf(cycle)}
    <3>1. pc \in {"send", "send_ready", "poll", "request", "request_poll", "response", "failed"}
      BY <2>1, Zenon DEF Exchange, BootTypes
    <3> QED BY <2>1, <3>1, Zenon DEF Exchange
  <2>4. request = RequestOf(cycle) /\ request # Heartbeat /\ request.id = cycle
    BY <2>1, <2>3, RequestFacts, Zenon DEF BootTypes, Cycles
  <2>5. pc \in {"request_poll", "response", "failed"} /\ ~channel
    BY <2>1, <2>4, Zenon DEF Exchange, BootTypes
  <2>6. payload' \in Payloads
    <3>1. PICK x \in SUBSET Bits :
            payload' = IF request.id = "get" THEN [payload EXCEPT !.run = x] ELSE payload
      BY <1>4, Zenon DEF SeRefuses
    <3> QED BY <3>1 DEF BootTypes, Payloads
  <2>7. Served' /\ Progress'
    BY <1>b, <2>1, <2>4, <2>5, Zenon DEF Served, Progress
  <2>8. BootTypes'
    BY <1>b, <2>1, <2>6, Zenon DEF BootTypes
  <2>9. Exchange'
    BY <1>b, <2>1, <2>5, <2>7, Zenon DEF Exchange
  <2> QED BY <2>1, <2>2, <2>7, <2>8, <2>9, Zenon
<1> QED BY <1>a, <1>1, <1>2, <1>3, <1>4, Zenon DEF SeNext

-----------------------------------------------------------------------------
(* The waits.                                                               *)

\* What does not depend on the delay is not changed by a wait.
LEMMA WaitKeeps ==
  ASSUME BootInv,
         pc' = pc, cycle' = cycle, saved' = saved, channel' = channel, payload' = payload,
         request' = request, up' = up, profile' = profile, key' = key, refused' = refused
  PROVE  BootTypes' /\ Exchange' /\ Progress'
<1>1. RequestOf(cycle)' = RequestOf(cycle)
  BY Zenon DEF RequestOf
<1>2. BootTypes' /\ Progress'
  BY Zenon DEF BootInv, BootTypes, Progress
<1>3. Exchange'
  BY <1>1, Zenon DEF BootInv, Exchange, Served
<1> QED BY <1>2, <1>3, Zenon

\* A wait begins, goes on and ends; while the SE has a request to serve, the
\* time it has had grows with the wait.
LEMMA WaitStep ==
  ASSUME BootInv, WaitStarts \/ Tick \/ WaitEnds
  PROVE  BootInv' /\ UNCHANGED vars
<1> USE DEF BootInv
<1>1. UNCHANGED vars
  BY Zenon DEF WaitStarts, Tick, WaitEnds
<1>2. BootTypes' /\ Exchange' /\ Progress'
  BY <1>1, WaitKeeps, Zenon DEF vars, cpu, se
<1>3. pc' = pc /\ request' = request /\ cycle' = cycle
  BY <1>1, Zenon DEF vars, cpu, se
<1>4. CASE WaitStarts
  <2>1. Inv'
    BY <1>4, Constants, StartStep, Zenon DEF WaitStarts
  <2>2. /\ elapsed' = 0 /\ age' = age /\ delay_pc' = "loop"
        /\ total_count' = TotalCount(DelayBefore(pc, cycle))
    BY <1>4, Zenon DEF WaitStarts, DelayStart
  <2>3. pc \in {"request", "response"} => DelayBefore(pc, cycle) = READ_DELAY
    BY DEF DelayBefore
  <2>4. age \in 0..Latency
    BY Zenon DEF Timing
  <2>5. elapsed' <= age'
    BY <2>2, <2>4
  <2>6. Timing'
    BY <1>3, <2>2, <2>3, <2>4, <2>5, Zenon DEF Timing
  <2> QED BY <1>1, <1>2, <2>1, <2>6, Zenon
<1>5. CASE Tick
  <2>1. Inv'
    BY <1>5, Constants, IterateStep, Zenon DEF Tick
  <2>2. /\ delay_pc = "loop" /\ delay_pc' = delay_pc /\ total_count' = total_count
        /\ IF Busy THEN age' = age + (elapsed' - elapsed) /\ age' <= Latency ELSE age' = 0
    BY <1>5, Zenon DEF Tick, Iterate
  <2>3. elapsed \in Nat /\ elapsed' \in Nat /\ age \in 0..Latency
    BY <2>1, Zenon DEF Inv, DelayTypeOK, Timing
  <2>4. elapsed <= elapsed'
    <3>1. PICK t \in MinTick..MaxTick : elapsed' = elapsed + t
      BY <1>5, Zenon DEF Tick, Iterate
    <3>2. MinTick \in Nat /\ MaxTick \in Nat
      BY Constants, Zenon DEF DelayConstants
    <3> QED BY <2>3, <3>1, <3>2
  <2>5. age' \in 0..Latency
    BY <2>2, <2>3, <2>4, Constants
  <2>6. ASSUME Busy, elapsed <= age PROVE elapsed' <= age'
    <3>1. age' = age + (elapsed' - elapsed)
      BY <2>2, <2>6, Zenon
    <3>2. age \in Int /\ elapsed \in Int /\ elapsed' \in Int
      BY <2>3, Constants
    <3>3. \A a, e, f \in Int : e <= a => f <= a + (f - e)
      OBVIOUS
    <3> QED BY <2>6, <3>1, <3>2, <3>3, Zenon
  <2>7. Timing'
    BY <1>3, <2>2, <2>5, <2>6, Zenon DEF Timing, Busy
  <2> QED BY <1>1, <1>2, <2>1, <2>7, Zenon
<1>6. CASE WaitEnds
  <2>1. Inv'
    BY <1>6, Constants, OtherStep, Zenon DEF WaitEnds
  <2>2. /\ elapsed' = elapsed /\ age' = age /\ delay_pc = "loop" /\ delay_pc' = "done"
        /\ total_count' = total_count
    BY <1>6, Zenon DEF WaitEnds, DelayReturn
  <2>3. Timing'
    BY <1>3, <2>2, Zenon DEF Timing
  <2> QED BY <1>1, <1>2, <2>1, <2>3, Zenon
<1> QED BY <1>4, <1>5, <1>6, Zenon

-----------------------------------------------------------------------------
(* The theorems.                                                            *)

\* The boot starts with an empty buffer and nothing announced.
LEMMA BootStarts == BootInit => BootInv
<1> SUFFICES ASSUME BootInit PROVE BootInv
  BY Zenon
<1>1. Inv
  BY Constants, InvInit, Zenon DEF BootInit
<1>2. [id |-> None, run |-> {}] \in Payloads
  BY DEF Payloads
<1>3. BootTypes
  BY <1>2, Zenon DEF BootInit, Init, BootTypes, Cycles
<1>4. Exchange /\ Progress
  BY Zenon DEF BootInit, Init, Exchange, Progress
<1>5. 0 \in 0..Latency
  BY Constants
<1>6. Timing
  BY <1>5, Zenon DEF BootInit, Init, Timing
<1> QED BY <1>1, <1>3, <1>4, <1>6, Zenon DEF BootInv

\* A step of the boot, of any kind, keeps the invariant, adds at most the USB
\* PHY to the profile, and writes into the buffer only when it is free or to
\* respond.
LEMMA BootStep ==
  ASSUME ReadDelaySuffices, BootInv, [Next]_boot_vars
  PROVE  /\ BootInv'
         /\ profile' \in {profile, profile \cup {UsbPhy}} \/ "get" \in refused
         /\ payload' # payload /\ request' = request => ~channel /\ request = None
<1>1. CASE Cpu
  BY <1>1, CpuStep, Zenon
<1>2. CASE Se
  BY <1>2, SeStep, Zenon
<1>3. CASE WaitStarts \/ Tick \/ WaitEnds
  <2>1. BootInv' /\ UNCHANGED vars
    BY <1>3, WaitStep, Zenon
  <2> QED BY <2>1, Zenon DEF vars, se
<1>4. CASE UNCHANGED boot_vars
  <2>1. UNCHANGED vars /\ UNCHANGED delay_vars /\ age' = age
    BY <1>4, Zenon DEF boot_vars
  <2>2. BootTypes' /\ Exchange' /\ Progress'
    BY <2>1, WaitKeeps, Zenon DEF vars, cpu, se
  <2>3. Inv'
    BY <2>1, Constants, OtherStep, Zenon DEF BootInv
  <2>4. Timing'
    BY <2>1, Zenon DEF BootInv, Timing, delay_vars, vars, cpu, se
  <2> QED BY <2>1, <2>2, <2>3, <2>4, Zenon DEF BootInv, vars, se
<1>5. CASE Mhu
  <2>1. /\ pc' = pc /\ cycle' = cycle /\ saved' = saved /\ channel' = channel /\ payload' = payload
        /\ request' = request /\ up' = up /\ profile' = profile /\ key' = key /\ refused' = refused
        /\ UNCHANGED delay_vars /\ age' = age
    BY <1>5, Zenon DEF Mhu, MhuReady, cpu, se
  <2>2. BootTypes' /\ Exchange' /\ Progress'
    BY <2>1, WaitKeeps, Zenon
  <2>3. Inv'
    BY <2>1, Constants, OtherStep, Zenon DEF BootInv
  <2>4. Timing'
    BY <2>1, Zenon DEF BootInv, Timing, delay_vars
  <2> QED BY <2>1, <2>2, <2>3, <2>4, Zenon DEF BootInv
<1> QED BY <1>1, <1>2, <1>3, <1>4, <1>5, Zenon DEF Next

\* What is announced, served and in the buffer at each place of the boot, for
\* any SE that serves a request within delay_in_us(READ_DELAY).
THEOREM BootInvariant == ReadDelaySuffices => (Spec => []BootInv)
<1> SUFFICES ASSUME ReadDelaySuffices PROVE Spec => []BootInv
  OBVIOUS
<1>1. BootInv /\ [Next]_boot_vars => BootInv'
  BY BootStep, Zenon
<1> QED BY <1>1, BootStarts, PTL DEF Spec

\* A boot that got through its three cycles has an answer to each of its
\* requests: the AES key is written and the USB PHY enabled, or the SE
\* answered with an error, which services.c does not look at.
THEOREM BootServed == ReadDelaySuffices => (Spec => []DoneMeansServed)
<1> SUFFICES ASSUME ReadDelaySuffices PROVE Spec => []DoneMeansServed
  OBVIOUS
<1>1. BootInv => DoneMeansServed
  BY Zenon DEF BootInv, Progress, DoneMeansServed
<1> QED BY <1>1, BootInvariant, PTL

\* service_enable_usb_phy() adds the USB PHY to the run profile that is in
\* force and changes nothing else in it, unless the SE refused to give the
\* profile.
THEOREM ProfileGrows == ReadDelaySuffices => (Spec => ProfileOnlyGrows)
<1> SUFFICES ASSUME ReadDelaySuffices PROVE Spec => ProfileOnlyGrows
  OBVIOUS
<1>1. BootInv /\ [Next]_boot_vars => [profile' \in {profile, profile \cup {UsbPhy}} \/ "get" \in refused]_vars
  BY BootStep, Zenon
<1> QED BY <1>1, BootInvariant, PTL DEF Spec, ProfileOnlyGrows

\* The CPU never writes into the buffer while a message in it is announced or
\* being served.
THEOREM PayloadIsStable == ReadDelaySuffices => (Spec => PayloadStable)
<1> SUFFICES ASSUME ReadDelaySuffices PROVE Spec => PayloadStable
  OBVIOUS
<1>1. BootInv /\ [Next]_boot_vars
        => [payload' # payload /\ request' = request => ~channel /\ request = None]_vars
  BY BootStep, Zenon
<1> QED BY <1>1, BootInvariant, PTL DEF Spec, PayloadStable

\* The waits between the messages are those of delay_in_us(): none returns
\* early, whatever the SE does meanwhile and however long it takes.
THEOREM BootWaits == Spec => []DelayIsAccurate
<1>1. BootInit => DelayInit
  BY Zenon DEF BootInit
<1>2. [Next]_boot_vars => [DelayNext]_delay_vars
  <2> SUFFICES ASSUME [Next]_boot_vars PROVE [DelayNext]_delay_vars
    BY Zenon
  <2>1. CASE Cpu
    <3>1. (DelayBefore(pc', cycle') >= 0) \in BOOLEAN
      OBVIOUS
    <3> QED BY <2>1, <3>1, Zenon DEF Cpu, DelayNext
  <2>2. CASE WaitStarts \/ Tick \/ WaitEnds \/ Se \/ Mhu
    BY <2>2, Zenon DEF WaitStarts, Tick, WaitEnds, Se, Mhu, DelayNext
  <2>3. CASE UNCHANGED boot_vars
    BY <2>3, Zenon DEF boot_vars
  <2> QED BY <2>1, <2>2, <2>3, Zenon DEF Next
<1> QED BY <1>1, <1>2, DelayAccurate, PTL DEF Spec, DelaySpec
=============================================================================
