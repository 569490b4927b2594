------------------------------ MODULE DelayUs ------------------------------
(***************************************************************************)
(* plat/arm/board/devkit_e7/devkit_e7_plat.c: delay_in_us(), the busy wait *)
(* on the free-running system counter.                                     *)
(*                                                                         *)
(* The counter has MAX_REFCLK_COUNT + 1 values; between two reads it       *)
(* advances by MinTick to MaxTick ticks.  A read over the bus takes at     *)
(* least one tick, and the counter is wider than a delay is long.          *)
(***************************************************************************)
EXTENDS Integers

CONSTANTS MAX_REFCLK_COUNT,  \* the last value of the counter
          MinTick, MaxTick,  \* ticks between two reads of the counter
          Delays,            \* arguments of delay_in_us()
          CntFrq,            \* CNTFRQ, in Hz
          MICRO_UNIT,
          Word               \* unsigned int has Word values

DelayConstants ==
  /\ MAX_REFCLK_COUNT \in Nat /\ MinTick \in Nat /\ MaxTick \in Nat
  /\ 0 < MinTick /\ MinTick <= MaxTick /\ Word + MaxTick <= MAX_REFCLK_COUNT
  /\ Delays \subseteq Nat /\ CntFrq \in Nat
  /\ MICRO_UNIT \in Nat \ {0} /\ Word \in Nat \ {0}

ASSUME DelayAssumption == DelayConstants

VARIABLES counter,        \* ARM_SYS_CNTREAD_BASE
          pre_timestamp,
          cur_count,
          total_count,
          delay_pc,
          elapsed,        \* history: ticks since the start of the delay
          wraps           \* history: how often the counter wrapped since then

delay_vars == <<counter, pre_timestamp, cur_count, total_count, delay_pc, elapsed, wraps>>

\* The counter, and the variables of type uint64_t.
Wrap(n) == n % (MAX_REFCLK_COUNT + 1)

\* The product is taken in 32 bits, of the whole MHz of the counter.
TotalCount(delay) == (delay * (CntFrq \div MICRO_UNIT)) % Word

DelayTypeOK == /\ {counter, pre_timestamp, cur_count} \subseteq 0..MAX_REFCLK_COUNT
          /\ total_count \in 0..(Word - 1)
          /\ delay_pc \in {"idle", "start", "loop", "done"}
          /\ elapsed \in Nat /\ wraps \in Nat

DelayInit == /\ counter \in 0..MAX_REFCLK_COUNT
        /\ pre_timestamp = 0 /\ cur_count = 0 /\ total_count = 0
        /\ delay_pc = "idle" /\ elapsed = 0 /\ wraps = 0

\* The function is called, and reads the start value.
DelayStart == /\ delay_pc = "start"
         /\ \E d \in Delays : total_count' = TotalCount(d)
         /\ pre_timestamp' = counter
         /\ cur_count' = 0 /\ elapsed' = 0 /\ wraps' = 0
         /\ delay_pc' = "loop"
         /\ UNCHANGED counter

\* Mutant: the difference is taken without regard to a wrap.
CountOf_NoWrap(pre, cur) == IF cur > pre THEN cur - pre ELSE pre - cur

\* Ticks the loop adds for one pair of reads.
CountOf(pre, cur) == IF cur > pre THEN cur - pre ELSE Wrap((MAX_REFCLK_COUNT - pre) + cur)

\* One iteration of the loop.
Iterate ==
  /\ delay_pc = "loop" /\ cur_count < total_count
  /\ \E t \in MinTick..MaxTick :
       LET cur == Wrap(counter + t) IN
       /\ counter' = cur
       /\ cur_count' = Wrap(cur_count + CountOf(pre_timestamp, cur))
       /\ pre_timestamp' = cur
       /\ elapsed' = elapsed + t
       /\ wraps' = wraps + (counter + t) \div (MAX_REFCLK_COUNT + 1)
  /\ UNCHANGED <<total_count, delay_pc>>

\* The loop ends and the function returns ...
DelayReturn == /\ delay_pc = "loop" /\ cur_count >= total_count
          /\ delay_pc' = "done"
          /\ UNCHANGED <<counter, pre_timestamp, cur_count, total_count, elapsed, wraps>>

\* ... its caller goes on, and calls it again or not.
Proceed(calls) == /\ delay_pc \in {"idle", "done"}
                  /\ delay_pc' = IF calls THEN "start" ELSE "idle"
                  /\ pre_timestamp' = 0 /\ cur_count' = 0 /\ total_count' = 0
                  /\ elapsed' = 0 /\ wraps' = 0
                  /\ UNCHANGED counter

DelayNext == DelayStart \/ Iterate \/ DelayReturn \/ (\E calls \in BOOLEAN : Proceed(calls))

DelaySpec == DelayInit /\ [][DelayNext]_delay_vars
-----------------------------------------------------------------------------
\* The loop counts the ticks that passed, less one for every wrap, since the
\* adjustment subtracts from the last value instead of from the modulus.
CountFollowsTime == delay_pc \in {"loop", "done"} => cur_count = elapsed - wraps

\* "Gives delay in microseconds": when delay_in_us() returns, at least the
\* requested number of ticks passed, also when the counter wrapped meanwhile,
\* and no more than the delay, the time between two reads of the counter, and
\* one tick for every wrap.
DelayIsAccurate ==
  delay_pc = "done" => total_count <= elapsed /\ elapsed <= total_count + wraps + MaxTick
=============================================================================
