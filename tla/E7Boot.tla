------------------------------- MODULE E7Boot -------------------------------
(***************************************************************************)
(* The boot of SP_MIN on devkit_e7 as far as the secure enclave (SE) takes *)
(* part in it: the requests of SeService, with the busy waits of DelayUs   *)
(* between them.  Nothing but the waits gives the SE the time to accept a  *)
(* message and to put its response into the buffer.                        *)
(*                                                                         *)
(* Time passes in the loop of delay_in_us().  An SE that listens accepts a *)
(* message, and serves one it accepted, within Latency ticks each.         *)
(***************************************************************************)
EXTENDS SeService, DelayUs

CONSTANTS SYNC_DELAY, READ_DELAY, \* in microseconds
          Latency                 \* ticks

ASSUME BootAssumption ==
  Delays = {READ_DELAY, SYNC_DELAY \div 2, SYNC_DELAY, 3 * SYNC_DELAY} /\ Latency \in Nat

VARIABLE age  \* ticks for which the SE has had something to do

boot_vars == <<vars, delay_vars, age>>

BootInit == Init /\ DelayInit /\ age = 0

\* Mutant: the response is read without a wait.
DelayBefore_NoRead(place, c) ==
  CASE place = "poll" -> 3 * SYNC_DELAY
    [] place = "request" -> READ_DELAY
    [] place = "request_poll" -> IF c = "key" THEN READ_DELAY ELSE SYNC_DELAY
    [] place \in {"sync", "done"} -> SYNC_DELAY \div 2
    [] OTHER -> -1

\* The wait on the way to a place of the boot, in microseconds; -1 for none.
DelayBefore(place, c) ==
  CASE place = "poll" -> 3 * SYNC_DELAY
    [] place \in {"request", "response"} -> READ_DELAY
    [] place = "request_poll" -> IF c = "key" THEN READ_DELAY ELSE SYNC_DELAY
    [] place \in {"sync", "done"} -> SYNC_DELAY \div 2
    [] OTHER -> -1

\* Mutant: there is no wait before the request takes the place of the heartbeat.
Cpu_NoWait == /\ CpuNext
              /\ Proceed(DelayBefore(pc', cycle') >= 0 /\ pc' # "request")
              /\ UNCHANGED age

\* The CPU goes on when a wait is over, and into the next one.
Cpu == /\ CpuNext
       /\ Proceed(DelayBefore(pc', cycle') >= 0)
       /\ UNCHANGED age

WaitStarts == /\ DelayStart /\ total_count' = TotalCount(DelayBefore(pc, cycle))
              /\ UNCHANGED <<vars, age>>

WaitEnds == DelayReturn /\ UNCHANGED <<vars, age>>

\* One turn of the loop takes no more time than the SE has left.
Busy == (up /\ channel) \/ request # None
Tick == /\ Iterate
        /\ IF Busy THEN age' = age + (elapsed' - elapsed) /\ age' <= Latency ELSE age' = 0
        /\ UNCHANGED vars

Se == /\ SeNext
      /\ age' = 0 /\ UNCHANGED delay_vars

Mhu == MhuReady /\ UNCHANGED <<delay_vars, age>>

Next == Cpu \/ WaitStarts \/ Tick \/ WaitEnds \/ Se \/ Mhu

Spec == BootInit /\ [][Next]_boot_vars

\* The CPU executes; time passes, whatever the SE does; the SE serves what it
\* accepts, and accepts when it goes on listening.  Nothing is asked of the
\* MHU.
FairSpec == /\ Spec
            /\ WF_boot_vars(Cpu \/ WaitStarts \/ WaitEnds) /\ SF_boot_vars(Tick)
            /\ WF_boot_vars(Se /\ (SeAccepts \/ SeResponds \/ SeRefuses))
=============================================================================
