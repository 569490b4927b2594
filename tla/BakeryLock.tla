----------------------------- MODULE BakeryLock -----------------------------
(***************************************************************************)
(* lib/locks/bakery: the lock that PSCI uses for its power domains when    *)
(* exclusive load/store instructions cannot be relied on.  One action is   *)
(* one access to the shared lock_data words (or one wfe/sev), so that any  *)
(* interleaving of the CPUs' accesses is explored.  lock_data[c] is one    *)
(* 16-bit word: the choosing bit and the ticket number are read and        *)
(* written together.  bakery_lock_normal.c runs the same algorithm with    *)
(* cache maintenance around each access; both files are modelled as        *)
(* single-copy atomic accesses to coherent memory.                         *)
(***************************************************************************)
EXTENDS Integers

CONSTANTS N,           \* BAKERY_LOCK_MAX_CPUS
          TicketMod,   \* 2^15: bakery_ticket_number() keeps 15 bits
          MaxTicket    \* bound: nobody starts contending when a ticket could exceed it

ASSUME NAssumption == N \in 1..256
ASSUME TicketModAssumption == TicketMod \in Nat /\ TicketMod > 1
ASSUME MaxTicketAssumption == MaxTicket \in Nat

CPU == 0..(N - 1)

VARIABLES lock_data,    \* lock_data[c]: the shared word of CPU c
          pc,           \* where each CPU is in bakery_lock_get/release
          they,         \* the loop variable of the CPU
          my_ticket,    \* the unsigned int local: it is not truncated
          their_ticket, \* the ticket the CPU waits to see changed
          event,        \* the event register that wfe consumes and sev sets
          ahead         \* history: CPUs that had a ticket when this one came

vars == <<lock_data, pc, they, my_ticket, their_ticket, event, ahead>>

\* make_bakery_data(): the ticket is shifted left by one and cut to 16 bits.
make_bakery_data(choosing, num) ==
  [choosing |-> choosing, number |-> num % TicketMod]

\* bakery_get_priority(): (t << 8) | pos; a lower value is served first.
bakery_get_priority(t, pos) == t * 256 + pos

\* CPUs that have been given a ticket and not yet returned it.
HasTicket(c) == pc[c] \in {"check", "wfe", "recheck", "held"}

-----------------------------------------------------------------------------
Init == /\ lock_data = [c \in CPU |-> [choosing |-> FALSE, number |-> 0]]
        /\ pc = [c \in CPU |-> "idle"]
        /\ they = [c \in CPU |-> 0]
        /\ my_ticket = [c \in CPU |-> 0]
        /\ their_ticket = [c \in CPU |-> 0]
        /\ event = [c \in CPU |-> FALSE]
        /\ ahead = [c \in CPU |-> {}]

\* The bound on tickets: not in the code, whose tickets grow for as long as
\* the lock is never free.
TicketRoom == \A d \in CPU : my_ticket[d] + N <= MaxTicket

\* bakery_get_ticket(), the doorway: announce that a ticket is being chosen.
StartChoosing(c) ==
  /\ pc[c] = "idle"
  /\ TicketRoom
  /\ lock_data' = [lock_data EXCEPT ![c] = make_bakery_data(TRUE, 0)]
  /\ my_ticket' = [my_ticket EXCEPT ![c] = 0]
  /\ they' = [they EXCEPT ![c] = 0]
  /\ pc' = [pc EXCEPT ![c] = "scan"]
  /\ ahead' = [ahead EXCEPT ![c] = {d \in CPU : HasTicket(d)}]
  /\ UNCHANGED <<their_ticket, event>>

\* One iteration of the loop that looks for the highest ticket.
ScanTicket(c) ==
  /\ pc[c] = "scan"
  /\ LET t == lock_data[they[c]].number
     IN  my_ticket' = [my_ticket EXCEPT ![c] = IF t > @ THEN t ELSE @]
  /\ they' = [they EXCEPT ![c] = @ + 1]
  /\ pc' = [pc EXCEPT ![c] = IF they[c] + 1 = N THEN "publish" ELSE "scan"]
  /\ UNCHANGED <<lock_data, their_ticket, event, ahead>>

\* ++my_ticket, and the store that ends the doorway.
PublishTicket(c) ==
  /\ pc[c] = "publish"
  /\ my_ticket' = [my_ticket EXCEPT ![c] = @ + 1]
  /\ lock_data' = [lock_data EXCEPT ![c] = make_bakery_data(FALSE, my_ticket[c] + 1)]
  /\ they' = [they EXCEPT ![c] = 0]
  /\ pc' = [pc EXCEPT ![c] = "check"]
  /\ UNCHANGED <<their_ticket, event, ahead>>

\* Go on to the next contender, or own the lock after the last one.
NextContender(c) ==
  /\ they' = [they EXCEPT ![c] = @ + 1]
  /\ pc' = [pc EXCEPT ![c] = IF they[c] + 1 = N THEN "held" ELSE "check"]

\* Mutant: the contender's choosing bit is not waited for.
CheckContender_NoChoosingWait(c) ==
  /\ pc[c] = "check"
  /\ LET t == lock_data[they[c]].number
     IN  IF /\ t # 0
            /\ bakery_get_priority(t, they[c]) < bakery_get_priority(my_ticket[c], c)
         THEN /\ their_ticket' = [their_ticket EXCEPT ![c] = t]
              /\ pc' = [pc EXCEPT ![c] = "wfe"]
              /\ UNCHANGED they
         ELSE /\ NextContender(c)
              /\ UNCHANGED their_ticket
  /\ UNCHANGED <<lock_data, my_ticket, event, ahead>>

\* One iteration of the loop of bakery_lock_get().  The do-while that spins
\* on the choosing bit is the guard: the read that leaves it is the step.
CheckContender(c) ==
  /\ pc[c] = "check"
  /\ \/ /\ they[c] = c
        /\ NextContender(c)
        /\ UNCHANGED their_ticket
     \/ /\ they[c] # c
        /\ ~lock_data[they[c]].choosing
        /\ LET t == lock_data[they[c]].number
           IN  IF /\ t # 0
                  /\ bakery_get_priority(t, they[c]) < bakery_get_priority(my_ticket[c], c)
               THEN /\ their_ticket' = [their_ticket EXCEPT ![c] = t]
                    /\ pc' = [pc EXCEPT ![c] = "wfe"]
                    /\ UNCHANGED they
               ELSE /\ NextContender(c)
                    /\ UNCHANGED their_ticket
  /\ UNCHANGED <<lock_data, my_ticket, event, ahead>>

\* wfe(): returns at once, clearing the event register, when it is set;
\* otherwise the CPU sleeps until an event arrives.
WaitForEvent(c) ==
  /\ pc[c] = "wfe"
  /\ event[c]
  /\ event' = [event EXCEPT ![c] = FALSE]
  /\ pc' = [pc EXCEPT ![c] = "recheck"]
  /\ UNCHANGED <<lock_data, they, my_ticket, their_ticket, ahead>>

\* Mutant: any event ends the wait; the ticket is not read again.
RecheckTicket_AnyEvent(c) ==
  /\ pc[c] = "recheck"
  /\ NextContender(c)
  /\ UNCHANGED <<lock_data, my_ticket, their_ticket, event, ahead>>

\* The condition of the do-while around wfe().
RecheckTicket(c) ==
  /\ pc[c] = "recheck"
  /\ IF lock_data[they[c]].number = their_ticket[c]
     THEN /\ pc' = [pc EXCEPT ![c] = "wfe"]
          /\ UNCHANGED they
     ELSE NextContender(c)
  /\ UNCHANGED <<lock_data, my_ticket, their_ticket, event, ahead>>

\* bakery_lock_release(): drop the ticket ...
ReleaseLock(c) ==
  /\ pc[c] = "held"
  /\ lock_data' = [lock_data EXCEPT ![c] = [choosing |-> FALSE, number |-> 0]]
  /\ my_ticket' = [my_ticket EXCEPT ![c] = 0]
  /\ they' = [they EXCEPT ![c] = 0]
  /\ their_ticket' = [their_ticket EXCEPT ![c] = 0]
  /\ pc' = [pc EXCEPT ![c] = "sev"]
  /\ ahead' = [d \in CPU |-> ahead[d] \ {c}]
  /\ UNCHANGED event

\* Mutant: the release does not signal the waiters.
SignalEvent_NoSev(c) ==
  /\ pc[c] = "sev"
  /\ pc' = [pc EXCEPT ![c] = "idle"]
  /\ UNCHANGED <<lock_data, they, my_ticket, their_ticket, event, ahead>>

\* ... and then signal the waiters: sev() sets every CPU's event register.
SignalEvent(c) ==
  /\ pc[c] = "sev"
  /\ event' = [d \in CPU |-> TRUE]
  /\ pc' = [pc EXCEPT ![c] = "idle"]
  /\ UNCHANGED <<lock_data, they, my_ticket, their_ticket, ahead>>

\* The steps of a CPU that is inside bakery_lock_get() or _release().
Step(c) == \/ ScanTicket(c) \/ PublishTicket(c) \/ CheckContender(c)
           \/ WaitForEvent(c) \/ RecheckTicket(c) \/ SignalEvent(c)

Next == \E c \in CPU : StartChoosing(c) \/ Step(c) \/ ReleaseLock(c)

Spec == Init /\ [][Next]_vars

\* A CPU inside the lock's code keeps running, and a holder (EL3 code with
\* interrupts masked) always releases; nobody is obliged to contend.
FairSpec == Spec /\ \A c \in CPU : WF_vars(Step(c)) /\ WF_vars(ReleaseLock(c))

-----------------------------------------------------------------------------
\* The loop variable indexes the CPUs while a loop runs.
LoopInv == \A c \in CPU : pc[c] \in {"scan", "check", "wfe", "recheck"} => they[c] \in CPU

\* Every variable keeps its type, and no loop of the lock reads lock_data
\* outside the array.
TypeOK ==
  /\ LoopInv
  /\ lock_data \in [CPU -> [choosing : BOOLEAN, number : Nat]]
  /\ pc \in [CPU -> {"idle", "scan", "publish", "check", "wfe", "recheck", "held", "sev"}]
  /\ they \in [CPU -> 0..N]
  /\ my_ticket \in [CPU -> Nat]
  /\ their_ticket \in [CPU -> Nat]
  /\ event \in [CPU -> BOOLEAN]
  /\ ahead \in [CPU -> SUBSET CPU]

\* At most one CPU is between the return of bakery_lock_get() and the store
\* of bakery_lock_release(), whatever the interleaving of doorways, waits
\* and releases ("implement Bakery Algorithm for mutual exclusion").
MutualExclusion == \A c, d \in CPU : pc[c] = "held" /\ pc[d] = "held" => c = d

\* A CPU owns the lock only after every CPU that already had a ticket when
\* it announced itself has released: tickets are served in order of arrival.
FirstComeFirstServed == \A c \in CPU : pc[c] = "held" => ahead[c] = {}

\* No wake-up is lost between the read of a ticket and the wfe that follows:
\* every CPU that starts choosing a ticket eventually owns the lock.
EveryContenderServed == \A c \in CPU : pc[c] = "scan" ~> pc[c] = "held"

\* The ticket the code computed still fits the 15 bits it is stored in.
NoTicketOverflow == \A c \in CPU : my_ticket[c] < TicketMod

\* The lock implements FcfsLock: what its callers can see of a CPU.
StatusAt(place) == CASE place \in {"idle", "sev"}             -> "out"
                     [] place \in {"scan", "publish"}         -> "doorway"
                     [] place \in {"check", "wfe", "recheck"} -> "waiting"
                     [] place = "held"                        -> "holding"

lockStatus == [c \in CPU |-> StatusAt(pc[c])]

Fcfs == INSTANCE FcfsLock WITH status <- lockStatus, ahead <- ahead

\* Every step of the detailed lock is a step of FcfsLock or changes nothing
\* its callers can see.
ImplementsFcfsLock == Fcfs!Spec
=============================================================================
