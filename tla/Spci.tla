-------------------------------- MODULE Spci --------------------------------
(***************************************************************************)
(* services/std_svc/spm: requests of the Normal world to Secure Partitions *)
(* through SPCI, on several CPUs.                                          *)
(*                                                                         *)
(* What a call does while it holds a lock is one step.  A blocking request *)
(* waits for the partition; a request that is started is put into the      *)
(* partition's queue, and its response is fetched later.  The partition    *)
(* runs on the CPU that entered it and takes one message at a time; unless *)
(* the request blocks, Non-secure interrupts preempt it.  A call that is   *)
(* refused changes nothing and is no step, except where the code has       *)
(* changed something already.                                              *)
(***************************************************************************)
EXTENDS Integers, FiniteSets, Sequences, FiniteSetsExt, Functions

CONSTANTS CPU, SP,
          MaxHandles,   \* PLAT_SPCI_HANDLES_MAX_NUM
          MaxResponses, \* PLAT_SPM_RESPONSES_MAX
          QueueLen, BlockingLen, \* messages that fit into the queues
          HandleValues, TokenValues, \* 2^16 and 2^32
          MaxRequests,  \* bound: requests a partition counts at once
          None

ASSUME SpciAssumption == {MaxHandles, MaxResponses, QueueLen, BlockingLen, HandleValues, TokenValues, MaxRequests} \subseteq Nat \ {0}

VARIABLES handles,      \* spci_handles
          handle_count, token_count,
          request_count, state, \* per partition
          blocking, queue, \* per partition: the messages for it
          work,         \* per partition: the message it has taken and not answered
          responses,
          pc, call,     \* per CPU
          refused,      \* history: slots with a request that found the queue full
          overtaken     \* history: a request was started in a partition for which a
                        \* blocking one was waiting

table == <<handles, handle_count, token_count>>
partitions == <<request_count, state, blocking, queue, work>>
history == <<refused, overtaken>>
vars == <<table, partitions, responses, pc, call, history>>

Slots == 1..MaxHandles
Closed == [open |-> FALSE, handle |-> 0, sp |-> None, active |-> 0]

\* A message carries the handle and the token, which is 0 for every blocking
\* request; by is the CPU that such a request blocks, and is not in the message.
Handles == 0..(HandleValues - 1)
Tokens == 0..(TokenValues - 1)
Messages == [handle : Handles, token : Tokens, by : CPU \cup {None}]
NoCall == [op |-> None, slot |-> 0, sp |-> None, msg |-> None, got |-> None]

TypeOK ==
  /\ handles \in [Slots -> [open : BOOLEAN, handle : Handles, sp : SP \cup {None}, active : Int]]
  /\ handle_count \in Handles /\ token_count \in Tokens
  /\ request_count \in [SP -> Int] /\ state \in [SP -> {"IDLE", "BUSY"}]
  /\ {blocking, queue} \subseteq [SP -> Seq(Messages)] /\ work \in [SP -> Messages \cup {None}]
  /\ responses \subseteq Messages
  /\ pc \in [CPU -> {"ns", "wait", "push", "try", "sp", "exit", "idle", "get", "dec", "decsp", "panic", "locked", "fault"}]
  /\ call \in [CPU -> [op : {"blocking", "start", "resume", "resumed", "get", None}, slot : {0} \cup Slots,
                       sp : SP \cup {None}, msg : Messages \cup {None}, got : Messages \cup {None}]]
  /\ refused \subseteq Slots /\ overtaken \in BOOLEAN

\* The partitions finished their initialisation.
Init == /\ handles = [s \in Slots |-> Closed] /\ handle_count = 0 /\ token_count = 0
        /\ request_count = [p \in SP |-> 0] /\ state = [p \in SP |-> "IDLE"]
        /\ blocking = [p \in SP |-> <<>>] /\ queue = [p \in SP |-> <<>>]
        /\ work = [p \in SP |-> None] /\ responses = {}
        /\ pc = [c \in CPU |-> "ns"] /\ call = [c \in CPU |-> NoCall]
        /\ refused = {} /\ overtaken = FALSE

Goto(c, l) == pc' = [pc EXCEPT ![c] = l]
Return(c) == Goto(c, "ns") /\ call' = [call EXCEPT ![c] = NoCall]
Panic(c) == Goto(c, "panic") /\ UNCHANGED call
Begin(c, l, op, s, token, by) ==
  /\ Goto(c, l)
  /\ call' = [call EXCEPT ![c] = [op |-> op, slot |-> s, sp |-> handles[s].sp, got |-> None,
                                  msg |-> [handle |-> handles[s].handle, token |-> token, by |-> by]]]

-----------------------------------------------------------------------------
\* spci_create_handle_value() and spci_create_token_value() rely on a value
\* being out of use when the 16 or 32 bit counter comes back to it.
Requests == (responses \cup UNION {Range(blocking[p]) \cup Range(queue[p]) \cup {work[p]} : p \in SP}
             \cup {call[c].got : c \in CPU} \cup {call[c].msg : c \in {d \in CPU : pc[d] = "push"}}) \ {None}
HandleIsFree(h) == /\ \A s \in Slots : handles[s].open => handles[s].handle # h
                   /\ \A m \in Requests : m.handle # h
                   /\ \A c \in CPU : pc[c] # "ns" => call[c].msg.handle # h
TokenIsFree(t) == \A m \in Requests : m.by = None => m.token # t

\* spci_service_handle_open_poll() takes the first closed slot.
Open(c, p) ==
  LET free == {s \in Slots : ~handles[s].open} IN
  /\ pc[c] = "ns" /\ free # {} /\ HandleIsFree(handle_count)
  /\ handles' = [handles EXCEPT ![Min(free)] =
                   [open |-> TRUE, handle |-> handle_count, sp |-> p, active |-> 0]]
  /\ handle_count' = (handle_count + 1) % HandleValues
  /\ refused' = refused \ {Min(free)}
  /\ UNCHANGED <<token_count, partitions, responses, pc, call, overtaken>>

\* spci_service_handle_close(), unless there are requests left.
Close(c, s) == /\ pc[c] = "ns" /\ handles[s].open /\ handles[s].active = 0
               /\ handles' = [handles EXCEPT ![s] = Closed]
               /\ UNCHANGED <<handle_count, token_count, partitions, responses, pc, call, history>>

-----------------------------------------------------------------------------
\* A request is counted in its handle and in its partition.
CountRequest(s, p) == /\ handles' = [handles EXCEPT ![s].active = @ + 1]
                      /\ request_count' = [request_count EXCEPT ![p] = @ + 1]

\* spci_service_request_blocking(): only when neither the handle nor the
\* partition has a request ...
RequestBlocking(c, s) ==
  LET h == handles[s] IN
  /\ pc[c] = "ns" /\ h.open /\ h.active = 0 /\ request_count[h.sp] = 0
  /\ CountRequest(s, h.sp)
  /\ Begin(c, "wait", "blocking", s, 0, c)
  /\ UNCHANGED <<handle_count, token_count, state, blocking, queue, work, responses, history>>

\* ... it waits for the partition to be idle, and enters it with the message
\* in the blocking queue, which only the owner of a busy partition touches.
EnterBlocking(c) ==
  LET p == call[c].sp IN
  /\ pc[c] = "wait" /\ state[p] = "IDLE"
  /\ state' = [state EXCEPT ![p] = "BUSY"]
  /\ IF Len(blocking[p]) = BlockingLen
     THEN Panic(c) /\ UNCHANGED blocking
     ELSE /\ blocking' = [blocking EXCEPT ![p] = Append(@, call[c].msg)]
          /\ Goto(c, "sp") /\ UNCHANGED call
  /\ UNCHANGED <<table, request_count, queue, work, responses, history>>

\* spci_service_request_start() counts the request and gives it a token ...
RequestStart(c, s) ==
  LET h == handles[s] IN
  /\ pc[c] = "ns" /\ h.open /\ TokenIsFree(token_count) /\ request_count[h.sp] < MaxRequests
  /\ CountRequest(s, h.sp)
  /\ token_count' = (token_count + 1) % TokenValues
  /\ Begin(c, "push", "start", s, token_count, None)
  /\ overtaken' = (overtaken \/ \E d \in CPU : pc[d] = "wait" /\ call[d].sp = h.sp)
  /\ UNCHANGED <<handle_count, state, blocking, queue, work, responses, refused>>

\* ... puts it into the queue, if it fits ...
PushMessage(c) ==
  LET p == call[c].sp IN
  /\ pc[c] = "push"
  /\ IF Len(queue[p]) = QueueLen
     THEN Return(c) /\ refused' = refused \cup {call[c].slot} /\ UNCHANGED queue
     ELSE /\ queue' = [queue EXCEPT ![p] = Append(@, call[c].msg)]
          /\ Goto(c, "try") /\ UNCHANGED <<call, refused>>
  /\ UNCHANGED <<table, request_count, state, blocking, work, responses, overtaken>>

\* Mutant: the partition is entered whatever its state is.
TryEnter_Always(c) ==
  /\ pc[c] = "try"
  /\ state' = [state EXCEPT ![call[c].sp] = "BUSY"] /\ Goto(c, "sp") /\ UNCHANGED call
  /\ UNCHANGED <<table, request_count, blocking, queue, work, responses, history>>

\* ... and enters the partition, if no CPU is in it.
TryEnter(c) ==
  LET p == call[c].sp IN
  /\ pc[c] = "try"
  /\ IF state[p] = "IDLE"
     THEN state' = [state EXCEPT ![p] = "BUSY"] /\ Goto(c, "sp") /\ UNCHANGED call
     ELSE Return(c) /\ UNCHANGED state
  /\ UNCHANGED <<table, request_count, blocking, queue, work, responses, history>>

-----------------------------------------------------------------------------
\* The partition goes on with its work, or takes the next message ...
Take(c) ==
  LET p == call[c].sp IN
  /\ pc[c] = "sp" /\ work[p] = None
  /\ \/ /\ blocking[p] # <<>>
        /\ work' = [work EXCEPT ![p] = Head(blocking[p])]
        /\ blocking' = [blocking EXCEPT ![p] = Tail(@)] /\ UNCHANGED queue
     \/ /\ blocking[p] = <<>> /\ queue[p] # <<>>
        /\ work' = [work EXCEPT ![p] = Head(queue[p])]
        /\ queue' = [queue EXCEPT ![p] = Tail(@)] /\ UNCHANGED blocking
  /\ UNCHANGED <<table, request_count, state, responses, pc, call, history>>

\* ... answers it with SPRT_PUT_RESPONSE ...
Respond(c) ==
  LET p == call[c].sp IN
  /\ pc[c] = "sp" /\ work[p] # None
  /\ work' = [work EXCEPT ![p] = None]
  /\ call' = [call EXCEPT ![c].got = work[p]]
  /\ Goto(c, IF call[c].op = "blocking" THEN "idle" ELSE "exit")
  /\ UNCHANGED <<table, request_count, state, blocking, queue, responses, history>>

\* ... gives up the CPU when it has nothing to do, which no blocking request
\* expects, or is preempted.
Leave(c) ==
  LET p == call[c].sp
      nothing == work[p] = None /\ blocking[p] = <<>> /\ queue[p] = <<>> IN
  /\ pc[c] = "sp"
  /\ nothing \/ call[c].op # "blocking"
  /\ IF call[c].op = "blocking" THEN Panic(c) ELSE Goto(c, "exit") /\ UNCHANGED call
  /\ UNCHANGED <<table, partitions, responses, history>>

\* spm_response_add() finding the token taken returns with the lock held.
ResponsesUnlocked == \A c \in CPU : pc[c] # "locked"

\* spci_handle_returned_values(): a response is kept for its request.
AddResponse(c) ==
  LET r == call[c].got IN
  /\ pc[c] = "exit"
  /\ r # None => ResponsesUnlocked
  /\ CASE r = None -> Goto(c, "idle") /\ UNCHANGED <<call, responses>>
       [] r # None /\ (\E q \in responses : q.token = r.token) -> Goto(c, "locked") /\ UNCHANGED <<call, responses>>
       [] r # None /\ (\A q \in responses : q.token # r.token) ->
            IF Cardinality(responses) = MaxResponses THEN Panic(c) /\ UNCHANGED responses
            ELSE /\ responses' = responses \cup {r}
                 /\ Goto(c, "idle") /\ call' = [call EXCEPT ![c].got = None]
  /\ UNCHANGED <<table, partitions, history>>

\* Mutant: a blocking request takes every return for a preemption, and enters
\* the partition again.
SetIdle_Again(c) ==
  LET p == call[c].sp IN
  /\ pc[c] = "idle"
  /\ state' = [state EXCEPT ![p] = "IDLE"]
  /\ CASE call[c].op = "blocking" -> Goto(c, "wait") /\ UNCHANGED call
       [] call[c].op = "start" -> Return(c)
       [] call[c].op = "resumed" -> Goto(c, "get") /\ UNCHANGED call
  /\ UNCHANGED <<table, request_count, blocking, queue, work, responses, history>>

\* Mutant: a resumed request takes the response for granted.
SetIdle_NoSecondLook(c) ==
  LET p == call[c].sp IN
  /\ pc[c] = "idle"
  /\ state' = [state EXCEPT ![p] = "IDLE"]
  /\ IF call[c].op = "start" THEN Return(c) ELSE Goto(c, "dec") /\ UNCHANGED call
  /\ UNCHANGED <<table, request_count, blocking, queue, work, responses, history>>

\* The partition is idle again; a blocking request has its answer, a resumed
\* one looks for it once more.
SetIdle(c) ==
  LET p == call[c].sp IN
  /\ pc[c] = "idle"
  /\ IF state[p] # "BUSY" THEN Panic(c) /\ UNCHANGED state
     ELSE /\ state' = [state EXCEPT ![p] = "IDLE"]
          /\ CASE call[c].op = "blocking" -> Goto(c, "dec") /\ UNCHANGED call
               [] call[c].op = "start" -> Return(c)
               [] call[c].op = "resumed" -> Goto(c, "get") /\ UNCHANGED call
  /\ UNCHANGED <<table, request_count, blocking, queue, work, responses, history>>

-----------------------------------------------------------------------------
\* spci_service_request_resume() and spci_service_get_response(), with any
\* token, look up the handle, and release the lock ...
LookUp(c, op, s, token) ==
  /\ pc[c] = "ns" /\ handles[s].open
  /\ Begin(c, "get", op, s, token, None)
  /\ UNCHANGED <<table, partitions, responses, history>>

\* Mutant: a response that was read stays where it is.
GetResponse_Stays(c) ==
  LET found == {r \in responses : r.handle = call[c].msg.handle /\ r.token = call[c].msg.token} IN
  /\ pc[c] = "get" /\ ResponsesUnlocked
  /\ IF found # {} THEN Goto(c, "dec") /\ UNCHANGED call
     ELSE IF call[c].op = "resume" THEN Goto(c, "try") /\ call' = [call EXCEPT ![c].op = "resumed"]
     ELSE Return(c)
  /\ UNCHANGED <<table, partitions, responses, history>>

\* ... look for the response; without it resume gives the partition CPU time,
\* once ...
GetResponse(c) ==
  LET found == {r \in responses : r.handle = call[c].msg.handle /\ r.token = call[c].msg.token} IN
  /\ pc[c] = "get" /\ ResponsesUnlocked
  /\ responses' = responses \ found
  /\ IF found # {} THEN Goto(c, "dec") /\ UNCHANGED call
     ELSE IF call[c].op = "resume" THEN Goto(c, "try") /\ call' = [call EXCEPT ![c].op = "resumed"]
     ELSE Return(c)
  /\ UNCHANGED <<table, partitions, history>>

\* ... and with it they end the request, through the pointer to the slot they
\* looked up, as a blocking request does.  A count is unsigned: -1 stands for
\* its largest value.  The slot of a closed handle has no partition.
Decrease(c) ==
  LET s == call[c].slot
      p == IF call[c].op = "get" THEN handles[s].sp ELSE call[c].sp IN
  /\ pc[c] = "dec"
  /\ handles' = [handles EXCEPT ![s].active = @ - 1]
  /\ call' = [call EXCEPT ![c].sp = p]
  /\ Goto(c, IF p = None THEN "fault" ELSE "decsp")
  /\ UNCHANGED <<handle_count, token_count, partitions, responses, history>>

DecreaseSp(c) == /\ pc[c] = "decsp"
                 /\ request_count' = [request_count EXCEPT ![call[c].sp] = @ - 1]
                 /\ Return(c)
                 /\ UNCHANGED <<table, state, blocking, queue, work, responses, history>>

-----------------------------------------------------------------------------
Client(c) == \/ \E p \in SP : Open(c, p)
             \/ \E s \in Slots : \/ Close(c, s) \/ RequestBlocking(c, s) \/ RequestStart(c, s)
                                 \/ \E op \in {"resume", "get"}, t \in Tokens : LookUp(c, op, s, t)

Run(c) == \/ Take(c) \/ Respond(c) \/ Leave(c)
          \/ PushMessage(c) \/ TryEnter(c) \/ AddResponse(c) \/ SetIdle(c)
          \/ GetResponse(c) \/ Decrease(c) \/ DecreaseSp(c)

Next == \E c \in CPU : Client(c) \/ EnterBlocking(c) \/ Run(c)

Spec == Init /\ [][Next]_vars

\* A CPU in EL3 or in a partition goes on; one that spins on the state of a
\* partition sees it idle when it stays idle.  spin_lock() promises no more: the
\* other CPUs may take the lock again and again.
FairSpec == Spec /\ \A c \in CPU : WF_vars(Run(c)) /\ WF_vars(EnterBlocking(c))
-----------------------------------------------------------------------------
\* Where a request of handle h is: in the queues, being worked on, answered and
\* not read, or in the hands of a CPU that hands it over or ends it.
Stopped(c) == pc[c] \in {"panic", "locked", "fault"}
HandsOver(c) == (pc[c] = "exit" \/ Stopped(c)) /\ call[c].got # None
InHand(c) == \/ call[c].op = "blocking" /\ pc[c] \in {"wait", "idle", "dec"}
             \/ pc[c] \in {"push", "dec"}
             \/ HandsOver(c)
Held(c) == IF HandsOver(c) THEN call[c].got ELSE call[c].msg
Places(h) ==
  Cardinality({r \in responses : r.handle = h})
  + Cardinality({c \in CPU : InHand(c) /\ Held(c).handle = h})
  + Cardinality({p \in SP : work[p] # None /\ work[p].handle = h})
  + Cardinality({<<p, k>> \in SP \X (1..QueueLen) : k <= Len(queue[p]) /\ queue[p][k].handle = h})
  + Cardinality({<<p, k>> \in SP \X (1..BlockingLen) : k <= Len(blocking[p]) /\ blocking[p][k].handle = h})

\* Requests are conserved: a handle counts exactly the requests that are being
\* handed over, queued, worked on, answered and not read, or about to be ended,
\* so that it stays open as long as there is one, and no pointer to its slot
\* outlives it; a partition counts those of its handles.  The code keeps this
\* up with two exceptions.  spci_service_request_start() leaves a request
\* counted for which the queue was full; and after it started one in a
\* partition for which a blocking request waits, the two may end each other.
RequestsConserved ==
  ~overtaken =>
    /\ \A h \in Handles :
         LET open == {s \in Slots : handles[s].open /\ handles[s].handle = h} IN
         /\ open = {} => Places(h) = 0
         /\ \A s \in open : IF s \in refused THEN handles[s].active > Places(h)
                            ELSE handles[s].active = Places(h)
    /\ \A p \in SP :
         request_count[p] = MapThenSumSet(LAMBDA s : IF handles[s].sp = p THEN handles[s].active ELSE 0, Slots)
                            + Cardinality({c \in CPU : pc[c] = "decsp" /\ call[c].sp = p})

\* One CPU at a time is in a partition, whose saved context is shared: the
\* partition is busy exactly then.
OneCpuInPartition == \A p \in SP :
  Cardinality({c \in CPU : pc[c] \in {"sp", "exit", "idle", "panic", "locked"} /\ call[c].sp = p})
    = IF state[p] = "BUSY" THEN 1 ELSE 0

\* A blocking request finds room in its queue and is answered: it does not
\* panic.  Unless a request was started while one waited for the partition, the
\* answer is the one to itself, although it is not compared with the request;
\* and no response comes with a token that is taken, which would leave
\* responses_lock held.
BlockingGetsItsAnswer ==
  /\ \A c \in CPU : call[c].op = "blocking" => pc[c] # "panic"
  /\ ~overtaken => \A c \in CPU :
       /\ pc[c] \notin {"locked", "fault"}
       /\ call[c].op = "blocking" /\ pc[c] \in {"idle", "dec", "decsp"} => call[c].got = call[c].msg

\* A blocking request returns, unless a CPU panicked or other CPUs enter the
\* partition for ever.
BlockingReturns == \A c \in CPU :
  \/ pc[c] = "wait" ~> pc[c] = "ns"
  \/ []<>(\E d \in CPU \ {c} : pc[d] = "sp")
  \/ <>(\E d \in CPU : Stopped(d))
=============================================================================
