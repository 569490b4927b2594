-------------------------- MODULE BakeryLock_proofs --------------------------
(***************************************************************************)
(* Proofs about the bakery lock for any number of CPUs (up to the 256 that *)
(* bakery_get_priority() can tell apart) and any ticket bound.             *)
(***************************************************************************)
EXTENDS BakeryLock, TLAPS

\* c has found that d does not precede it.
Passed(c, d) == pc[c] = "held" \/ d < they[c]

\* c is served before d, as far as d has got: d does not contend, or its scan
\* has seen or will see the ticket of c, or its ticket is the later one.
Before(c, d) ==
  /\ pc[d] = "scan" => (c < they[d] => my_ticket[c] <= my_ticket[d])
  /\ pc[d] = "publish" => my_ticket[c] <= my_ticket[d]
  /\ HasTicket(d) => bakery_get_priority(my_ticket[c], c)
                       < bakery_get_priority(my_ticket[d], d)

\* The shared word of a CPU says how far the CPU has got.
WordInv ==
  \A c \in CPU :
    /\ pc[c] \in {"idle", "sev"} => lock_data[c] = [choosing |-> FALSE, number |-> 0]
    /\ pc[c] \in {"scan", "publish"} => lock_data[c] = [choosing |-> TRUE, number |-> 0]
    /\ HasTicket(c) => /\ lock_data[c] = [choosing |-> FALSE, number |-> my_ticket[c]]
                       /\ my_ticket[c] > 0

\* A CPU with a ticket precedes every CPU it has passed; the one it waits for
\* still has the ticket that was read, or has come back behind it.
PairInv(c, d) ==
  /\ Passed(c, d) => Before(c, d)
  /\ pc[c] \in {"wfe", "recheck"} /\ they[c] = d =>
       (HasTicket(d) /\ my_ticket[d] = their_ticket[c]) \/ Before(c, d)

OrderInv == \A c, d \in CPU : c # d /\ HasTicket(c) => PairInv(c, d)

\* Whoever had a ticket when d came still has it and precedes d.
ArrivalInv ==
  \A d \in CPU : /\ pc[d] \in {"idle", "sev"} => ahead[d] = {}
                 /\ \A c \in ahead[d] : c # d /\ HasTicket(c) /\ Before(c, d)

IInv == TypeOK /\ LoopInv /\ WordInv /\ OrderInv /\ ArrivalInv

-----------------------------------------------------------------------------
\* A ticket below the modulus is stored as it is by make_bakery_data().
LEMMA ModSmall == \A t \in Nat : t < TicketMod => t % TicketMod = t
  BY TicketModAssumption

\* Facts about the loop variable that the proofs below use.
LEMMA LoopRange == /\ 0 \in CPU /\ 0 \in 0..N
                   /\ \A i \in CPU : i \in 0..N /\ i + 1 \in 0..N
                   /\ \A i \in CPU : i + 1 # N => i + 1 \in CPU
  BY NAssumption DEF CPU

\* The step relation preserves the types of all variables and the range of
\* the loop variables.
LEMMA TypeStep == TypeOK /\ LoopInv /\ [Next]_vars => TypeOK' /\ LoopInv'
<1> SUFFICES ASSUME TypeOK, LoopInv, [Next]_vars PROVE TypeOK' /\ LoopInv'
  OBVIOUS
<1> USE LoopRange, TicketModAssumption DEF TypeOK, LoopInv
<1>1. ASSUME NEW c \in CPU, StartChoosing(c) PROVE TypeOK' /\ LoopInv'
  BY <1>1 DEF StartChoosing, make_bakery_data
<1>2. ASSUME NEW c \in CPU, ScanTicket(c) PROVE TypeOK' /\ LoopInv'
  BY <1>2 DEF ScanTicket
<1>3. ASSUME NEW c \in CPU, PublishTicket(c) PROVE TypeOK' /\ LoopInv'
  BY <1>3 DEF PublishTicket, make_bakery_data
<1>4. ASSUME NEW c \in CPU, CheckContender(c) PROVE TypeOK' /\ LoopInv'
  <2>1. they[c] \in CPU /\ they' \in [CPU -> 0..N] /\ their_ticket' \in [CPU -> Nat]
    BY <1>4 DEF CheckContender, NextContender
  <2>2. \E p \in {"held", "check", "wfe"} : pc' = [pc EXCEPT ![c] = p]
    BY <1>4 DEF CheckContender, NextContender
  <2>3. pc'[c] # "held" => they'[c] \in CPU
    BY <1>4, <2>1 DEF CheckContender, NextContender
  <2>4. \A d \in CPU \ {c} : they'[d] = they[d]
    BY <1>4 DEF CheckContender, NextContender
  <2> QED
    BY <1>4, <2>1, <2>2, <2>3, <2>4 DEF CheckContender
<1>5. ASSUME NEW c \in CPU, WaitForEvent(c) PROVE TypeOK' /\ LoopInv'
  BY <1>5 DEF WaitForEvent
<1>6. ASSUME NEW c \in CPU, RecheckTicket(c) PROVE TypeOK' /\ LoopInv'
  <2>1. they[c] \in CPU /\ they' \in [CPU -> 0..N]
    BY <1>6 DEF RecheckTicket, NextContender
  <2>2. \E p \in {"held", "check", "wfe"} : pc' = [pc EXCEPT ![c] = p]
    BY <1>6 DEF RecheckTicket, NextContender
  <2>3. pc'[c] # "held" => they'[c] \in CPU
    BY <1>6, <2>1 DEF RecheckTicket, NextContender
  <2>4. \A d \in CPU \ {c} : they'[d] = they[d]
    BY <1>6 DEF RecheckTicket, NextContender
  <2> QED
    BY <1>6, <2>1, <2>2, <2>3, <2>4 DEF RecheckTicket
<1>7. ASSUME NEW c \in CPU, ReleaseLock(c) PROVE TypeOK' /\ LoopInv'
  BY <1>7 DEF ReleaseLock
<1>8. ASSUME NEW c \in CPU, SignalEvent(c) PROVE TypeOK' /\ LoopInv'
  BY <1>8 DEF SignalEvent
<1>9. CASE UNCHANGED vars
  BY <1>9 DEF vars
<1> QED
  BY <1>1, <1>2, <1>3, <1>4, <1>5, <1>6, <1>7, <1>8, <1>9 DEF Next, Step

\* Priorities order tickets first and CPUs with equal tickets by position.
LEMMA Priorities ==
  \A s, t \in Nat : \A i, j \in CPU :
    /\ s < t => bakery_get_priority(s, i) < bakery_get_priority(t, j)
    /\ i # j /\ ~(bakery_get_priority(t, j) < bakery_get_priority(s, i))
         => bakery_get_priority(s, i) < bakery_get_priority(t, j)
    /\ ~(bakery_get_priority(s, i) < bakery_get_priority(t, j)
           /\ bakery_get_priority(t, j) < bakery_get_priority(s, i))
  BY NAssumption DEF CPU, bakery_get_priority

\* A holder has passed every other CPU, so nobody is ahead of it any more.
LEMMA HolderIsFirst == IInv => FirstComeFirstServed
<1> SUFFICES ASSUME IInv, NEW c \in CPU, pc[c] = "held", NEW d \in ahead[c] PROVE FALSE
  BY DEF FirstComeFirstServed
<1>1. d \in CPU /\ d # c /\ HasTicket(d) /\ Before(d, c)
  BY DEF IInv, ArrivalInv, TypeOK
<1>2. HasTicket(c) /\ Passed(c, d)
  BY <1>1 DEF HasTicket, Passed
<1>3. Before(c, d)
  BY <1>1, <1>2 DEF IInv, OrderInv, PairInv
<1> QED
  BY <1>1, <1>2, <1>3, Priorities DEF Before, IInv, TypeOK

\* Two holders would each have to precede the other.
LEMMA HoldersExclude == IInv => MutualExclusion
<1> SUFFICES ASSUME IInv, NEW c \in CPU, NEW d \in CPU,
                    pc[c] = "held", pc[d] = "held", c # d
             PROVE FALSE
  BY DEF MutualExclusion
<1>1. Before(c, d) /\ Before(d, c)
  BY DEF IInv, OrderInv, PairInv, HasTicket, Passed
<1> QED
  BY <1>1, Priorities DEF Before, HasTicket, IInv, TypeOK

\* The order between c and d depends on nothing else.
LEMMA PairFrame ==
  ASSUME NEW c \in CPU, NEW d \in CPU,
         pc'[c] = pc[c], they'[c] = they[c], my_ticket'[c] = my_ticket[c],
         their_ticket'[c] = their_ticket[c],
         pc'[d] = pc[d], they'[d] = they[d], my_ticket'[d] = my_ticket[d]
  PROVE  /\ Before(c, d) => Before(c, d)'
         /\ PairInv(c, d) => PairInv(c, d)'
  BY DEF Before, HasTicket, PairInv, Passed

-----------------------------------------------------------------------------
\* Each step preserves the order of the tickets.  A CPU that starts choosing
\* has scanned nobody yet, so it is behind every CPU that has a ticket.
LEMMA StartChoosingStep ==
  ASSUME IInv, NEW e \in CPU, StartChoosing(e)
  PROVE  WordInv' /\ OrderInv' /\ ArrivalInv'
<1> USE DEF IInv
<1>1. /\ pc[e] = "idle" /\ pc'[e] = "scan" /\ they'[e] = 0
      /\ lock_data'[e] = [choosing |-> TRUE, number |-> 0]
  <2>1. 0 % TicketMod = 0
    BY ModSmall, TicketModAssumption
  <2> QED
    BY <2>1 DEF StartChoosing, TypeOK, make_bakery_data
<1>2. \A d \in CPU \ {e} : /\ pc'[d] = pc[d] /\ they'[d] = they[d]
                           /\ my_ticket'[d] = my_ticket[d]
                           /\ lock_data'[d] = lock_data[d] /\ ahead'[d] = ahead[d]
  BY DEF StartChoosing, TypeOK
<1>3. their_ticket' = their_ticket /\ ahead'[e] = {d \in CPU : HasTicket(d)}
  BY DEF StartChoosing, TypeOK
<1>4. \A c \in CPU : HasTicket(c)' <=> HasTicket(c)
  BY <1>1, <1>2 DEF HasTicket
<1>5. \A c \in CPU : HasTicket(c) => c # e /\ Before(c, e)'
  BY <1>1, <1>2 DEF HasTicket, Before, CPU
<1>6. WordInv'
  BY <1>1, <1>2, <1>4 DEF WordInv, HasTicket
<1>7. OrderInv'
  <2> SUFFICES ASSUME NEW c \in CPU, NEW d \in CPU, c # d, HasTicket(c)
               PROVE  PairInv(c, d)'
    BY <1>4 DEF OrderInv
  <2>1. CASE d = e
    BY <2>1, <1>5 DEF PairInv
  <2>2. CASE d # e
    BY <2>2, <1>2, <1>3, <1>5, PairFrame DEF OrderInv
  <2> QED
    BY <2>1, <2>2
<1>8. ArrivalInv'
  <2>1. ASSUME NEW d \in CPU, d # e, NEW c \in ahead[d]
        PROVE  c # d /\ HasTicket(c)' /\ Before(c, d)'
    BY <2>1, <1>2, <1>3, <1>4, <1>5, PairFrame DEF ArrivalInv, TypeOK
  <2> QED
    BY <2>1, <1>1, <1>2, <1>3, <1>4, <1>5 DEF ArrivalInv
<1> QED
  BY <1>6, <1>7, <1>8

\* A scan that reads the word of a CPU with a ticket takes note of the ticket.
LEMMA ScanTicketStep ==
  ASSUME IInv, NEW e \in CPU, ScanTicket(e)
  PROVE  WordInv' /\ OrderInv' /\ ArrivalInv'
<1> USE DEF IInv
<1>1. /\ pc[e] = "scan" /\ they[e] \in CPU /\ they'[e] = they[e] + 1
      /\ pc'[e] = IF they[e] + 1 = N THEN "publish" ELSE "scan"
      /\ my_ticket[e] <= my_ticket'[e]
      /\ lock_data[they[e]].number <= my_ticket'[e]
  BY DEF ScanTicket, TypeOK, LoopInv
<1>2. /\ lock_data' = lock_data /\ ahead' = ahead /\ their_ticket' = their_ticket
      /\ \A d \in CPU \ {e} : /\ pc'[d] = pc[d] /\ they'[d] = they[d]
                              /\ my_ticket'[d] = my_ticket[d]
  BY DEF ScanTicket, TypeOK
<1>3. \A c \in CPU : HasTicket(c)' <=> HasTicket(c)
  BY <1>1, <1>2 DEF HasTicket
<1>4. ASSUME NEW c \in CPU, HasTicket(c)
      PROVE  c # e /\ (Before(c, e) => Before(c, e)')
  <2>0. lock_data[c] = [choosing |-> FALSE, number |-> my_ticket[c]]
    BY <1>4 DEF WordInv
  <2>1. c # e /\ my_ticket'[c] = my_ticket[c] /\ lock_data[c].number = my_ticket[c]
    BY <2>0, <1>1, <1>2, <1>4 DEF HasTicket
  <2>2. c \in Nat /\ they[e] \in Nat /\ c < N
    BY <1>1, NAssumption DEF CPU
  <2>3. my_ticket[c] \in Nat /\ my_ticket[e] \in Nat /\ my_ticket'[e] \in Nat
    BY DEF ScanTicket, TypeOK, LoopInv
  <2>4. CASE c = they[e]
    BY <2>1, <2>4, <1>1 DEF Before, HasTicket
  <2>5. CASE c # they[e]
    BY <2>1, <2>2, <2>3, <2>5, <1>1 DEF Before, HasTicket
  <2> QED
    BY <2>1, <2>4, <2>5
<1>5. WordInv'
  BY <1>1, <1>2, <1>3 DEF WordInv, HasTicket
<1>6. OrderInv'
  <2> SUFFICES ASSUME NEW c \in CPU, NEW d \in CPU, c # d, HasTicket(c)
               PROVE  PairInv(c, d)'
    BY <1>3 DEF OrderInv
  <2>1. c # e /\ PairInv(c, d)
    BY <1>4 DEF OrderInv
  <2>2. CASE d = e
    BY <2>1, <2>2, <1>1, <1>2, <1>3, <1>4 DEF PairInv, Passed, HasTicket
  <2>3. CASE d # e
    BY <2>1, <2>3, <1>2, PairFrame
  <2> QED
    BY <2>2, <2>3
<1>7. ArrivalInv'
  <2>1. ASSUME NEW d \in CPU, NEW c \in ahead[d]
        PROVE  c # d /\ HasTicket(c)' /\ Before(c, d)'
    <3>1. c \in CPU /\ c # d /\ HasTicket(c) /\ Before(c, d)
      BY DEF ArrivalInv, TypeOK
    <3> QED
      BY <3>1, <1>2, <1>3, <1>4, PairFrame
  <2> QED
    BY <2>1, <1>1, <1>2 DEF ArrivalInv
<1> QED
  BY <1>5, <1>6, <1>7

\* The ticket that is published is higher than all those that were seen.
LEMMA PublishTicketStep ==
  ASSUME IInv, NoTicketOverflow', NEW e \in CPU, PublishTicket(e)
  PROVE  WordInv' /\ OrderInv' /\ ArrivalInv'
<1> USE DEF IInv
<1>1. /\ pc[e] = "publish" /\ pc'[e] = "check" /\ they'[e] = 0
      /\ my_ticket'[e] = my_ticket[e] + 1 /\ my_ticket[e] \in Nat
  BY DEF PublishTicket, TypeOK
<1>2. lock_data'[e] = [choosing |-> FALSE, number |-> my_ticket'[e]]
  <2>1. (my_ticket[e] + 1) % TicketMod = my_ticket[e] + 1
    BY <1>1, ModSmall DEF NoTicketOverflow
  <2> QED
    BY <2>1, <1>1 DEF PublishTicket, TypeOK, make_bakery_data
<1>3. /\ ahead' = ahead /\ their_ticket' = their_ticket
      /\ \A d \in CPU \ {e} : /\ pc'[d] = pc[d] /\ they'[d] = they[d]
                              /\ my_ticket'[d] = my_ticket[d]
                              /\ lock_data'[d] = lock_data[d]
  BY DEF PublishTicket, TypeOK
<1>4. HasTicket(e)' /\ ~HasTicket(e) /\ \A c \in CPU \ {e} : HasTicket(c)' <=> HasTicket(c)
  BY <1>1, <1>3 DEF HasTicket
<1>5. ASSUME NEW c \in CPU, HasTicket(c)
      PROVE  c # e /\ (Before(c, e) => Before(c, e)')
  <2>1. c # e /\ my_ticket'[c] = my_ticket[c] /\ my_ticket[c] \in Nat
    BY <1>3, <1>4, <1>5 DEF TypeOK
  <2>2. my_ticket[c] <= my_ticket[e] =>
          bakery_get_priority(my_ticket'[c], c) < bakery_get_priority(my_ticket'[e], e)
    BY <2>1, <1>1, Priorities
  <2> QED
    BY <2>1, <2>2, <1>1 DEF Before
<1>6. WordInv'
  <2> SUFFICES ASSUME NEW c \in CPU
               PROVE  /\ pc'[c] \in {"idle", "sev"} =>
                           lock_data'[c] = [choosing |-> FALSE, number |-> 0]
                      /\ pc'[c] \in {"scan", "publish"} =>
                           lock_data'[c] = [choosing |-> TRUE, number |-> 0]
                      /\ HasTicket(c)' =>
                           /\ lock_data'[c] = [choosing |-> FALSE, number |-> my_ticket'[c]]
                           /\ my_ticket'[c] > 0
    BY DEF WordInv
  <2>1. CASE c = e
    BY <2>1, <1>1, <1>2
  <2>2. CASE c # e
    BY <2>2, <1>3, <1>4 DEF WordInv
  <2> QED
    BY <2>1, <2>2
<1>7. OrderInv'
  <2> SUFFICES ASSUME NEW c \in CPU, NEW d \in CPU, c # d, HasTicket(c)'
               PROVE  PairInv(c, d)'
    BY DEF OrderInv
  <2>1. CASE c = e
    BY <2>1, <1>1 DEF PairInv, Passed, CPU
  <2>2. CASE c # e /\ d = e
    <3>1. HasTicket(c) /\ PairInv(c, e)
      BY <2>2, <1>4 DEF OrderInv
    <3> QED
      BY <3>1, <2>2, <1>1, <1>3, <1>4, <1>5 DEF PairInv, Passed
  <2>3. CASE c # e /\ d # e
    BY <2>3, <1>3, <1>4, PairFrame DEF OrderInv
  <2> QED
    BY <2>1, <2>2, <2>3
<1>8. ArrivalInv'
  <2>1. ASSUME NEW d \in CPU, NEW c \in ahead[d]
        PROVE  c # d /\ HasTicket(c)' /\ Before(c, d)'
    <3>1. c \in CPU /\ c # d /\ HasTicket(c) /\ Before(c, d)
      BY DEF ArrivalInv, TypeOK
    <3> QED
      BY <3>1, <1>3, <1>4, <1>5, PairFrame
  <2> QED
    BY <2>1, <1>1, <1>3 DEF ArrivalInv
<1> QED
  BY <1>6, <1>7, <1>8

\* A step of a CPU that keeps its ticket and writes nothing shared can only
\* disturb what that CPU knows about the others.
LEMMA WaiterStep ==
  ASSUME IInv, NEW e \in CPU, HasTicket(e), HasTicket(e)',
         lock_data' = lock_data, my_ticket' = my_ticket, ahead' = ahead,
         \A d \in CPU \ {e} : /\ pc'[d] = pc[d] /\ they'[d] = they[d]
                              /\ their_ticket'[d] = their_ticket[d],
         \A d \in CPU \ {e} : (Before(e, d)' <=> Before(e, d)) => PairInv(e, d)'
  PROVE  WordInv' /\ OrderInv' /\ ArrivalInv'
<1> USE DEF IInv
<1>1. \A c \in CPU : HasTicket(c)' <=> HasTicket(c)
  BY DEF HasTicket
<1>2. \A c, d \in CPU : Before(c, d)' <=> Before(c, d)
  <2> SUFFICES ASSUME NEW c \in CPU, NEW d \in CPU
               PROVE  Before(c, d)' <=> Before(c, d)
    OBVIOUS
  <2>1. CASE d = e
    BY <2>1, <1>1 DEF Before, HasTicket
  <2>2. CASE d # e
    BY <2>2, <1>1 DEF Before
  <2> QED
    BY <2>1, <2>2
<1>3. WordInv'
  <2>1. \A c \in CPU : /\ pc'[c] \in {"idle", "sev"} => pc[c] \in {"idle", "sev"}
                       /\ pc'[c] \in {"scan", "publish"} => pc[c] \in {"scan", "publish"}
    BY DEF HasTicket
  <2> QED
    BY <2>1, <1>1 DEF WordInv
<1>4. OrderInv'
  <2> SUFFICES ASSUME NEW c \in CPU, NEW d \in CPU, c # d, HasTicket(c)
               PROVE  PairInv(c, d)'
    BY <1>1 DEF OrderInv
  <2>1. CASE c = e
    BY <2>1, <1>2
  <2>2. CASE c # e
    BY <2>2, <1>1, <1>2 DEF OrderInv, PairInv, Passed
  <2> QED
    BY <2>1, <2>2
<1>5. ArrivalInv'
  <2>1. \A c \in CPU : pc'[c] \in {"idle", "sev"} => pc[c] \in {"idle", "sev"}
    BY DEF HasTicket
  <2>2. ahead \in [CPU -> SUBSET CPU]
    BY DEF TypeOK
  <2> QED
    BY <2>1, <2>2, <1>1, <1>2 DEF ArrivalInv
<1> QED
  BY <1>3, <1>4, <1>5

\* What a read of the word of c tells.
LEMMA WordFields ==
  ASSUME TypeOK, WordInv, NEW c \in CPU
  PROVE  /\ pc[c] \in {"idle", "sev"} => ~lock_data[c].choosing /\ lock_data[c].number = 0
         /\ pc[c] \in {"scan", "publish"} => lock_data[c].choosing /\ lock_data[c].number = 0
         /\ HasTicket(c) => /\ ~lock_data[c].choosing /\ lock_data[c].number = my_ticket[c]
                            /\ lock_data[c].number # 0
<1>1. CASE pc[c] \in {"idle", "sev"}
  <2>1. lock_data[c] = [choosing |-> FALSE, number |-> 0]
    BY <1>1 DEF WordInv
  <2> QED
    BY <1>1, <2>1 DEF HasTicket
<1>2. CASE pc[c] \in {"scan", "publish"}
  <2>1. lock_data[c] = [choosing |-> TRUE, number |-> 0]
    BY <1>2 DEF WordInv
  <2> QED
    BY <1>2, <2>1 DEF HasTicket
<1>3. CASE HasTicket(c)
  <2>1. /\ lock_data[c] = [choosing |-> FALSE, number |-> my_ticket[c]]
        /\ my_ticket[c] > 0 /\ my_ticket[c] \in Nat
    BY <1>3 DEF WordInv, TypeOK
  <2> QED
    BY <1>3, <2>1 DEF HasTicket
<1> QED
  BY <1>1, <1>2, <1>3 DEF TypeOK, HasTicket

\* A contender is passed only when it does not contend or has a later ticket.
LEMMA CheckContenderStep ==
  ASSUME IInv, NEW e \in CPU, CheckContender(e)
  PROVE  WordInv' /\ OrderInv' /\ ArrivalInv'
<1> USE DEF IInv
<1>1. /\ pc[e] = "check" /\ they[e] \in CPU
      /\ lock_data' = lock_data /\ my_ticket' = my_ticket /\ ahead' = ahead
  BY DEF CheckContender, TypeOK, LoopInv
<1>2. \A d \in CPU \ {e} : /\ pc'[d] = pc[d] /\ they'[d] = they[d]
                           /\ their_ticket'[d] = their_ticket[d]
  BY DEF CheckContender, NextContender, TypeOK
<1>3. pc'[e] \in {"check", "held", "wfe"} /\ HasTicket(e) /\ HasTicket(e)'
  BY <1>1 DEF CheckContender, NextContender, TypeOK, HasTicket
<1>4. ASSUME NEW d \in CPU \ {e}, Before(e, d)' <=> Before(e, d)
      PROVE  PairInv(e, d)'
  <2>1. Passed(e, d) => Before(e, d)
    BY <1>3 DEF OrderInv, PairInv
  <2>2. CASE they[e] = e
    <3>1. /\ they'[e] = they[e] + 1
          /\ pc'[e] = IF they[e] + 1 = N THEN "held" ELSE "check"
      BY <2>2, <1>1 DEF CheckContender, NextContender, TypeOK
    <3>2. Passed(e, d)' => Passed(e, d)
      BY <3>1, <2>2, <1>1, NAssumption DEF Passed, CPU
    <3> QED
      BY <3>1, <3>2, <2>1, <1>4 DEF PairInv
  <2>3. CASE they[e] # e /\ pc'[e] = "wfe"
    <3>1. /\ their_ticket'[e] = lock_data[they[e]].number /\ they'[e] = they[e]
          /\ lock_data[they[e]].number # 0
      BY <2>3, <1>1 DEF CheckContender, NextContender, TypeOK
    <3>2. they[e] = d => HasTicket(d)' /\ my_ticket'[d] = their_ticket'[e]
      <4>1. they[e] = d => pc[d] \notin {"idle", "sev", "scan", "publish"}
        BY <3>1, WordFields
      <4>2. they[e] = d => HasTicket(d)
        BY <4>1 DEF HasTicket, TypeOK
      <4> QED
        BY <4>2, <3>1, <1>1, <1>2, WordFields DEF HasTicket
    <3>3. Passed(e, d)' => Passed(e, d)
      BY <3>1, <2>3, <1>1 DEF Passed
    <3> QED
      BY <3>1, <3>2, <3>3, <2>1, <1>4 DEF PairInv
  <2>4. CASE they[e] # e /\ pc'[e] # "wfe"
    <3> DEFINE t == lock_data[they[e]].number
    <3>1. /\ they'[e] = they[e] + 1
          /\ pc'[e] = IF they[e] + 1 = N THEN "held" ELSE "check"
          /\ ~lock_data[they[e]].choosing
          /\ t = 0 \/ ~(bakery_get_priority(t, they[e]) < bakery_get_priority(my_ticket[e], e))
      BY <2>4, <1>1 DEF CheckContender, NextContender, TypeOK
    <3>2. they[e] = d => Before(e, d)
      <4> HAVE they[e] = d
      <4>1. pc[d] \notin {"scan", "publish"}
        BY <3>1, WordFields
      <4>2. HasTicket(d) => t = my_ticket[d] /\ t # 0
        BY WordFields
      <4>3. HasTicket(d) => bakery_get_priority(my_ticket[e], e)
                              < bakery_get_priority(my_ticket[d], d)
        BY <4>2, <3>1, Priorities DEF TypeOK
      <4> QED
        BY <4>1, <4>3 DEF Before
    <3>3. Passed(e, d)' => Passed(e, d) \/ they[e] = d
      BY <3>1, <2>4, <1>1, NAssumption DEF Passed, CPU
    <3> QED
      BY <3>1, <3>2, <3>3, <2>1, <1>4 DEF PairInv
  <2> QED
    BY <2>2, <2>3, <2>4
<1> HIDE DEF IInv
<1> QED
  BY <1>1, <1>2, <1>3, <1>4, WaiterStep

\* Returning from wfe() changes nothing but the place in the code.
LEMMA WaitForEventStep ==
  ASSUME IInv, NEW e \in CPU, WaitForEvent(e)
  PROVE  WordInv' /\ OrderInv' /\ ArrivalInv'
<1>1. /\ pc[e] = "wfe" /\ pc'[e] = "recheck" /\ HasTicket(e) /\ HasTicket(e)'
      /\ lock_data' = lock_data /\ my_ticket' = my_ticket /\ ahead' = ahead
      /\ they' = they /\ their_ticket' = their_ticket
      /\ \A d \in CPU \ {e} : pc'[d] = pc[d]
  BY DEF WaitForEvent, IInv, TypeOK, HasTicket
<1>2. ASSUME NEW d \in CPU \ {e}, Before(e, d)' <=> Before(e, d)
      PROVE  PairInv(e, d)'
  <2>1. PairInv(e, d)
    BY <1>1 DEF IInv, OrderInv
  <2> QED
    BY <2>1, <1>1, <1>2 DEF PairInv, Passed, HasTicket
<1> QED
  BY <1>1, <1>2, WaiterStep

\* A CPU that is seen with another ticket than before has been through the
\* doorway again, and so has come back behind.
LEMMA RecheckTicketStep ==
  ASSUME IInv, NEW e \in CPU, RecheckTicket(e)
  PROVE  WordInv' /\ OrderInv' /\ ArrivalInv'
<1>1. /\ pc[e] = "recheck" /\ they[e] \in CPU
      /\ lock_data' = lock_data /\ my_ticket' = my_ticket /\ ahead' = ahead
      /\ their_ticket' = their_ticket
  BY DEF RecheckTicket, IInv, TypeOK, LoopInv
<1>2. \A d \in CPU \ {e} : pc'[d] = pc[d] /\ they'[d] = they[d]
  BY DEF RecheckTicket, NextContender, IInv, TypeOK
<1>3. pc'[e] \in {"check", "held", "wfe"} /\ HasTicket(e) /\ HasTicket(e)'
  BY <1>1 DEF RecheckTicket, NextContender, IInv, TypeOK, HasTicket
<1>4. ASSUME NEW d \in CPU \ {e}, Before(e, d)' <=> Before(e, d)
      PROVE  PairInv(e, d)'
  <2>1. PairInv(e, d)
    BY <1>3 DEF IInv, OrderInv
  <2>2. CASE pc'[e] = "wfe"
    <3>1. they'[e] = they[e]
      BY <2>2, <1>1 DEF RecheckTicket, NextContender, IInv, TypeOK
    <3> QED
      BY <3>1, <2>1, <2>2, <1>1, <1>2, <1>4 DEF PairInv, Passed, HasTicket
  <2>3. CASE pc'[e] # "wfe"
    <3>1. /\ they'[e] = they[e] + 1 /\ lock_data[they[e]].number # their_ticket[e]
          /\ pc'[e] = IF they[e] + 1 = N THEN "held" ELSE "check"
      BY <2>3, <1>1 DEF RecheckTicket, NextContender, IInv, TypeOK
    <3>2. they[e] = d => Before(e, d)
      BY <3>1, <2>1, <1>1, WordFields DEF PairInv, IInv
    <3>3. Passed(e, d)' => Passed(e, d) \/ they[e] = d
      BY <3>1, <1>1, NAssumption DEF Passed, CPU
    <3> QED
      BY <3>1, <3>2, <3>3, <2>1, <1>4 DEF PairInv
  <2> QED
    BY <2>2, <2>3
<1> QED
  BY <1>1, <1>2, <1>3, <1>4, WaiterStep

\* A release takes the CPU out of every order it was part of.
LEMMA ReleaseLockStep ==
  ASSUME IInv, NEW e \in CPU, ReleaseLock(e)
  PROVE  WordInv' /\ OrderInv' /\ ArrivalInv'
<1>1. /\ pc[e] = "held" /\ pc'[e] = "sev" /\ ahead[e] = {}
      /\ lock_data'[e] = [choosing |-> FALSE, number |-> 0]
      /\ \A d \in CPU : ahead'[d] = ahead[d] \ {e}
  BY HolderIsFirst DEF FirstComeFirstServed, ReleaseLock, IInv, TypeOK
<1>2. \A d \in CPU \ {e} : /\ pc'[d] = pc[d] /\ they'[d] = they[d]
                           /\ my_ticket'[d] = my_ticket[d]
                           /\ their_ticket'[d] = their_ticket[d]
                           /\ lock_data'[d] = lock_data[d]
  BY DEF ReleaseLock, IInv, TypeOK
<1>3. ~HasTicket(e)' /\ \A c \in CPU \ {e} : HasTicket(c)' <=> HasTicket(c)
  BY <1>1, <1>2 DEF HasTicket
<1>4. \A c \in CPU : Before(c, e)'
  BY <1>1, <1>3 DEF Before
<1>5. WordInv'
  <2>1. \A c \in CPU \ {e} : /\ pc'[c] = pc[c] /\ lock_data'[c] = lock_data[c]
                             /\ HasTicket(c)' = HasTicket(c) /\ my_ticket'[c] = my_ticket[c]
    BY <1>2, <1>3 DEF HasTicket
  <2> QED
    BY <2>1, <1>1, <1>3 DEF WordInv, IInv
<1>6. OrderInv'
  <2> SUFFICES ASSUME NEW c \in CPU, NEW d \in CPU, c # d, HasTicket(c)'
               PROVE  PairInv(c, d)'
    BY DEF OrderInv
  <2>1. c # e /\ PairInv(c, d)
    BY <1>3 DEF IInv, OrderInv
  <2>2. CASE d = e
    BY <2>2, <1>4 DEF PairInv
  <2>3. CASE d # e
    BY <2>1, <2>3, <1>2, PairFrame
  <2> QED
    BY <2>2, <2>3
<1>7. ArrivalInv'
  <2>1. ASSUME NEW d \in CPU, NEW c \in ahead[d], c # e
        PROVE  c # d /\ HasTicket(c)' /\ Before(c, d)'
    <3>1. c \in CPU /\ c # d /\ HasTicket(c) /\ Before(c, d)
      BY DEF IInv, ArrivalInv, TypeOK
    <3> QED
      BY <3>1, <2>1, <1>2, <1>3, <1>4, PairFrame
  <2> QED
    BY <2>1, <1>1, <1>2 DEF ArrivalInv, IInv
<1> QED
  BY <1>5, <1>6, <1>7

\* sev() only sets event registers.
LEMMA SignalEventStep ==
  ASSUME IInv, NEW e \in CPU, SignalEvent(e)
  PROVE  WordInv' /\ OrderInv' /\ ArrivalInv'
<1>1. /\ pc[e] = "sev" /\ pc'[e] = "idle" /\ \A d \in CPU \ {e} : pc'[d] = pc[d]
      /\ lock_data' = lock_data /\ my_ticket' = my_ticket /\ ahead' = ahead
      /\ they' = they /\ their_ticket' = their_ticket
  BY DEF SignalEvent, IInv, TypeOK
<1>2. \A c \in CPU : HasTicket(c)' <=> HasTicket(c)
  BY <1>1 DEF HasTicket
<1>3. \A c, d \in CPU : Before(c, d) => Before(c, d)'
  BY <1>1, <1>2 DEF Before
<1>4. WordInv'
  BY <1>1, <1>2 DEF WordInv, IInv
<1>5. OrderInv'
  BY <1>1, <1>2, <1>3 DEF OrderInv, PairInv, Passed, IInv, HasTicket
<1>6. ArrivalInv'
  <2>1. ahead \in [CPU -> SUBSET CPU]
    BY DEF IInv, TypeOK
  <2> QED
    BY <2>1, <1>1, <1>2, <1>3 DEF ArrivalInv, IInv
<1> QED
  BY <1>4, <1>5, <1>6

\* IInv is preserved by every step that hands out a ticket that fits.
LEMMA IInvStep == IInv /\ NoTicketOverflow' /\ [Next]_vars => IInv'
<1> SUFFICES ASSUME IInv, NoTicketOverflow', [Next]_vars PROVE IInv'
  OBVIOUS
<1>1. TypeOK' /\ LoopInv'
  BY TypeStep DEF IInv
<1>2. CASE UNCHANGED vars
  <2>1. WordInv'
    BY <1>2 DEF vars, IInv, WordInv, HasTicket
  <2>2. OrderInv'
    BY <1>2 DEF vars, IInv, OrderInv, PairInv, Passed, Before, HasTicket
  <2>3. ArrivalInv'
    BY <1>2 DEF vars, IInv, ArrivalInv, Before, HasTicket
  <2> QED
    BY <1>1, <2>1, <2>2, <2>3 DEF IInv
<1>3. CASE Next
  BY <1>1, <1>3, StartChoosingStep, ScanTicketStep, PublishTicketStep, CheckContenderStep,
     WaitForEventStep, RecheckTicketStep, ReleaseLockStep, SignalEventStep
     DEF Next, Step, IInv
<1> QED
  BY <1>2, <1>3

\* Initially nobody contends.
LEMMA IInvInit == Init => IInv
<1> SUFFICES ASSUME Init PROVE IInv
  OBVIOUS
<1>1. TypeOK
  BY LoopRange DEF Init, TypeOK, LoopInv
<1>2. \A c \in CPU : /\ pc[c] = "idle" /\ ahead[c] = {}
                     /\ lock_data[c] = [choosing |-> FALSE, number |-> 0]
  BY DEF Init
<1> QED
  BY <1>1, <1>2 DEF IInv, LoopInv, WordInv, OrderInv, ArrivalInv, HasTicket

\* Every variable keeps its type, and every loop index its range, for any
\* number of CPUs, whether or not tickets overflow.
THEOREM TypeCorrect == Spec => []TypeOK
<1>1. Init => TypeOK /\ LoopInv
  BY IInvInit DEF IInv
<1> QED
  BY <1>1, TypeStep, PTL DEF Spec

\* As long as tickets fit their 15 bits, at most one CPU owns the lock.
THEOREM LockIsExclusive == Spec /\ []NoTicketOverflow => []MutualExclusion
  BY IInvInit, IInvStep, HoldersExclude, PTL DEF Spec

\* As long as tickets fit their 15 bits, CPUs are served in order of arrival.
THEOREM LockIsFair == Spec /\ []NoTicketOverflow => []FirstComeFirstServed
  BY IInvInit, IInvStep, HolderIsFirst, PTL DEF Spec

-----------------------------------------------------------------------------
\* A step that changes the place of one CPU changes only its abstract status.
LEMMA StatusStep ==
  ASSUME NEW e \in CPU, \A d \in CPU \ {e} : pc'[d] = pc[d]
  PROVE  lockStatus' = [lockStatus EXCEPT ![e] = StatusAt(pc'[e])]
  BY DEF lockStatus

\* Every step of the bakery lock is a step of FcfsLock or invisible.
LEMMA StepImplements == IInv /\ IInv' /\ [Next]_vars => [Fcfs!Next]_(Fcfs!vars)
<1> SUFFICES ASSUME IInv, IInv', [Next]_vars PROVE [Fcfs!Next]_(Fcfs!vars)
  OBVIOUS
<1>1. ASSUME NEW e \in CPU, StartChoosing(e) PROVE Fcfs!Enter(e)
  <2>1. pc[e] = "idle" /\ pc'[e] = "scan" /\ \A d \in CPU \ {e} : pc'[d] = pc[d]
    BY <1>1 DEF StartChoosing, IInv, TypeOK
  <2>2. lockStatus[e] = "out" /\ lockStatus' = [lockStatus EXCEPT ![e] = "doorway"]
    BY <2>1, StatusStep DEF lockStatus, StatusAt
  <2>3. {d \in CPU : HasTicket(d)} = {d \in CPU : lockStatus[d] \in {"waiting", "holding"}}
    BY DEF HasTicket, lockStatus, StatusAt, IInv, TypeOK
  <2> QED
    BY <1>1, <2>2, <2>3 DEF StartChoosing, Fcfs!Enter
<1>2. ASSUME NEW e \in CPU, PublishTicket(e) PROVE Fcfs!Queue(e)
  <2>1. pc[e] = "publish" /\ pc'[e] = "check" /\ \A d \in CPU \ {e} : pc'[d] = pc[d]
    BY <1>2 DEF PublishTicket, IInv, TypeOK
  <2>2. lockStatus[e] = "doorway" /\ lockStatus' = [lockStatus EXCEPT ![e] = "waiting"]
    BY <2>1, StatusStep DEF lockStatus, StatusAt
  <2> QED
    BY <1>2, <2>2 DEF PublishTicket, Fcfs!Queue
<1>3. ASSUME NEW e \in CPU, pc[e] \in {"check", "wfe", "recheck"}, ahead' = ahead,
             pc'[e] \in {"held", "check", "wfe", "recheck"},
             \A d \in CPU \ {e} : pc'[d] = pc[d]
      PROVE  Fcfs!Grant(e) \/ UNCHANGED Fcfs!vars
  <2>1. lockStatus[e] = "waiting" /\ lockStatus' = [lockStatus EXCEPT ![e] = StatusAt(pc'[e])]
    BY <1>3, StatusStep DEF lockStatus, StatusAt
  <2>2. CASE pc'[e] = "held"
    <3>1. FirstComeFirstServed' /\ MutualExclusion'
      BY HolderIsFirst, HoldersExclude, PTL
    <3>2. ahead[e] = {} /\ \A d \in CPU : pc[d] # "held"
      BY <3>1, <2>2, <1>3 DEF FirstComeFirstServed, MutualExclusion
    <3>3. \A d \in CPU : lockStatus[d] # "holding"
      BY <3>2 DEF lockStatus, StatusAt, IInv, TypeOK
    <3> QED
      BY <2>1, <2>2, <3>2, <3>3, <1>3 DEF Fcfs!Grant, StatusAt
  <2>3. CASE pc'[e] # "held"
    <3>1. lockStatus' = lockStatus
      BY <2>1, <2>3, <1>3 DEF StatusAt, lockStatus
    <3> QED
      BY <3>1, <1>3 DEF Fcfs!vars
  <2> QED
    BY <2>2, <2>3
<1>4. ASSUME NEW e \in CPU, ReleaseLock(e) PROVE Fcfs!Release(e)
  <2>1. pc[e] = "held" /\ pc'[e] = "sev" /\ \A d \in CPU \ {e} : pc'[d] = pc[d]
    BY <1>4 DEF ReleaseLock, IInv, TypeOK
  <2>2. lockStatus[e] = "holding" /\ lockStatus' = [lockStatus EXCEPT ![e] = "out"]
    BY <2>1, StatusStep DEF lockStatus, StatusAt
  <2> QED
    BY <1>4, <2>2 DEF ReleaseLock, Fcfs!Release
<1>5. ASSUME NEW e \in CPU, ScanTicket(e) \/ SignalEvent(e) PROVE UNCHANGED Fcfs!vars
  <2>1. /\ \A d \in CPU \ {e} : pc'[d] = pc[d]
        /\ StatusAt(pc'[e]) = StatusAt(pc[e]) /\ ahead' = ahead
    BY <1>5 DEF ScanTicket, SignalEvent, StatusAt, IInv, TypeOK
  <2> QED
    BY <2>1, StatusStep DEF lockStatus, Fcfs!vars
<1>6. ASSUME NEW e \in CPU, CheckContender(e) \/ WaitForEvent(e) \/ RecheckTicket(e)
      PROVE  Fcfs!Grant(e) \/ UNCHANGED Fcfs!vars
  BY <1>3, <1>6 DEF CheckContender, WaitForEvent, RecheckTicket, NextContender, IInv, TypeOK
<1>7. CASE UNCHANGED vars
  BY <1>7 DEF vars, lockStatus, Fcfs!vars
<1> QED
  BY <1>1, <1>2, <1>4, <1>5, <1>6, <1>7 DEF Next, Step, Fcfs!Next

\* As long as tickets fit their 15 bits, the bakery lock implements the
\* first-come-first-served lock its callers rely on.
THEOREM BakeryImplementsFcfs == Spec /\ []NoTicketOverflow => ImplementsFcfsLock
<1>1. Init => Fcfs!Init
  BY DEF Init, Fcfs!Init, lockStatus, StatusAt
<1> QED
  BY <1>1, IInvInit, IInvStep, StepImplements, PTL DEF Spec, ImplementsFcfsLock, Fcfs!Spec
=============================================================================
