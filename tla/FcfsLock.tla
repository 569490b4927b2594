------------------------------ MODULE FcfsLock ------------------------------
(***************************************************************************)
(* What bakery_lock_get()/bakery_lock_release() promise their callers: at  *)
(* most one CPU holds the lock, and CPUs are served first come, first      *)
(* served.  A CPU enters the doorway, leaves it as a waiter, and is        *)
(* granted the lock once nobody holds it and every CPU that was already    *)
(* waiting (or holding) when it entered the doorway has released it.       *)
(***************************************************************************)
CONSTANT CPU                     \* the CPUs that contend for the lock

VARIABLES status,                \* where each CPU stands with the lock
          ahead                  \* ahead[c]: CPUs to be served before c

vars == <<status, ahead>>

TypeOK == /\ status \in [CPU -> {"out", "doorway", "waiting", "holding"}]
          /\ ahead \in [CPU -> SUBSET CPU]

Init == /\ status = [c \in CPU |-> "out"]
        /\ ahead = [c \in CPU |-> {}]

Enter(c) == /\ status[c] = "out"
            /\ status' = [status EXCEPT ![c] = "doorway"]
            /\ ahead' = [ahead EXCEPT ![c] =
                           {d \in CPU : status[d] \in {"waiting", "holding"}}]

Queue(c) == /\ status[c] = "doorway"
            /\ status' = [status EXCEPT ![c] = "waiting"]
            /\ UNCHANGED ahead

Grant(c) == /\ status[c] = "waiting"
            /\ ahead[c] = {}
            /\ \A d \in CPU : status[d] # "holding"
            /\ status' = [status EXCEPT ![c] = "holding"]
            /\ UNCHANGED ahead

Release(c) == /\ status[c] = "holding"
              /\ status' = [status EXCEPT ![c] = "out"]
              /\ ahead' = [d \in CPU |-> ahead[d] \ {c}]

Next == \E c \in CPU : Enter(c) \/ Queue(c) \/ Grant(c) \/ Release(c)

Spec == Init /\ [][Next]_vars
=============================================================================
