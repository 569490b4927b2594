------------------------------- MODULE MCPsci -------------------------------
(***************************************************************************)
(* Small power domain trees for Psci: clusters of CPUs under one system    *)
(* domain.                                                                 *)
(***************************************************************************)
EXTENDS Psci

\* Two clusters, of two CPUs and of one.
MCTree == [c \in {"c0", "c1", "c2"} |->
             [l \in 1..2 |-> IF l = 2 THEN "system" ELSE IF c = "c2" THEN "cluster1" ELSE "cluster0"]]

\* One cluster of two CPUs: devkit_e7.
MCPair == [c \in {"c0", "c1"} |-> [l \in 1..2 |-> IF l = 2 THEN "system" ELSE "cluster0"]]

\* Every state a platform could define, and the few that tell the levels apart:
\* power-down of the CPU, the cluster or the system, retention of the cluster.
MCAllStates == [0..2 -> 0..2]
MCSomeStates == {[l \in 0..2 |-> IF l <= top THEN 2 ELSE 0] : top \in 0..2}
                  \cup {[l \in 0..2 |-> IF l <= 1 THEN 1 ELSE 0]}
=============================================================================
