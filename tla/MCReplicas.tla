----------------------------- MODULE MCReplicas -----------------------------
(* Clients, keys and commands for Replicas.tla.                            *)
EXTENDS Replicas

CONSTANTS ann, bob, k1, k2

MCHome == [c \in {ann, bob} |-> IF c = ann THEN 0 ELSE 1]
MCLevel == [c \in {ann, bob} |-> IF c = ann THEN 0 ELSE 1]

Make(k, r) == [op |-> "make", key |-> k, r |-> r]
Del(k) == [op |-> "del", key |-> k, r |-> 0]
MCWrites == [c \in {ann, bob} |->
    IF c = ann THEN {Make(k1, 0), Del(k1)} ELSE {Make(k1, 0), Make(k2, 1)}]

\* Two servers may get a command early, three only when all is set up.
MCMaxCalls == [n \in {2, 3} |-> 2]
MCMaxEarly == [n \in {2, 3} |-> IF n = 2 THEN 1 ELSE 0]
=============================================================================
