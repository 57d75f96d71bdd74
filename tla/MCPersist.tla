----------------------------- MODULE MCPersist -----------------------------
(* Clients, keys and commands for Persist.tla.                             *)
EXTENDS Persist

CONSTANTS ann, bob, k1, k2, v1, v2, v3, v4, v5

MCOrder == <<k1, k2>>
\* Since the last save, v2 was pushed to k1, and v5 to k2 that was empty.
MCInitSaved == [k \in {k1, k2} |-> IF k = k1 THEN <<v1>> ELSE <<>>]
MCInitList == [k \in {k1, k2} |-> IF k = k1 THEN <<v1, v2>> ELSE <<v5>>]

PushOf(op, k, v) == [op |-> op, key |-> k, val |-> v, i |-> 0]
Take(op, k, i) == [op |-> op, key |-> k, val |-> v1, i |-> i]

MCMaxCommands == [c \in {ann, bob} |-> IF c = ann THEN 2 ELSE 1]

\* Both push to k1 and take from it; bob also empties k2.
MCWork == [c \in {ann, bob} |->
    IF c = ann THEN {PushOf("lpush", k1, v3), PushOf("rpush", k1, v3), Take("lpop", k1, 0)}
    ELSE {PushOf("lpush", k1, v4), Take("rpop", k2, 0), Take("lerase", k1, -1)}]
=============================================================================
