---------------------------- MODULE MCHashTable ----------------------------
(* Clients, keys and commands for HashTable.tla.                           *)
EXTENDS HashTable

CONSTANTS ann, bob, k1, k2, k3

\* k1 and k2 share bucket 0; k3 is alone in bucket 1.
MCBucket == [k \in {k1, k2, k3} |-> IF k = k3 THEN 1 ELSE 0]

Do(op, k) == [op |-> op, key |-> k, r |-> 0, w |-> 0]
MakeAs(k, r, w) == [op |-> "make", key |-> k, r |-> r, w |-> w]
Auths(k, x) == {[op |-> o, key |-> k, r |-> x, w |-> x] : o \in {"authr", "authw"}}

Empty == [x \in {0, 1} |-> <<>>]
BothIn0 == [Empty EXCEPT ![0] = <<k1, k2>>]
OnlyK2 == [Empty EXCEPT ![0] = <<k2>>]

Low == [x \in Clients |-> 0]
High == [x \in Clients |-> 1]
AnnHigh == [x \in Clients |-> IF x = ann THEN 1 ELSE 0]

\* ann inserts into both buckets and goes on with k1, in front of k2, while bob
\* reads, overwrites, pushes to and changes the authorities of k2; both delete.
Both(k) == {Do(o, k) : o \in {"get", "lpush", "del", "expire"}}
SharedWork == [x \in Clients |->
    IF x = ann THEN {MakeAs(k1, 0, 0), MakeAs(k1, 1, 1), MakeAs(k3, 0, 0)} \union Both(k1)
    ELSE Auths(k2, 0) \union {MakeAs(k2, 0, 1)} \union Both(k2)]

\* ann and bob delete and change k1 under each other's hands, while both overwrite
\* k3, which is in another bucket.
Replace(k) == {MakeAs(k, 1, 1), MakeAs(k, 0, 0)}
DeletesWork == [x \in Clients |->
    {Do("del", k1), Do("expire", k1)} \union Replace(k3) \union
    IF x = ann THEN {Do("authw", k1), Do("get", k1), Do("lpush", k1)}
    ELSE {[op |-> "authr", key |-> k1, r |-> 1, w |-> 1], Do("get", k2)}]

\* The races.
LostWork == [x \in Clients |-> IF x = ann THEN {MakeAs(k1, 0, 0)} ELSE {MakeAs(k2, 0, 0)}]
SeizeWork  == [x \in Clients |-> IF x = ann THEN {MakeAs(k1, 0, 1)} ELSE {MakeAs(k1, 0, 0)}]
=============================================================================
