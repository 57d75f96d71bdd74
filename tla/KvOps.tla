------------------------------- MODULE KvOps -------------------------------
(***************************************************************************)
(* Commands and answers, as far as the key table (HashTable.tla) and the   *)
(* map it implements (KvMap.tla) have them in common.                      *)
(***************************************************************************)
EXTENDS Integers, Sequences, FiniteSets

CONSTANTS
    Clients,      \* connections, each with one command under way
    Keys,
    Level,        \* authority of each client
    Work,         \* commands each client may send
    MaxCommands,  \* bound: commands per client
    Buckets,
    Bucket,       \* hash_func: the bucket of each key
    InitChain,    \* the keys that are in each bucket at first, in order
    InitLevel,    \* authority of the client that made them
    Serial,       \* commands of two clients do not clash: see HashTable!Clash
    NULL

Ops == {"get", "make", "del", "expire", "authr", "authw", "lpush"}

\* r and w are the authorities given to make, authr and authw; expire gives the
\* key 0 seconds.
Commands == [op : Ops, key : Keys, r : Nat, w : Nat]

\* A command that its handler does not refuse for its own arguments.
Sendable(c, m) ==
    /\ m \in Commands
    /\ m.op = "make" => m.r <= m.w /\ m.w <= Level[c]
    /\ m.op = "authr" => m.r <= Level[c]
    /\ m.op = "authw" => m.w <= Level[c]

InitKeys == UNION {{InitChain[b][i] : i \in DOMAIN InitChain[b]} : b \in Buckets}

\* A node, value object or list element is named after the command that
\* allocates it, those that are there at first after their key.
Ids == (Clients \X (1..MaxCommands)) \union (InitKeys \X {0})

Answers == [msg : {"none", "ok", "nokey", "perm", "data"}, val : Ids \union {NULL},
            elems : SUBSET Ids]

Plain(msg) == [msg |-> msg, val |-> NULL, elems |-> {}]

\* kv::set_authr and kv::set_authw
SetAuthr(n, r) == [n EXCEPT !.authr = r, !.authw = IF r > @ THEN r ELSE @]
SetAuthw(n, w) == [n EXCEPT !.authw = w, !.authr = IF @ > w THEN w ELSE @]

\* The commands that ask whether the key has expired.
AsksExpiry == {"get", "lpush", "expire"}

ASSUME ClientAssumption == /\ Level \in [Clients -> Nat]
                           /\ InitLevel \in Nat /\ Serial \in BOOLEAN
                           /\ MaxCommands \in Nat
                           /\ IsFiniteSet(Clients) /\ Clients \intersect Keys = {}
                           /\ \A c \in Clients : \A m \in Work[c] : Sendable(c, m)
ASSUME TableAssumption  == /\ Bucket \in [Keys -> Buckets] /\ IsFiniteSet(Keys)
                           /\ InitChain \in [Buckets -> Seq(Keys)]
                           /\ \A b \in Buckets : \A i, j \in DOMAIN InitChain[b] :
                                /\ Bucket[InitChain[b][i]] = b
                                /\ InitChain[b][i] = InitChain[b][j] => i = j
=============================================================================
