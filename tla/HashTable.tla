----------------------------- MODULE HashTable -----------------------------
(***************************************************************************)
(* The key table of hash.cpp while several command threads use it: every   *)
(* connection has one command under way (scan_and_send runs it in a thread *)
(* of its own, and a client waits for the answer before it sends the next) *)
(* and a step is one access of that thread to shared memory.               *)
(*                                                                         *)
(* The table is an array of doubly linked chains without any lock; each    *)
(* node has a mutex, which a command takes after its checks and drops with *)
(* its last write.  Memory is never used twice; reading, writing or locking*)
(* memory that was freed, or going through a null pointer, ends the run    *)
(* with a fault.  (Hash::del unlocks the mutex of the node it has just     *)
(* freed; since nothing else gets that memory here, it finds its mutex.)   *)
(***************************************************************************)
EXTENDS KvOps

VARIABLES
    head,    \* h[index]
    size,    \* size[index]
    node,    \* the nodes that were allocated
    lock,    \* the client that holds the mutex of a node
    freed,   \* the nodes that were deleted
    obj,     \* the elements of the value objects
    th,      \* the thread of each client: where it is, and its locals
    kept,    \* history: the keys some make was answered OK for
    fault    \* what ended the run

vars == <<head, size, node, lock, freed, obj, th, kept, fault>>

Node == [key : Keys, val : Ids, authr : Nat, authw : Nat, expired : BOOLEAN,
         next : Ids \union {NULL}, prev : Ids \union {NULL}]

\* A null pointer is no node, and nobody's command.
ASSUME NullAssumption == NULL \notin Ids \union Clients \union Commands \union Node

Places == {"idle", "enter", "walk", "fresh", "take", "auth", "read", "show",
           "lock", "setv", "setr", "fixw", "setw", "fixr", "expire", "load", "push",
           "test", "link", "back", "publish", "count", "inc",
           "unprev", "unhook", "free", "size", "dec"}

Thread == [pc : Places,
           stage : {"check", "set", "del"},  \* who walks: the handler, Hash::set, Hash::del
           cmd : Commands \union {NULL},
           n : 0..MaxCommands,               \* commands sent
           cur : Ids \union {NULL},          \* node
           got : Ids \union {NULL},          \* v.data_addr
           seen : SUBSET Ids,                \* the list as read by push_front
           reg : Int,                        \* size[index] as read by ++ and --
           ans : Answers]

TypeOK ==
    /\ head \in [Buckets -> Ids \union {NULL}]
    /\ size \in [Buckets -> Int]
    /\ node \in [Ids -> Node \union {NULL}]
    /\ lock \in [Ids -> Clients \union {NULL}]
    /\ freed \subseteq Ids
    /\ obj \in [Ids -> SUBSET Ids]
    /\ th \in [Clients -> Thread]
    /\ kept \subseteq Keys
    /\ fault \in {"none", "null", "freed"}

-----------------------------------------------------------------------------
(* Where a thread is                                                       *)

Cmd(c) == th[c].cmd
Key(c) == Cmd(c).key
Slot(c) == Bucket[Key(c)]
Cur(c) == th[c].cur
Me(c) == <<c, th[c].n>>

\* The nodes that find_node can come to in bucket b.
Chain(b) ==
    LET reach[i \in 0..Cardinality(Ids)] ==
            IF i = 0 THEN {head[b]} \ {NULL}
            ELSE (UNION {{x, node[x].next} : x \in reach[i-1]}) \ {NULL}
    IN  reach[Cardinality(Ids)]

NodesOf(k) == {i \in Chain(Bucket[k]) : node[i].key = k}
Found(k) == NodesOf(k) # {}

Goto(c, pc) == th' = [th EXCEPT ![c].pc = pc]

\* The next access of c is its last one: the command is answered.
Finish(c, ans) ==
    /\ th' = [th EXCEPT ![c].pc = "idle", ![c].stage = "check", ![c].cur = NULL,
                        ![c].got = NULL, ![c].seen = {}, ![c].reg = 0, ![c].ans = ans]
    /\ kept' = IF Cmd(c).op = "make" /\ ans.msg = "ok" THEN kept \union {Key(c)} ELSE kept

\* The nodes that the next access of c goes to.
Touched(c) ==
    LET p == th[c].pc IN
    CASE p \in {"fresh", "take", "auth", "read", "lock", "setv", "setr", "fixw",
                "setw", "fixr", "expire", "free"} -> {Cur(c)}
      [] p = "walk" /\ Cur(c) # NULL -> {Cur(c)}
      [] p = "walk" /\ Cur(c) = NULL /\ th[c].stage = "del" -> {NULL}
      [] p = "back" -> {head[Slot(c)]}
      [] p = "unprev" /\ Cur(c) \notin freed -> {Cur(c), node[Cur(c)].next} \ {NULL}
      [] p = "unhook" /\ Cur(c) \notin freed -> {Cur(c), node[Cur(c)].prev} \ {NULL}
      [] p \in {"unprev", "unhook"} /\ Cur(c) \in freed -> {Cur(c)}
      [] OTHER -> {}

\* The value objects that were deleted, each with the node that held it.
FreedValues == {node[i].val : i \in freed}

Strays(c) == \/ Touched(c) \intersect (freed \union {NULL}) # {}
             \/ th[c].pc \in {"show", "load", "push"} /\ th[c].got \in FreedValues

Crash(c) ==
    /\ Strays(c)
    /\ fault' = IF NULL \in Touched(c) THEN "null" ELSE "freed"
    /\ UNCHANGED <<head, size, node, lock, freed, obj, th, kept>>

-----------------------------------------------------------------------------
(* A command arrives; find_node                                            *)

\* A command that may delete a node, or make another one delete it.
Deletes(m) == m.op \in {"del", "expire"} \/ \E i \in NodesOf(m.key) : node[i].expired

\* A command that gives the table a new node.
Inserts(m) == m.op = "make" /\ ~Found(m.key)

\* The command that d has under way and m must not overlap.
Clash(m, d) ==
    \/ Deletes(m) \/ Deletes(Cmd(d)) \/ th[d].stage = "del"
    \/ Inserts(m) /\ Slot(d) = Bucket[m.key] /\ (Inserts(Cmd(d)) \/ th[d].pc \in {"count", "inc"})

Call(c) ==
    /\ th[c].pc = "idle"
    /\ th[c].n < MaxCommands
    /\ \E m \in Work[c] :
         /\ Serial => \A d \in Clients \ {c} : th[d].pc # "idle" => ~Clash(m, d)
         /\ th' = [th EXCEPT ![c].pc = "enter", ![c].cmd = m, ![c].n = @ + 1, ![c].ans = Plain("none")]
    /\ UNCHANGED <<head, size, node, lock, freed, obj, kept>>

Enter(c) ==
    /\ th[c].pc = "enter"
    /\ th' = [th EXCEPT ![c].pc = "walk", ![c].cur = head[Slot(c)]]
    /\ UNCHANGED <<head, size, node, lock, freed, obj, kept>>

\* The end of the chain: make goes on to Hash::set, which walks again and then
\* allocates a node, locked from the start, with a null next and prev.
WalkEnd(c) ==
    /\ th[c].pc = "walk" /\ Cur(c) = NULL
    /\ CASE th[c].stage = "check" /\ Cmd(c).op = "make" ->
              /\ th' = [th EXCEPT ![c].pc = "enter", ![c].stage = "set"]
              /\ UNCHANGED <<node, lock, kept>>
         [] th[c].stage = "check" /\ Cmd(c).op # "make" ->
              Finish(c, Plain("nokey")) /\ UNCHANGED <<node, lock>>
         [] th[c].stage = "set" ->
              /\ node' = [node EXCEPT ![Me(c)] =
                            [key |-> Key(c), val |-> Me(c), authr |-> Cmd(c).r,
                             authw |-> Cmd(c).w, expired |-> FALSE,
                             next |-> NULL, prev |-> NULL]]
              /\ lock' = [lock EXCEPT ![Me(c)] = c]
              /\ th' = [th EXCEPT ![c].pc = "test", ![c].cur = Me(c)]
              /\ UNCHANGED kept
    /\ UNCHANGED <<head, size, freed, obj>>

Walk(c) ==
    /\ th[c].pc = "walk" /\ Cur(c) # NULL
    /\ IF node[Cur(c)].key # Key(c)
       THEN th' = [th EXCEPT ![c].cur = node[@].next]
       ELSE Goto(c, IF th[c].stage # "check" THEN "lock"
                    ELSE IF Cmd(c).op \in AsksExpiry THEN "fresh" ELSE "auth")
    /\ UNCHANGED <<head, size, node, lock, freed, obj, kept>>

-----------------------------------------------------------------------------
(* The checks of the handlers                                              *)

\* Mutant: an expired key is not deleted.
FreshLazy(c) ==
    /\ th[c].pc = "fresh"
    /\ IF node[Cur(c)].expired
       THEN Finish(c, Plain("nokey"))
       ELSE /\ Goto(c, IF Cmd(c).op = "lpush" THEN "take" ELSE "auth")
            /\ UNCHANGED kept
    /\ UNCHANGED <<head, size, node, lock, freed, obj>>

Fresh(c) ==
    /\ th[c].pc = "fresh"
    /\ IF node[Cur(c)].expired
       THEN th' = [th EXCEPT ![c].pc = "enter", ![c].stage = "del"]
       ELSE Goto(c, IF Cmd(c).op = "lpush" THEN "take" ELSE "auth")
    /\ UNCHANGED <<head, size, node, lock, freed, obj, kept>>

\* lpush takes the list before it asks for the authority and locks the node.
TakeList(c) ==
    /\ th[c].pc = "take"
    /\ th' = [th EXCEPT ![c].pc = "auth", ![c].got = node[Cur(c)].val]
    /\ UNCHANGED <<head, size, node, lock, freed, obj, kept>>

Permitted(c) ==
    Level[c] >= IF Cmd(c).op = "get" THEN node[Cur(c)].authr ELSE node[Cur(c)].authw

\* make and del walk again, in Hash::set and Hash::del.
Check(c) ==
    /\ th[c].pc = "auth"
    /\ \/ ~Permitted(c) /\ Finish(c, Plain("perm"))
       \/ /\ Permitted(c)
          /\ \/ Cmd(c).op = "get" /\ Goto(c, "read")
             \/ Cmd(c).op \notin {"get", "make", "del"} /\ Goto(c, "lock")
             \/ /\ Cmd(c).op \in {"make", "del"}
                /\ th' = [th EXCEPT ![c].pc = "enter",
                                    ![c].stage = IF Cmd(c).op = "make" THEN "set" ELSE "del"]
          /\ UNCHANGED kept
    /\ UNCHANGED <<head, size, node, lock, freed, obj>>

\* data_decode(node->get_v()), without the mutex
Read(c) ==
    /\ th[c].pc = "read"
    /\ th' = [th EXCEPT ![c].pc = "show", ![c].got = node[Cur(c)].val]
    /\ UNCHANGED <<head, size, node, lock, freed, obj, kept>>

Show(c) ==
    /\ th[c].pc = "show"
    /\ Finish(c, [msg |-> "data", val |-> th[c].got, elems |-> obj[th[c].got]])
    /\ UNCHANGED <<head, size, node, lock, freed, obj>>

-----------------------------------------------------------------------------
(* Under the mutex of a node                                               *)

AfterLock(c) ==
    CASE th[c].stage = "set" -> "setv"
      [] th[c].stage = "del" -> "unprev"
      [] th[c].stage = "check" -> CASE Cmd(c).op = "lpush" -> "load"
                                    [] Cmd(c).op = "authr" -> "setr"
                                    [] Cmd(c).op = "authw" -> "setw"
                                    [] OTHER -> "expire"

\* Mutant: the mutex is not waited for.
LockFree(c) ==
    /\ th[c].pc = "lock"
    /\ lock' = [lock EXCEPT ![Cur(c)] = c]
    /\ Goto(c, AfterLock(c))
    /\ UNCHANGED <<head, size, node, freed, obj, kept>>

Lock(c) ==
    /\ th[c].pc = "lock"
    /\ lock[Cur(c)] = NULL
    /\ lock' = [lock EXCEPT ![Cur(c)] = c]
    /\ Goto(c, AfterLock(c))
    /\ UNCHANGED <<head, size, node, freed, obj, kept>>

Unlock(c) == lock' = [lock EXCEPT ![Cur(c)] = NULL]

\* An authority that is out of order is given the value of the other one.
Ordered(n, which, x) == IF n.authr > n.authw THEN [n EXCEPT ![which] = x] ELSE n

\* Hash::set on an existing node; the old value object is not freed.
SetV(c) ==
    /\ th[c].pc = "setv"
    /\ node' = [node EXCEPT ![Cur(c)].val = Me(c)]
    /\ Goto(c, "setr")
    /\ UNCHANGED <<head, size, lock, freed, obj, kept>>

\* Mutant: off by one.
SetRLow(c) ==
    /\ th[c].pc = "setr"
    /\ node' = [node EXCEPT ![Cur(c)].authr = Cmd(c).r - 1]
    /\ Goto(c, "fixw")
    /\ UNCHANGED <<head, size, lock, freed, obj, kept>>

\* kv::set_authr, for make and authr, ...
SetR(c) ==
    /\ th[c].pc = "setr"
    /\ node' = [node EXCEPT ![Cur(c)].authr = Cmd(c).r]
    /\ Goto(c, "fixw")
    /\ UNCHANGED <<head, size, lock, freed, obj, kept>>

FixW(c) ==
    /\ th[c].pc = "fixw"
    /\ node' = [node EXCEPT ![Cur(c)] = Ordered(@, "authw", @.authr)]
    /\ \/ Cmd(c).op = "make" /\ Goto(c, "setw") /\ UNCHANGED <<lock, kept>>
       \/ Cmd(c).op = "authr" /\ Unlock(c) /\ Finish(c, Plain("ok"))
    /\ UNCHANGED <<head, size, freed, obj>>

\* ... and kv::set_authw, for make and authw.
SetW(c) ==
    /\ th[c].pc = "setw"
    /\ node' = [node EXCEPT ![Cur(c)].authw = Cmd(c).w]
    /\ Goto(c, "fixr")
    /\ UNCHANGED <<head, size, lock, freed, obj, kept>>

FixR(c) ==
    /\ th[c].pc = "fixr"
    /\ node' = [node EXCEPT ![Cur(c)] = Ordered(@, "authr", @.authw)]
    /\ Unlock(c)
    /\ Finish(c, Plain("ok"))
    /\ UNCHANGED <<head, size, freed, obj>>

Expire(c) ==
    /\ th[c].pc = "expire"
    /\ node' = [node EXCEPT ![Cur(c)].expired = TRUE]
    /\ Unlock(c)
    /\ Finish(c, Plain("ok"))
    /\ UNCHANGED <<head, size, freed, obj>>

\* push_front: reads the links of the list, then writes them.
Load(c) ==
    /\ th[c].pc = "load"
    /\ th' = [th EXCEPT ![c].pc = "push", ![c].seen = obj[th[c].got]]
    /\ UNCHANGED <<head, size, node, lock, freed, obj, kept>>

Push(c) ==
    /\ th[c].pc = "push"
    /\ obj' = [obj EXCEPT ![th[c].got] = th[c].seen \union {Me(c)}]
    /\ Unlock(c)
    /\ Finish(c, Plain("ok"))
    /\ UNCHANGED <<head, size, node, freed>>

-----------------------------------------------------------------------------
(* Hash::set on a new node, under the new node's mutex only                *)

\* Mutant: the head is replaced before the new node is linked to it.
TestEarly(c) ==
    /\ th[c].pc = "test"
    /\ head' = [head EXCEPT ![Slot(c)] = Cur(c)]
    /\ Goto(c, "link")
    /\ UNCHANGED <<size, node, lock, freed, obj, kept>>

Test(c) ==
    /\ th[c].pc = "test"
    /\ Goto(c, IF head[Slot(c)] = NULL THEN "publish" ELSE "link")
    /\ UNCHANGED <<head, size, node, lock, freed, obj, kept>>

Link(c) ==
    /\ th[c].pc = "link"
    /\ node' = [node EXCEPT ![Cur(c)].next = head[Slot(c)]]
    /\ Goto(c, "back")
    /\ UNCHANGED <<head, size, lock, freed, obj, kept>>

\* Mutant: the old head does not learn of the new one.
BackSkipped(c) ==
    /\ th[c].pc = "back"
    /\ Goto(c, "publish")
    /\ UNCHANGED <<head, size, node, lock, freed, obj, kept>>

Back(c) ==
    /\ th[c].pc = "back"
    /\ node' = [node EXCEPT ![head[Slot(c)]].prev = Cur(c)]
    /\ Goto(c, "publish")
    /\ UNCHANGED <<head, size, lock, freed, obj, kept>>

\* Mutant: the new head is not stored.
PublishNothing(c) ==
    /\ th[c].pc = "publish"
    /\ Goto(c, "count")
    /\ UNCHANGED <<head, size, node, lock, freed, obj, kept>>

Publish(c) ==
    /\ th[c].pc = "publish"
    /\ head' = [head EXCEPT ![Slot(c)] = Cur(c)]
    /\ Goto(c, "count")
    /\ UNCHANGED <<size, node, lock, freed, obj, kept>>

\* size[index]++ and size[index]--: a load, then a store
Count(c) ==
    /\ th[c].pc \in {"count", "size"}
    /\ th' = [th EXCEPT ![c].pc = IF @ = "count" THEN "inc" ELSE "dec",
                        ![c].reg = size[Slot(c)]]
    /\ UNCHANGED <<head, size, node, lock, freed, obj, kept>>

Inc(c) ==
    /\ th[c].pc = "inc"
    /\ size' = [size EXCEPT ![Slot(c)] = th[c].reg + 1]
    /\ Unlock(c)
    /\ Finish(c, Plain("ok"))
    /\ UNCHANGED <<head, node, freed, obj>>

-----------------------------------------------------------------------------
(* Hash::del                                                               *)

Unprev(c) ==
    /\ th[c].pc = "unprev"
    /\ LET i == Cur(c) IN
       node' = IF node[i].next = NULL THEN node
               ELSE [node EXCEPT ![node[i].next].prev = node[i].prev]
    /\ Goto(c, "unhook")
    /\ UNCHANGED <<head, size, lock, freed, obj, kept>>

\* Mutant: the head is left alone.
UnhookInner(c) ==
    /\ th[c].pc = "unhook"
    /\ LET i == Cur(c) IN
       node' = IF node[i].prev = NULL THEN node
               ELSE [node EXCEPT ![node[i].prev].next = node[i].next]
    /\ Goto(c, "free")
    /\ UNCHANGED <<head, size, lock, freed, obj, kept>>

Unhook(c) ==
    /\ th[c].pc = "unhook"
    /\ LET i == Cur(c) IN
       IF node[i].prev = NULL
       THEN head' = [head EXCEPT ![Slot(c)] = node[i].next] /\ UNCHANGED node
       ELSE node' = [node EXCEPT ![node[i].prev].next = node[i].next] /\ UNCHANGED head
    /\ Goto(c, "free")
    /\ UNCHANGED <<size, lock, freed, obj, kept>>

Free(c) ==
    /\ th[c].pc = "free"
    /\ freed' = freed \union {Cur(c)}
    /\ Goto(c, "size")
    /\ UNCHANGED <<head, size, node, lock, obj, kept>>

\* Only del says that it has deleted something.
Dec(c) ==
    /\ th[c].pc = "dec"
    /\ size' = [size EXCEPT ![Slot(c)] = th[c].reg - 1]
    /\ Unlock(c)
    /\ Finish(c, Plain(IF Cmd(c).op = "del" THEN "ok" ELSE "nokey"))
    /\ UNCHANGED <<head, node, freed, obj>>

-----------------------------------------------------------------------------

InitNode(chain, i) ==
    [key |-> chain[i], val |-> <<chain[i], 0>>, authr |-> 0, authw |-> InitLevel,
     expired |-> FALSE,
     next |-> IF i + 1 \in DOMAIN chain THEN <<chain[i+1], 0>> ELSE NULL,
     prev |-> IF i - 1 \in DOMAIN chain THEN <<chain[i-1], 0>> ELSE NULL]

Init ==
    /\ head = [b \in Buckets |-> IF InitChain[b] = <<>> THEN NULL ELSE <<InitChain[b][1], 0>>]
    /\ size = [b \in Buckets |-> Cardinality(DOMAIN InitChain[b])]
    /\ node = [i \in Ids |->
                 IF i[1] \in InitKeys
                 THEN LET chain == InitChain[Bucket[i[1]]]
                      IN  InitNode(chain, CHOOSE j \in DOMAIN chain : chain[j] = i[1])
                 ELSE NULL]
    /\ lock = [i \in Ids |-> NULL]
    /\ freed = {}
    /\ obj = [i \in Ids |-> {}]
    /\ th = [c \in Clients |->
               [pc |-> "idle", stage |-> "check", cmd |-> NULL, n |-> 0, cur |-> NULL,
                got |-> NULL, seen |-> {}, reg |-> 0, ans |-> Plain("none")]]
    /\ kept = InitKeys
    /\ fault = "none"

\* One access of the thread that serves c.
Access(c) ==
    \/ Enter(c) \/ WalkEnd(c) \/ Walk(c)
    \/ Fresh(c) \/ TakeList(c) \/ Check(c) \/ Read(c) \/ Show(c)
    \/ Lock(c) \/ SetV(c) \/ SetR(c) \/ FixW(c) \/ SetW(c) \/ FixR(c)
    \/ Expire(c) \/ Load(c) \/ Push(c)
    \/ Test(c) \/ Link(c) \/ Back(c) \/ Publish(c) \/ Count(c) \/ Inc(c)
    \/ Unprev(c) \/ Unhook(c) \/ Free(c) \/ Dec(c)

Run(c) == fault = "none" /\ ~Strays(c) /\ Access(c) /\ UNCHANGED fault

Stray(c) == fault = "none" /\ Crash(c)

\* Every client has had its answers, or the process is gone.
Over ==
    /\ fault # "none" \/ \A c \in Clients : th[c].pc = "idle" /\ (th[c].n = MaxCommands \/ Work[c] = {})
    /\ UNCHANGED vars

Next ==
    \/ \E c \in Clients : \/ fault = "none" /\ Call(c) /\ UNCHANGED fault
                          \/ Run(c) \/ Stray(c)
    \/ Over

Spec == Init /\ [][Next]_vars

\* The operating system runs every command thread.
FairSpec == Spec /\ \A c \in Clients : WF_vars(Run(c))

-----------------------------------------------------------------------------
(* The map that the table stands for                                       *)

\* A command has taken effect once a reader can see it; authorities that a make,
\* authr or authw has yet to write under the mutex follow.
MidWrite(c) == \/ Cmd(c) # NULL /\ Cmd(c).op = "make" /\ th[c].pc \in {"setr", "fixw", "setw", "fixr"}
               \/ Cmd(c) # NULL /\ Cmd(c).op = "authr" /\ th[c].pc = "fixw"
               \/ Cmd(c) # NULL /\ Cmd(c).op = "authw" /\ th[c].pc = "fixr"

InEffect(c) == MidWrite(c) \/ th[c].pc \in {"count", "inc", "free", "size", "dec"}

ViewOf(i) ==
    LET writer == lock[i] # NULL /\ MidWrite(lock[i]) /\ Cur(lock[i]) = i
        m == Cmd(lock[i])
        n == IF ~writer THEN node[i]
             ELSE CASE m.op = "make" -> [node[i] EXCEPT !.authr = m.r, !.authw = m.w]
                    [] m.op = "authr" -> SetAuthr(node[i], m.r)
                    [] m.op = "authw" -> SetAuthw(node[i], m.w)
    IN  [val |-> n.val, elems |-> obj[n.val], authr |-> n.authr, authw |-> n.authw,
         expired |-> n.expired]

MapView ==
    LET nodes == UNION {Chain(b) : b \in Buckets}
    IN  [k \in Keys |-> IF \E i \in nodes : node[i].key = k
                        THEN ViewOf(CHOOSE i \in nodes : node[i].key = k) ELSE NULL]

Map == INSTANCE KvMap WITH
    map  <- MapView,
    sent <- [c \in Clients |-> th[c].n],
    todo <- [c \in Clients |-> IF th[c].pc = "idle" \/ InEffect(c) THEN NULL ELSE Cmd(c)],
    told <- [c \in Clients |->
               IF ~InEffect(c) THEN th[c].ans
               ELSE Plain(IF Cmd(c).op \in AsksExpiry THEN "nokey" ELSE "ok")]

-----------------------------------------------------------------------------
(* Properties                                                              *)

\* Every command does what it would do alone, at one moment between its call and
\* its answer: walking twice, unlinking and relinking in steps, the hidden
\* deletion of an expired key and the three writes of an overwrite included.
Linearizable == Map!SpecMap

\* No command thread follows a null pointer or touches memory that another has
\* freed: find_node, Hash::set and Hash::del hold no lock while they walk.
NoFault == fault = "none"

\* When nobody is inside Hash::set or Hash::del each chain is doubly linked, holds
\* each key once, in its bucket, and size[index] counts its nodes.
Settled == \A c \in Clients : th[c].pc \notin {"test", "link", "back", "publish", "count", "inc",
                                               "unprev", "unhook", "free", "size", "dec"}
WellLinked(b) ==
    /\ size[b] = Cardinality(Chain(b))
    /\ head[b] # NULL => node[head[b]].prev = NULL
    /\ \A i \in Chain(b) :
         /\ i \notin freed
         /\ Bucket[node[i].key] = b
         /\ node[i].next # NULL => node[node[i].next].prev = i
         /\ \A j \in Chain(b) : node[i].key = node[j].key => i = j
ChainsOK == Settled => \A b \in Buckets : WellLinked(b)

\* Keys that no client may delete or let expire.
Lasting == {k \in Keys : \A c \in Clients : \A m \in Work[c] :
              m.key = k => m.op \notin {"del", "expire"}}

\* A key whose make was answered OK is in the table ever after.
KeptKeys == \A k \in kept \intersect Lasting : Found(k)

\* Keys whose authorities only make gives.
MadeOnly == {k \in Keys : \A c \in Clients : \A m \in Work[c] :
               m.key = k => m.op \notin {"authr", "authw"}}

\* A node nobody has locked carries value and authorities of one make: two makes
\* of the same key do not mix.
WholeNodes ==
    \A i \in Ids :
        node[i] # NULL /\ lock[i] = NULL /\ node[i].key \in MadeOnly /\ node[i].val[1] \in Clients =>
            \E m \in Work[node[i].val[1]] :
                /\ m.op = "make" /\ m.key = node[i].key
                /\ <<m.r, m.w>> = <<node[i].authr, node[i].authw>>

\* In memory too nobody needs more authority to read a key than to write it, as
\* long as its node is not locked: set_authr and set_authw are not atomic.
AuthOrderUnlocked ==
    \A i \in Ids : node[i] # NULL /\ lock[i] = NULL => node[i].authr <= node[i].authw

\* Every command is answered: a thread holds one mutex at a time and gives it back.
Answered == \A c \in Clients : th[c].pc # "idle" ~> th[c].pc = "idle"

\* README.md: MUSE blocks the access of a key whose authority the client does not
\* match: a value is replaced by a client with the write authority of the node.
WritersBlocked ==
    [][\A i \in Ids : node[i] # NULL /\ node'[i].val # node[i].val =>
          Level[node'[i].val[1]] >= node[i].authw]_vars

=============================================================================
