-------------------------- MODULE HashTableProofs --------------------------
(***************************************************************************)
(* Theorems about HashTable, for any number of clients, keys, buckets and  *)
(* commands.                                                               *)
(*                                                                         *)
(* Here: what a mutex of a node protects, in all runs, those included in   *)
(* which threads delete nodes under each other's hands.  Memory says where *)
(* each thread can be, who holds which mutex and which names are still     *)
(* unused, Values whom a value object belongs to, and Authorities how far  *)
(* the writer of a node's two authorities is.                              *)
(***************************************************************************)
EXTENDS HashTable, FiniteSetTheorems, TLAPS

-----------------------------------------------------------------------------
(* Threads                                                                 *)

Writing == {"setv", "setr", "fixw", "setw", "fixr", "expire", "load", "push"}
Inserting == {"test", "link", "back", "publish", "count", "inc"}
Removing == {"unprev", "unhook", "free", "size", "dec"}
Holding == Writing \union Inserting \union Removing          \* with a mutex
Standing == {"fresh", "take", "auth", "read", "show", "lock"} \union Holding   \* at a node

\* Which commands come to place p while s walks.
Fits(p, s, o) ==
    \/ s = "check" /\ p \in {"enter", "walk", "auth"}
    \/ s = "check" /\ p = "fresh" /\ o \in AsksExpiry
    \/ s = "check" /\ p \in {"take", "load", "push"} /\ o = "lpush"
    \/ s = "check" /\ p \in {"read", "show"} /\ o = "get"
    \/ s = "check" /\ p = "lock" /\ o \in {"expire", "authr", "authw", "lpush"}
    \/ s = "check" /\ p \in {"setr", "fixw"} /\ o = "authr"
    \/ s = "check" /\ p \in {"setw", "fixr"} /\ o = "authw"
    \/ s = "check" /\ p = "expire" /\ o = "expire"
    \/ s = "set" /\ o = "make" /\ p \in {"enter", "walk", "lock", "setv", "setr", "fixw", "setw", "fixr"}
    \/ s = "set" /\ o = "make" /\ p \in Inserting
    \/ s = "del" /\ o \in AsksExpiry \union {"del"} /\ p \in {"enter", "walk", "lock"} \union Removing

Alloc == {i \in Ids : node[i] # NULL}
Active(c) == th[c].pc # "idle"

\* A thread that is not idle has a command of its client and is at a place that fits; it
\* stands at a node of its key, and a new node is its own.
Placed(c) ==
    IF th[c].pc = "idle" THEN th[c].stage = "check"
    ELSE /\ Cmd(c) \in Work[c] /\ th[c].n \in 1..MaxCommands
         /\ Fits(th[c].pc, th[c].stage, Cmd(c).op)
         /\ th[c].pc \in Standing => Cur(c) \in Alloc /\ node[Cur(c)].key = Key(c)
         /\ th[c].pc = "walk" => Cur(c) \in Alloc \union {NULL}
         /\ th[c].pc \in Inserting => Cur(c) = Me(c)

Mutex ==
    /\ \A c \in Clients : th[c].pc \in Holding => lock[Cur(c)] = c
    /\ \A i \in Ids : lock[i] # NULL => th[lock[i]].pc \in Holding /\ Cur(lock[i]) = i

Pointers ==
    /\ \A b \in Buckets : head[b] \in Alloc \union {NULL}
    /\ \A i \in Alloc : node[i].next \in Alloc \union {NULL} /\ node[i].prev \in Alloc \union {NULL}

\* The names of nodes that the commands of c have not allocated yet.
Unborn(c, k) == k > th[c].n \/ (k = th[c].n /\ th[c].pc \notin {"idle"} \union Inserting)
Births == \A c \in Clients, k \in 1..MaxCommands : Unborn(c, k) => node[<<c, k>>] = NULL

Memory == TypeOK /\ (\A c \in Clients : Placed(c)) /\ Mutex /\ Pointers /\ Births

-----------------------------------------------------------------------------
(* Values                                                                  *)

\* The names of values that the commands of c have not given to a node yet.
Made == {"idle", "setr", "fixw", "setw", "fixr"} \union Inserting
Unmade(c, k) == k > th[c].n \/ (k = th[c].n /\ th[c].pc \notin Made)

\* The thread has taken the value of its node.
Taken(c) ==
    \/ th[c].pc \in {"show", "load", "push"}
    \/ th[c].pc \in {"auth", "lock"} /\ th[c].stage = "check" /\ Cmd(c).op = "lpush"

Values ==
    /\ \A c \in Clients, k \in 1..MaxCommands : Unmade(c, k) =>
         /\ \A i \in Alloc : node[i].val # <<c, k>>
         /\ \A d \in Clients : Taken(d) => th[d].got # <<c, k>>
    /\ \A i, j \in Alloc : node[i].val = node[j].val => i = j
    /\ \A c \in Clients : Taken(c) =>
         th[c].got \in Ids /\ \A j \in Alloc : node[j].val = th[c].got => j = Cur(c)

-----------------------------------------------------------------------------
(* Authorities                                                             *)

\* set_authr or set_authw is between its two writes.
Half(i) == lock[i] # NULL /\ th[lock[i]].pc \in {"fixw", "fixr"}

\* make is between its first write and its last.
Partial(i) ==
    lock[i] # NULL /\ th[lock[i]].pc \in {"setr", "fixw", "setw", "fixr"} /\ Cmd(lock[i]).op = "make"

MadeBy(i) ==
    node[i].key \in MadeOnly /\ node[i].val[1] \in Clients =>
        \E m \in Work[node[i].val[1]] :
            m.op = "make" /\ m.key = node[i].key /\ m.r = node[i].authr /\ m.w = node[i].authw

\* What a make has written of its node.
Progress(c) ==
    th[c].pc # "idle" /\ Cmd(c).op = "make" =>
        /\ th[c].pc \in {"setr", "fixw", "setw", "fixr"} => node[Cur(c)].val = Me(c)
        /\ th[c].pc \in {"fixw", "setw", "fixr"} => node[Cur(c)].authr = Cmd(c).r
        /\ th[c].pc = "fixr" => node[Cur(c)].authw = Cmd(c).w

Authorities ==
    /\ \A i \in Alloc : node[i].authr <= node[i].authw \/ Half(i)
    /\ \A i \in Alloc : MadeBy(i) \/ Partial(i)
    /\ \A c \in Clients : Progress(c)

-----------------------------------------------------------------------------
(* Steps of a thread                                                       *)

\* What is shown of the nodes without Serial.
Owned == Memory /\ Values /\ Authorities

\* A thread that serves a command changes only its own place and locals, ...
Steps(c) ==
    /\ th' \in [Clients -> Thread]
    /\ \A d \in Clients : d # c => th'[d] = th[d]
    /\ th'[c].n = th[c].n /\ th'[c].cmd = th[c].cmd
Goes(c, p, s, x, g) ==
    /\ Steps(c)
    /\ th'[c].pc = p /\ th'[c].stage = s /\ th'[c].cur = x /\ th'[c].got = g

\* ... nodes keep their keys ...
SameKeys ==
    /\ node' \in [Ids -> Node \union {NULL}]
    /\ \A i \in Alloc : i \in Alloc' /\ node'[i].key = node[i].key
SameNodes == SameKeys /\ Alloc' = Alloc

\* ... and it keeps a mutex or has none, takes one, or gives one back.
Keeps(c) ==
    /\ lock' = lock /\ (th'[c].pc \in Holding <=> th[c].pc \in Holding)
    /\ th[c].pc \in Holding => th'[c].cur = th[c].cur
Takes(c) ==
    /\ th[c].pc \notin Holding /\ th'[c].pc \in Holding
    /\ th'[c].cur \in Ids /\ lock[th'[c].cur] = NULL /\ lock' = [lock EXCEPT ![th'[c].cur] = c]
Gives(c) ==
    /\ th[c].pc \in Holding /\ th'[c].pc \notin Holding
    /\ th[c].cur \in Ids /\ lock' = [lock EXCEPT ![th[c].cur] = NULL]

\* What a command does not do when it has a new node, ...
Ends(c) == th[c].pc \in Inserting => th'[c].pc \in Inserting \union {"idle"}

\* ... while it writes no value and no authorities, and when it takes no value.
Calm(c) ==
    /\ \A i \in Alloc : /\ node'[i].val = node[i].val
                        /\ node'[i].authr = node[i].authr /\ node'[i].authw = node[i].authw
    /\ th[c].pc \notin {"setv", "setr", "fixw", "setw", "fixr"} /\ th'[c].pc \notin {"fixw", "fixr"}
    /\ th'[c].pc \in {"setr", "setw"} => Cmd(c).op # "make"
Blind(c) == Taken(c)' => Taken(c) /\ th'[c].got = th[c].got /\ th'[c].cur = th[c].cur

LEMMA NullIs ==
    /\ NULL \notin Ids /\ NULL \notin Clients /\ NULL \notin Commands /\ NULL \notin Node
  BY NullAssumption

LEMMA WorkIs ==
    \A c \in Clients : \A m \in Work[c] : Sendable(c, m) /\ m \in Commands
  BY ClientAssumption DEF Sendable

LEMMA MeIs ==
    ASSUME TypeOK, NEW c \in Clients, Placed(c), Active(c)
    PROVE  /\ Me(c) \in Ids /\ Cmd(c) \in Commands /\ Cmd(c) # NULL
           /\ Key(c) \in Keys /\ Slot(c) \in Buckets
           /\ th[c].n \in 1..MaxCommands
  <1>1. Cmd(c) \in Commands /\ th[c].n \in 1..MaxCommands
    BY WorkIs DEF Placed, Active
  <1> QED BY <1>1, TableAssumption, NullIs DEF Me, Ids, Key, Slot, Commands

LEMMA ThreadIs ==
    ASSUME TypeOK, NEW c \in Clients, NEW t \in Thread, th' = [th EXCEPT ![c] = t],
           t.n = th[c].n, t.cmd = th[c].cmd
    PROVE  Steps(c) /\ th'[c] = t
  BY DEF TypeOK, Steps

LEMMA GotoIs ==
    ASSUME TypeOK, NEW c \in Clients, NEW p \in Places, Goto(c, p)
    PROVE  Goes(c, p, th[c].stage, th[c].cur, th[c].got) /\ th'[c].reg = th[c].reg
  <1> DEFINE t == [th[c] EXCEPT !.pc = p]
  <1>1. th \in [Clients -> Thread] /\ th[c] \in Thread /\ th' = [th EXCEPT ![c] = t]
    BY DEF TypeOK, Goto
  <1>2. t \in Thread
    BY <1>1 DEF Thread
  <1>3. /\ t.pc = p /\ t.stage = th[c].stage /\ t.cur = th[c].cur /\ t.got = th[c].got
        /\ t.n = th[c].n /\ t.cmd = th[c].cmd /\ t.reg = th[c].reg
    BY <1>1 DEF Thread
  <1> HIDE DEF t
  <1> QED BY <1>1, <1>2, <1>3, ThreadIs DEF Goes

LEMMA GotoStageIs ==
    ASSUME TypeOK, NEW c \in Clients, NEW p \in Places, NEW s \in {"check", "set", "del"},
           th' = [th EXCEPT ![c].pc = p, ![c].stage = s]
    PROVE  Goes(c, p, s, th[c].cur, th[c].got)
  <1> DEFINE t == [th[c] EXCEPT !.pc = p, !.stage = s]
  <1>1. th \in [Clients -> Thread] /\ th[c] \in Thread /\ th' = [th EXCEPT ![c] = t]
    BY DEF TypeOK
  <1>2. t \in Thread
    BY <1>1 DEF Thread
  <1>3. /\ t.pc = p /\ t.stage = s /\ t.cur = th[c].cur /\ t.got = th[c].got
        /\ t.n = th[c].n /\ t.cmd = th[c].cmd
    BY <1>1 DEF Thread
  <1> HIDE DEF t
  <1> QED BY <1>1, <1>2, <1>3, ThreadIs DEF Goes

LEMMA GotoCurIs ==
    ASSUME TypeOK, NEW c \in Clients, NEW p \in Places, NEW x \in Ids \union {NULL},
           th' = [th EXCEPT ![c].pc = p, ![c].cur = x]
    PROVE  Goes(c, p, th[c].stage, x, th[c].got)
  <1> DEFINE t == [th[c] EXCEPT !.pc = p, !.cur = x]
  <1>1. th \in [Clients -> Thread] /\ th[c] \in Thread /\ th' = [th EXCEPT ![c] = t]
    BY DEF TypeOK
  <1>2. t \in Thread
    BY <1>1 DEF Thread
  <1>3. /\ t.pc = p /\ t.stage = th[c].stage /\ t.cur = x /\ t.got = th[c].got
        /\ t.n = th[c].n /\ t.cmd = th[c].cmd
    BY <1>1 DEF Thread
  <1> HIDE DEF t
  <1> QED BY <1>1, <1>2, <1>3, ThreadIs DEF Goes

LEMMA GotoGotIs ==
    ASSUME TypeOK, NEW c \in Clients, NEW p \in Places, NEW g \in Ids \union {NULL},
           th' = [th EXCEPT ![c].pc = p, ![c].got = g]
    PROVE  Goes(c, p, th[c].stage, th[c].cur, g)
  <1> DEFINE t == [th[c] EXCEPT !.pc = p, !.got = g]
  <1>1. th \in [Clients -> Thread] /\ th[c] \in Thread /\ th' = [th EXCEPT ![c] = t]
    BY DEF TypeOK
  <1>2. t \in Thread
    BY <1>1 DEF Thread
  <1>3. /\ t.pc = p /\ t.stage = th[c].stage /\ t.cur = th[c].cur /\ t.got = g
        /\ t.n = th[c].n /\ t.cmd = th[c].cmd
    BY <1>1 DEF Thread
  <1> HIDE DEF t
  <1> QED BY <1>1, <1>2, <1>3, ThreadIs DEF Goes

LEMMA GotoRegIs ==
    ASSUME TypeOK, NEW c \in Clients, NEW p \in Places, NEW r \in Int,
           th' = [th EXCEPT ![c].pc = p, ![c].reg = r]
    PROVE  Goes(c, p, th[c].stage, th[c].cur, th[c].got) /\ th'[c].reg = r
  <1> DEFINE t == [th[c] EXCEPT !.pc = p, !.reg = r]
  <1>1. th \in [Clients -> Thread] /\ th[c] \in Thread /\ th' = [th EXCEPT ![c] = t]
    BY DEF TypeOK
  <1>2. t \in Thread
    BY <1>1 DEF Thread
  <1>3. /\ t.pc = p /\ t.stage = th[c].stage /\ t.cur = th[c].cur /\ t.got = th[c].got
        /\ t.n = th[c].n /\ t.cmd = th[c].cmd /\ t.reg = r
    BY <1>1 DEF Thread
  <1> HIDE DEF t
  <1> QED BY <1>1, <1>2, <1>3, ThreadIs DEF Goes

LEMMA GotoSeenIs ==
    ASSUME TypeOK, NEW c \in Clients, NEW p \in Places, NEW q \in SUBSET Ids,
           th' = [th EXCEPT ![c].pc = p, ![c].seen = q]
    PROVE  Goes(c, p, th[c].stage, th[c].cur, th[c].got)
  <1> DEFINE t == [th[c] EXCEPT !.pc = p, !.seen = q]
  <1>1. th \in [Clients -> Thread] /\ th[c] \in Thread /\ th' = [th EXCEPT ![c] = t]
    BY DEF TypeOK
  <1>2. t \in Thread
    BY <1>1 DEF Thread
  <1>3. /\ t.pc = p /\ t.stage = th[c].stage /\ t.cur = th[c].cur /\ t.got = th[c].got
        /\ t.n = th[c].n /\ t.cmd = th[c].cmd
    BY <1>1 DEF Thread
  <1> HIDE DEF t
  <1> QED BY <1>1, <1>2, <1>3, ThreadIs DEF Goes

LEMMA FinishIs ==
    ASSUME TypeOK, NEW c \in Clients, Key(c) \in Keys, NEW ans \in Answers, Finish(c, ans)
    PROVE  /\ Goes(c, "idle", "check", NULL, NULL) /\ th'[c].ans = ans
           /\ kept' = IF Cmd(c).op = "make" /\ ans.msg = "ok" THEN kept \union {Key(c)} ELSE kept
           /\ kept' \subseteq Keys
  <1> DEFINE t == [th[c] EXCEPT !.pc = "idle", !.stage = "check", !.cur = NULL,
                                !.got = NULL, !.seen = {}, !.reg = 0, !.ans = ans]
  <1>1. th \in [Clients -> Thread] /\ th[c] \in Thread /\ th' = [th EXCEPT ![c] = t]
    BY DEF TypeOK, Finish
  <1>2. "idle" \in Places /\ "check" \in {"check", "set", "del"} /\ 0 \in Int /\ {} \in SUBSET Ids
    BY DEF Places
  <1>3. t \in Thread
    BY <1>1, <1>2 DEF Thread
  <1>4. t.pc = "idle" /\ t.stage = "check" /\ t.cur = NULL /\ t.got = NULL
        /\ t.ans = ans /\ t.n = th[c].n /\ t.cmd = th[c].cmd
    BY <1>1 DEF Thread
  <1>5. /\ kept' = IF Cmd(c).op = "make" /\ ans.msg = "ok" THEN kept \union {Key(c)} ELSE kept
        /\ kept' \subseteq Keys
    BY DEF Finish, TypeOK
  <1> HIDE DEF t
  <1> QED BY <1>1, <1>3, <1>4, <1>5, ThreadIs DEF Goes

LEMMA PlainIs ==
    \A msg \in {"none", "ok", "nokey", "perm", "data"} : Plain(msg) \in Answers /\ Plain(msg).msg = msg
  BY DEF Plain, Answers

-----------------------------------------------------------------------------
(* What a step leaves alone                                                *)

LEMMA PlacedStays ==
    ASSUME Memory, NEW c \in Clients, Steps(c), SameKeys, Placed(c)'
    PROVE  \A d \in Clients : Placed(d)'
  <1> SUFFICES ASSUME NEW d \in Clients, d # c PROVE Placed(d)'
    OBVIOUS
  <1>1. th'[d] = th[d] /\ Placed(d)
    BY DEF Steps, Memory
  <1>2. \A i \in Alloc : i \in Alloc' /\ node'[i].key = node[i].key
    BY DEF SameKeys
  <1> QED BY <1>1, <1>2 DEF Placed, Cmd, Key, Cur, Me

LEMMA MutexStays ==
    ASSUME Memory, NEW c \in Clients, Steps(c), Keeps(c) \/ Takes(c) \/ Gives(c)
    PROVE  Mutex'
  <1>1. lock \in [Ids -> Clients \union {NULL}] /\ NULL \notin Clients
    BY NullIs DEF Memory, TypeOK
  <1>2. /\ \A d \in Clients : th[d].pc \in Holding => lock[th[d].cur] = d
        /\ \A i \in Ids : lock[i] # NULL => th[lock[i]].pc \in Holding /\ th[lock[i]].cur = i
    BY DEF Memory, Mutex, Cur
  <1>3. \A d \in Clients : d # c => th'[d] = th[d]
    BY DEF Steps
  <1>4. \A d \in Clients : th[d].pc \in Holding => th[d].cur \in Ids
    BY DEF Memory, Placed, Standing, Alloc, Cur, Holding, Writing, Inserting, Removing
  <1>5. CASE Keeps(c)
    BY <1>1, <1>2, <1>3, <1>5 DEF Keeps, Mutex, Cur
  <1>6. CASE Takes(c)
    BY <1>1, <1>2, <1>3, <1>4, <1>6 DEF Takes, Mutex, Cur
  <1>7. CASE Gives(c)
    BY <1>1, <1>2, <1>3, <1>4, <1>7 DEF Gives, Mutex, Cur
  <1> QED BY <1>5, <1>6, <1>7

LEMMA BirthsStay ==
    ASSUME Memory, NEW c \in Clients, Steps(c), Active(c), Ends(c), SameNodes
    PROVE  Births'
  <1> SUFFICES ASSUME NEW d \in Clients, NEW k \in 1..MaxCommands, Unborn(d, k)'
               PROVE  node'[<<d, k>>] = NULL
    BY DEF Births
  <1>1. Unborn(d, k)
    BY DEF Steps, Unborn, Ends, Active, Inserting
  <1>2. <<d, k>> \in Ids
    BY DEF Ids
  <1>3. node[<<d, k>>] = NULL
    BY <1>1 DEF Memory, Births
  <1> QED BY <1>2, <1>3 DEF SameNodes, Alloc

LEMMA MemoryStays ==
    ASSUME Memory, TypeOK', NEW c \in Clients, Steps(c), Active(c), Ends(c), SameNodes,
           Keeps(c) \/ Takes(c) \/ Gives(c), Placed(c)', Pointers'
    PROVE  Memory'
  BY PlacedStays, MutexStays, BirthsStay DEF Memory, SameNodes

LEMMA ValuesStay ==
    ASSUME Memory, Values, NEW c \in Clients, Steps(c), SameNodes, Blind(c),
           \A i \in Alloc : node'[i].val = node[i].val, th[c].pc \in Made => th'[c].pc \in Made
    PROVE  Values'
  <1>1. \A i \in Alloc' : i \in Alloc /\ node'[i].val = node[i].val
    BY DEF SameNodes
  <1>2. \A d \in Clients : Taken(d)' =>
             Taken(d) /\ th'[d].got = th[d].got /\ Cur(d)' = Cur(d)
    BY DEF Blind, Steps, Taken, Cur, Cmd
  <1>3. ASSUME NEW d \in Clients, NEW k \in 1..MaxCommands, Unmade(d, k)' PROVE Unmade(d, k)
    BY <1>3 DEF Unmade, Steps
  <1>4. ASSUME NEW d \in Clients, NEW k \in 1..MaxCommands, Unmade(d, k)'
        PROVE  /\ \A i \in Alloc' : node'[i].val # <<d, k>>
               /\ \A e \in Clients : Taken(e)' => th'[e].got # <<d, k>>
    BY <1>1, <1>2, <1>3, <1>4 DEF Values
  <1>5. \A i, j \in Alloc' : node'[i].val = node'[j].val => i = j
    BY <1>1 DEF Values
  <1>6. \A d \in Clients : Taken(d)' =>
             th'[d].got \in Ids /\ \A j \in Alloc' : node'[j].val = th'[d].got => j = Cur(d)'
    BY <1>1, <1>2 DEF Values
  <1> QED BY <1>4, <1>5, <1>6 DEF Values

LEMMA AuthoritiesStay ==
    ASSUME Memory, Memory', Authorities, NEW c \in Clients, Steps(c), Active(c), SameNodes, Calm(c),
           Keeps(c) \/ Takes(c) \/ Gives(c)
    PROVE  Authorities'
  <1> DEFINE Marking == {"setr", "fixw", "setw", "fixr"}
  <1>1. \A i \in Alloc' : /\ i \in Alloc /\ node'[i].val = node[i].val /\ node'[i].key = node[i].key
                          /\ node'[i].authr = node[i].authr /\ node'[i].authw = node[i].authw
    BY DEF Calm, SameNodes, SameKeys
  <1>2. \A d \in Clients : d # c => th'[d] = th[d]
    BY DEF Steps
  <1>3. th[c].pc \notin Marking
    BY DEF Calm
  <1>4. ASSUME NEW i \in Alloc, lock[i] # NULL, th[lock[i]].pc \in Marking
        PROVE  lock'[i] = lock[i] /\ lock[i] \in Clients /\ th'[lock[i]] = th[lock[i]]
    <2>1. i \in Ids /\ lock \in [Ids -> Clients \union {NULL}] /\ lock[i] # c
      BY <1>3, <1>4 DEF Memory, TypeOK, Alloc
    <2>2. lock[i] \in Clients /\ th'[lock[i]] = th[lock[i]]
      BY <1>2, <1>4, <2>1
    <2>3. th[c].pc \in Holding => lock[th[c].cur] = c
      BY DEF Memory, Mutex, Cur
    <2>4. lock'[i] = lock[i]
      <3>1. CASE Keeps(c)
        BY <3>1 DEF Keeps
      <3>2. CASE Takes(c)
        BY <1>4, <2>1, <3>2 DEF Takes
      <3>3. CASE Gives(c)
        BY <1>4, <2>1, <2>3, <3>3 DEF Gives
      <3> QED BY <3>1, <3>2, <3>3
    <2> QED BY <2>2, <2>4
  <1>5. ASSUME NEW i \in Alloc' PROVE node'[i].authr <= node'[i].authw \/ Half(i)'
    <2>1. node[i].authr <= node[i].authw \/ Half(i)
      BY <1>1 DEF Authorities
    <2> QED BY <1>1, <1>4, <1>5, <2>1 DEF Half
  <1>6. ASSUME NEW i \in Alloc' PROVE MadeBy(i)' \/ Partial(i)'
    <2>1. MadeBy(i) \/ Partial(i)
      BY <1>1 DEF Authorities
    <2>2. CASE MadeBy(i)
      BY <1>1, <1>6, <2>2 DEF MadeBy
    <2>3. CASE Partial(i)
      BY <1>1, <1>4, <1>6, <2>3 DEF Partial, Cmd
    <2> QED BY <2>1, <2>2, <2>3
  <1>7. ASSUME NEW d \in Clients PROVE Progress(d)'
    <2>1. CASE d = c
      BY <2>1 DEF Progress, Calm, Steps, Cmd
    <2>2. CASE d # c
      <3>1. th'[d] = th[d] /\ Progress(d)
        BY <1>2, <2>2 DEF Authorities
      <3>2. th[d].pc \in Marking => th[d].cur \in Alloc
        BY DEF Memory, Placed, Standing, Holding, Writing, Cur
      <3> QED BY <1>1, <3>1, <3>2 DEF Progress, Cmd, Cur, Me, SameNodes
    <2> QED BY <2>1, <2>2
  <1> QED BY <1>5, <1>6, <1>7 DEF Authorities

LEMMA NodeIs ==
    ASSUME TypeOK
    PROVE  /\ \A i \in Alloc : i \in Ids /\ node[i] \in Node /\ node[i].val \in Ids
                               /\ node[i].next \in Ids \union {NULL} /\ node[i].prev \in Ids \union {NULL}
                               /\ node[i].authr \in Nat /\ node[i].authw \in Nat /\ node[i].key \in Keys
           /\ node \in [Ids -> Node \union {NULL}]
  BY DEF TypeOK, Alloc, Node

\* The place, the nodes and the mutexes after a step that writes no values and authorities.
Arrives(c, p, s, x) ==
    \/ p = "idle" /\ s = "check"
    \/ /\ p # "idle" /\ Fits(p, s, Cmd(c).op)
       /\ p \in Standing => x \in Alloc /\ node[x].key = Key(c)
       /\ p = "walk" => x \in Alloc \union {NULL}
       /\ p \in Inserting => x = Me(c)
Relinks ==
    /\ node' \in [Ids -> Node \union {NULL}] /\ Alloc' = Alloc
    /\ \A i \in Alloc : /\ node'[i].key = node[i].key /\ node'[i].val = node[i].val
                        /\ node'[i].authr = node[i].authr /\ node'[i].authw = node[i].authw
                        /\ node'[i].next \in Alloc \union {NULL} /\ node'[i].prev \in Alloc \union {NULL}
    /\ head' \in [Buckets -> Alloc \union {NULL}]
Typed ==
    /\ size' \in [Buckets -> Int] /\ freed' \subseteq Ids /\ obj' \in [Ids -> SUBSET Ids]
    /\ kept' \subseteq Keys /\ fault' = fault
Handles(c, p, x) ==
    \/ lock' = lock /\ (p \in Holding <=> th[c].pc \in Holding) /\ (p \in Holding => x = th[c].cur)
    \/ th[c].pc \notin Holding /\ p \in Holding /\ lock[x] = NULL /\ lock' = [lock EXCEPT ![x] = c]
    \/ th[c].pc \in Holding /\ p \notin Holding /\ lock' = [lock EXCEPT ![th[c].cur] = NULL]
Sees(c, p, s, x, g) ==
    p \in {"show", "load", "push"} \/ (p \in {"auth", "lock"} /\ s = "check" /\ Cmd(c).op = "lpush") =>
        Taken(c) /\ g = th[c].got /\ x = th[c].cur

LEMMA NothingRelinked ==
    ASSUME Memory, head' = head, node' = node
    PROVE  Relinks
  BY DEF Relinks, Memory, TypeOK, Pointers, Alloc

LEMMA PlacedThere ==
    ASSUME Memory, NEW c \in Clients, Active(c), NEW p, NEW s, NEW x, NEW g,
           Goes(c, p, s, x, g), SameKeys, Arrives(c, p, s, x)
    PROVE  Placed(c)'
  <1>1. Cmd(c) \in Work[c] /\ th[c].n \in 1..MaxCommands
    BY DEF Memory, Placed, Active
  <1>2. /\ th'[c].pc = p /\ th'[c].stage = s /\ th'[c].cur = x /\ th'[c].n = th[c].n
        /\ th'[c].cmd = th[c].cmd
    BY DEF Goes, Steps
  <1>3. CASE p = "idle" /\ s = "check"
    BY <1>2, <1>3 DEF Placed
  <1>4. CASE ~(p = "idle" /\ s = "check")
    <2>1. /\ p # "idle" /\ Fits(p, s, Cmd(c).op)
          /\ p \in Standing => x \in Alloc' /\ node'[x].key = Key(c)
          /\ p = "walk" => x \in Alloc' \union {NULL}
          /\ p \in Inserting => x = Me(c)
      BY <1>4 DEF Arrives, SameKeys
    <2> QED BY <1>1, <1>2, <2>1 DEF Placed, Cmd, Cur, Key, Me
  <1> QED BY <1>3, <1>4

LEMMA HandlesIs ==
    ASSUME Memory, NEW c \in Clients, NEW p, NEW s, NEW x, NEW g,
           Goes(c, p, s, x, g), Handles(c, p, x), Arrives(c, p, s, x)
    PROVE  (Keeps(c) \/ Takes(c) \/ Gives(c)) /\ lock' \in [Ids -> Clients \union {NULL}]
  <1>1. th'[c].pc = p /\ th'[c].cur = x
    BY DEF Goes
  <1>2. th[c].pc \in Holding => th[c].cur \in Ids
    BY DEF Memory, Placed, Standing, Alloc, Cur, Holding, Writing, Inserting, Removing
  <1>3. p \in Holding => x \in Ids
    BY DEF Arrives, Standing, Holding, Writing, Inserting, Removing, Alloc
  <1>4. lock \in [Ids -> Clients \union {NULL}]
    BY DEF Memory, TypeOK
  <1>5. CASE lock' = lock /\ (p \in Holding <=> th[c].pc \in Holding) /\ (p \in Holding => x = th[c].cur)
    BY <1>1, <1>4, <1>5 DEF Keeps
  <1>6. CASE th[c].pc \notin Holding /\ p \in Holding /\ lock[x] = NULL /\ lock' = [lock EXCEPT ![x] = c]
    BY <1>1, <1>3, <1>4, <1>6 DEF Takes
  <1>7. CASE th[c].pc \in Holding /\ p \notin Holding /\ lock' = [lock EXCEPT ![th[c].cur] = NULL]
    BY <1>1, <1>2, <1>4, <1>7 DEF Gives
  <1> QED BY <1>5, <1>6, <1>7 DEF Handles

LEMMA MemoryMoves ==
    ASSUME Owned, NEW c \in Clients, Active(c), NEW p, NEW s, NEW x, NEW g,
           Goes(c, p, s, x, g), Arrives(c, p, s, x), Relinks, Typed, Handles(c, p, x),
           th[c].pc \notin {"setv", "setr", "fixw", "setw", "fixr"}, p \notin {"fixw", "fixr"},
           p \in {"setr", "setw"} => Cmd(c).op # "make",
           th[c].pc \in Inserting => p \in Inserting \union {"idle"}
    PROVE  Memory' /\ Authorities' /\ SameNodes /\ Steps(c) /\ Ends(c) /\ Calm(c)
  <1>1. SameNodes /\ Steps(c) /\ Ends(c)
    BY DEF Relinks, SameNodes, SameKeys, Goes, Ends
  <1>2. Placed(c)'
    BY <1>1, PlacedThere DEF Owned, SameNodes
  <1>3. (Keeps(c) \/ Takes(c) \/ Gives(c)) /\ lock' \in [Ids -> Clients \union {NULL}]
    BY HandlesIs DEF Owned
  <1>4. Calm(c)
    BY DEF Calm, Relinks, Goes
  <1>5. Pointers'
    BY DEF Relinks, Pointers
  <1>6. TypeOK'
    <2>1. head' \in [Buckets -> Ids \union {NULL}]
      BY DEF Relinks, Alloc
    <2> QED BY <1>1, <1>3, <2>1 DEF Typed, TypeOK, Steps, Relinks, Owned, Memory
  <1>7. Memory'
    BY <1>1, <1>2, <1>3, <1>5, <1>6, MemoryStays DEF Owned
  <1> QED BY <1>1, <1>3, <1>4, <1>7, AuthoritiesStay DEF Owned

LEMMA OwnedMoves ==
    ASSUME Owned, NEW c \in Clients, Active(c), NEW p, NEW s, NEW x, NEW g,
           Goes(c, p, s, x, g), Arrives(c, p, s, x), Relinks, Typed, Handles(c, p, x), Sees(c, p, s, x, g),
           th[c].pc \notin {"setv", "setr", "fixw", "setw", "fixr"}, p \notin {"fixw", "fixr"},
           p \in {"setr", "setw"} => Cmd(c).op # "make",
           th[c].pc \in Inserting => p \in Inserting \union {"idle"}
    PROVE  Owned'
  <1>1. Memory' /\ Authorities' /\ SameNodes /\ Steps(c) /\ Ends(c) /\ Calm(c)
    BY MemoryMoves
  <1>2. Blind(c)
    <2>1. th'[c].pc = p /\ th'[c].stage = s /\ th'[c].cur = x /\ th'[c].got = g /\ Cmd(c)' = Cmd(c)
      BY DEF Goes, Steps, Cmd
    <2> QED BY <2>1 DEF Taken, Sees, Blind
  <1>3. /\ \A i \in Alloc : node'[i].val = node[i].val
        /\ th[c].pc \in Made => th'[c].pc \in Made
    BY <1>1 DEF Calm, Ends, Made, Active
  <1> QED BY <1>1, <1>2, <1>3, ValuesStay DEF Owned

-----------------------------------------------------------------------------
(* Each step keeps Owned                                                   *)

LEMMA PlaceIs ==
    ASSUME Owned, NEW c \in Clients, Active(c)
    PROVE  /\ TypeOK /\ Cmd(c).op \in Ops /\ Key(c) \in Keys /\ Slot(c) \in Buckets /\ Me(c) \in Ids
           /\ Fits(th[c].pc, th[c].stage, Cmd(c).op) /\ th[c].stage \in {"check", "set", "del"}
           /\ th[c].pc \in Standing => Cur(c) \in Alloc /\ node[Cur(c)].key = Key(c)
           /\ th[c].pc = "walk" => Cur(c) \in Alloc \union {NULL}
           /\ th[c].pc \in Inserting => Cur(c) = Me(c)
           /\ Cur(c) = th[c].cur /\ th[c].cur \in Ids \union {NULL} /\ th[c].got \in Ids \union {NULL}
  <1>1. TypeOK /\ Placed(c)
    BY DEF Owned, Memory
  <1>2. Cmd(c) \in Commands
    BY <1>1, MeIs
  <1> QED BY <1>1, <1>2, MeIs DEF Placed, Active, Cur, TypeOK, Thread, Commands

LEMMA EnterOwned ==
    ASSUME Owned, NEW c \in Clients, Enter(c), fault' = fault
    PROVE  Owned'
  <1> DEFINE s == th[c].stage
             x == head[Slot(c)]
             g == th[c].got
  <1>1. Active(c) /\ th[c].pc = "enter"
    BY DEF Enter, Active
  <1>2. x \in Alloc \union {NULL}
    BY <1>1, PlaceIs DEF Owned, Memory, Pointers
  <1>3. Goes(c, "walk", s, x, g)
    BY <1>1, <1>2, PlaceIs, GotoCurIs DEF Enter, Places, Alloc
  <1>4. Arrives(c, "walk", s, x)
    BY <1>1, <1>2, PlaceIs DEF Arrives, Fits, Standing, Holding, Writing, Inserting, Removing
  <1>5. Relinks /\ Typed /\ Handles(c, "walk", x) /\ Sees(c, "walk", s, x, g)
    BY <1>1, NothingRelinked DEF Enter, Typed, Handles, Sees, Holding, Writing, Inserting, Removing, Owned,
         Memory, TypeOK
  <1> QED BY <1>1, <1>3, <1>4, <1>5, OwnedMoves DEF Inserting

LEMMA WalkOwned ==
    ASSUME Owned, NEW c \in Clients, Walk(c), fault' = fault
    PROVE  Owned'
  <1> DEFINE s == th[c].stage
             g == th[c].got
  <1>1. Active(c) /\ th[c].pc = "walk" /\ Cur(c) # NULL /\ Cur(c) = th[c].cur /\ Cur(c) \in Alloc
    BY PlaceIs DEF Walk, Active
  <1>2. Relinks /\ Typed /\ lock' = lock
    BY <1>1, NothingRelinked DEF Walk, Typed, Owned, Memory, TypeOK
  <1>3. CASE node[Cur(c)].key # Key(c)
    <2> DEFINE x == node[Cur(c)].next
    <2>1. x \in Alloc \union {NULL}
      BY <1>1 DEF Owned, Memory, Pointers
    <2>2. th' = [th EXCEPT ![c].pc = "walk", ![c].cur = x]
      <3>1. th \in [Clients -> Thread] /\ th' = [th EXCEPT ![c].cur = x]
        BY <1>1, <1>3 DEF Walk, Owned, Memory, TypeOK, Cur
      <3>2. [th[c] EXCEPT !.cur = x] = [[th[c] EXCEPT !.pc = "walk"] EXCEPT !.cur = x]
        BY <1>1, <3>1 DEF Thread
      <3> QED BY <3>1, <3>2
    <2>3. Goes(c, "walk", s, x, g)
      BY <1>1, <2>1, <2>2, PlaceIs, GotoCurIs DEF Places, Alloc
    <2>4. Arrives(c, "walk", s, x)
      BY <1>1, <2>1, PlaceIs DEF Arrives, Standing, Holding, Writing, Inserting, Removing
    <2>5. Handles(c, "walk", x) /\ Sees(c, "walk", s, x, g)
      BY <1>1, <1>2 DEF Handles, Sees, Holding, Writing, Inserting, Removing
    <2> HIDE DEF x
    <2> QED BY <1>1, <1>2, <2>3, <2>4, <2>5, OwnedMoves DEF Inserting
  <1>4. CASE node[Cur(c)].key = Key(c)
    <2> DEFINE p == IF s # "check" THEN "lock" ELSE IF Cmd(c).op \in AsksExpiry THEN "fresh" ELSE "auth"
               x == th[c].cur
    <2>1. p \in {"lock", "fresh", "auth"} /\ (s # "check" <=> p = "lock")
          /\ (p = "fresh" => Cmd(c).op \in AsksExpiry) /\ (p = "auth" => Cmd(c).op # "lpush")
      BY DEF AsksExpiry
    <2>2. Goto(c, p)
      BY <1>1, <1>4 DEF Walk
    <2> HIDE DEF p
    <2>3. Goes(c, p, s, x, g)
      BY <1>1, <2>1, <2>2, PlaceIs, GotoIs DEF Places
    <2>4. Arrives(c, p, s, x)
      BY <1>1, <1>4, <2>1, PlaceIs DEF Arrives, Fits, Standing, Holding, Writing, Inserting, Removing
    <2>5. Handles(c, p, x) /\ Sees(c, p, s, x, g)
      BY <1>1, <1>2, <2>1 DEF Handles, Sees, Holding, Writing, Inserting, Removing
    <2> QED BY <1>1, <1>2, <2>1, <2>3, <2>4, <2>5, OwnedMoves DEF Inserting
  <1> QED BY <1>3, <1>4

\* A step that only goes to another place.
LEMMA OwnedGoes ==
    ASSUME Owned, NEW c \in Clients, Active(c), NEW p \in Places, NEW s \in {"check", "set", "del"},
           Goes(c, p, s, th[c].cur, th[c].got), Arrives(c, p, s, th[c].cur),
           head' = head, node' = node, lock' = lock, Typed,
           p \in Holding <=> th[c].pc \in Holding,
           p \notin {"show", "load"}, p = "push" => th[c].pc \in {"load", "push"}, p # "auth" \/ Cmd(c).op # "lpush" \/ Taken(c),
           p = "lock" /\ s = "check" /\ Cmd(c).op = "lpush" => Taken(c),
           th[c].pc \notin {"setv", "setr", "fixw", "setw", "fixr"}, p \notin {"fixw", "fixr"},
           p \in {"setr", "setw"} => Cmd(c).op # "make",
           th[c].pc \in Inserting => p \in Inserting \union {"idle"}
    PROVE  Owned'
  <1>1. Sees(c, p, s, th[c].cur, th[c].got)
    BY DEF Sees, Taken
  <1>2. Handles(c, p, th[c].cur)
    BY DEF Handles
  <1> QED BY <1>1, <1>2, OwnedMoves, NothingRelinked DEF Owned

\* The last step.
LEMMA OwnedFinishes ==
    ASSUME Owned, NEW c \in Clients, Active(c), NEW ans \in Answers, Finish(c, ans),
           Relinks, size' \in [Buckets -> Int], freed' \subseteq Ids, obj' \in [Ids -> SUBSET Ids], fault' = fault,
           \/ lock' = lock /\ th[c].pc \notin Holding
           \/ Unlock(c) /\ th[c].pc \in Holding,
           th[c].pc \notin {"setv", "setr", "fixw", "setw", "fixr"}
    PROVE  Owned'
  <1>1. Goes(c, "idle", "check", NULL, NULL) /\ kept' \subseteq Keys
    BY FinishIs, PlaceIs
  <1>2. "idle" \notin Holding /\ "idle" \notin Standing
    BY DEF Holding, Standing, Writing, Inserting, Removing
  <1>3. Arrives(c, "idle", "check", NULL) /\ Sees(c, "idle", "check", NULL, NULL) /\ Typed
    BY <1>1 DEF Arrives, Sees, Typed
  <1>4. Handles(c, "idle", NULL)
    BY <1>2 DEF Handles, Unlock, Cur
  <1> QED BY <1>1, <1>3, <1>4, OwnedMoves

LEMMA FreshOwned ==
    ASSUME Owned, NEW c \in Clients, Fresh(c), fault' = fault
    PROVE  Owned'
  <1>1. Active(c) /\ th[c].pc = "fresh" /\ Cur(c) = th[c].cur /\ Cur(c) \in Alloc
        /\ node[Cur(c)].key = Key(c) /\ th[c].stage = "check" /\ Cmd(c).op \in AsksExpiry
    BY PlaceIs DEF Fresh, Active, Standing, Fits, Inserting, Removing
  <1>2. Typed /\ head' = head /\ node' = node /\ lock' = lock
    BY DEF Fresh, Typed, Owned, Memory, TypeOK
  <1>3. CASE node[Cur(c)].expired
    <2>1. Goes(c, "enter", "del", th[c].cur, th[c].got)
      BY <1>1, <1>3, PlaceIs, GotoStageIs DEF Places, Fresh
    <2>2. Arrives(c, "enter", "del", th[c].cur)
      BY <1>1 DEF Arrives, Fits, Standing, Holding, Writing, Inserting, Removing
    <2> QED BY <1>1, <1>2, <2>1, <2>2, OwnedGoes DEF Holding, Writing, Inserting, Removing, Places
  <1>4. CASE ~node[Cur(c)].expired
    <2> DEFINE p == IF Cmd(c).op = "lpush" THEN "take" ELSE "auth"
    <2>1. p \in {"take", "auth"} /\ (p = "take" <=> Cmd(c).op = "lpush") /\ Goto(c, p)
      BY <1>4 DEF Fresh
    <2> HIDE DEF p
    <2>2. Goes(c, p, "check", th[c].cur, th[c].got)
      BY <1>1, <2>1, PlaceIs, GotoIs DEF Places
    <2>3. Arrives(c, p, "check", th[c].cur)
      BY <1>1, <2>1 DEF Arrives, Fits, Inserting
    <2> QED BY <1>1, <1>2, <2>1, <2>2, <2>3, OwnedGoes DEF Holding, Writing, Inserting, Removing, Places
  <1> QED BY <1>3, <1>4

LEMMA CheckOwned ==
    ASSUME Owned, NEW c \in Clients, Check(c), fault' = fault
    PROVE  Owned'
  <1>1. Active(c) /\ th[c].pc = "auth" /\ Cur(c) = th[c].cur /\ Cur(c) \in Alloc
        /\ node[Cur(c)].key = Key(c) /\ th[c].stage = "check" /\ Cmd(c).op \in Ops
    BY PlaceIs DEF Check, Active, Standing, Fits, Inserting, Removing
  <1>2. head' = head /\ node' = node /\ lock' = lock /\ size' = size /\ freed' = freed /\ obj' = obj
    BY DEF Check
  <1>3. Cmd(c).op = "lpush" => Taken(c)
    BY <1>1 DEF Taken
  <1>4. CASE Finish(c, Plain("perm"))
    <2>1. size' \in [Buckets -> Int] /\ freed' \subseteq Ids /\ obj' \in [Ids -> SUBSET Ids]
      BY <1>2 DEF Owned, Memory, TypeOK
    <2> QED BY <1>1, <1>2, <1>4, <2>1, NothingRelinked, OwnedFinishes, PlainIs
        DEF Owned, Holding, Writing, Inserting, Removing
  <1>5. ASSUME kept' = kept, NEW p \in {"read", "lock", "enter"}, NEW s \in {"check", "set", "del"},
               Goes(c, p, s, th[c].cur, th[c].got),
               \/ p = "read" /\ s = "check" /\ Cmd(c).op = "get"
               \/ p = "lock" /\ s = "check" /\ Cmd(c).op \notin {"get", "make", "del"}
               \/ p = "enter" /\ s = "set" /\ Cmd(c).op = "make"
               \/ p = "enter" /\ s = "del" /\ Cmd(c).op = "del"
        PROVE  Owned'
    <2>1. Typed
      BY <1>2, <1>5 DEF Typed, Owned, Memory, TypeOK
    <2>2. Arrives(c, p, s, th[c].cur)
      BY <1>1, <1>5 DEF Arrives, Fits, Inserting, Standing, Holding, Writing, Removing, Ops
    <2> QED BY <1>1, <1>2, <1>3, <1>5, <2>1, <2>2, OwnedGoes DEF Holding, Writing, Inserting, Removing, Places
  <1>6. CASE Cmd(c).op = "get" /\ Goto(c, "read") /\ kept' = kept
    BY <1>1, <1>5, <1>6, GotoIs, PlaceIs DEF Places
  <1>7. CASE Cmd(c).op \notin {"get", "make", "del"} /\ Goto(c, "lock") /\ kept' = kept
    BY <1>1, <1>5, <1>7, GotoIs, PlaceIs DEF Places
  <1>8. CASE /\ Cmd(c).op \in {"make", "del"} /\ kept' = kept
             /\ th' = [th EXCEPT ![c].pc = "enter", ![c].stage = IF Cmd(c).op = "make" THEN "set" ELSE "del"]
    <2>1. CASE Cmd(c).op = "make"
      <3>1. th' = [th EXCEPT ![c].pc = "enter", ![c].stage = "set"]
        BY <1>8, <2>1
      <3> QED BY <1>5, <1>8, <2>1, <3>1, GotoStageIs, PlaceIs, <1>1 DEF Places
    <2>2. CASE Cmd(c).op = "del"
      <3>1. th' = [th EXCEPT ![c].pc = "enter", ![c].stage = "del"]
        BY <1>8, <2>2
      <3> QED BY <1>5, <1>8, <2>2, <3>1, GotoStageIs, PlaceIs, <1>1 DEF Places
    <2> QED BY <1>8, <2>1, <2>2
  <1> QED BY <1>4, <1>6, <1>7, <1>8 DEF Check

LEMMA ShowOwned ==
    ASSUME Owned, NEW c \in Clients, Show(c), fault' = fault
    PROVE  Owned'
  <1>1. Active(c) /\ th[c].pc = "show"
    BY DEF Show, Active
  <1>2. th[c].got \in Ids /\ obj \in [Ids -> SUBSET Ids]
    BY <1>1 DEF Taken, Owned, Values, Memory, TypeOK
  <1>3. [msg |-> "data", val |-> th[c].got, elems |-> obj[th[c].got]] \in Answers
    BY <1>2 DEF Answers
  <1>4. size' \in [Buckets -> Int] /\ freed' \subseteq Ids /\ obj' \in [Ids -> SUBSET Ids]
    BY DEF Show, Owned, Memory, TypeOK
  <1>5. Relinks
    BY NothingRelinked DEF Show, Owned
  <1>6. Finish(c, [msg |-> "data", val |-> th[c].got, elems |-> obj[th[c].got]]) /\ lock' = lock
    BY DEF Show
  <1>7. th[c].pc \notin Holding
    BY <1>1 DEF Holding, Writing, Inserting, Removing
  <1> QED BY <1>1, <1>3, <1>4, <1>5, <1>6, <1>7, OwnedFinishes

LEMMA LockOwned ==
    ASSUME Owned, NEW c \in Clients, Lock(c), fault' = fault
    PROVE  Owned'
  <1> DEFINE s == th[c].stage
             x == th[c].cur
             g == th[c].got
             p == AfterLock(c)
  <1>1. Active(c) /\ th[c].pc = "lock" /\ Cur(c) = x /\ x \in Alloc /\ node[x].key = Key(c)
        /\ Fits("lock", s, Cmd(c).op)
    BY PlaceIs DEF Lock, Active, Standing
  <1>2. \/ p = "setv" /\ s = "set" /\ Cmd(c).op = "make"
        \/ p = "unprev" /\ s = "del" /\ Cmd(c).op \in AsksExpiry \union {"del"}
        \/ p = "load" /\ s = "check" /\ Cmd(c).op = "lpush"
        \/ p = "setr" /\ s = "check" /\ Cmd(c).op = "authr"
        \/ p = "setw" /\ s = "check" /\ Cmd(c).op = "authw"
        \/ p = "expire" /\ s = "check" /\ Cmd(c).op = "expire"
    <2>1. \/ s = "set" /\ Cmd(c).op = "make"
          \/ s = "del" /\ Cmd(c).op \in AsksExpiry \union {"del"}
          \/ s = "check" /\ Cmd(c).op \in {"expire", "authr", "authw", "lpush"}
      BY <1>1 DEF Fits, Inserting, Removing, Writing
    <2> HIDE DEF s
    <2>2. p = CASE s = "set" -> "setv"
                [] s = "del" -> "unprev"
                [] s = "check" -> CASE Cmd(c).op = "lpush" -> "load"
                                    [] Cmd(c).op = "authr" -> "setr"
                                    [] Cmd(c).op = "authw" -> "setw"
                                    [] OTHER -> "expire"
      BY DEF AfterLock, s
    <2> HIDE DEF p
    <2>3. CASE s = "set" /\ Cmd(c).op = "make"
      BY <2>2, <2>3
    <2>4. CASE s = "del" /\ Cmd(c).op \in AsksExpiry \union {"del"}
      BY <2>2, <2>4
    <2>5. CASE s = "check" /\ Cmd(c).op \in {"expire", "authr", "authw", "lpush"}
      BY <2>2, <2>5
    <2> QED BY <2>1, <2>3, <2>4, <2>5
  <1>3. Goto(c, p) /\ lock' = [lock EXCEPT ![x] = c] /\ lock[x] = NULL
    BY <1>1 DEF Lock
  <1> HIDE DEF p
  <1>4. Goes(c, p, s, x, g)
    BY <1>1, <1>2, <1>3, PlaceIs, GotoIs DEF Places
  <1>5. Arrives(c, p, s, x)
    BY <1>1, <1>2 DEF Arrives, Fits, Inserting, Removing
  <1>6. Relinks /\ Typed
    BY NothingRelinked DEF Lock, Typed, Owned, Memory, TypeOK
  <1>7. Handles(c, p, x)
    BY <1>1, <1>2, <1>3 DEF Handles, Holding, Writing, Inserting, Removing
  <1>8. Sees(c, p, s, x, g)
    BY <1>1, <1>2 DEF Sees, Taken
  <1> QED BY <1>1, <1>2, <1>4, <1>5, <1>6, <1>7, <1>8, OwnedMoves DEF Inserting

LEMMA LoadOwned ==
    ASSUME Owned, NEW c \in Clients, Load(c), fault' = fault
    PROVE  Owned'
  <1>1. Active(c) /\ th[c].pc = "load" /\ Cur(c) = th[c].cur /\ Cur(c) \in Alloc
        /\ node[Cur(c)].key = Key(c) /\ th[c].stage = "check" /\ Cmd(c).op = "lpush"
    BY PlaceIs DEF Load, Active, Standing, Fits, Inserting, Removing, Holding, Writing
  <1>2. obj[th[c].got] \in SUBSET Ids
    BY <1>1 DEF Taken, Owned, Values, Memory, TypeOK
  <1>3. Goes(c, "push", th[c].stage, th[c].cur, th[c].got)
    BY <1>1, <1>2, GotoSeenIs, PlaceIs DEF Load, Places
  <1>4. Typed /\ head' = head /\ node' = node /\ lock' = lock
    BY DEF Load, Typed, Owned, Memory, TypeOK
  <1>5. Arrives(c, "push", th[c].stage, th[c].cur)
    BY <1>1 DEF Arrives, Fits, Inserting
  <1> QED BY <1>1, <1>3, <1>4, <1>5, PlaceIs, OwnedGoes DEF Holding, Writing, Inserting, Removing, Places

LEMMA PushOwned ==
    ASSUME Owned, NEW c \in Clients, Push(c), fault' = fault
    PROVE  Owned'
  <1>1. Active(c) /\ th[c].pc = "push"
    BY DEF Push, Active
  <1>2. th[c].seen \in SUBSET Ids /\ Me(c) \in Ids
    BY <1>1, PlaceIs DEF Owned, Memory, TypeOK, Thread
  <1>3. obj' \in [Ids -> SUBSET Ids] /\ size' \in [Buckets -> Int] /\ freed' \subseteq Ids
    BY <1>2 DEF Push, Owned, Memory, TypeOK
  <1>4. Relinks /\ Finish(c, Plain("ok")) /\ Unlock(c)
    BY NothingRelinked DEF Push, Owned
  <1>5. th[c].pc \in Holding
    BY <1>1 DEF Holding, Writing
  <1> QED BY <1>1, <1>3, <1>4, <1>5, PlainIs, OwnedFinishes

LEMMA TestOwned ==
    ASSUME Owned, NEW c \in Clients, Test(c), fault' = fault
    PROVE  Owned'
  <1> DEFINE p == IF head[Slot(c)] = NULL THEN "publish" ELSE "link"
  <1>1. Active(c) /\ th[c].pc = "test" /\ Cur(c) = th[c].cur /\ Cur(c) \in Alloc /\ Cur(c) = Me(c)
        /\ node[Cur(c)].key = Key(c) /\ th[c].stage = "set" /\ Cmd(c).op = "make"
    BY PlaceIs DEF Test, Active, Standing, Fits, Inserting, Removing, Holding
  <1>2. p \in {"publish", "link"} /\ Goto(c, p)
    BY DEF Test
  <1> HIDE DEF p
  <1>3. Goes(c, p, th[c].stage, th[c].cur, th[c].got)
    BY <1>1, <1>2, GotoIs, PlaceIs DEF Places
  <1>4. Typed /\ head' = head /\ node' = node /\ lock' = lock
    BY DEF Test, Typed, Owned, Memory, TypeOK
  <1>5. Arrives(c, p, th[c].stage, th[c].cur)
    BY <1>1, <1>2 DEF Arrives, Fits, Inserting
  <1> QED BY <1>1, <1>2, <1>3, <1>4, <1>5, PlaceIs, OwnedGoes DEF Holding, Writing, Inserting, Removing, Places

LEMMA CountOwned ==
    ASSUME Owned, NEW c \in Clients, Count(c), fault' = fault
    PROVE  Owned'
  <1> DEFINE p == IF th[c].pc = "count" THEN "inc" ELSE "dec"
             r == size[Slot(c)]
  <1>1. Active(c) /\ Cur(c) = th[c].cur /\ Cur(c) \in Alloc /\ node[Cur(c)].key = Key(c)
        /\ \/ th[c].pc = "count" /\ th[c].stage = "set" /\ Cmd(c).op = "make" /\ Cur(c) = Me(c)
           \/ th[c].pc = "size" /\ th[c].stage = "del" /\ Cmd(c).op \in AsksExpiry \union {"del"}
    BY PlaceIs DEF Count, Active, Standing, Fits, Inserting, Removing, Holding, Writing
  <1>2. th' = [th EXCEPT ![c].pc = p, ![c].reg = r] /\ r \in Int
    BY <1>1, PlaceIs DEF Count, TypeOK
  <1>3. p \in {"inc", "dec"} /\ (p = "inc" <=> th[c].pc = "count")
    OBVIOUS
  <1> HIDE DEF p, r
  <1>4. Goes(c, p, th[c].stage, th[c].cur, th[c].got)
    <2>1. TypeOK /\ p \in Places
      BY <1>3 DEF Owned, Memory, Places
    <2> QED BY <1>2, <2>1, GotoRegIs
  <1>5. Typed /\ head' = head /\ node' = node /\ lock' = lock
    BY DEF Count, Typed, Owned, Memory, TypeOK
  <1>6. Arrives(c, p, th[c].stage, th[c].cur)
    BY <1>1, <1>3 DEF Arrives, Fits, Inserting, Removing
  <1> QED BY <1>1, <1>3, <1>4, <1>5, <1>6, PlaceIs, OwnedGoes DEF Holding, Writing, Inserting, Removing, Places

LEMMA FreeOwned ==
    ASSUME Owned, NEW c \in Clients, Free(c), fault' = fault
    PROVE  Owned'
  <1>1. Active(c) /\ th[c].pc = "free" /\ Cur(c) = th[c].cur /\ Cur(c) \in Alloc /\ node[Cur(c)].key = Key(c)
        /\ th[c].stage = "del" /\ Cmd(c).op \in AsksExpiry \union {"del"}
    BY PlaceIs DEF Free, Active, Standing, Fits, Inserting, Removing, Holding, Writing
  <1>2. Goes(c, "size", th[c].stage, th[c].cur, th[c].got)
    BY <1>1, GotoIs, PlaceIs DEF Places, Free
  <1>3. Typed /\ head' = head /\ node' = node /\ lock' = lock
    BY <1>1 DEF Free, Typed, Owned, Memory, TypeOK, Alloc
  <1>4. Arrives(c, "size", th[c].stage, th[c].cur)
    BY <1>1 DEF Arrives, Fits, Inserting, Removing
  <1> QED BY <1>1, <1>2, <1>3, <1>4, PlaceIs, OwnedGoes DEF Holding, Writing, Inserting, Removing, Places

LEMMA CountedOwned ==
    ASSUME Owned, NEW c \in Clients, Inc(c) \/ Dec(c), fault' = fault
    PROVE  Owned'
  <1>1. Active(c) /\ th[c].pc \in {"inc", "dec"}
    BY DEF Inc, Dec, Active
  <1>2. th[c].reg \in Int
    BY DEF Owned, Memory, TypeOK, Thread
  <1>3. size' \in [Buckets -> Int] /\ freed' \subseteq Ids /\ obj' \in [Ids -> SUBSET Ids]
    BY <1>2 DEF Inc, Dec, Owned, Memory, TypeOK
  <1>4. Relinks /\ Unlock(c)
    BY NothingRelinked DEF Inc, Dec, Owned
  <1>5. Finish(c, Plain("ok")) \/ Finish(c, Plain("nokey"))
    BY DEF Inc, Dec
  <1>6. th[c].pc \in Holding
    BY <1>1 DEF Holding, Inserting, Removing
  <1> QED BY <1>1, <1>3, <1>4, <1>5, <1>6, PlainIs, OwnedFinishes

\* One node gets another next, prev or expiry.
LEMMA OneRelinked ==
    ASSUME Memory, NEW i \in Alloc, NEW n \in Node, node' = [node EXCEPT ![i] = n],
           n.key = node[i].key, n.val = node[i].val, n.authr = node[i].authr, n.authw = node[i].authw,
           n.next \in Alloc \union {NULL}, n.prev \in Alloc \union {NULL},
           head' \in [Buckets -> Alloc \union {NULL}]
    PROVE  Relinks
  <1>1. node \in [Ids -> Node \union {NULL}] /\ i \in Ids /\ n # NULL
    BY NullIs DEF Memory, TypeOK, Alloc
  <1>2. \A j \in Ids : node'[j] = IF j = i THEN n ELSE node[j]
    BY <1>1
  <1>3. node' \in [Ids -> Node \union {NULL}]
    BY <1>1
  <1>4. Alloc' = Alloc
    BY <1>1, <1>2 DEF Alloc
  <1>5. \A j \in Alloc : j \in Ids /\ node[j].next \in Alloc \union {NULL} /\ node[j].prev \in Alloc \union {NULL}
    BY DEF Memory, Pointers, Alloc
  <1> QED BY <1>2, <1>3, <1>4, <1>5 DEF Relinks

LEMMA HeadIs ==
    ASSUME Memory
    PROVE  head \in [Buckets -> Alloc \union {NULL}]
  BY DEF Memory, TypeOK, Pointers

LEMMA ExpireOwned ==
    ASSUME Owned, NEW c \in Clients, Expire(c), fault' = fault
    PROVE  Owned'
  <1> DEFINE n == [node[Cur(c)] EXCEPT !.expired = TRUE]
  <1>1. Active(c) /\ th[c].pc = "expire" /\ Cur(c) \in Alloc
    BY PlaceIs DEF Expire, Active, Standing, Holding, Writing
  <1>2. node' = [node EXCEPT ![Cur(c)] = n] /\ head' = head
    BY DEF Expire
  <1>3. /\ n \in Node /\ n.key = node[Cur(c)].key /\ n.val = node[Cur(c)].val /\ n.next = node[Cur(c)].next
        /\ n.prev = node[Cur(c)].prev /\ n.authr = node[Cur(c)].authr /\ n.authw = node[Cur(c)].authw
    BY <1>1, NodeIs, PlaceIs DEF Node
  <1>4. node[Cur(c)].next \in Alloc \union {NULL} /\ node[Cur(c)].prev \in Alloc \union {NULL}
    BY <1>1 DEF Owned, Memory, Pointers
  <1> HIDE DEF n
  <1>5. Relinks
    BY <1>1, <1>2, <1>3, <1>4, HeadIs, OneRelinked DEF Owned
  <1>6. size' \in [Buckets -> Int] /\ freed' \subseteq Ids /\ obj' \in [Ids -> SUBSET Ids]
    BY DEF Expire, Owned, Memory, TypeOK
  <1>7. th[c].pc \in Holding /\ Finish(c, Plain("ok")) /\ Unlock(c)
    BY <1>1 DEF Holding, Writing, Expire
  <1> QED BY <1>1, <1>5, <1>6, <1>7, PlainIs, OwnedFinishes

\* A step of Hash::set or Hash::del that changes links.
LEMMA OwnedRelinks ==
    ASSUME Owned, NEW c \in Clients, NEW p \in Places, Goto(c, p), Relinks, lock' = lock,
           size' = size, freed' = freed, obj' = obj, kept' = kept, fault' = fault,
           \/ th[c].pc \in Inserting /\ p \in Inserting
           \/ th[c].pc \in Removing /\ p \in Removing
    PROVE  Owned'
  <1>1. Active(c) /\ th[c].pc \in Standing /\ th[c].pc \in Holding /\ p \in Holding
    BY DEF Active, Standing, Holding, Inserting, Removing
  <1>2. Cur(c) = th[c].cur /\ Cur(c) \in Alloc /\ node[Cur(c)].key = Key(c)
        /\ Fits(th[c].pc, th[c].stage, Cmd(c).op) /\ (th[c].pc \in Inserting => Cur(c) = Me(c))
    BY <1>1, PlaceIs
  <1>3. Goes(c, p, th[c].stage, th[c].cur, th[c].got)
    BY GotoIs DEF Owned, Memory
  <1>4. Fits(p, th[c].stage, Cmd(c).op) /\ p # "idle" /\ p # "walk" /\ (p \in Inserting => th[c].pc \in Inserting)
    BY <1>2 DEF Fits, Inserting, Removing
  <1>5. Arrives(c, p, th[c].stage, th[c].cur)
    BY <1>2, <1>4 DEF Arrives
  <1>6. Handles(c, p, th[c].cur)
    BY <1>1 DEF Handles
  <1>7. Sees(c, p, th[c].stage, th[c].cur, th[c].got)
    BY DEF Sees, Inserting, Removing
  <1>8. Typed
    BY DEF Typed, Owned, Memory, TypeOK
  <1> QED BY <1>1, <1>3, <1>5, <1>6, <1>7, <1>8, OwnedMoves DEF Inserting, Removing

\* A node gets another next or prev.
LEMMA NextRelinked ==
    ASSUME Memory, NEW i \in Alloc, NEW x \in Alloc \union {NULL}, node' = [node EXCEPT ![i].next = x],
           head' = head
    PROVE  Relinks
  <1> DEFINE n == [node[i] EXCEPT !.next = x]
  <1>1. node' = [node EXCEPT ![i] = n] /\ x \in Ids \union {NULL}
    BY DEF Alloc
  <1>2. /\ n \in Node /\ n.key = node[i].key /\ n.val = node[i].val /\ n.next = x
        /\ n.prev = node[i].prev /\ n.authr = node[i].authr /\ n.authw = node[i].authw
    BY <1>1, NodeIs DEF Node, Memory
  <1>3. node[i].prev \in Alloc \union {NULL}
    BY DEF Memory, Pointers
  <1> HIDE DEF n
  <1> QED BY <1>1, <1>2, <1>3, HeadIs, OneRelinked

LEMMA PrevRelinked ==
    ASSUME Memory, NEW i \in Alloc, NEW x \in Alloc \union {NULL}, node' = [node EXCEPT ![i].prev = x],
           head' = head
    PROVE  Relinks
  <1> DEFINE n == [node[i] EXCEPT !.prev = x]
  <1>1. node' = [node EXCEPT ![i] = n] /\ x \in Ids \union {NULL}
    BY DEF Alloc
  <1>2. /\ n \in Node /\ n.key = node[i].key /\ n.val = node[i].val /\ n.prev = x
        /\ n.next = node[i].next /\ n.authr = node[i].authr /\ n.authw = node[i].authw
    BY <1>1, NodeIs DEF Node, Memory
  <1>3. node[i].next \in Alloc \union {NULL}
    BY DEF Memory, Pointers
  <1> HIDE DEF n
  <1> QED BY <1>1, <1>2, <1>3, HeadIs, OneRelinked

LEMMA HeadRelinked ==
    ASSUME Memory, NEW b \in Buckets, NEW x \in Alloc \union {NULL}, head' = [head EXCEPT ![b] = x],
           node' = node
    PROVE  Relinks
  <1>1. head' \in [Buckets -> Alloc \union {NULL}]
    BY HeadIs
  <1> QED BY <1>1 DEF Relinks, Memory, TypeOK, Pointers, Alloc

LEMMA LinkOwned ==
    ASSUME Owned, NEW c \in Clients, Link(c), fault' = fault
    PROVE  Owned'
  <1>1. th[c].pc = "link" /\ Active(c) /\ Cur(c) \in Alloc /\ Slot(c) \in Buckets
    BY PlaceIs DEF Link, Active, Standing, Holding, Inserting
  <1>2. Relinks
    BY <1>1, HeadIs, NextRelinked DEF Link, Owned
  <1> QED BY <1>1, <1>2, OwnedRelinks DEF Link, Places, Inserting

LEMMA BackOwned ==
    ASSUME Owned, NEW c \in Clients, Back(c), ~Strays(c), fault' = fault
    PROVE  Owned'
  <1>1. th[c].pc = "back" /\ Active(c) /\ Cur(c) \in Alloc /\ Slot(c) \in Buckets
    BY PlaceIs DEF Back, Active, Standing, Holding, Inserting
  <1>2. head[Slot(c)] # NULL
    BY <1>1 DEF Strays, Touched
  <1>3. Relinks
    BY <1>1, <1>2, HeadIs, PrevRelinked DEF Back, Owned
  <1> QED BY <1>1, <1>3, OwnedRelinks DEF Back, Places, Inserting

LEMMA PublishOwned ==
    ASSUME Owned, NEW c \in Clients, Publish(c), fault' = fault
    PROVE  Owned'
  <1>1. th[c].pc = "publish" /\ Active(c) /\ Cur(c) \in Alloc /\ Slot(c) \in Buckets
    BY PlaceIs DEF Publish, Active, Standing, Holding, Inserting
  <1>2. Relinks
    BY <1>1, HeadRelinked DEF Publish, Owned
  <1> QED BY <1>1, <1>2, OwnedRelinks DEF Publish, Places, Inserting

LEMMA UnprevOwned ==
    ASSUME Owned, NEW c \in Clients, Unprev(c), fault' = fault
    PROVE  Owned'
  <1>1. th[c].pc = "unprev" /\ Active(c) /\ Cur(c) \in Alloc
    BY PlaceIs DEF Unprev, Active, Standing, Holding, Removing
  <1>2. node[Cur(c)].next \in Alloc \union {NULL} /\ node[Cur(c)].prev \in Alloc \union {NULL}
    BY <1>1 DEF Owned, Memory, Pointers
  <1>3. CASE node[Cur(c)].next = NULL
    BY <1>1, <1>3, NothingRelinked, OwnedRelinks DEF Unprev, Places, Removing, Owned
  <1>4. CASE node[Cur(c)].next # NULL
    <2>1. Relinks
      BY <1>1, <1>2, <1>4, PrevRelinked DEF Unprev, Owned
    <2> QED BY <1>1, <2>1, OwnedRelinks DEF Unprev, Places, Removing
  <1> QED BY <1>3, <1>4

LEMMA UnhookOwned ==
    ASSUME Owned, NEW c \in Clients, Unhook(c), fault' = fault
    PROVE  Owned'
  <1>1. th[c].pc = "unhook" /\ Active(c) /\ Cur(c) \in Alloc /\ Slot(c) \in Buckets
    BY PlaceIs DEF Unhook, Active, Standing, Holding, Removing
  <1>2. node[Cur(c)].next \in Alloc \union {NULL} /\ node[Cur(c)].prev \in Alloc \union {NULL}
    BY <1>1 DEF Owned, Memory, Pointers
  <1>3. Relinks
    <2>1. CASE node[Cur(c)].prev = NULL
      BY <1>1, <1>2, <2>1, HeadRelinked DEF Unhook, Owned
    <2>2. CASE node[Cur(c)].prev # NULL
      BY <1>1, <1>2, <2>2, NextRelinked DEF Unhook, Owned
    <2> QED BY <2>1, <2>2
  <1> QED BY <1>1, <1>3, OwnedRelinks DEF Unhook, Places, Removing

LEMMA TakenOwned ==
    ASSUME Owned, NEW c \in Clients, TakeList(c) \/ Read(c), fault' = fault
    PROVE  Owned'
  <1> DEFINE p == IF th[c].pc = "take" THEN "auth" ELSE "show"
             x == th[c].cur
             g == node[x].val
  <1>1. Active(c) /\ Cur(c) = x /\ x \in Alloc /\ node[x].key = Key(c) /\ th[c].stage = "check"
        /\ \/ th[c].pc = "take" /\ Cmd(c).op = "lpush"
           \/ th[c].pc = "read" /\ Cmd(c).op = "get"
    BY PlaceIs DEF TakeList, Read, Active, Standing, Fits, Inserting, Removing
  <1>2. g \in Ids
    BY <1>1, NodeIs, PlaceIs
  <1>3. th' = [th EXCEPT ![c].pc = p, ![c].got = g]
    BY <1>1 DEF TakeList, Read
  <1>4. p \in {"auth", "show"} /\ (p = "auth" <=> th[c].pc = "take")
    OBVIOUS
  <1> HIDE DEF p
  <1>5. Goes(c, p, th[c].stage, x, g)
    <2>1. TypeOK /\ p \in Places
      BY <1>4 DEF Owned, Memory, Places
    <2> QED BY <1>2, <1>3, <2>1, GotoGotIs
  <1>6. Arrives(c, p, th[c].stage, x)
    BY <1>1, <1>4 DEF Arrives, Fits, Inserting
  <1>7. Relinks /\ Typed /\ Handles(c, p, x)
    BY <1>1, <1>4, NothingRelinked
       DEF TakeList, Read, Typed, Handles, Holding, Writing, Inserting, Removing, Owned, Memory, TypeOK
  <1>8. Memory' /\ Authorities' /\ SameNodes /\ Steps(c) /\ Ends(c) /\ Calm(c)
    BY <1>1, <1>4, <1>5, <1>6, <1>7, MemoryMoves DEF Inserting
  <1>9. Values'
    <2>1. \A i \in Alloc' : i \in Alloc /\ node'[i].val = node[i].val
      BY <1>8 DEF Calm, SameNodes
    <2>2. \A d \in Clients : d # c /\ Taken(d)' => Taken(d) /\ th'[d].got = th[d].got /\ Cur(d)' = Cur(d)
      BY <1>8 DEF Steps, Taken, Cur, Cmd
    <2>3. th'[c].got = g /\ Cur(c)' = x
      BY <1>5 DEF Goes, Cur
    <2>4. ASSUME NEW d \in Clients, NEW k \in 1..MaxCommands, Unmade(d, k)' PROVE Unmade(d, k)
      BY <1>1, <1>8, <2>4 DEF Unmade, Made, Steps, Inserting
    <2>5. ASSUME NEW d \in Clients, NEW k \in 1..MaxCommands, Unmade(d, k)'
          PROVE  /\ \A i \in Alloc' : node'[i].val # <<d, k>>
                 /\ \A e \in Clients : Taken(e)' => th'[e].got # <<d, k>>
      <3>1. /\ \A i \in Alloc : node[i].val # <<d, k>>
            /\ \A e \in Clients : Taken(e) => th[e].got # <<d, k>>
        BY <2>4, <2>5 DEF Owned, Values
      <3>2. g # <<d, k>>
        BY <1>1, <3>1
      <3> QED BY <2>1, <2>2, <2>3, <3>1, <3>2
    <2>6. \A i, j \in Alloc' : node'[i].val = node'[j].val => i = j
      BY <2>1 DEF Values, Owned
    <2>7. ASSUME NEW d \in Clients, Taken(d)'
          PROVE  th'[d].got \in Ids /\ \A j \in Alloc' : node'[j].val = th'[d].got => j = Cur(d)'
      <3>1. CASE d = c
        BY <1>1, <1>2, <2>1, <2>3, <3>1 DEF Values, Owned
      <3>2. CASE d # c
        BY <2>1, <2>2, <2>7, <3>2 DEF Values, Owned
      <3> QED BY <3>1, <3>2
    <2> QED BY <2>5, <2>6, <2>7 DEF Values
  <1> QED BY <1>8, <1>9 DEF Owned

-----------------------------------------------------------------------------
(* The writes of a value and of authorities                                *)

\* c writes to its node, of which it has the mutex.
Writes(c, p, n) ==
    /\ th[c].pc \in {"setv", "setr", "fixw", "setw", "fixr"}
    /\ n \in Node /\ n.key = node[Cur(c)].key /\ n.next = node[Cur(c)].next /\ n.prev = node[Cur(c)].prev
    /\ node' = [node EXCEPT ![Cur(c)] = n]
    /\ head' = head /\ size' = size /\ freed' = freed /\ obj' = obj /\ fault' = fault /\ kept' \subseteq Keys
    /\ \/ p \in {"setr", "fixw", "setw", "fixr"} /\ lock' = lock /\ Fits(p, th[c].stage, Cmd(c).op)
          /\ Goes(c, p, th[c].stage, th[c].cur, th[c].got)
       \/ p = "idle" /\ Unlock(c) /\ Goes(c, p, "check", NULL, NULL)

LEMMA WriterIs ==
    ASSUME Owned, NEW c \in Clients, th[c].pc \in {"setv", "setr", "fixw", "setw", "fixr"}
    PROVE  /\ Active(c) /\ Cur(c) \in Alloc /\ node[Cur(c)].key = Key(c) /\ lock[Cur(c)] = c
           /\ Cur(c) = th[c].cur /\ node[Cur(c)] \in Node /\ Me(c) \in Ids /\ Cmd(c) \in Work[c]
           /\ Cmd(c) \in Commands /\ Sendable(c, Cmd(c))
           /\ Fits(th[c].pc, th[c].stage, Cmd(c).op) /\ th[c].pc \notin Inserting /\ th[c].pc \in Holding
  <1>1. Active(c) /\ th[c].pc \in Standing /\ th[c].pc \notin Inserting /\ th[c].pc \in Holding
    BY DEF Active, Standing, Holding, Writing, Inserting
  <1>2. Cmd(c) \in Work[c] /\ TypeOK /\ (th[c].pc \in Holding => lock[Cur(c)] = c)
    BY <1>1 DEF Owned, Memory, Placed, Active, Mutex
  <1> QED BY <1>1, <1>2, PlaceIs, NodeIs, WorkIs

LEMMA WriteMemory ==
    ASSUME Owned, NEW c \in Clients, NEW p, NEW n, Writes(c, p, n)
    PROVE  /\ Memory' /\ SameNodes /\ Steps(c) /\ th'[c].pc = p /\ Cmd(c)' = Cmd(c) /\ Me(c)' = Me(c)
           /\ Alloc' = Alloc /\ \A j \in Alloc : node'[j] = IF j = Cur(c) THEN n ELSE node[j]
           /\ \A j \in Ids : j # Cur(c) => lock'[j] = lock[j]
           /\ p # "idle" => lock'[Cur(c)] = c /\ Cur(c)' = Cur(c)
           /\ p = "idle" => lock'[Cur(c)] = NULL
           /\ Blind(c)
  <1>1. Active(c) /\ Cur(c) \in Alloc /\ Cur(c) = th[c].cur /\ th[c].pc \in Holding /\ th[c].pc \notin Inserting
        /\ lock[Cur(c)] = c /\ node[Cur(c)].key = Key(c)
    BY WriterIs DEF Writes
  <1>2. node \in [Ids -> Node \union {NULL}] /\ lock \in [Ids -> Clients \union {NULL}] /\ n # NULL
        /\ Cur(c) \in Ids
    BY <1>1, NullIs DEF Owned, Memory, TypeOK, Writes, Alloc
  <1>3. \A j \in Ids : node'[j] = IF j = Cur(c) THEN n ELSE node[j]
    BY <1>2 DEF Writes
  <1>4. Alloc' = Alloc
    BY <1>2, <1>3, <1>1 DEF Alloc
  <1>5. SameNodes
    BY <1>2, <1>3, <1>4 DEF SameNodes, SameKeys, Writes, Alloc
  <1>6. Steps(c) /\ th'[c].pc = p /\ Cmd(c)' = Cmd(c) /\ Me(c)' = Me(c)
    BY DEF Writes, Goes, Steps, Cmd, Me
  <1>7. p # "idle" => p \in Holding /\ p \notin Inserting /\ p # "walk"
    BY DEF Writes, Holding, Writing, Inserting
  <1>8. Keeps(c) \/ Gives(c)
    <2>1. CASE p = "idle"
      BY <1>1, <1>2, <2>1 DEF Writes, Gives, Goes, Unlock, Cur, Holding, Writing, Inserting, Removing
    <2>2. CASE p # "idle"
      BY <1>1, <1>7, <2>2 DEF Writes, Keeps, Goes
    <2> QED BY <2>1, <2>2
  <1>9. Placed(c)'
    <2>1. CASE p = "idle"
      BY <2>1 DEF Writes, Goes, Placed
    <2>2. CASE p # "idle"
      <3>1. Arrives(c, p, th[c].stage, th[c].cur) /\ Goes(c, p, th[c].stage, th[c].cur, th[c].got)
        BY <1>1, <1>7, <2>2 DEF Writes, Arrives
      <3> QED BY <1>1, <1>5, <3>1, PlacedThere DEF Owned, SameNodes
    <2> QED BY <2>1, <2>2
  <1>10. Pointers'
    <2>1. \A j \in Alloc : /\ node'[j].next \in Alloc \union {NULL}
                           /\ node'[j].prev \in Alloc \union {NULL}
      BY <1>1, <1>3 DEF Owned, Memory, Pointers, Alloc, Writes
    <2>2. \A b \in Buckets : head'[b] \in Alloc \union {NULL}
      BY DEF Owned, Memory, Pointers, Writes
    <2> QED BY <1>4, <2>1, <2>2 DEF Pointers
  <1>11. TypeOK'
    <2>1. lock' \in [Ids -> Clients \union {NULL}]
      BY <1>2 DEF Writes, Unlock
    <2> QED BY <1>5, <1>6, <2>1 DEF TypeOK, Owned, Memory, Steps, SameNodes, SameKeys, Writes
  <1>12. Ends(c)
    BY <1>1 DEF Ends
  <1>13. Memory'
    BY <1>1, <1>5, <1>6, <1>8, <1>9, <1>10, <1>11, <1>12, MemoryStays DEF Owned
  <1>14. /\ \A j \in Ids : j # Cur(c) => lock'[j] = lock[j]
         /\ p # "idle" => lock'[Cur(c)] = c /\ Cur(c)' = Cur(c)
         /\ p = "idle" => lock'[Cur(c)] = NULL
    BY <1>1, <1>2 DEF Writes, Unlock, Goes, Cur
  <1>15. Blind(c)
    BY <1>6 DEF Blind, Taken, Writes
  <1> QED BY <1>3, <1>4, <1>5, <1>6, <1>13, <1>14, <1>15 DEF Alloc

LEMMA WriteValues ==
    ASSUME Owned, NEW c \in Clients, NEW p, NEW n, Writes(c, p, n), n.val = node[Cur(c)].val
    PROVE  Values'
  <1>1. /\ SameNodes /\ Steps(c) /\ Blind(c) /\ Alloc' = Alloc /\ th'[c].pc = p
        /\ \A j \in Alloc : node'[j] = IF j = Cur(c) THEN n ELSE node[j]
    BY WriteMemory
  <1>2. p \in Made
    BY DEF Writes, Made
  <1> QED BY <1>1, <1>2, ValuesStay DEF Owned

LEMMA WriteAuthorities ==
    ASSUME Owned, NEW c \in Clients, NEW p, NEW n, NEW i, i = Cur(c), Writes(c, p, n),
           n.authr <= n.authw \/ p \in {"fixw", "fixr"},
           MadeBy(i)' \/ (p # "idle" /\ Cmd(c).op = "make"), Progress(c)'
    PROVE  Authorities'
  <1> DEFINE Marking == {"setr", "fixw", "setw", "fixr"}
  <1>1. /\ Memory' /\ Steps(c) /\ th'[c].pc = p /\ Cmd(c)' = Cmd(c)
        /\ Alloc' = Alloc /\ \A j \in Alloc : node'[j] = IF j = i THEN n ELSE node[j]
        /\ \A j \in Ids : j # i => lock'[j] = lock[j]
        /\ p # "idle" => lock'[i] = c
    BY WriteMemory
  <1>2. p # "idle" => p \in Marking
    BY DEF Writes
  <1>3. \A d \in Clients : d # c => th'[d] = th[d]
    BY <1>1 DEF Steps
  <1>4. lock[i] = c /\ i \in Alloc
    BY WriterIs DEF Writes
  <1>5. \A j \in Ids : lock[j] # NULL => th[lock[j]].cur = j
    BY DEF Owned, Memory, Mutex, Cur
  <1>6. \A j \in Alloc : j \in Ids /\ lock[j] \in Clients \union {NULL}
    BY DEF Owned, Memory, TypeOK, Alloc
  <1>7. ASSUME NEW j \in Alloc, j # i, lock[j] # NULL
        PROVE  lock'[j] = lock[j] /\ lock[j] \in Clients /\ th'[lock[j]] = th[lock[j]] /\ lock[j] # c
    BY <1>1, <1>3, <1>5, <1>6, <1>7 DEF Cur
  <1>8. c # NULL
    BY NullIs
  <1>9. ASSUME NEW j \in Alloc PROVE node'[j].authr <= node'[j].authw \/ Half(j)'
    <2>1. CASE j = i
      <3>1. node'[i] = n
        BY <1>1, <1>4
      <3>2. p \in {"fixw", "fixr"} => Half(i)' \/ Half(j)'
        BY <1>1, <1>8, <2>1 DEF Half
      <3> QED BY <1>1, <1>8, <2>1, <3>1 DEF Half
    <2>2. CASE j # i
      <3>1. node[j].authr <= node[j].authw \/ Half(j)
        BY DEF Owned, Authorities
      <3> QED BY <1>1, <1>7, <2>2, <3>1 DEF Half
    <2> QED BY <2>1, <2>2
  <1>10. ASSUME NEW j \in Alloc PROVE MadeBy(j)' \/ Partial(j)'
    <2>1. CASE j # i
      <3>1. (MadeBy(j) \/ Partial(j)) /\ node'[j] = node[j]
        BY <1>1, <2>1 DEF Owned, Authorities
      <3>2. MadeBy(j) => MadeBy(j)'
        BY <3>1 DEF MadeBy
      <3>3. Partial(j) => Partial(j)'
        BY <1>7, <2>1 DEF Partial, Cmd
      <3> QED BY <3>1, <3>2, <3>3
    <2>2. CASE j = i /\ p # "idle" /\ Cmd(c).op = "make"
      BY <1>1, <1>2, <1>8, <2>2 DEF Partial, Cmd
    <2>3. CASE j = i /\ MadeBy(i)'
      BY <2>3
    <2> QED BY <2>1, <2>2, <2>3
  <1>11. ASSUME NEW d \in Clients PROVE Progress(d)'
    <2>1. CASE d # c
      <3>1. th'[d] = th[d] /\ Progress(d)
        BY <1>3, <2>1 DEF Owned, Authorities
      <3>2. th[d].pc \in Marking => th[d].cur \in Alloc /\ lock[th[d].cur] = d
        BY DEF Owned, Memory, Mutex, Placed, Standing, Holding, Writing, Cur
      <3>3. th[d].pc \in Marking => node'[th[d].cur] = node[th[d].cur]
        BY <1>1, <1>4, <2>1, <3>2
      <3> QED BY <3>1, <3>3 DEF Progress, Cmd, Cur, Me
    <2>2. CASE d = c
      BY <2>2
    <2> QED BY <2>1, <2>2
  <1> QED BY <1>1, <1>9, <1>10, <1>11 DEF Authorities

LEMMA SetVOwned ==
    ASSUME Owned, NEW c \in Clients, SetV(c), fault' = fault
    PROVE  Owned'
  <1> DEFINE n == [node[Cur(c)] EXCEPT !.val = Me(c)]
  <1>1. th[c].pc = "setv" /\ th[c].stage = "set" /\ Cmd(c).op = "make" /\ TypeOK
    BY WriterIs DEF SetV, Fits, Inserting, Removing, Owned, Memory
  <1>2. /\ n \in Node /\ n.key = node[Cur(c)].key /\ n.val = Me(c) /\ n.next = node[Cur(c)].next
        /\ n.prev = node[Cur(c)].prev /\ n.authr = node[Cur(c)].authr /\ n.authw = node[Cur(c)].authw
    BY <1>1, WriterIs DEF Node
  <1>3. node' = [node EXCEPT ![Cur(c)] = n]
    BY DEF SetV
  <1> HIDE DEF n
  <1>4. Goes(c, "setr", th[c].stage, th[c].cur, th[c].got)
    BY <1>1, GotoIs DEF SetV, Places
  <1>5. Writes(c, "setr", n)
    BY <1>1, <1>2, <1>3, <1>4 DEF Writes, SetV, Fits, Owned, Memory, TypeOK
  <1> DEFINE i == Cur(c)
  <1>6. /\ Memory' /\ SameNodes /\ Steps(c) /\ Cmd(c)' = Cmd(c) /\ Me(c)' = Me(c) /\ Blind(c)
        /\ Alloc' = Alloc /\ \A j \in Alloc : node'[j] = IF j = i THEN n ELSE node[j]
        /\ lock'[i] = c /\ Cur(c)' = i /\ th'[c].pc = "setr"
    BY <1>5, WriteMemory
  <1>7. i \in Alloc /\ lock[i] = c
    BY <1>1, WriterIs
  <1>8. Authorities'
    <2>1. n.authr <= n.authw
      BY <1>1, <1>2, <1>7, NullIs DEF Owned, Authorities, Half
    <2>2. Progress(c)'
      <3>1. node'[i].val = Me(c)
        BY <1>2, <1>6, <1>7
      <3> QED BY <1>6, <3>1 DEF Progress
    <2> QED BY <1>1, <1>5, <2>1, <2>2, WriteAuthorities
  <1>9. Values'
    <2>1. Unmade(c, th[c].n) /\ th[c].n \in 1..MaxCommands
      BY <1>1, MeIs DEF Unmade, Made, Inserting, Owned, Memory, Active
    <2>2. /\ \A j \in Alloc : node[j].val # Me(c)
          /\ \A d \in Clients : Taken(d) => th[d].got # Me(c)
      BY <2>1 DEF Owned, Values, Me
    <2>3. \A d \in Clients : Taken(d)' => Taken(d) /\ th'[d].got = th[d].got /\ Cur(d)' = Cur(d)
      BY <1>6 DEF Blind, Steps, Taken, Cur, Cmd
    <2>4. \A j \in Alloc : node'[j].val = IF j = i THEN Me(c) ELSE node[j].val
      BY <1>2, <1>6
    <2>5. ASSUME NEW d \in Clients, NEW k \in 1..MaxCommands, Unmade(d, k)'
          PROVE  Unmade(d, k) /\ <<d, k>> # Me(c)
      BY <1>1, <1>6, <2>5 DEF Unmade, Made, Steps, Me
    <2>6. ASSUME NEW d \in Clients, NEW k \in 1..MaxCommands, Unmade(d, k)'
          PROVE  /\ \A j \in Alloc' : node'[j].val # <<d, k>>
                 /\ \A e \in Clients : Taken(e)' => th'[e].got # <<d, k>>
      <3>1. /\ \A j \in Alloc : node[j].val # <<d, k>>
            /\ \A e \in Clients : Taken(e) => th[e].got # <<d, k>>
        BY <2>5, <2>6 DEF Owned, Values
      <3> QED BY <1>6, <2>3, <2>4, <2>5, <2>6, <3>1
    <2>7. \A j, k \in Alloc' : node'[j].val = node'[k].val => j = k
      <3>1. \A j, k \in Alloc : node[j].val = node[k].val => j = k
        BY DEF Owned, Values
      <3> QED BY <1>6, <2>2, <2>4, <3>1
    <2>8. ASSUME NEW d \in Clients, Taken(d)'
          PROVE  th'[d].got \in Ids /\ \A j \in Alloc' : node'[j].val = th'[d].got => j = Cur(d)'
      <3>1. th[d].got \in Ids /\ \A j \in Alloc : node[j].val = th[d].got => j = Cur(d)
        BY <2>3, <2>8 DEF Owned, Values
      <3> QED BY <1>6, <2>2, <2>3, <2>4, <2>8, <3>1
    <2> QED BY <2>6, <2>7, <2>8 DEF Values
  <1> QED BY <1>6, <1>8, <1>9 DEF Owned

\* A key that authr or authw may be sent for is not MadeOnly.
LEMMA NotMadeOnly ==
    ASSUME NEW c \in Clients, Cmd(c) \in Work[c], Cmd(c).op \in {"authr", "authw"}
    PROVE  Key(c) \notin MadeOnly
  BY DEF MadeOnly, Key

LEMMA SetROwned ==
    ASSUME Owned, NEW c \in Clients, SetR(c), fault' = fault
    PROVE  Owned'
  <1> DEFINE n == [node[Cur(c)] EXCEPT !.authr = Cmd(c).r]
  <1>1. th[c].pc = "setr" /\ TypeOK
        /\ \/ th[c].stage = "set" /\ Cmd(c).op = "make"
           \/ th[c].stage = "check" /\ Cmd(c).op = "authr"
    BY WriterIs DEF SetR, Fits, Inserting, Removing, Owned, Memory
  <1>2. /\ n \in Node /\ n.key = node[Cur(c)].key /\ n.val = node[Cur(c)].val /\ n.next = node[Cur(c)].next
        /\ n.prev = node[Cur(c)].prev /\ n.authr = Cmd(c).r /\ n.authw = node[Cur(c)].authw
    BY <1>1, WriterIs DEF Node, Commands
  <1>3. node' = [node EXCEPT ![Cur(c)] = n]
    BY DEF SetR
  <1> HIDE DEF n
  <1>4. Goes(c, "fixw", th[c].stage, th[c].cur, th[c].got)
    BY <1>1, GotoIs DEF SetR, Places
  <1>5. Writes(c, "fixw", n)
    BY <1>1, <1>2, <1>3, <1>4 DEF Writes, SetR, Fits, Owned, Memory, TypeOK
  <1> PICK i : i = Cur(c)
    OBVIOUS
  <1>6. /\ Memory' /\ Cmd(c)' = Cmd(c) /\ Me(c)' = Me(c) /\ Cur(c)' = i /\ th'[c].pc = "fixw"
        /\ \A j \in Alloc : node'[j] = IF j = i THEN n ELSE node[j]
    BY <1>5, WriteMemory
  <1>7. i \in Alloc /\ node[i].key = Key(c) /\ Cmd(c) \in Work[c]
    BY <1>1, WriterIs
  <1>8. node'[i] = n
    BY <1>6, <1>7
  <1>9. Progress(c)'
    <2>1. Cmd(c).op = "make" => node[i].val = Me(c)
      BY <1>1 DEF Owned, Authorities, Progress
    <2> QED BY <1>2, <1>6, <1>8, <2>1 DEF Progress
  <1>10. Cmd(c).op = "authr" => MadeBy(i)'
    BY <1>2, <1>7, <1>8, NotMadeOnly DEF MadeBy
  <1>11. Authorities'
    BY <1>1, <1>5, <1>9, <1>10, WriteAuthorities
  <1> QED BY <1>2, <1>5, <1>6, <1>11, WriteValues DEF Owned

LEMMA SetWOwned ==
    ASSUME Owned, NEW c \in Clients, SetW(c), fault' = fault
    PROVE  Owned'
  <1> DEFINE n == [node[Cur(c)] EXCEPT !.authw = Cmd(c).w]
  <1>1. th[c].pc = "setw" /\ TypeOK
        /\ \/ th[c].stage = "set" /\ Cmd(c).op = "make"
           \/ th[c].stage = "check" /\ Cmd(c).op = "authw"
    BY WriterIs DEF SetW, Fits, Inserting, Removing, Owned, Memory
  <1>2. /\ n \in Node /\ n.key = node[Cur(c)].key /\ n.val = node[Cur(c)].val /\ n.next = node[Cur(c)].next
        /\ n.prev = node[Cur(c)].prev /\ n.authr = node[Cur(c)].authr /\ n.authw = Cmd(c).w
    BY <1>1, WriterIs DEF Node, Commands
  <1>3. node' = [node EXCEPT ![Cur(c)] = n]
    BY DEF SetW
  <1> HIDE DEF n
  <1>4. Goes(c, "fixr", th[c].stage, th[c].cur, th[c].got)
    BY <1>1, GotoIs DEF SetW, Places
  <1>5. Writes(c, "fixr", n)
    BY <1>1, <1>2, <1>3, <1>4 DEF Writes, SetW, Fits, Owned, Memory, TypeOK
  <1> PICK i : i = Cur(c)
    OBVIOUS
  <1>6. /\ Memory' /\ Cmd(c)' = Cmd(c) /\ Me(c)' = Me(c) /\ Cur(c)' = i /\ th'[c].pc = "fixr"
        /\ \A j \in Alloc : node'[j] = IF j = i THEN n ELSE node[j]
    BY <1>5, WriteMemory
  <1>7. i \in Alloc /\ node[i].key = Key(c) /\ Cmd(c) \in Work[c]
    BY <1>1, WriterIs
  <1>8. node'[i] = n
    BY <1>6, <1>7
  <1>9. Progress(c)'
    <2>1. Cmd(c).op = "make" => node[i].val = Me(c) /\ node[i].authr = Cmd(c).r
      BY <1>1 DEF Owned, Authorities, Progress
    <2> QED BY <1>2, <1>6, <1>8, <2>1 DEF Progress
  <1>10. Cmd(c).op = "authw" => MadeBy(i)'
    BY <1>2, <1>7, <1>8, NotMadeOnly DEF MadeBy
  <1>11. Authorities'
    BY <1>1, <1>5, <1>9, <1>10, WriteAuthorities
  <1> QED BY <1>2, <1>5, <1>6, <1>11, WriteValues DEF Owned

LEMMA OrderedIs ==
    ASSUME NEW n \in Node
    PROVE  /\ Ordered(n, "authw", n.authr) \in Node /\ Ordered(n, "authr", n.authw) \in Node
           /\ LET m == Ordered(n, "authw", n.authr) IN
                /\ m.key = n.key /\ m.val = n.val /\ m.next = n.next /\ m.prev = n.prev
                /\ m.authr = n.authr /\ m.authr <= m.authw /\ m.expired = n.expired
           /\ LET m == Ordered(n, "authr", n.authw) IN
                /\ m.key = n.key /\ m.val = n.val /\ m.next = n.next /\ m.prev = n.prev
                /\ m.authw = n.authw /\ m.authr <= m.authw /\ m.expired = n.expired
                /\ n.authr <= n.authw => m.authr = n.authr
  BY DEF Ordered, Node

LEMMA FixWOwned ==
    ASSUME Owned, NEW c \in Clients, FixW(c), fault' = fault
    PROVE  Owned'
  <1> DEFINE n == Ordered(node[Cur(c)], "authw", node[Cur(c)].authr)
             p == IF Cmd(c).op = "make" THEN "setw" ELSE "idle"
  <1>1. th[c].pc = "fixw" /\ TypeOK
        /\ \/ th[c].stage = "set" /\ Cmd(c).op = "make" /\ p = "setw"
           \/ th[c].stage = "check" /\ Cmd(c).op = "authr" /\ p = "idle"
    BY WriterIs DEF FixW, Fits, Inserting, Removing, Owned, Memory
  <1>2. /\ n \in Node /\ n.key = node[Cur(c)].key /\ n.val = node[Cur(c)].val /\ n.next = node[Cur(c)].next
        /\ n.prev = node[Cur(c)].prev /\ n.authr = node[Cur(c)].authr /\ n.authr <= n.authw
    BY <1>1, WriterIs, OrderedIs
  <1>3. node' = [node EXCEPT ![Cur(c)] = n]
    BY DEF FixW
  <1> HIDE DEF n
  <1>4. Writes(c, p, n)
    <2>1. CASE Cmd(c).op = "make"
      <3>1. Goes(c, "setw", th[c].stage, th[c].cur, th[c].got)
        BY <1>1, <2>1, GotoIs DEF FixW, Places
      <3> QED BY <1>1, <1>2, <1>3, <2>1, <3>1 DEF Writes, FixW, Fits, Owned, Memory, TypeOK
    <2>2. CASE Cmd(c).op = "authr"
      <3>1. Goes(c, "idle", "check", NULL, NULL) /\ kept' \subseteq Keys
        BY <1>1, <2>2, FinishIs, PlainIs, PlaceIs DEF FixW, Active
      <3> QED BY <1>1, <1>2, <1>3, <2>2, <3>1 DEF Writes, FixW
    <2> QED BY <1>1, <2>1, <2>2
  <1> PICK i : i = Cur(c)
    OBVIOUS
  <1> HIDE DEF p
  <1>5. /\ Memory' /\ Cmd(c)' = Cmd(c) /\ Me(c)' = Me(c) /\ th'[c].pc = p /\ (p # "idle" => Cur(c)' = i)
        /\ \A j \in Alloc : node'[j] = IF j = i THEN n ELSE node[j]
    BY <1>4, WriteMemory
  <1>6. i \in Alloc /\ node[i].key = Key(c) /\ Cmd(c) \in Work[c]
    BY <1>1, WriterIs
  <1>7. node'[i] = n
    BY <1>5, <1>6
  <1>8. Progress(c)'
    <2>1. Cmd(c).op = "make" => node[i].val = Me(c) /\ node[i].authr = Cmd(c).r
      BY <1>1 DEF Owned, Authorities, Progress
    <2> QED BY <1>1, <1>2, <1>5, <1>7, <2>1 DEF Progress
  <1>9. Cmd(c).op = "authr" => MadeBy(i)'
    BY <1>2, <1>6, <1>7, NotMadeOnly DEF MadeBy
  <1>10. Authorities'
    BY <1>1, <1>2, <1>4, <1>8, <1>9, WriteAuthorities
  <1> QED BY <1>2, <1>4, <1>5, <1>10, WriteValues DEF Owned

LEMMA FixROwned ==
    ASSUME Owned, NEW c \in Clients, FixR(c), fault' = fault
    PROVE  Owned'
  <1> DEFINE n == Ordered(node[Cur(c)], "authr", node[Cur(c)].authw)
  <1>1. th[c].pc = "fixr" /\ TypeOK /\ (Cmd(c).op = "make" \/ Cmd(c).op = "authw")
    BY WriterIs DEF FixR, Fits, Inserting, Removing, Owned, Memory
  <1>2. /\ n \in Node /\ n.key = node[Cur(c)].key /\ n.val = node[Cur(c)].val /\ n.next = node[Cur(c)].next
        /\ n.prev = node[Cur(c)].prev /\ n.authw = node[Cur(c)].authw /\ n.authr <= n.authw
        /\ node[Cur(c)].authr <= node[Cur(c)].authw => n.authr = node[Cur(c)].authr
    BY <1>1, WriterIs, OrderedIs
  <1>3. node' = [node EXCEPT ![Cur(c)] = n]
    BY DEF FixR
  <1> HIDE DEF n
  <1>4. Goes(c, "idle", "check", NULL, NULL) /\ kept' \subseteq Keys
    BY <1>1, FinishIs, PlainIs, PlaceIs DEF FixR, Active
  <1>5. Writes(c, "idle", n)
    BY <1>1, <1>2, <1>3, <1>4 DEF Writes, FixR
  <1> PICK i : i = Cur(c)
    OBVIOUS
  <1>6. Memory' /\ th'[c].pc = "idle" /\ \A j \in Alloc : node'[j] = IF j = i THEN n ELSE node[j]
    BY <1>5, WriteMemory
  <1>7. i \in Alloc /\ node[i].key = Key(c) /\ Cmd(c) \in Work[c] /\ Sendable(c, Cmd(c))
    BY <1>1, WriterIs
  <1>8. node'[i] = n
    BY <1>6, <1>7
  <1>9. Progress(c)'
    BY <1>6 DEF Progress
  <1>10. MadeBy(i)'
    <2>1. CASE Cmd(c).op = "authw"
      BY <1>2, <1>7, <1>8, <2>1, NotMadeOnly DEF MadeBy
    <2>2. CASE Cmd(c).op = "make"
      <3>1. node[i].val = Me(c) /\ node[i].authr = Cmd(c).r /\ node[i].authw = Cmd(c).w
        BY <1>1, <2>2 DEF Owned, Authorities, Progress
      <3>2. Cmd(c).r <= Cmd(c).w
        BY <1>7, <2>2 DEF Sendable
      <3>3. n.val = Me(c) /\ n.authr = Cmd(c).r /\ n.authw = Cmd(c).w /\ n.key = Key(c)
        BY <1>2, <1>7, <3>1, <3>2
      <3>4. n.val[1] = c
        BY <3>3 DEF Me
      <3> QED BY <1>7, <1>8, <2>2, <3>3, <3>4 DEF MadeBy, Key
    <2> QED BY <1>1, <2>1, <2>2
  <1>11. Authorities'
    BY <1>2, <1>5, <1>9, <1>10, WriteAuthorities
  <1> QED BY <1>2, <1>5, <1>6, <1>11, WriteValues DEF Owned

-----------------------------------------------------------------------------
(* A node is allocated                                                     *)

Fresher(c) == [key |-> Key(c), val |-> Me(c), authr |-> Cmd(c).r, authw |-> Cmd(c).w, expired |-> FALSE,
               next |-> NULL, prev |-> NULL]

\* What a make does whose key Hash::set has not found.
Allocates(c) ==
    /\ th[c].pc = "walk" /\ Cur(c) = NULL /\ th[c].stage = "set"
    /\ node' = [node EXCEPT ![Me(c)] = Fresher(c)]
    /\ lock' = [lock EXCEPT ![Me(c)] = c]
    /\ th' = [th EXCEPT ![c].pc = "test", ![c].cur = Me(c)]
    /\ UNCHANGED <<head, size, freed, obj, kept>>

LEMMA WalkEndIs ==
    ASSUME Owned, NEW c \in Clients, WalkEnd(c), ~Strays(c)
    PROVE  /\ th[c].pc = "walk" /\ Cur(c) = NULL
           /\ \/ /\ th[c].stage = "check" /\ Cmd(c).op = "make"
                 /\ th' = [th EXCEPT ![c].pc = "enter", ![c].stage = "set"]
                 /\ UNCHANGED <<head, size, node, lock, freed, obj, kept>>
              \/ /\ th[c].stage = "check" /\ Cmd(c).op # "make" /\ Finish(c, Plain("nokey"))
                 /\ UNCHANGED <<head, size, node, lock, freed, obj>>
              \/ Allocates(c)
  <1>1. th[c].pc = "walk" /\ Cur(c) = NULL /\ Active(c)
    BY DEF WalkEnd, Active
  <1>2. th[c].stage # "del"
    BY <1>1 DEF Strays, Touched
  <1>3. th[c].stage \in {"check", "set"}
    BY <1>1, <1>2, PlaceIs
  <1>4. CASE th[c].stage = "check" /\ Cmd(c).op = "make"
    BY <1>1, <1>4 DEF WalkEnd
  <1>5. CASE th[c].stage = "check" /\ Cmd(c).op # "make"
    BY <1>1, <1>5 DEF WalkEnd
  <1>6. CASE th[c].stage = "set"
    BY <1>1, <1>6 DEF WalkEnd, Allocates, Fresher
  <1> QED BY <1>1, <1>3, <1>4, <1>5, <1>6

LEMMA AllocatesIs ==
    ASSUME Owned, NEW c \in Clients, Allocates(c)
    PROVE  /\ Active(c) /\ Cmd(c).op = "make" /\ Cmd(c) \in Work[c] /\ Cmd(c).r <= Cmd(c).w
           /\ Me(c) \in Ids /\ Me(c) \notin Alloc /\ th[c].n \in 1..MaxCommands
           /\ Fresher(c) \in Node /\ Fresher(c) # NULL
           /\ Alloc' = Alloc \union {Me(c)}
           /\ \A j \in Ids : node'[j] = IF j = Me(c) THEN Fresher(c) ELSE node[j]
           /\ \A j \in Ids : lock'[j] = IF j = Me(c) THEN c ELSE lock[j]
           /\ lock[Me(c)] = NULL
           /\ Goes(c, "test", "set", Me(c), th[c].got)
  <1>1. Active(c) /\ th[c].pc = "walk" /\ th[c].stage = "set" /\ TypeOK
    BY DEF Allocates, Active, Owned, Memory
  <1>2. Cmd(c).op = "make" /\ Cmd(c) \in Work[c]
    BY <1>1, PlaceIs DEF Fits, Removing, Owned, Memory, Placed, Active
  <1>3. Cmd(c).r <= Cmd(c).w /\ Cmd(c) \in Commands
    BY <1>2, WorkIs DEF Sendable
  <1>4. Me(c) \in Ids /\ th[c].n \in 1..MaxCommands /\ Key(c) \in Keys
    BY <1>1, MeIs DEF Owned, Memory
  <1>5. Me(c) \notin Alloc
    BY <1>1, <1>4 DEF Owned, Memory, Births, Unborn, Me, Alloc, Inserting
  <1>6. Fresher(c) \in Node /\ Fresher(c) # NULL
    <2>1. Cmd(c).r \in Nat /\ Cmd(c).w \in Nat
      BY <1>3 DEF Commands
    <2>2. Fresher(c) \in Node
      BY <1>4, <2>1, Zenon DEF Fresher, Node
    <2> QED BY <2>2, NullIs
  <1>7. \A j \in Ids : node'[j] = IF j = Me(c) THEN Fresher(c) ELSE node[j]
    BY <1>1, <1>4 DEF Allocates, TypeOK
  <1>8. \A j \in Ids : lock'[j] = IF j = Me(c) THEN c ELSE lock[j]
    BY <1>1, <1>4 DEF Allocates, TypeOK
  <1>9. Alloc' = Alloc \union {Me(c)}
    BY <1>4, <1>6, <1>7 DEF Alloc
  <1>10. lock[Me(c)] = NULL
    <2> SUFFICES ASSUME lock[Me(c)] # NULL PROVE FALSE
      OBVIOUS
    <2>1. lock[Me(c)] \in Clients
      BY <1>1, <1>4 DEF TypeOK
    <2>2. th[lock[Me(c)]].pc \in Holding /\ Cur(lock[Me(c)]) = Me(c)
      BY <1>4 DEF Owned, Memory, Mutex
    <2>3. Cur(lock[Me(c)]) \in Alloc
      BY <2>1, <2>2 DEF Owned, Memory, Placed, Standing, Holding, Writing, Inserting, Removing
    <2> QED BY <1>5, <2>2, <2>3
  <1>11. Goes(c, "test", "set", Me(c), th[c].got)
    BY <1>1, <1>4, GotoCurIs DEF Allocates, Places
  <1> QED BY <1>1, <1>2, <1>3, <1>4, <1>5, <1>6, <1>7, <1>8, <1>9, <1>10, <1>11

LEMMA AllocatesOwned ==
    ASSUME Owned, NEW c \in Clients, Allocates(c), fault' = fault
    PROVE  Owned'
  <1> PICK i : i = Me(c)
    OBVIOUS
  <1>1. /\ Active(c) /\ Cmd(c).op = "make" /\ Cmd(c) \in Work[c] /\ Cmd(c).r <= Cmd(c).w
        /\ i \in Ids /\ i \notin Alloc /\ th[c].n \in 1..MaxCommands
        /\ Fresher(c) \in Node /\ Fresher(c) # NULL
        /\ Alloc' = Alloc \union {i}
        /\ \A j \in Ids : node'[j] = IF j = i THEN Fresher(c) ELSE node[j]
        /\ \A j \in Ids : lock'[j] = IF j = i THEN c ELSE lock[j]
        /\ lock[i] = NULL
        /\ Goes(c, "test", "set", i, th[c].got)
    BY AllocatesIs
  <1>2. TypeOK /\ th[c].pc = "walk" /\ th[c].stage = "set"
    BY DEF Owned, Memory, Allocates
  <1>3. /\ Steps(c) /\ th'[c].pc = "test" /\ th'[c].stage = "set" /\ th'[c].cur = i
        /\ Cmd(c)' = Cmd(c) /\ Me(c)' = i /\ Key(c)' = Key(c) /\ Cur(c)' = i
    BY <1>1 DEF Goes, Steps, Cmd, Key, Me, Cur
  <1>4. \A d \in Clients : d # c => th'[d] = th[d]
    BY <1>3 DEF Steps
  <1>5. /\ Fresher(c).key = Key(c) /\ Fresher(c).val = i /\ Fresher(c).next = NULL /\ Fresher(c).prev = NULL
        /\ Fresher(c).authr = Cmd(c).r /\ Fresher(c).authw = Cmd(c).w
    BY DEF Fresher
  <1>6. node' \in [Ids -> Node \union {NULL}] /\ lock' \in [Ids -> Clients \union {NULL}]
    BY <1>1, <1>2 DEF TypeOK, Allocates
  <1>7. SameKeys
    BY <1>1, <1>6 DEF SameKeys, Alloc
  <1>8. Memory'
    <2>1. TypeOK'
      BY <1>2, <1>3, <1>6 DEF TypeOK, Steps, Allocates
    <2>2. Placed(c)'
      <3>1. i \in Alloc' /\ node'[i].key = Key(c)
        BY <1>1, <1>5
      <3> QED BY <1>1, <1>3, <3>1 DEF Placed, Fits, Inserting, Steps
    <2>3. \A d \in Clients : Placed(d)'
      BY <1>3, <1>7, <2>2, PlacedStays DEF Owned
    <2>4. Takes(c)
      BY <1>1, <1>2, <1>3, <1>6 DEF Takes, Allocates, Holding, Writing, Inserting, Removing
    <2>5. Mutex'
      BY <1>3, <2>4, MutexStays DEF Owned
    <2>6. Pointers'
      <3>1. \A j \in Alloc : /\ node'[j] = node[j] /\ node[j].next \in Alloc \union {NULL}
                             /\ node[j].prev \in Alloc \union {NULL}
        BY <1>1 DEF Owned, Memory, Pointers, Alloc
      <3>2. node'[i].next = NULL /\ node'[i].prev = NULL
        BY <1>1, <1>5
      <3>3. \A b \in Buckets : head'[b] \in Alloc' \union {NULL}
        BY <1>1 DEF Owned, Memory, Pointers, Allocates
      <3> QED BY <1>1, <3>1, <3>2, <3>3 DEF Pointers
    <2>7. Births'
      <3> SUFFICES ASSUME NEW d \in Clients, NEW k \in 1..MaxCommands, Unborn(d, k)'
                   PROVE  node'[<<d, k>>] = NULL
        BY DEF Births
      <3>1. Unborn(d, k) /\ <<d, k>> # i
        BY <1>2, <1>3, <1>4 DEF Unborn, Steps, Inserting, Me
      <3>2. <<d, k>> \in Ids /\ node[<<d, k>>] = NULL
        BY <3>1 DEF Owned, Memory, Births, Ids
      <3> QED BY <1>1, <3>1, <3>2
    <2> QED BY <2>1, <2>3, <2>5, <2>6, <2>7 DEF Memory
  <1>9. Values'
    <2>1. Unmade(c, th[c].n)
      BY <1>2 DEF Unmade, Made, Inserting
    <2>2. /\ \A j \in Alloc : node[j].val # i
          /\ \A d \in Clients : Taken(d) => th[d].got # i
      BY <1>1, <2>1 DEF Owned, Values, Me
    <2>3. \A j \in Alloc' : node'[j].val = IF j = i THEN i ELSE node[j].val
      BY <1>1, <1>5 DEF Alloc
    <2>4. \A d \in Clients : Taken(d)' => Taken(d) /\ th'[d].got = th[d].got /\ Cur(d)' = Cur(d)
      BY <1>3, <1>4 DEF Taken, Cur, Cmd
    <2>5. ASSUME NEW d \in Clients, NEW k \in 1..MaxCommands, Unmade(d, k)'
          PROVE  Unmade(d, k) /\ <<d, k>> # i
      BY <1>2, <1>3, <1>4, <2>5 DEF Unmade, Made, Steps, Me, Inserting
    <2>6. ASSUME NEW d \in Clients, NEW k \in 1..MaxCommands, Unmade(d, k)'
          PROVE  /\ \A j \in Alloc' : node'[j].val # <<d, k>>
                 /\ \A e \in Clients : Taken(e)' => th'[e].got # <<d, k>>
      <3>1. /\ \A j \in Alloc : node[j].val # <<d, k>>
            /\ \A e \in Clients : Taken(e) => th[e].got # <<d, k>>
        BY <2>5, <2>6 DEF Owned, Values
      <3>2. \A j \in Alloc' : node'[j].val # <<d, k>>
        BY <1>1, <2>3, <2>5, <2>6, <3>1
      <3> QED BY <2>4, <3>1, <3>2
    <2>7. \A j, k \in Alloc' : node'[j].val = node'[k].val => j = k
      <3>1. \A j, k \in Alloc : node[j].val = node[k].val => j = k
        BY DEF Owned, Values
      <3> QED BY <1>1, <2>2, <2>3, <3>1
    <2>8. ASSUME NEW d \in Clients, Taken(d)'
          PROVE  th'[d].got \in Ids /\ \A j \in Alloc' : node'[j].val = th'[d].got => j = Cur(d)'
      <3>1. th[d].got \in Ids /\ \A j \in Alloc : node[j].val = th[d].got => j = Cur(d)
        BY <2>4, <2>8 DEF Owned, Values
      <3> QED BY <1>1, <2>2, <2>3, <2>4, <2>8, <3>1
    <2> QED BY <2>6, <2>7, <2>8 DEF Values
  <1>10. Authorities'
    <2>1. \A j \in Alloc : /\ j \in Ids /\ j # i /\ node'[j] = node[j] /\ lock'[j] = lock[j]
                           /\ (lock[j] # NULL => lock[j] # c /\ th'[lock[j]] = th[lock[j]])
      <3>1. \A j \in Ids : lock[j] # NULL => lock[j] \in Clients /\ th[lock[j]].pc \in Holding
        BY <1>2 DEF Owned, Memory, Mutex, TypeOK
      <3>2. th[c].pc \notin Holding
        BY <1>2 DEF Holding, Writing, Inserting, Removing
      <3> QED BY <1>1, <1>4, <3>1, <3>2 DEF Alloc
    <2>2. ASSUME NEW j \in Alloc' PROVE node'[j].authr <= node'[j].authw \/ Half(j)'
      <3>1. CASE j = i
        BY <1>1, <1>5, <3>1
      <3>2. CASE j # i
        <4>1. j \in Alloc /\ (node[j].authr <= node[j].authw \/ Half(j))
          BY <1>1, <3>2 DEF Owned, Authorities
        <4> QED BY <2>1, <4>1 DEF Half
      <3> QED BY <3>1, <3>2
    <2>3. ASSUME NEW j \in Alloc' PROVE MadeBy(j)' \/ Partial(j)'
      <3>1. CASE j = i
        <4>1. node'[i] = Fresher(c)
          BY <1>1
        <4>2. Fresher(c).val[1] = c
          BY <1>5 DEF Me
        <4> QED BY <1>1, <1>5, <3>1, <4>1, <4>2 DEF MadeBy, Key
      <3>2. CASE j # i
        <4>1. j \in Alloc /\ (MadeBy(j) \/ Partial(j)) /\ node'[j] = node[j]
          BY <1>1, <2>1, <3>2 DEF Owned, Authorities
        <4>2. MadeBy(j) => MadeBy(j)'
          BY <4>1 DEF MadeBy
        <4>3. Partial(j) => Partial(j)'
          BY <2>1, <4>1 DEF Partial, Cmd
        <4> QED BY <4>1, <4>2, <4>3
      <3> QED BY <3>1, <3>2
    <2>4. ASSUME NEW d \in Clients PROVE Progress(d)'
      <3>1. CASE d = c
        BY <1>3, <3>1 DEF Progress
      <3>2. CASE d # c
        <4>1. th'[d] = th[d] /\ Progress(d)
          BY <1>4, <3>2 DEF Owned, Authorities
        <4>2. th[d].pc \in {"setr", "fixw", "setw", "fixr"} => th[d].cur \in Alloc
          BY DEF Owned, Memory, Placed, Standing, Holding, Writing, Cur
        <4> QED BY <2>1, <4>1, <4>2 DEF Progress, Cmd, Cur, Me
      <3> QED BY <3>1, <3>2
    <2> QED BY <2>2, <2>3, <2>4 DEF Authorities
  <1> QED BY <1>8, <1>9, <1>10 DEF Owned

LEMMA WalkEndOwned ==
    ASSUME Owned, NEW c \in Clients, WalkEnd(c), ~Strays(c), fault' = fault
    PROVE  Owned'
  <1>1. th[c].pc = "walk" /\ Active(c) /\ Cur(c) = NULL
    BY DEF WalkEnd, Active
  <1>2. CASE /\ th[c].stage = "check" /\ Cmd(c).op = "make"
             /\ th' = [th EXCEPT ![c].pc = "enter", ![c].stage = "set"]
             /\ UNCHANGED <<head, size, node, lock, freed, obj, kept>>
    <2>1. Goes(c, "enter", "set", th[c].cur, th[c].got)
      BY <1>2, GotoStageIs DEF Places, Owned, Memory
    <2>2. Arrives(c, "enter", "set", th[c].cur)
      BY <1>2 DEF Arrives, Fits, Standing, Holding, Writing, Inserting, Removing
    <2>3. Typed
      BY <1>2 DEF Typed, Owned, Memory, TypeOK
    <2> QED BY <1>1, <1>2, <2>1, <2>2, <2>3, OwnedGoes DEF Holding, Writing, Inserting, Removing, Places
  <1>3. CASE /\ th[c].stage = "check" /\ Cmd(c).op # "make" /\ Finish(c, Plain("nokey"))
             /\ UNCHANGED <<head, size, node, lock, freed, obj>>
    <2>1. size' \in [Buckets -> Int] /\ freed' \subseteq Ids /\ obj' \in [Ids -> SUBSET Ids]
      BY <1>3 DEF Owned, Memory, TypeOK
    <2> QED BY <1>1, <1>3, <2>1, NothingRelinked, OwnedFinishes, PlainIs
        DEF Owned, Holding, Writing, Inserting, Removing
  <1>4. CASE Allocates(c)
    BY <1>4, AllocatesOwned
  <1> QED BY <1>2, <1>3, <1>4, WalkEndIs

-----------------------------------------------------------------------------
(* A command arrives                                                       *)

LEMMA CallIs ==
    ASSUME Owned, NEW c \in Clients, Call(c)
    PROVE  /\ th[c].pc = "idle" /\ th[c].stage = "check" /\ th[c].n \in 0..MaxCommands
           /\ th' \in [Clients -> Thread] /\ \A d \in Clients : d # c => th'[d] = th[d]
           /\ th'[c].pc = "enter" /\ th'[c].stage = "check" /\ th'[c].n = th[c].n + 1
           /\ th'[c].n \in 1..MaxCommands /\ th'[c].cur = th[c].cur
           /\ Cmd(c)' \in Work[c] /\ Cmd(c)' \in Commands
           /\ UNCHANGED <<head, size, node, lock, freed, obj, kept>>
           /\ Serial => \A d \in Clients \ {c} : th[d].pc # "idle" => ~Clash(Cmd(c)', d)
  <1>1. PICK m \in Work[c] :
          /\ Serial => \A d \in Clients \ {c} : th[d].pc # "idle" => ~Clash(m, d)
          /\ th' = [th EXCEPT ![c].pc = "enter", ![c].cmd = m, ![c].n = @ + 1, ![c].ans = Plain("none")]
    BY DEF Call
  <1> DEFINE t == [th[c] EXCEPT !.pc = "enter", !.cmd = m, !.n = @ + 1, !.ans = Plain("none")]
  <1>2. th \in [Clients -> Thread] /\ th[c] \in Thread /\ th' = [th EXCEPT ![c] = t]
    BY <1>1 DEF Owned, Memory, TypeOK
  <1>3. th[c].pc = "idle" /\ th[c].stage = "check" /\ th[c].n < MaxCommands
        /\ UNCHANGED <<head, size, node, lock, freed, obj, kept>>
    BY DEF Call, Owned, Memory, Placed
  <1>4. th[c].n \in 0..MaxCommands /\ MaxCommands \in Nat
    BY <1>2, ClientAssumption DEF Thread
  <1>5. m \in Commands /\ th[c].n + 1 \in 0..MaxCommands /\ th[c].n + 1 \in 1..MaxCommands
        /\ Plain("none") \in Answers /\ "enter" \in Places
    BY <1>3, <1>4, WorkIs, PlainIs DEF Places
  <1>6. t \in Thread
    BY <1>2, <1>5 DEF Thread
  <1>7. t.pc = "enter" /\ t.stage = th[c].stage /\ t.n = th[c].n + 1 /\ t.cmd = m /\ t.cur = th[c].cur
    BY <1>2 DEF Thread
  <1> HIDE DEF t
  <1>8. /\ th' \in [Clients -> Thread] /\ \A d \in Clients : d # c => th'[d] = th[d]
        /\ th'[c].pc = "enter" /\ th'[c].stage = "check" /\ th'[c].n = th[c].n + 1 /\ th'[c].cur = th[c].cur
        /\ Cmd(c)' = m
    BY <1>2, <1>3, <1>6, <1>7 DEF Cmd
  <1> QED BY <1>1, <1>3, <1>4, <1>5, <1>8

LEMMA CallOwned ==
    ASSUME Owned, NEW c \in Clients, Call(c), fault' = fault
    PROVE  Owned'
  <1>1. /\ th[c].pc = "idle" /\ th[c].n \in 0..MaxCommands
        /\ th' \in [Clients -> Thread] /\ \A d \in Clients : d # c => th'[d] = th[d]
        /\ th'[c].pc = "enter" /\ th'[c].stage = "check" /\ th'[c].n = th[c].n + 1
        /\ th'[c].n \in 1..MaxCommands /\ Cmd(c)' \in Work[c]
        /\ UNCHANGED <<head, size, node, lock, freed, obj, kept>>
    BY CallIs
  <1>2. Alloc' = Alloc
    BY <1>1 DEF Alloc
  <1>3. th[c].pc \notin Holding /\ th'[c].pc \notin Standing /\ th'[c].pc \notin Holding /\ th'[c].pc \notin Inserting
    BY <1>1 DEF Standing, Holding, Writing, Inserting, Removing
  <1>4. lock \in [Ids -> Clients \union {NULL}]
    BY DEF Owned, Memory, TypeOK
  <1>5. \A i \in Ids : lock[i] # NULL => lock[i] # c /\ lock[i] \in Clients /\ th'[lock[i]] = th[lock[i]]
    BY <1>1, <1>3, <1>4 DEF Owned, Memory, Mutex
  <1>6. Memory'
    <2>1. TypeOK'
      BY <1>1 DEF Owned, Memory, TypeOK
    <2>2. ASSUME NEW d \in Clients PROVE Placed(d)'
      <3>1. CASE d = c
        BY <1>1, <1>3, <3>1 DEF Placed, Fits
      <3>2. CASE d # c
        <4>1. th'[d] = th[d] /\ node' = node /\ Placed(d)
          BY <1>1, <3>2 DEF Owned, Memory
        <4> QED BY <1>2, <4>1 DEF Placed, Cmd, Key, Cur, Me
      <3> QED BY <3>1, <3>2
    <2>3. Mutex'
      <3>1. \A d \in Clients : d # c => th'[d] = th[d]
        BY <1>1
      <3>2. /\ \A d \in Clients : th[d].pc \in Holding => lock[th[d].cur] = d
            /\ \A i \in Ids : lock[i] # NULL => th[lock[i]].pc \in Holding /\ th[lock[i]].cur = i
        BY DEF Owned, Memory, Mutex, Cur
      <3> QED BY <1>1, <1>3, <1>5, <3>1, <3>2 DEF Mutex, Cur
    <2>4. Pointers'
      BY <1>1, <1>2 DEF Owned, Memory, Pointers
    <2>5. Births'
      <3> SUFFICES ASSUME NEW d \in Clients, NEW k \in 1..MaxCommands, Unborn(d, k)'
                   PROVE  Unborn(d, k)
        BY <1>1 DEF Births, Owned, Memory
      <3> QED BY <1>1 DEF Unborn
    <2> QED BY <2>1, <2>2, <2>3, <2>4, <2>5 DEF Memory
  <1>7. Values'
    <2>1. \A d \in Clients : Taken(d)' => Taken(d) /\ th'[d].got = th[d].got /\ Cur(d)' = Cur(d)
      BY <1>1 DEF Taken, Cur, Cmd
    <2>2. ASSUME NEW d \in Clients, NEW k \in 1..MaxCommands, Unmade(d, k)' PROVE Unmade(d, k)
      BY <1>1, <2>2 DEF Unmade
    <2> QED BY <1>1, <1>2, <2>1, <2>2 DEF Owned, Values
  <1>8. Authorities'
    <2>1. ASSUME NEW i \in Alloc PROVE node[i].authr <= node[i].authw \/ Half(i)'
      BY <1>1, <1>5 DEF Owned, Authorities, Half, Alloc
    <2>2. ASSUME NEW i \in Alloc PROVE MadeBy(i)' \/ Partial(i)'
      <3>1. MadeBy(i) => MadeBy(i)'
        BY <1>1 DEF MadeBy
      <3>2. Partial(i) => Partial(i)'
        BY <1>1, <1>5 DEF Partial, Alloc, Cmd
      <3> QED BY <3>1, <3>2 DEF Owned, Authorities
    <2>3. ASSUME NEW d \in Clients PROVE Progress(d)'
      <3>1. CASE d = c
        BY <1>1, <3>1 DEF Progress
      <3>2. CASE d # c
        <4>1. th'[d] = th[d] /\ Progress(d) /\ node' = node
          BY <1>1, <3>2 DEF Owned, Authorities
        <4> QED BY <4>1 DEF Progress, Cmd, Cur, Me
      <3> QED BY <3>1, <3>2
    <2> QED BY <1>1, <1>2, <2>1, <2>2, <2>3 DEF Authorities
  <1> QED BY <1>6, <1>7, <1>8 DEF Owned

LEMMA UnchangedOwned ==
    ASSUME Owned, UNCHANGED <<head, size, node, lock, freed, obj, th, kept>>, fault' \in {"none", "null", "freed"}
    PROVE  Owned'
  <1>1. TypeOK'
    BY DEF Owned, Memory, TypeOK
  <1>2. Alloc' = Alloc
    BY DEF Alloc
  <1>3. (\A c \in Clients : Placed(c)') /\ Mutex' /\ Pointers' /\ Births'
    BY <1>2 DEF Owned, Memory, Placed, Mutex, Pointers, Births, Unborn, Cmd, Cur, Key, Me
  <1>4. Values'
    BY <1>2 DEF Owned, Values, Unmade, Taken, Cmd, Cur
  <1>5. Authorities'
    BY <1>2 DEF Owned, Authorities, Half, Partial, MadeBy, Progress, Cmd, Cur, Me
  <1> QED BY <1>1, <1>3, <1>4, <1>5 DEF Owned, Memory

-----------------------------------------------------------------------------
(* Owned is an invariant                                                   *)

LEMMA AccessOwned ==
    ASSUME Owned, NEW c \in Clients, Run(c)
    PROVE  Owned'
  <1>1. ~Strays(c) /\ Access(c) /\ fault' = fault
    BY DEF Run
  <1>2. CASE Enter(c) \/ WalkEnd(c) \/ Walk(c)
    BY <1>1, <1>2, EnterOwned, WalkEndOwned, WalkOwned
  <1>3. CASE Fresh(c) \/ TakeList(c) \/ Check(c) \/ Read(c) \/ Show(c)
    BY <1>1, <1>3, FreshOwned, TakenOwned, CheckOwned, ShowOwned
  <1>4. CASE Lock(c) \/ SetV(c) \/ SetR(c) \/ FixW(c) \/ SetW(c) \/ FixR(c)
    BY <1>1, <1>4, LockOwned, SetVOwned, SetROwned, FixWOwned, SetWOwned, FixROwned
  <1>5. CASE Expire(c) \/ Load(c) \/ Push(c)
    BY <1>1, <1>5, ExpireOwned, LoadOwned, PushOwned
  <1>6. CASE Test(c) \/ Link(c) \/ Back(c) \/ Publish(c) \/ Count(c) \/ Inc(c)
    BY <1>1, <1>6, TestOwned, LinkOwned, BackOwned, PublishOwned, CountOwned, CountedOwned
  <1>7. CASE Unprev(c) \/ Unhook(c) \/ Free(c) \/ Dec(c)
    BY <1>1, <1>7, UnprevOwned, UnhookOwned, FreeOwned, CountedOwned
  <1> QED BY <1>1, <1>2, <1>3, <1>4, <1>5, <1>6, <1>7 DEF Access

LEMMA OwnedNext ==
    ASSUME Owned, [Next]_vars
    PROVE  Owned'
  <1>1. CASE \E c \in Clients : fault = "none" /\ Call(c) /\ UNCHANGED fault
    BY <1>1, CallOwned
  <1>2. CASE \E c \in Clients : Run(c)
    BY <1>2, AccessOwned
  <1>3. CASE \E c \in Clients : Stray(c)
    BY <1>3, UnchangedOwned DEF Stray, Crash
  <1>4. CASE Over \/ UNCHANGED vars
    BY <1>4, UnchangedOwned DEF Over, vars, Owned, Memory, TypeOK
  <1> QED BY <1>1, <1>2, <1>3, <1>4 DEF Next

\* The nodes that are there at first.
LEMMA InitNodes ==
    ASSUME Init
    PROVE  /\ \A b \in Buckets : \A j \in DOMAIN InitChain[b] :
                LET i == <<InitChain[b][j], 0>> IN
                  /\ i \in Ids /\ node[i] \in Node /\ node[i].key = InitChain[b][j] /\ node[i].val = i
                  /\ node[i].authr = 0 /\ node[i].authw = InitLevel /\ node[i].expired = FALSE
                  /\ node[i].next = IF j + 1 \in DOMAIN InitChain[b] THEN <<InitChain[b][j+1], 0>> ELSE NULL
                  /\ node[i].prev = IF j - 1 \in DOMAIN InitChain[b] THEN <<InitChain[b][j-1], 0>> ELSE NULL
           /\ \A i \in Ids : node[i] # NULL =>
                \E b \in Buckets : \E j \in DOMAIN InitChain[b] : i = <<InitChain[b][j], 0>>
           /\ node \in [Ids -> Node \union {NULL}]
  <1>1. ASSUME NEW b \in Buckets, NEW j \in DOMAIN InitChain[b]
        PROVE  LET i == <<InitChain[b][j], 0>> IN
                  /\ i \in Ids /\ node[i] \in Node /\ node[i].key = InitChain[b][j] /\ node[i].val = i
                  /\ node[i].authr = 0 /\ node[i].authw = InitLevel /\ node[i].expired = FALSE
                  /\ node[i].next = IF j + 1 \in DOMAIN InitChain[b] THEN <<InitChain[b][j+1], 0>> ELSE NULL
                  /\ node[i].prev = IF j - 1 \in DOMAIN InitChain[b] THEN <<InitChain[b][j-1], 0>> ELSE NULL
    <2> DEFINE k == InitChain[b][j]
               i == <<k, 0>>
    <2>1. InitChain[b] \in Seq(Keys) /\ k \in Keys /\ k \in InitKeys /\ Bucket[k] = b
      BY TableAssumption DEF InitKeys
    <2>2. i \in Ids /\ i[1] = k
      BY <2>1 DEF Ids
    <2>3. (CHOOSE x \in DOMAIN InitChain[b] : InitChain[b][x] = k) = j
      BY TableAssumption
    <2>4. node[i] = InitNode(InitChain[b], j)
      BY <2>1, <2>2, <2>3 DEF Init
    <2>5. \A x \in DOMAIN InitChain[b] : <<InitChain[b][x], 0>> \in Ids
      BY DEF Ids, InitKeys
    <2>6. InitNode(InitChain[b], j) = [key |-> k, val |-> i, authr |-> 0, authw |-> InitLevel, expired |-> FALSE,
             next |-> IF j + 1 \in DOMAIN InitChain[b] THEN <<InitChain[b][j+1], 0>> ELSE NULL,
             prev |-> IF j - 1 \in DOMAIN InitChain[b] THEN <<InitChain[b][j-1], 0>> ELSE NULL]
      BY DEF InitNode
    <2>7. InitNode(InitChain[b], j) \in Node
      <3>1. 0 \in Nat /\ InitLevel \in Nat
        BY ClientAssumption
      <3> DEFINE x == IF j + 1 \in DOMAIN InitChain[b] THEN <<InitChain[b][j+1], 0>> ELSE NULL
                 y == IF j - 1 \in DOMAIN InitChain[b] THEN <<InitChain[b][j-1], 0>> ELSE NULL
      <3>2. x \in Ids \union {NULL} /\ y \in Ids \union {NULL}
        BY <2>5
      <3>3. InitNode(InitChain[b], j) = [key |-> k, val |-> i, authr |-> 0, authw |-> InitLevel,
                                         expired |-> FALSE, next |-> x, prev |-> y]
        BY <2>6
      <3> HIDE DEF x, y, k, i
      <3>4. k \in Keys /\ i \in Ids
        BY <2>1, <2>2 DEF k, i
      <3>5. [key |-> k, val |-> i, authr |-> 0, authw |-> InitLevel, expired |-> FALSE, next |-> x, prev |-> y]
              \in Node
        BY <3>1, <3>2, <3>4, Zenon DEF Node
      <3> QED BY <3>3, <3>5
    <2> QED BY <2>2, <2>4, <2>6, <2>7
  <1>2. \A i \in Ids : node[i] = IF i[1] \in InitKeys
                                 THEN LET chain == InitChain[Bucket[i[1]]]
                                      IN  InitNode(chain, CHOOSE j \in DOMAIN chain : chain[j] = i[1])
                                 ELSE NULL
    BY DEF Init
  <1>3. ASSUME NEW i \in Ids, node[i] # NULL
        PROVE  \E b \in Buckets : \E j \in DOMAIN InitChain[b] : i = <<InitChain[b][j], 0>>
    <2>1. i[1] \in InitKeys
      BY <1>2, <1>3
    <2>2. InitKeys \subseteq Keys
      <3> SUFFICES ASSUME NEW b \in Buckets, NEW j \in DOMAIN InitChain[b] PROVE InitChain[b][j] \in Keys
        BY DEF InitKeys
      <3>1. InitChain[b] \in Seq(Keys)
        BY TableAssumption
      <3> QED BY <3>1
    <2>3. i \notin Clients \X (1..MaxCommands)
      BY <2>1, <2>2, ClientAssumption
    <2>4. i \in InitKeys \X {0}
      BY <2>3 DEF Ids
    <2> QED BY <2>4 DEF InitKeys
  <1>4. \A i \in Ids : node[i] # NULL => node[i] \in Node
    BY <1>1, <1>3
  <1>5. node \in [Ids -> Node \union {NULL}]
    BY <1>4 DEF Init
  <1> QED BY <1>1, <1>3, <1>5

LEMMA InitAlloc ==
    ASSUME Init, NEW b \in Buckets, NEW j \in DOMAIN InitChain[b]
    PROVE  <<InitChain[b][j], 0>> \in Alloc
  <1>1. <<InitChain[b][j], 0>> \in Ids /\ node[<<InitChain[b][j], 0>>] \in Node
    BY InitNodes
  <1> QED BY <1>1, NullIs DEF Alloc

LEMMA InitOwned ==
    ASSUME Init
    PROVE  Owned
  <1>1. node \in [Ids -> Node \union {NULL}]
    BY InitNodes
  <1>2. ASSUME NEW i \in Alloc
        PROVE  /\ node[i].val = i /\ node[i].key = i[1] /\ i[2] = 0 /\ i[1] \notin Clients
               /\ node[i].authr = 0 /\ node[i].authw \in Nat
               /\ node[i].next \in Alloc \union {NULL} /\ node[i].prev \in Alloc \union {NULL}
    <2>1. PICK b \in Buckets : \E j \in DOMAIN InitChain[b] : i = <<InitChain[b][j], 0>>
      BY InitNodes DEF Alloc
    <2>2. PICK j \in DOMAIN InitChain[b] : i = <<InitChain[b][j], 0>>
      BY <2>1
    <2>3. \A x \in DOMAIN InitChain[b] : <<InitChain[b][x], 0>> \in Alloc
      BY InitAlloc
    <2>4. /\ node[i].key = InitChain[b][j] /\ node[i].val = i /\ node[i].authr = 0 /\ node[i].authw = InitLevel
          /\ node[i].next = IF j + 1 \in DOMAIN InitChain[b] THEN <<InitChain[b][j+1], 0>> ELSE NULL
          /\ node[i].prev = IF j - 1 \in DOMAIN InitChain[b] THEN <<InitChain[b][j-1], 0>> ELSE NULL
      BY <2>2, InitNodes
    <2>5. InitChain[b][j] \in Keys
      BY TableAssumption
    <2> QED BY <2>2, <2>3, <2>4, <2>5, ClientAssumption
  <1>3. \A b \in Buckets : head[b] \in Alloc \union {NULL}
    <2> SUFFICES ASSUME NEW b \in Buckets, head[b] # NULL PROVE head[b] \in Alloc
      OBVIOUS
    <2>1. InitChain[b] # <<>> /\ head[b] = <<InitChain[b][1], 0>>
      BY DEF Init
    <2>2. 1 \in DOMAIN InitChain[b]
      BY <2>1, TableAssumption
    <2> QED BY <2>1, <2>2, InitAlloc
  <1>4. \A c \in Clients : th[c].pc = "idle" /\ th[c].stage = "check" /\ th[c].n = 0
    BY DEF Init
  <1>5. TypeOK
    <2>1. head \in [Buckets -> Ids \union {NULL}]
      BY <1>3 DEF Init, Alloc
    <2>2. size \in [Buckets -> Int]
      <3>1. \A b \in Buckets : DOMAIN InitChain[b] = 1..Len(InitChain[b]) /\ Len(InitChain[b]) \in Nat
        BY TableAssumption
      <3>2. \A b \in Buckets : Cardinality(DOMAIN InitChain[b]) \in Int
        BY <3>1, FS_Interval
      <3> QED BY <3>2 DEF Init
    <2>3. th \in [Clients -> Thread]
      <3>1. /\ "idle" \in Places /\ 0 \in 0..MaxCommands /\ 0 \in Int /\ {} \in SUBSET Ids
            /\ Plain("none") \in Answers
        BY ClientAssumption, PlainIs DEF Places
      <3>2. [pc |-> "idle", stage |-> "check", cmd |-> NULL, n |-> 0, cur |-> NULL,
             got |-> NULL, seen |-> {}, reg |-> 0, ans |-> Plain("none")] \in Thread
        BY <3>1 DEF Thread
      <3> QED BY <3>2 DEF Init
    <2>4. InitKeys \subseteq Keys
      <3> SUFFICES ASSUME NEW b \in Buckets, NEW j \in DOMAIN InitChain[b] PROVE InitChain[b][j] \in Keys
        BY DEF InitKeys
      <3>1. InitChain[b] \in Seq(Keys)
        BY TableAssumption
      <3> QED BY <3>1
    <2> QED BY <1>1, <2>1, <2>2, <2>3, <2>4 DEF TypeOK, Init
  <1>6. Memory
    <2>1. \A c \in Clients : Placed(c)
      BY <1>4 DEF Placed
    <2>2. Mutex
      BY <1>4 DEF Mutex, Init, Holding, Writing, Inserting, Removing
    <2>3. Pointers
      BY <1>2, <1>3 DEF Pointers
    <2>4. Births
      <3> SUFFICES ASSUME NEW c \in Clients, NEW k \in 1..MaxCommands PROVE <<c, k>> \notin Alloc
        BY DEF Births, Alloc, Ids
      <3> QED BY <1>2
    <2> QED BY <1>5, <2>1, <2>2, <2>3, <2>4 DEF Memory
  <1>7. Values
    <2>1. \A c \in Clients : ~Taken(c)
      BY <1>4 DEF Taken
    <2>2. \A c \in Clients, k \in 1..MaxCommands : \A i \in Alloc : node[i].val # <<c, k>>
      BY <1>2
    <2> QED BY <1>2, <2>1, <2>2 DEF Values
  <1>8. Authorities
    <2>1. \A i \in Alloc : node[i].authr <= node[i].authw
      BY <1>2
    <2>2. \A i \in Alloc : MadeBy(i)
      BY <1>2 DEF MadeBy
    <2>3. \A c \in Clients : Progress(c)
      BY <1>4 DEF Progress
    <2> QED BY <2>1, <2>2, <2>3 DEF Authorities
  <1> QED BY <1>6, <1>7, <1>8 DEF Owned

\* What a mutex protects stays so in every step of every command thread of hash.cpp, faults
\* included.
THEOREM OwnedAlways == Spec => []Owned
  <1>1. Init => Owned
    BY InitOwned
  <1>2. Owned /\ [Next]_vars => Owned'
    BY OwnedNext
  <1> QED BY <1>1, <1>2, PTL DEF Spec

-----------------------------------------------------------------------------
(* What holds in every run, of clashing commands too                       *)

\* TypeOK: pointers, locals and counters have their types, in whatever order the threads
\* of hash.cpp and command.cpp run.
THEOREM TypeCorrect == Spec => []TypeOK
  <1>1. Owned => TypeOK
    BY DEF Owned, Memory
  <1> QED BY <1>1, OwnedAlways, PTL

\* A mutex belongs to one thread, which stands at its node, and a thread has one at most
\* (Hash::set, Hash::del, kv::set_authr and kv::set_authw lock and unlock it).
THEOREM OneMutex == Spec => []Mutex
  <1>1. Owned => Mutex
    BY DEF Owned, Memory
  <1> QED BY <1>1, OwnedAlways, PTL

\* AuthOrderUnlocked: kv::set_authr and kv::set_authw leave no unlocked node that needs more
\* authority to be read than to be written.
THEOREM AuthOrderKept == Spec => []AuthOrderUnlocked
  <1>1. Owned => AuthOrderUnlocked
    BY DEF Owned, Authorities, Half, AuthOrderUnlocked, Alloc
  <1> QED BY <1>1, OwnedAlways, PTL

\* WholeNodes: the value and the authorities of an unlocked node come from the same Hash::set,
\* if no authr or authw is sent for its key.
THEOREM NodesWhole == Spec => []WholeNodes
  <1>1. ASSUME Owned PROVE WholeNodes
    <2> SUFFICES ASSUME NEW i \in Ids, node[i] # NULL, lock[i] = NULL, node[i].key \in MadeOnly,
                        node[i].val[1] \in Clients
                 PROVE  \E m \in Work[node[i].val[1]] :
                            /\ m.op = "make" /\ m.key = node[i].key
                            /\ <<m.r, m.w>> = <<node[i].authr, node[i].authw>>
      BY DEF WholeNodes
    <2>1. MadeBy(i)
      BY <1>1 DEF Owned, Authorities, Partial, Alloc
    <2> QED BY <2>1 DEF MadeBy
  <1> QED BY <1>1, OwnedAlways, PTL

=============================================================================
