------------------------------ MODULE Persist ------------------------------
(***************************************************************************)
(* Lists (linkedlist.cpp) that clients change while the table is saved     *)
(* (hash.cpp), and what a server that is started again reads from the      *)
(* file.                                                                   *)
(*                                                                         *)
(* Each client has one command under way, in a thread of its own, which    *)
(* takes the mutex of the key's node for the change itself.  One save at a *)
(* time, of auto_save or a command, goes through the keys and prints their *)
(* lists without any mutex.  A step is one access to what another thread   *)
(* may look at: pushes overlap with everything, and so their pointers are  *)
(* written one by one; a command that takes elements away is kept apart    *)
(* from the printing of its key (Apart), where it would leave print behind *)
(* a freed node, a null head or in an endless loop, and so it unlinks its  *)
(* node in one step.                                                       *)
(*                                                                         *)
(* The keys are there from the beginning, and only a crash takes them      *)
(* away; nobody is refused for its authority (Command.tla and              *)
(* HashTable.tla have the rest).                                           *)
(***************************************************************************)
EXTENDS ListOps, FiniteSets

CONSTANTS
    InitSaved,   \* what the file has of each key at first
    Order,       \* the keys in the order of their buckets
    MaxSaves,    \* bound: saves that are begun
    MaxCrashes,  \* bound: crashes
    EMPTY,       \* the element "(empty)", which stands for an empty list in the file
    PIECE        \* an element whose end is missing

Nil == 0                   \* a null pointer
Elements == Vals \union {EMPTY, PIECE}
List == [head : Nat, length : Int]
Node == [val : Elements, next : Nat, prev : Nat]
Thread == [pc : {"idle", "check", "take", "link", "head", "leave"},
           cmd : Commands \union {NULL}, n : Nat, e : Nat,
           ans : [msg : {"none", "ok", "nokey", "empty", "blank", "data"}, val : Elements \union {NULL}]]
Saving == [pc : {"idle", "key", "first", "test", "next"}, n : 1..(Len(Order) + 1),
           it : Nat, str : Seq(Elements)]

ASSUME OrderAssumption ==
    /\ Order \in Seq(Keys) /\ Range(Order) = Keys
    /\ \A i, j \in DOMAIN Order : Order[i] = Order[j] => i = j
ASSUME FileAssumption ==
    /\ InitSaved \in [Keys -> Seq(Vals)] /\ MaxSaves \in Nat /\ MaxCrashes \in Nat
    /\ NULL \notin Seq(Elements) /\ NULL \notin List

VARIABLES
    list,     \* the value object of each key: head and length
    node,     \* the allocated nodes of all lists
    lock,     \* who holds the mutex of a key's node
    th,       \* the thread of each client
    saver,    \* the thread that saves: its place, the key, its node, the text so far
    file,     \* the lines that were given to the file
    whole,    \* history: the last save was not interrupted
    saves, crashes,
    since,    \* history: the lists each key had since the last save began, till it ended
    moved     \* history: the keys whose head an lpush moved while they were printed

vars == <<list, node, lock, th, saver, file, whole, saves, crashes, since, moved>>

Ids == 1..(Cardinality(DOMAIN node) + 1)

\* A line of the file has the key, unless it is cut before its end, and the elements.
Line == [key : Keys \union {NULL}, val : Seq(Elements)]

TypeOK ==
    /\ list \in [Keys -> List \union {NULL}]
    /\ DOMAIN node \subseteq Nat \ {Nil} /\ node \in [DOMAIN node -> Node]
    /\ lock \in [Keys -> Clients \union {NULL}]
    /\ th \in [Clients -> Thread]
    /\ saver \in Saving
    /\ file \in Seq(Line) /\ whole \in BOOLEAN
    /\ saves \in 0..MaxSaves /\ crashes \in 0..MaxCrashes
    /\ since \in [Keys -> SUBSET (Seq(Elements) \union {NULL})]
    /\ moved \subseteq Keys

-----------------------------------------------------------------------------
(* Lists as the commands see them                                          *)

Cmd(c) == th[c].cmd
Key(c) == Cmd(c).key

\* The nodes from the head of k on, once around.
Ring(k) ==
    LET from[i \in 1..Cardinality(DOMAIN node)] ==
            IF i = 1 THEN list[k].head ELSE node[from[i - 1]].next
        ends == {i \in DOMAIN from : node[from[i]].next = list[k].head}
    IN  IF list[k].head = Nil THEN <<>>
        ELSE [i \in 1..Min(ends \union {Cardinality(DOMAIN node)}) |-> from[i]]

\* lpush has linked its node, which is not the head yet.
Fronting(k) == \E c \in Clients : lock[k] = c /\ Cmd(c).op = "lpush" /\ th[c].pc = "head"

\* The list of k: a node is in it as soon as it is linked.
View(k) ==
    IF list[k] = NULL THEN NULL
    ELSE LET r == Ring(k)
             vals == [i \in DOMAIN r |-> node[r[i]].val]
         IN  IF Fronting(k) THEN <<Last(vals)>> \o Front(vals) ELSE vals

\* The history while a save is under way: a node that is being made the head may count or
\* not.
Sights(k) == {View(k)} \union IF Fronting(k) THEN {Tail(View(k))} ELSE {}
Remember(k) ==
    since' = IF saver.pc = "idle" THEN since ELSE [since EXCEPT ![k] = @ \union Sights(k)']

\* data_decode_node
Printed(s) == IF s = <<>> THEN <<EMPTY>> ELSE s

Printing(k) == saver.pc \in {"first", "test", "next"} /\ Order[saver.n] = k

\* What takes elements away does not overlap with the printing of its key.
Shrinks(m) == m.op \notin Pushes
Shrinking(k) == \E c \in Clients : th[c].pc # "idle" /\ Shrinks(Cmd(c)) /\ Key(c) = k
Apart(m) == Shrinks(m) => ~Printing(m.key)

Goto(c, pc) == th' = [th EXCEPT ![c].pc = pc]
Finish(c, ans) == th' = [th EXCEPT ![c].pc = "idle", ![c].e = Nil, ![c].ans = ans]
Plainly(c, msg) == Finish(c, Plain(msg))

-----------------------------------------------------------------------------
(* The commands of clients                                                 *)

Call(c) ==
    /\ th[c].pc = "idle" /\ th[c].n < MaxCommands[c]
    /\ \E m \in Work[c] :
         /\ Apart(m)
         /\ th' = [th EXCEPT ![c].pc = "check", ![c].cmd = m, ![c].n = @ + 1, ![c].ans = Plain("none")]
    /\ UNCHANGED <<list, node, lock, saver, file, whole, saves, crashes, since, moved>>

\* The command finds its key, or not; all but the pushes then ask whether the list is
\* empty, without the mutex.
Check(c) ==
    /\ th[c].pc = "check"
    /\ \/ list[Key(c)] = NULL /\ Plainly(c, "nokey")
       \/ /\ list[Key(c)] # NULL /\ Shrinks(Cmd(c))
          /\ IF list[Key(c)].head = Nil THEN Plainly(c, "empty") ELSE Goto(c, "take")
    /\ UNCHANGED <<list, node, lock, saver, file, whole, saves, crashes, since, moved>>

New == CHOOSE i \in Ids : i \notin DOMAIN node

\* Mutant: the mutex is not waited for.
EnterAnyway(c) ==
    /\ th[c].pc = "check" /\ ~Shrinks(Cmd(c)) /\ list[Key(c)] # NULL
    /\ LET k == Key(c)
           h == list[k].head
       IN  /\ lock' = [lock EXCEPT ![k] = c]
           /\ node' = [i \in DOMAIN node \union {New} |->
                         IF i # New THEN node[i]
                         ELSE IF h = Nil THEN [val |-> Cmd(c).val, next |-> New, prev |-> New]
                         ELSE [val |-> Cmd(c).val, next |-> h, prev |-> node[h].prev]]
    /\ th' = [th EXCEPT ![c].pc = "link", ![c].e = New]
    /\ UNCHANGED <<list, saver, file, whole, saves, crashes, since, moved>>

\* push_front and push_back, under the mutex: a new node with pointers into the list ...
Enter(c) ==
    /\ th[c].pc = "check" /\ ~Shrinks(Cmd(c)) /\ list[Key(c)] # NULL
    /\ lock[Key(c)] = NULL
    /\ LET k == Key(c)
           h == list[k].head
       IN  /\ lock' = [lock EXCEPT ![k] = c]
           /\ node' = [i \in DOMAIN node \union {New} |->
                         IF i # New THEN node[i]
                         ELSE IF h = Nil THEN [val |-> Cmd(c).val, next |-> New, prev |-> New]
                         ELSE [val |-> Cmd(c).val, next |-> h, prev |-> node[h].prev]]
    /\ th' = [th EXCEPT ![c].pc = "link", ![c].e = New]
    /\ UNCHANGED <<list, saver, file, whole, saves, crashes, since, moved>>

\* Mutant: the head does not learn of its new predecessor.
LinkForward(c) ==
    /\ th[c].pc = "link"
    /\ LET k == Key(c)
           h == list[k].head
       IN  /\ IF h = Nil
              THEN /\ list' = [list EXCEPT ![k].head = th[c].e]
                   /\ UNCHANGED node
              ELSE /\ node' = [node EXCEPT ![node[h].prev].next = th[c].e]
                   /\ UNCHANGED list
           /\ LET front == h # Nil /\ Cmd(c).op = "lpush" IN
                /\ Goto(c, IF front THEN "head" ELSE "leave")
                /\ moved' = IF front /\ Printing(k) THEN moved \union {k} ELSE moved
    /\ UNCHANGED <<lock, saver, file, whole, saves, crashes>>
    /\ Remember(Key(c))

\* ... is made the head of an empty list, or linked between the tail and the head (whose
\* pointer back nobody follows without the mutex) ...
Link(c) ==
    /\ th[c].pc = "link"
    /\ LET k == Key(c)
           h == list[k].head
       IN  /\ IF h = Nil
              THEN /\ list' = [list EXCEPT ![k].head = th[c].e]
                   /\ UNCHANGED node
              ELSE /\ node' = [node EXCEPT ![node[h].prev].next = th[c].e, ![h].prev = th[c].e]
                   /\ UNCHANGED list
           /\ LET front == h # Nil /\ Cmd(c).op = "lpush" IN
                /\ Goto(c, IF front THEN "head" ELSE "leave")
                /\ moved' = IF front /\ Printing(k) THEN moved \union {k} ELSE moved
    /\ UNCHANGED <<lock, saver, file, whole, saves, crashes>>
    /\ Remember(Key(c))

\* ... and by push_front made the head.
SetHead(c) ==
    /\ th[c].pc = "head"
    /\ list' = [list EXCEPT ![Key(c)].head = th[c].e]
    /\ Goto(c, "leave")
    /\ UNCHANGED <<node, lock, saver, file, whole, saves, crashes, since, moved>>

Leave(c) ==
    /\ th[c].pc = "leave"
    /\ list' = [list EXCEPT ![Key(c)].length = @ + 1]
    /\ lock' = [lock EXCEPT ![Key(c)] = NULL]
    /\ Plainly(c, "ok")
    /\ UNCHANGED <<node, saver, file, whole, saves, crashes, since, moved>>

\* The node that pop_front, pop_back and del take.
Target(m) ==
    CASE m.op = "lpop" -> list[m.key].head
      [] m.op = "rpop" -> node[list[m.key].head].prev
      [] m.op = "lerase" -> Ring(m.key)[Index(Ring(m.key), m.i)]

\* pop_front, pop_back and del under the mutex.  A list may have become empty since it was
\* asked for; the last node of a list is not deleted by the pops (head is NULL by then).
Drop(c) ==
    /\ th[c].pc = "take"
    /\ LET m == Cmd(c)
           k == m.key
           t == Target(m)
           n == node[t]
           last == n.next = t
           ok == IF m.op = "lerase" THEN Plain("ok") ELSE [msg |-> "data", val |-> n.val]
           kept == IF last /\ m.op # "lerase" THEN DOMAIN node ELSE DOMAIN node \ {t}
           unlinked == [i \in DOMAIN node |->
                          [node[i] EXCEPT !.next = IF i = n.prev THEN n.next ELSE @,
                                          !.prev = IF i = n.next THEN n.prev ELSE @]]
       IN  /\ lock[k] = NULL
           /\ IF list[k].head = Nil
              THEN /\ Plainly(c, IF m.op = "lerase" THEN "ok" ELSE "blank")
                   /\ UNCHANGED <<list, node>>
              ELSE /\ list' = [list EXCEPT ![k] =
                                 [head |-> IF last THEN Nil ELSE IF t = @.head THEN n.next ELSE @.head,
                                  length |-> @.length - 1]]
                   /\ node' = [i \in kept |-> unlinked[i]]
                   /\ Finish(c, ok)
    /\ UNCHANGED <<lock, saver, file, whole, saves, crashes, moved>>
    /\ Remember(Key(c))

-----------------------------------------------------------------------------
(* Hash::save.  The stream keeps lines back as it likes before it writes   *)
(* them; who reads the file does so after close, or after a crash.         *)

\* The file is opened, and thereby emptied.
Open ==
    /\ saver.pc = "idle" /\ saves < MaxSaves
    /\ saves' = saves + 1
    /\ file' = <<>> /\ whole' = FALSE
    /\ saver' = [pc |-> "key", n |-> 1, it |-> Nil, str |-> <<>>]
    /\ since' = [k \in Keys |-> Sights(k)] /\ moved' = {}
    /\ UNCHANGED <<list, node, lock, th, crashes>>

\* Mutant: the loop over the text counts with the index of the loop over the buckets.
WriteShadowless(k, val) ==
    /\ file' = Append(file, [key |-> k, val |-> val])
    /\ saver' = [pc |-> "key", n |-> saver.n + Len(val) + 1, it |-> Nil, str |-> <<>>]

Write(k, val) ==
    /\ file' = Append(file, [key |-> k, val |-> val])
    /\ saver' = [pc |-> "key", n |-> saver.n + 1, it |-> Nil, str |-> <<>>]

\* Mutant: for a bucket without a node the loop does not go on to the next.
NoNodeStays(k) == list[k] = NULL /\ UNCHANGED <<saver, file, moved>>

\* An empty bucket
NoNode(k) ==
    /\ list[k] = NULL
    /\ saver' = [saver EXCEPT !.n = @ + 1]
    /\ UNCHANGED <<file, moved>>

\* print of an empty list, for which data_decode_node puts a word
PrintEmpty(k) ==
    /\ list[k] # NULL /\ list[k].head = Nil
    /\ Write(k, <<EMPTY>>)
    /\ UNCHANGED moved

\* print begins with the head ...
PrintHead(k) ==
    /\ list[k] # NULL /\ list[k].head # Nil
    /\ saver' = [saver EXCEPT !.pc = "first", !.str = <<node[list[k].head].val>>]
    /\ moved' = IF Fronting(k) THEN moved \union {k} ELSE moved
    /\ UNCHANGED file

Begin ==
    /\ saver.pc = "key" /\ saver.n <= Len(Order)
    /\ LET k == Order[saver.n] IN
         /\ ~Shrinking(k)
         /\ NoNode(k) \/ PrintEmpty(k) \/ PrintHead(k)
    /\ UNCHANGED <<list, node, lock, th, whole, saves, crashes, since>>

\* ... asks for the head again to take its successor ...
PrintFirst ==
    /\ saver.pc = "first"
    /\ saver' = [saver EXCEPT !.pc = "test", !.it = node[list[Order[saver.n]].head].next]
    /\ UNCHANGED <<list, node, lock, th, file, whole, saves, crashes, since, moved>>

\* Mutant: the loop ends at the last node, before it is printed.
PrintTestEarly ==
    /\ saver.pc = "test"
    /\ LET k == Order[saver.n] IN
         IF node[saver.it].next = list[k].head THEN Write(k, saver.str)
         ELSE /\ saver' = [saver EXCEPT !.pc = "next", !.str = Append(@, node[saver.it].val)]
              /\ UNCHANGED file
    /\ UNCHANGED <<list, node, lock, th, whole, saves, crashes, since, moved>>

\* ... and ends where it meets what is then the head ...
PrintTest ==
    /\ saver.pc = "test"
    /\ LET k == Order[saver.n] IN
         IF saver.it = list[k].head THEN Write(k, saver.str)
         ELSE /\ saver' = [saver EXCEPT !.pc = "next", !.str = Append(@, node[saver.it].val)]
              /\ UNCHANGED file
    /\ UNCHANGED <<list, node, lock, th, whole, saves, crashes, since, moved>>

\* ... or goes on to the next node.
PrintNext ==
    /\ saver.pc = "next"
    /\ saver' = [saver EXCEPT !.pc = "test", !.it = node[@].next]
    /\ UNCHANGED <<list, node, lock, th, file, whole, saves, crashes, since, moved>>

Close ==
    /\ saver.pc = "key" /\ saver.n > Len(Order)
    /\ saver' = [saver EXCEPT !.pc = "idle", !.n = 1]
    /\ whole' = TRUE
    /\ UNCHANGED <<list, node, lock, th, file, saves, crashes, since, moved>>

-----------------------------------------------------------------------------
(* A crash, and Hash::read                                                 *)

\* What may be left of a line whose end is missing: a line cut in its key is damaged, as
\* it has less than five fields.
Cut(l) ==
    {[key |-> NULL, val |-> <<>>]}
    \union {[l EXCEPT !.val = SubSeq(@, 1, j)] : j \in 0..(Len(l.val) - 1)}
    \union {[l EXCEPT !.val = SubSeq(@, 1, j) \o <<PIECE>>] : j \in 0..(Len(l.val) - 1)}

\* What of the file has been written.
Written(lines) ==
    {SubSeq(lines, 1, j) : j \in 0..Len(lines)}
    \union UNION {{SubSeq(lines, 1, j - 1) \o <<p>> : p \in Cut(lines[j])} : j \in 1..Len(lines)}

Crash ==
    /\ crashes < MaxCrashes
    /\ crashes' = crashes + 1
    /\ list' = [k \in Keys |-> NULL]
    /\ node' = <<>>
    /\ lock' = [k \in Keys |-> NULL]
    /\ th' = [c \in Clients |-> [th[c] EXCEPT !.pc = "idle", !.e = Nil, !.ans = Plain("none")]]
    /\ saver' = [pc |-> "idle", n |-> 1, it |-> Nil, str |-> <<>>]
    /\ IF saver.pc = "idle" THEN UNCHANGED file ELSE file' \in Written(file)
    /\ UNCHANGED <<whole, saves, since, moved>>

\* The nodes and value objects that a line adds: push_back for each of its elements.
Grown(mem, l) ==
    LET b == Len(mem.node)
        n == Len(l.val)
        new(i) == [val |-> l.val[i - b], next |-> IF i = b + n THEN b + 1 ELSE i + 1,
                   prev |-> IF i = b + 1 THEN b + n ELSE i - 1]
    IN  [node |-> [i \in 1..(b + n) |-> IF i <= b THEN mem.node[i] ELSE new(i)],
         list |-> [mem.list EXCEPT ![l.key] = [head |-> IF n = 0 THEN Nil ELSE b + 1, length |-> n]]]

\* One line after the other, for a table without keys.
Filled(lines) ==
    LET mem[n \in 0..Len(lines)] ==
          IF n = 0 THEN [node |-> <<>>, list |-> [k \in Keys |-> NULL]]
          ELSE Grown(mem[n - 1], lines[n])
    IN  mem[Len(lines)]

\* Mutant: the end of the file is asked for before the line is used.
ReadableButLast(lines) == Front(lines)

\* The lines before the damaged one, which can only be the last.
Readable(lines) == IF Last(lines).key = NULL THEN Front(lines) ELSE lines

\* The command read, with the right password, to a server that has just been started.  A
\* line cut behind its key gives a list without elements, or ends the process (Crash):
\* split leaves the array that data_encode_node frees as it was.
Read ==
    /\ crashes > 0 /\ saver.pc = "idle" /\ file # <<>>
    /\ \A c \in Clients : th[c].pc = "idle"
    /\ \A k \in Keys : list[k] = NULL
    /\ LET mem == Filled(Readable(file)) IN node' = mem.node /\ list' = mem.list
    /\ UNCHANGED <<lock, th, saver, file, whole, saves, crashes, since, moved>>

-----------------------------------------------------------------------------

Init ==
    /\ LET lines == [i \in DOMAIN Order |-> [key |-> Order[i], val |-> InitList[Order[i]]]]
           mem == Filled(lines)
       IN  node = mem.node /\ list = mem.list
    /\ lock = [k \in Keys |-> NULL]
    /\ th = [c \in Clients |-> [pc |-> "idle", cmd |-> NULL, n |-> 0, e |-> Nil, ans |-> Plain("none")]]
    /\ saver = [pc |-> "idle", n |-> 1, it |-> Nil, str |-> <<>>]
    /\ file = [i \in DOMAIN Order |-> [key |-> Order[i], val |-> Printed(InitSaved[Order[i]])]]
    /\ whole = TRUE
    /\ saves = 0 /\ crashes = 0
    /\ since = [k \in Keys |-> {InitSaved[k]}] /\ moved = {}

Run(c) == Check(c) \/ Enter(c) \/ Link(c) \/ SetHead(c) \/ Leave(c) \/ Drop(c)
Save == Begin \/ PrintFirst \/ PrintTest \/ PrintNext \/ Close

Over ==
    /\ saver.pc = "idle" /\ \A c \in Clients : th[c].pc = "idle" /\ th[c].n = MaxCommands[c]
    /\ UNCHANGED vars

Next ==
    \/ \E c \in Clients : Call(c) \/ Run(c)
    \/ Open \/ Save
    \/ Crash \/ Read
    \/ Over

Spec == Init /\ [][Next]_vars

\* The operating system runs every thread.
FairSpec == Spec /\ WF_vars(Save) /\ \A c \in Clients : WF_vars(Run(c))

-----------------------------------------------------------------------------
(* Properties                                                              *)

\* Whatever pushes and pops have done beside each other, the list of a key whose mutex is
\* free goes around forwards and backwards, is as long as its counter says and shares no
\* node (push_front, push_back, pop_front, pop_back, del).
RingsOK ==
    \A k \in Keys :
        lock[k] = NULL /\ list[k] # NULL =>
            LET r == Ring(k) IN
            /\ Len(r) = list[k].length
            /\ \A i \in DOMAIN r : node[node[r[i]].next].prev = r[i]
            /\ \A j \in Keys \ {k} : list[j] # NULL => Range(r) \cap Range(Ring(j)) = {}

\* The commands act on a sequence, each at one moment, and answer accordingly.
Promise == INSTANCE Lists WITH
    seq <- [k \in Keys |-> View(k)],
    sent <- [c \in Clients |-> th[c].n],
    todo <- [c \in Clients |-> IF th[c].pc \in {"idle", "head", "leave"} THEN NULL ELSE Cmd(c)],
    told <- [c \in Clients |-> IF th[c].pc \in {"head", "leave"} THEN Plain("ok") ELSE th[c].ans]
Atomic == Promise!SpecLists

\* What print makes of a list that changes under it: a list the key had meanwhile, if its
\* head stayed, and otherwise all elements that were there all the time and none that
\* never was.
Honest(k, val) ==
    LET had == {Printed(s) : s \in since[k] \ {NULL}} IN
    IF k \notin moved THEN val \in had
    ELSE /\ Range(val) \subseteq UNION {Range(s) : s \in had}
         /\ \A x \in Elements : (\A s \in had : x \in Range(s)) => x \in Range(val)

Place(k) == CHOOSE i \in DOMAIN Order : Order[i] = k

\* A save, during which commands go on, writes a line for each key, in the order of the
\* buckets, and an honest one.
LinesHonest ==
    /\ saver.pc # "idle" \/ whole => \A i \in DOMAIN file : Honest(file[i].key, file[i].val)
    /\ whole =>
         /\ {file[i].key : i \in DOMAIN file} = {k \in Keys : NULL \notin since[k]}
         /\ \A i, j \in DOMAIN file : i < j => Place(file[i].key) < Place(file[j].key)

\* Read gives back what the last save wrote.  If the server crashed during that save, the
\* keys behind some point are lost, and of the key at that point the end of its list.
Kept(k, val) == IF val = NULL THEN NULL \in since[k] ELSE Honest(k, val)
Begun(k, val) ==
    LET intact == IF val # <<>> /\ Last(val) = PIECE THEN Front(val) ELSE val
        had == {Printed(s) : s \in since[k] \ {NULL}}
    IN  IF k \notin moved THEN \E s \in had : IsPrefix(intact, s)
        ELSE Range(intact) \subseteq UNION {Range(s) : s \in had}
ReadBack ==
    [][Read =>
        \E m \in 0..Len(Order) :
            /\ \A i \in 1..m : Kept(Order[i], View(Order[i])')
            /\ \A i \in (m + 1)..Len(Order) :
                 \/ View(Order[i])' = NULL
                 \/ i = m + 1 /\ Begun(Order[i], View(Order[i])')
            /\ whole => m = Len(Order)]_vars

\* A save comes to its end, however much is pushed meanwhile, unless the server crashes
\* (print, whose loop ends only where it meets the head).
SaveEnds == (saver.pc # "idle") ~> (saver.pc = "idle")
=============================================================================
