---------------------------- MODULE ChainsProofs ----------------------------
(***************************************************************************)
(* The chains of HashTable under Serial, for any number of clients, keys,  *)
(* buckets and commands: commands that may delete run alone, and of those  *)
(* that insert into a bucket one at a time; all others overlap freely.     *)
(*                                                                         *)
(* Shape says which nodes a chain has and in which order, how far the      *)
(* threads that change it have got with its links and its counter, and     *)
(* where the threads that walk it may be.                                  *)
(***************************************************************************)
EXTENDS HashTableProofs, WellFoundedInduction

-----------------------------------------------------------------------------
(* The shape of the table: C has the nodes of each chain, h their heights, *)
(* which grow from the end of the chain to its head.                       *)

Present(C, k) == \E i \in C[Bucket[k]] : node[i].key = k

Chains(C, h) ==
    /\ C \in [Buckets -> SUBSET Ids] /\ h \in [Ids -> Nat] /\ freed \subseteq Alloc
    /\ \A b \in Buckets : \A i \in C[b] : node[i] # NULL /\ i \notin freed /\ Bucket[node[i].key] = b
    /\ \A b \in Buckets : \A i, j \in C[b] : node[i].key = node[j].key \/ h[i] = h[j] => i = j

\* The nodes of a chain are linked by next from the head to the end.
Forward(C, h) ==
    /\ \A b \in Buckets : IF head[b] = NULL THEN C[b] = {}
                          ELSE head[b] \in C[b] /\ \A j \in C[b] : h[j] <= h[head[b]]
    /\ \A b \in Buckets : \A i \in C[b] :
         IF node[i].next = NULL THEN \A j \in C[b] : h[i] <= h[j]
         ELSE /\ node[i].next \in C[b] /\ h[node[i].next] < h[i]
              /\ \A j \in C[b] : h[j] < h[i] => h[j] <= h[node[i].next]

\* They are linked back by prev, except where a thread is about to change next.
Unhooking(i) == \E c \in Clients : th[c].pc = "unhook" /\ Cur(c) = i
Publishing(b, i) == \E c \in Clients : th[c].pc = "publish" /\ Slot(c) = b /\ Cur(c) = i
Backward(C) ==
    /\ \A b \in Buckets : \A i \in C[b] : node[i].next # NULL =>
         node[node[i].next].prev = IF Unhooking(i) THEN node[i].prev ELSE i
    /\ \A b \in Buckets : head[b] # NULL =>
         node[head[b]].prev = NULL \/ Publishing(b, node[head[b]].prev)

\* size counts the nodes, except where a thread is about to change it.
Rising(b) == \E c \in Clients : th[c].pc \in {"count", "inc"} /\ Slot(c) = b
Falling(b) == \E c \in Clients : th[c].pc \in {"free", "size", "dec"} /\ Slot(c) = b
Counted(C) ==
    /\ \A b \in Buckets :
         size[b] = IF Rising(b) THEN Cardinality(C[b]) - 1
                   ELSE IF Falling(b) THEN Cardinality(C[b]) + 1
                   ELSE Cardinality(C[b])
    /\ \A c \in Clients : th[c].pc \in {"inc", "dec"} => th[c].reg = size[Slot(c)]

\* A thread that looks for a key that is there has not passed it.
Before(C, h, c) ==
    \A i \in C[Slot(c)] : node[i].key = Key(c) => Cur(c) # NULL /\ h[i] <= h[Cur(c)]

\* Where threads are: at nodes of the chain, but for the new node that an insertion has
\* and the one that a deletion has taken out.
Located(C, h, c) ==
    LET p == th[c].pc IN
    /\ p = "walk" /\ Cur(c) # NULL => Cur(c) \in C[Slot(c)]
    /\ p \in Standing \ {"test", "link", "back", "publish", "free", "size", "dec"} => Cur(c) \in C[Slot(c)]
    /\ p = "walk" /\ th[c].stage \in {"set", "del"} => Before(C, h, c)
    /\ p \in {"enter", "walk"} /\ th[c].stage = "del" => Present(C, Key(c))
    /\ th[c].stage = "del" => Key(c) \notin Lasting
    /\ p \in {"test", "link", "back", "publish"} =>
         /\ ~Present(C, Key(c)) /\ Cur(c) \notin freed
         /\ node[Cur(c)].prev = NULL /\ ~node[Cur(c)].expired
         /\ p \in {"link", "back"} => head[Slot(c)] # NULL
         /\ p \in {"back", "publish"} => node[Cur(c)].next = head[Slot(c)]
         /\ p = "test" => node[Cur(c)].next = NULL
         /\ p = "publish" /\ head[Slot(c)] # NULL => node[head[Slot(c)]].prev = Cur(c)
    /\ p \in {"free", "size", "dec"} => Cur(c) \notin C[Slot(c)]
    /\ p = "free" => Cur(c) \notin freed

\* What Serial gives: a thread that deletes, or will, has the table to itself, and of two
\* that work on a bucket one at most inserts.
Deleter(C, c) ==
    \/ Cmd(c).op \in {"del", "expire"} \/ th[c].stage = "del"
    \/ \E i \in C[Slot(c)] : node[i].key = Key(c) /\ node[i].expired
Inserter(C, c) ==
    \/ Cmd(c).op = "make" /\ ~Present(C, Key(c))
    \/ th[c].pc \in {"count", "inc"}
Apart(C) ==
    \A c, d \in Clients : c # d /\ Active(c) /\ Active(d) =>
        /\ ~Deleter(C, c)
        /\ Slot(c) = Slot(d) => ~(Inserter(C, c) /\ Inserter(C, d))

\* Keys whose make was answered stay, unless somebody may delete them.
Lost(C) == \A k \in kept \intersect Lasting : Present(C, k)
Unexpired == \A i \in Alloc : node[i].key \in Lasting => ~node[i].expired

Shape(C, h) ==
    /\ Chains(C, h) /\ Forward(C, h) /\ Backward(C) /\ Counted(C) /\ Apart(C)
    /\ \A c \in Clients : Located(C, h, c)
    /\ Lost(C) /\ Unexpired

-----------------------------------------------------------------------------
(* The shape of the table under a step that leaves head and size alone     *)

\* Others and the links stay; only x, which is in no chain, may get another next.
Untouched(C, c, x) ==
    /\ head' = head /\ size' = size /\ freed' = freed
    /\ \A d \in Clients : d # c => th'[d] = th[d]
    /\ Cmd(c)' = Cmd(c) /\ Me(c)' = Me(c)
    /\ Alloc \subseteq Alloc'
    /\ \A i \in Alloc : node'[i].key = node[i].key /\ node'[i].expired = node[i].expired
    /\ \A i \in Alloc \ {x} : node'[i].next = node[i].next /\ node'[i].prev = node[i].prev
    /\ \A i \in Alloc' : i \notin Alloc => ~node'[i].expired
    /\ \A b \in Buckets : x \notin C[b]
    /\ \A d \in Clients : d # c /\ th[d].pc \in Inserting => Cur(d) # x

\* c neither starts nor ends what the others have to know of.
Quiet(C, c) ==
    /\ th[c].pc \notin {"unhook", "publish"} /\ th'[c].pc # "unhook"
    /\ th[c].pc \in {"count", "inc"} <=> th'[c].pc \in {"count", "inc"}
    /\ th[c].pc \in {"free", "size", "dec"} <=> th'[c].pc \in {"free", "size", "dec"}
    /\ th'[c].pc \in {"inc", "dec"} => th'[c].reg = size[Slot(c)]
    /\ th'[c].pc # "idle" /\ th'[c].stage = "del" => Deleter(C, c)
    /\ kept' = kept \/ (kept' = kept \union {Key(c)} /\ Present(C, Key(c)))

LEMMA ChainNodes ==
    ASSUME NEW C, NEW h, Chains(C, h), NEW b \in Buckets, NEW i \in C[b]
    PROVE  /\ i \in Ids /\ i \in Alloc /\ i \notin freed /\ Bucket[node[i].key] = b /\ h[i] \in Nat
           /\ \A d \in Buckets : i \in C[d] => d = b
  BY DEF Chains, Alloc

LEMMA OthersShape ==
    ASSUME Owned, NEW C, NEW h, Shape(C, h), NEW c \in Clients, Active(c), NEW x, Untouched(C, c, x),
           NEW d \in Clients, d # c
    PROVE  Located(C, h, d)'
  <1>1. th'[d] = th[d] /\ Cmd(d)' = Cmd(d) /\ Cur(d)' = Cur(d) /\ Slot(d)' = Slot(d) /\ Key(d)' = Key(d)
    BY DEF Untouched, Cmd, Cur, Slot, Key
  <1>2. Located(C, h, d) /\ Chains(C, h)
    BY DEF Shape
  <1>3. th[d].pc # "idle" => Slot(d) \in Buckets /\ Bucket[Key(d)] \in Buckets
    BY PlaceIs DEF Active, Slot
  <1>4. th[d].pc # "idle" => \A i \in C[Slot(d)] : i \in Alloc /\ node'[i].key = node[i].key
    BY <1>2, <1>3, ChainNodes DEF Untouched
  <1>5. th[d].pc # "idle" => (Present(C, Key(d)) <=> Present(C, Key(d))')
    BY <1>1, <1>4 DEF Present, Slot
  <1>6. th[d].pc # "idle" => (Before(C, h, d) => Before(C, h, d)')
    BY <1>1, <1>4 DEF Before
  <1>7. CASE th[d].pc = "idle"
    <2>1. th[d].stage = "check"
      BY <1>7 DEF Owned, Memory, Placed
    <2> QED BY <1>1, <1>7, <2>1 DEF Located, Standing, Holding, Writing, Inserting, Removing
  <1>8. CASE th[d].pc # "idle" /\ th[d].pc \in {"test", "link", "back", "publish"}
    <2>1. Cur(d) \in Alloc \ {x}
      BY <1>8, PlaceIs DEF Active, Standing, Holding, Inserting, Untouched
    <2>2. node'[Cur(d)].next = node[Cur(d)].next /\ node'[Cur(d)].prev = node[Cur(d)].prev
          /\ node'[Cur(d)].expired = node[Cur(d)].expired
      BY <2>1 DEF Untouched
    <2>3. head[Slot(d)] # NULL => node'[head[Slot(d)]].prev = node[head[Slot(d)]].prev
      <3>1. head[Slot(d)] # NULL => head[Slot(d)] \in C[Slot(d)]
        BY <1>3, <1>8 DEF Shape, Forward
      <3> QED BY <1>2, <1>3, <1>8, <3>1, ChainNodes DEF Untouched
    <2> QED BY <1>1, <1>2, <1>5, <1>8, <2>2, <2>3
            DEF Located, Untouched, Standing, Holding, Writing, Inserting, Removing
  <1>9. CASE th[d].pc # "idle" /\ th[d].pc \notin {"test", "link", "back", "publish"}
    BY <1>1, <1>2, <1>5, <1>6, <1>9 DEF Located, Untouched
  <1> QED BY <1>7, <1>8, <1>9

LEMMA ShapeStays ==
    ASSUME Owned, NEW C, NEW h, Shape(C, h), NEW c \in Clients, Active(c), NEW x, Untouched(C, c, x),
           Quiet(C, c), Located(C, h, c)'
    PROVE  Shape(C, h)'
  <1>1. Chains(C, h) /\ Forward(C, h) /\ Backward(C) /\ Counted(C) /\ Apart(C) /\ Lost(C) /\ Unexpired
    BY DEF Shape
  <1>2. \A b \in Buckets : \A i \in C[b] : /\ i \in Alloc \ {x} /\ i \notin freed
                                           /\ node'[i].key = node[i].key /\ node'[i].next = node[i].next
                                           /\ node'[i].prev = node[i].prev /\ node'[i].expired = node[i].expired
    BY <1>1, ChainNodes DEF Untouched
  <1>3. \A d \in Clients : d # c => th'[d] = th[d]
    BY DEF Untouched
  <1>4. /\ head' = head /\ size' = size /\ freed' = freed /\ Cmd(c)' = Cmd(c)
        /\ Key(c)' = Key(c) /\ Slot(c)' = Slot(c)
    BY DEF Untouched, Key, Slot
  <1>5. Chains(C, h)'
    <2>1. freed' \subseteq Alloc'
      BY <1>1, <1>4 DEF Chains, Untouched
    <2>2. \A b \in Buckets : \A i \in C[b] : node'[i] # NULL
      BY <1>2 DEF Untouched, Alloc
    <2> QED BY <1>1, <1>2, <1>4, <2>1, <2>2 DEF Chains
  <1>6. Forward(C, h)'
    BY <1>1, <1>2, <1>4 DEF Forward
  <1>7. Backward(C)'
    <2>1. \A i : Unhooking(i)' <=> Unhooking(i)
      BY <1>3 DEF Unhooking, Quiet, Cur
    <2>2. \A b, i : Publishing(b, i) => Publishing(b, i)'
      BY <1>3 DEF Publishing, Quiet, Cur, Slot, Key, Cmd
    <2>3. \A b \in Buckets : head[b] # NULL => head[b] \in C[b]
      BY <1>1 DEF Forward
    <2>4. \A b \in Buckets : \A i \in C[b] : node[i].next # NULL => node[i].next \in C[b]
      BY <1>1 DEF Forward
    <2>5. ASSUME NEW b \in Buckets, NEW i \in C[b], node'[i].next # NULL
          PROVE  node'[node'[i].next].prev = IF Unhooking(i)' THEN node'[i].prev ELSE i
      <3>1. node'[node'[i].next].prev = node[node[i].next].prev
        BY <1>2, <2>4, <2>5
      <3> QED BY <1>1, <1>2, <2>1, <2>5, <3>1 DEF Backward
    <2>6. ASSUME NEW b \in Buckets, head'[b] # NULL
          PROVE  (node[head[b]].prev = NULL \/ Publishing(b, node[head[b]].prev))'
      <3>1. PICK q : q = node[head[b]].prev
        OBVIOUS
      <3>2. node'[head'[b]].prev = q /\ head[b] # NULL
        BY <1>2, <1>4, <2>3, <2>6, <3>1
      <3>3. q = NULL \/ Publishing(b, q)
        BY <1>1, <3>1, <3>2 DEF Backward
      <3>4. q = NULL \/ Publishing(b, q)'
        BY <2>2, <3>3
      <3> QED BY <3>2, <3>4 DEF Publishing
    <2> QED BY <2>5, <2>6 DEF Backward
  <1>8. Counted(C)'
    <2>1. \A b : (Rising(b)' <=> Rising(b)) /\ (Falling(b)' <=> Falling(b))
      BY <1>3, <1>4 DEF Rising, Falling, Quiet, Slot, Key, Cmd
    <2>2. ASSUME NEW d \in Clients, th'[d].pc \in {"inc", "dec"}
          PROVE  th'[d].reg = size'[Slot(d)']
      BY <1>1, <1>3, <1>4, <2>2 DEF Counted, Quiet, Slot, Key, Cmd
    <2> QED BY <1>1, <1>4, <2>1, <2>2 DEF Counted
  <1>9. \A d \in Clients : Active(d)' => /\ Active(d) /\ Cmd(d)' = Cmd(d) /\ Key(d)' = Key(d)
                                         /\ Slot(d)' = Slot(d) /\ Slot(d) \in Buckets
    <2> SUFFICES ASSUME NEW d \in Clients, Active(d)'
                 PROVE  /\ Active(d) /\ Cmd(d)' = Cmd(d) /\ Key(d)' = Key(d)
                        /\ Slot(d)' = Slot(d)
      BY PlaceIs
    <2> QED BY <1>3, <1>4 DEF Active, Cmd, Key, Slot
  <1>10. ASSUME NEW d \in Clients, Active(d)'
         PROVE  (Deleter(C, d)' => Deleter(C, d)) /\ (Inserter(C, d)' => Inserter(C, d))
    <2>1. \A i \in C[Slot(d)] : node'[i].key = node[i].key /\ node'[i].expired = node[i].expired
      BY <1>2, <1>9, <1>10
    <2>2. Deleter(C, d)' => Deleter(C, d)
      <3>1. th'[d].stage = "del" => Deleter(C, d)
        BY <1>3, <1>10 DEF Quiet, Deleter, Active
      <3> QED BY <1>9, <1>10, <2>1, <3>1 DEF Deleter
    <2>3. Inserter(C, d)' => Inserter(C, d)
      <3>1. th'[d].pc \in {"count", "inc"} => th[d].pc \in {"count", "inc"}
        BY <1>3 DEF Quiet
      <3>2. Present(C, Key(d)) => Present(C, Key(d))'
        BY <1>9, <1>10, <2>1 DEF Present, Slot
      <3> QED BY <1>9, <1>10, <3>1, <3>2 DEF Inserter
    <2> QED BY <2>2, <2>3
  <1>11. Apart(C)'
    BY <1>1, <1>9, <1>10 DEF Apart
  <1>12. \A d \in Clients : Located(C, h, d)'
    BY OthersShape
  <1>13. Lost(C)'
    <2> SUFFICES ASSUME NEW k \in kept', k \in Lasting PROVE Present(C, k)'
      BY DEF Lost
    <2>1. Present(C, k)
      BY <1>1 DEF Lost, Quiet
    <2>2. k \in Keys
      BY PlaceIs DEF Quiet, Owned, Memory, TypeOK
    <2>3. Bucket[k] \in Buckets
      BY <2>2, TableAssumption
    <2> QED BY <1>2, <2>1, <2>3 DEF Present
  <1>14. Unexpired'
    BY <1>1 DEF Unexpired, Untouched
  <1> QED BY <1>5, <1>6, <1>7, <1>8, <1>11, <1>12, <1>13, <1>14 DEF Shape

\* Where c may go when it has no new node and has taken none out.
Stands(C, h, c, p, s, x) ==
    /\ p \notin {"test", "link", "back", "publish", "unhook", "free"}
    /\ p = "idle" => s = "check"
    /\ p = "walk" /\ x # NULL => x \in C[Slot(c)]
    /\ p \in Standing \ {"size", "dec"} => x \in C[Slot(c)]
    /\ p = "walk" /\ s \in {"set", "del"} =>
         \A i \in C[Slot(c)] : node[i].key = Key(c) => x # NULL /\ h[i] <= h[x]
    /\ p \in {"enter", "walk"} /\ s = "del" => Present(C, Key(c))
    /\ s = "del" => Key(c) \notin Lasting /\ Deleter(C, c)
    /\ p \in {"size", "dec"} => x \notin C[Slot(c)]

LEMMA ShapeGoes ==
    ASSUME Owned, NEW C, NEW h, Shape(C, h), NEW c \in Clients, Active(c), NEW y, Untouched(C, c, y),
           NEW p, NEW s, NEW x, NEW g, Goes(c, p, s, x, g), Stands(C, h, c, p, s, x),
           th[c].pc \notin {"unhook", "publish"},
           th[c].pc \in {"count", "inc"} <=> p \in {"count", "inc"},
           th[c].pc \in {"free", "size", "dec"} <=> p \in {"size", "dec"},
           p \in {"inc", "dec"} => th'[c].reg = size[Slot(c)],
           kept' = kept \/ (kept' = kept \union {Key(c)} /\ Present(C, Key(c)))
    PROVE  Shape(C, h)'
  <1>1. th'[c].pc = p /\ th'[c].stage = s /\ th'[c].cur = x
    BY DEF Goes
  <1>2. Quiet(C, c)
    BY <1>1 DEF Quiet, Stands
  <1>3. Slot(c)' = Slot(c) /\ Key(c)' = Key(c) /\ Cur(c)' = x
    BY <1>1 DEF Untouched, Slot, Key, Cur
  <1>4. Slot(c) \in Buckets /\ Slot(c) = Bucket[Key(c)]
    BY PlaceIs DEF Slot
  <1>5. \A i \in C[Slot(c)] : node'[i].key = node[i].key
    BY <1>4, ChainNodes DEF Shape, Untouched
  <1>6. Present(C, Key(c))' <=> Present(C, Key(c))
    BY <1>3, <1>4, <1>5 DEF Present
  <1>7. p = "walk" /\ s \in {"set", "del"} => Before(C, h, c)'
    BY <1>3, <1>5 DEF Stands, Before
  <1>8. Located(C, h, c)'
    BY <1>1, <1>3, <1>6, <1>7 DEF Located, Stands
  <1> QED BY <1>2, <1>8, ShapeStays

LEMMA UntouchedThere ==
    ASSUME Owned, NEW C, NEW h, Shape(C, h), NEW c \in Clients, Active(c), Steps(c),
           head' = head, size' = size, freed' = freed, node' = node
    PROVE  Untouched(C, c, NULL)
  <1>1. Cmd(c)' = Cmd(c) /\ Me(c)' = Me(c)
    BY DEF Steps, Cmd, Me
  <1>2. \A b \in Buckets : NULL \notin C[b]
    BY NullIs, ChainNodes DEF Shape
  <1>3. \A d \in Clients : th[d].pc \in Inserting => Cur(d) # NULL
    BY NullIs DEF Owned, Memory, Placed, Standing, Holding, Inserting, Alloc
  <1> QED BY <1>1, <1>2, <1>3 DEF Untouched, Steps, Alloc

LEMMA ShapePlace ==
    ASSUME Owned, NEW C, NEW h, Shape(C, h), NEW c \in Clients, Active(c)
    PROVE  /\ Slot(c) \in Buckets /\ Located(C, h, c) /\ Slot(c) = Bucket[Key(c)]
           /\ th[c].pc \in Standing \ {"test", "link", "back", "publish", "free", "size", "dec"} =>
                Cur(c) \in C[Slot(c)] /\ Cur(c) = th[c].cur /\ node[Cur(c)].key = Key(c) /\ Present(C, Key(c))
           /\ th[c].stage = "del" => Key(c) \notin Lasting /\ Deleter(C, c)
  <1>1. Slot(c) \in Buckets /\ Located(C, h, c) /\ Slot(c) = Bucket[Key(c)]
    BY PlaceIs DEF Shape, Slot
  <1>2. th[c].pc \in Standing \ {"test", "link", "back", "publish", "free", "size", "dec"} =>
                Cur(c) \in C[Slot(c)] /\ Cur(c) = th[c].cur /\ node[Cur(c)].key = Key(c)
    BY <1>1, PlaceIs DEF Located
  <1> QED BY <1>1, <1>2 DEF Present, Located, Deleter

\* A thread goes to another place at its node.
LEMMA ShapeThere ==
    ASSUME Owned, NEW C, NEW h, Shape(C, h), NEW c \in Clients, Active(c),
           head' = head, size' = size, freed' = freed, node' = node, kept' = kept,
           NEW p, NEW s, NEW x, NEW g, Goes(c, p, s, x, g),
           th[c].pc \notin {"unhook", "publish", "count", "inc", "free", "size", "dec"},
           p \notin {"count", "inc", "size", "dec"},
           Stands(C, h, c, p, s, x)
    PROVE  Shape(C, h)'
  <1>1. Untouched(C, c, NULL)
    BY UntouchedThere DEF Goes
  <1> QED BY <1>1, ShapeGoes

LEMMA EnterShape ==
    ASSUME Owned, NEW C, NEW h, Shape(C, h), NEW c \in Clients, Enter(c)
    PROVE  Shape(C, h)'
  <1>1. Active(c) /\ th[c].pc = "enter" /\ Slot(c) \in Buckets /\ TypeOK
    BY PlaceIs DEF Enter, Active
  <1> DEFINE x == head[Slot(c)]
             s == th[c].stage
  <1>2. IF x = NULL THEN C[Slot(c)] = {}
        ELSE x \in C[Slot(c)] /\ \A j \in C[Slot(c)] : h[j] <= h[x]
    BY <1>1 DEF Shape, Forward
  <1>3. Goes(c, "walk", s, x, th[c].got)
    BY <1>1, GotoCurIs DEF Enter, Places, TypeOK
  <1>4. Stands(C, h, c, "walk", s, x)
    <2>1. s = "del" => Present(C, Key(c)) /\ Key(c) \notin Lasting /\ Deleter(C, c)
      BY <1>1, ShapePlace DEF Located
    <2>2. \A i \in C[Slot(c)] : node[i].key = Key(c) => x # NULL /\ h[i] <= h[x]
      BY <1>2
    <2> QED BY <1>2, <2>1, <2>2 DEF Stands, Standing, Holding, Writing, Inserting, Removing
  <1> HIDE DEF x, s
  <1> QED BY <1>1, <1>3, <1>4, ShapeThere DEF Enter

LEMMA WalkShape ==
    ASSUME Owned, NEW C, NEW h, Shape(C, h), NEW c \in Clients, Walk(c)
    PROVE  Shape(C, h)'
  <1>1. Active(c) /\ th[c].pc = "walk" /\ Slot(c) \in Buckets /\ TypeOK /\ Cur(c) # NULL /\ Cur(c) = th[c].cur
    BY PlaceIs DEF Walk, Active
  <1> DEFINE s == th[c].stage
             i == Cur(c)
  <1>2. /\ i \in C[Slot(c)]
        /\ s = "del" => Present(C, Key(c)) /\ Key(c) \notin Lasting /\ Deleter(C, c)
        /\ s \in {"set", "del"} => Before(C, h, c)
    BY <1>1, ShapePlace DEF Located
  <1>3. CASE node[i].key # Key(c)
    <2> DEFINE x == node[i].next
    <2>1. /\ IF x = NULL THEN \A j \in C[Slot(c)] : h[i] <= h[j]
             ELSE x \in C[Slot(c)] /\ h[x] < h[i] /\ \A j \in C[Slot(c)] : h[j] < h[i] => h[j] <= h[x]
          /\ \A j \in C[Slot(c)] : h[j] \in Nat /\ (h[j] = h[i] => j = i)
      BY <1>1, <1>2 DEF Shape, Forward, Chains
    <2>2. th' = [th EXCEPT ![c].pc = "walk", ![c].cur = x]
      <3>1. th \in [Clients -> Thread] /\ th' = [th EXCEPT ![c].cur = x]
        BY <1>1, <1>3 DEF Walk, TypeOK, Cur
      <3>2. [th[c] EXCEPT !.cur = x] = [[th[c] EXCEPT !.pc = "walk"] EXCEPT !.cur = x]
        BY <1>1, <3>1 DEF Thread
      <3> QED BY <3>1, <3>2
    <2>3. x \in Ids \union {NULL}
      BY <1>1, <1>2, ChainNodes, NodeIs DEF Shape
    <2>4. Goes(c, "walk", s, x, th[c].got)
      BY <1>1, <2>2, <2>3, GotoCurIs DEF Places
    <2>5. s \in {"set", "del"} =>
             \A j \in C[Slot(c)] : node[j].key = Key(c) => x # NULL /\ h[j] <= h[x]
      BY <1>2, <1>3, <2>1 DEF Before
    <2>6. Stands(C, h, c, "walk", s, x)
      BY <1>2, <2>1, <2>5 DEF Stands, Standing, Holding, Writing, Inserting, Removing
    <2> HIDE DEF x, s, i
    <2> QED BY <1>1, <2>4, <2>6, ShapeThere DEF Walk
  <1>4. CASE node[i].key = Key(c)
    <2> DEFINE p == IF s # "check" THEN "lock" ELSE IF Cmd(c).op \in AsksExpiry THEN "fresh" ELSE "auth"
    <2>1. p \in {"lock", "fresh", "auth"} /\ Goto(c, p)
      BY <1>1, <1>4 DEF Walk
    <2> HIDE DEF p
    <2>2. Goes(c, p, s, i, th[c].got)
      BY <1>1, <2>1, GotoIs DEF Places
    <2>3. Stands(C, h, c, p, s, i)
      BY <1>2, <2>1 DEF Stands, Standing
    <2> HIDE DEF i, s
    <2> QED BY <1>1, <2>1, <2>2, <2>3, ShapeThere DEF Walk
  <1> QED BY <1>3, <1>4

LEMMA FreshShape ==
    ASSUME Owned, NEW C, NEW h, Shape(C, h), NEW c \in Clients, Fresh(c)
    PROVE  Shape(C, h)'
  <1>1. Active(c) /\ th[c].pc = "fresh" /\ Slot(c) \in Buckets /\ TypeOK /\ th[c].stage = "check"
    BY PlaceIs DEF Fresh, Active, Fits, Inserting, Removing
  <1>2. Cur(c) \in C[Slot(c)] /\ Cur(c) = th[c].cur /\ node[Cur(c)].key = Key(c) /\ Present(C, Key(c))
    BY <1>1, ShapePlace DEF Standing
  <1>3. CASE node[Cur(c)].expired
    <2>1. Goes(c, "enter", "del", Cur(c), th[c].got)
      BY <1>1, <1>2, <1>3, GotoStageIs DEF Places, Fresh
    <2>2. Key(c) \notin Lasting /\ Deleter(C, c)
      <3>1. Cur(c) \in Alloc
        BY <1>1, <1>2, ChainNodes DEF Shape
      <3> QED BY <1>2, <1>3, <3>1 DEF Deleter, Shape, Unexpired
    <2>3. Stands(C, h, c, "enter", "del", Cur(c))
      BY <1>2, <2>2 DEF Stands, Standing, Holding, Writing, Inserting, Removing
    <2> QED BY <1>1, <2>1, <2>3, ShapeThere DEF Fresh
  <1>4. CASE ~node[Cur(c)].expired
    <2> DEFINE p == IF Cmd(c).op = "lpush" THEN "take" ELSE "auth"
    <2>1. p \in {"take", "auth"} /\ Goto(c, p)
      BY <1>4 DEF Fresh
    <2> HIDE DEF p
    <2>2. Goes(c, p, "check", Cur(c), th[c].got)
      BY <1>1, <1>2, <2>1, GotoIs DEF Places
    <2>3. Stands(C, h, c, p, "check", Cur(c))
      BY <1>2, <2>1 DEF Stands
    <2> QED BY <1>1, <2>1, <2>2, <2>3, ShapeThere DEF Fresh
  <1> QED BY <1>3, <1>4

\* The last step of a command that has not changed links or counters.
LEMMA ShapeFinishes ==
    ASSUME Owned, NEW C, NEW h, Shape(C, h), NEW c \in Clients, Active(c), NEW ans \in Answers, Finish(c, ans),
           NEW y, Steps(c) => Untouched(C, c, y),
           th[c].pc \notin {"unhook", "publish", "count", "inc", "free", "size", "dec"},
           Cmd(c).op = "make" /\ ans.msg = "ok" => Present(C, Key(c))
    PROVE  Shape(C, h)'
  <1>1. Goes(c, "idle", "check", NULL, NULL)
        /\ kept' = IF Cmd(c).op = "make" /\ ans.msg = "ok" THEN kept \union {Key(c)} ELSE kept
    BY FinishIs, PlaceIs
  <1>2. Stands(C, h, c, "idle", "check", NULL)
    BY DEF Stands, Standing, Holding, Writing, Inserting, Removing
  <1>3. Untouched(C, c, y)
    BY <1>1 DEF Goes
  <1> QED BY <1>1, <1>2, <1>3, ShapeGoes

LEMMA TakenShape ==
    ASSUME Owned, NEW C, NEW h, Shape(C, h), NEW c \in Clients, TakeList(c) \/ Read(c) \/ Load(c)
    PROVE  Shape(C, h)'
  <1>1. Active(c) /\ th[c].pc \in {"take", "read", "load"} /\ TypeOK /\ th[c].stage = "check"
    BY PlaceIs DEF TakeList, Read, Load, Active, Fits, Inserting, Removing
  <1>2. Cur(c) \in C[Slot(c)] /\ Cur(c) = th[c].cur /\ Cur(c) \in Alloc
    BY <1>1, ShapePlace, PlaceIs DEF Standing, Holding, Writing
  <1>3. PICK p \in {"auth", "show", "push"} : \E g : Goes(c, p, "check", Cur(c), g)
    <2>1. CASE TakeList(c)
      <3> DEFINE g == node[Cur(c)].val
      <3>1. g \in Ids
        BY <1>1, <1>2, NodeIs
      <3>2. th' = [th EXCEPT ![c].pc = "auth", ![c].got = g]
        BY <2>1 DEF TakeList
      <3> HIDE DEF g
      <3>3. Goes(c, "auth", "check", Cur(c), g)
        BY <1>1, <1>2, <3>1, <3>2, GotoGotIs DEF Places
      <3> QED BY <3>3
    <2>2. CASE Read(c)
      <3> DEFINE g == node[Cur(c)].val
      <3>1. g \in Ids
        BY <1>1, <1>2, NodeIs
      <3>2. th' = [th EXCEPT ![c].pc = "show", ![c].got = g]
        BY <2>2 DEF Read
      <3> HIDE DEF g
      <3>3. Goes(c, "show", "check", Cur(c), g)
        BY <1>1, <1>2, <3>1, <3>2, GotoGotIs DEF Places
      <3> QED BY <3>3
    <2>3. CASE Load(c)
      <3>1. obj[th[c].got] \in SUBSET Ids
        BY <1>1, <2>3 DEF Taken, Owned, Values, Memory, TypeOK, Load
      <3>2. Goes(c, "push", "check", Cur(c), th[c].got)
        BY <1>1, <1>2, <2>3, <3>1, GotoSeenIs DEF Load, Places
      <3> QED BY <3>2
    <2> QED BY <2>1, <2>2, <2>3
  <1>4. PICK g : Goes(c, p, "check", Cur(c), g)
    BY <1>3
  <1>5. Stands(C, h, c, p, "check", Cur(c))
    BY <1>2 DEF Stands
  <1> QED BY <1>1, <1>4, <1>5, ShapeThere DEF TakeList, Read, Load

LEMMA CheckShape ==
    ASSUME Owned, NEW C, NEW h, Shape(C, h), NEW c \in Clients, Check(c)
    PROVE  Shape(C, h)'
  <1>1. Active(c) /\ th[c].pc = "auth" /\ TypeOK /\ th[c].stage = "check" /\ Slot(c) \in Buckets
    BY PlaceIs DEF Check, Active, Fits, Inserting, Removing
  <1>2. Cur(c) \in C[Slot(c)] /\ Cur(c) = th[c].cur /\ Cur(c) \in Alloc /\ Present(C, Key(c))
        /\ Cmd(c) \in Work[c] /\ Key(c) \in Keys
    BY <1>1, ShapePlace, PlaceIs DEF Standing, Owned, Memory, Placed, Active
  <1>3. head' = head /\ node' = node /\ size' = size /\ freed' = freed
    BY DEF Check
  <1>4. CASE Finish(c, Plain("perm"))
    BY <1>1, <1>3, <1>4, UntouchedThere, PlainIs, ShapeFinishes
  <1>5. ASSUME kept' = kept, NEW p \in {"read", "lock", "enter"}, NEW s \in {"check", "set", "del"},
               Goes(c, p, s, th[c].cur, th[c].got), s = "del" => Cmd(c).op = "del"
        PROVE  Shape(C, h)'
    <2>1. s = "del" => Key(c) \notin Lasting /\ Deleter(C, c)
      BY <1>2, <1>5 DEF Lasting, Deleter, Key
    <2>2. Stands(C, h, c, p, s, th[c].cur)
      BY <1>2, <2>1 DEF Stands
    <2> QED BY <1>1, <1>3, <1>5, <2>2, ShapeThere
  <1>6. CASE Goto(c, "read") /\ kept' = kept
    BY <1>1, <1>5, <1>6, GotoIs DEF Places
  <1>7. CASE Goto(c, "lock") /\ kept' = kept
    BY <1>1, <1>5, <1>7, GotoIs DEF Places
  <1>8. CASE /\ Cmd(c).op \in {"make", "del"} /\ kept' = kept
             /\ th' = [th EXCEPT ![c].pc = "enter", ![c].stage = IF Cmd(c).op = "make" THEN "set" ELSE "del"]
    <2>1. CASE Cmd(c).op = "make"
      <3>1. th' = [th EXCEPT ![c].pc = "enter", ![c].stage = "set"]
        BY <1>8, <2>1
      <3> QED BY <1>5, <1>8, <2>1, <3>1, GotoStageIs, <1>1 DEF Places
    <2>2. CASE Cmd(c).op = "del"
      <3>1. th' = [th EXCEPT ![c].pc = "enter", ![c].stage = "del"]
        BY <1>8, <2>2
      <3> QED BY <1>5, <1>8, <2>2, <3>1, GotoStageIs, <1>1 DEF Places
    <2> QED BY <1>8, <2>1, <2>2
  <1> QED BY <1>4, <1>6, <1>7, <1>8 DEF Check

LEMMA ShowShape ==
    ASSUME Owned, NEW C, NEW h, Shape(C, h), NEW c \in Clients, Show(c)
    PROVE  Shape(C, h)'
  <1> DEFINE ans == [msg |-> "data", val |-> th[c].got, elems |-> obj[th[c].got]]
  <1>1. Active(c) /\ th[c].pc = "show"
    BY DEF Show, Active
  <1>2. th[c].got \in Ids /\ obj \in [Ids -> SUBSET Ids]
    BY <1>1 DEF Taken, Owned, Values, Memory, TypeOK
  <1>3. ans \in Answers /\ ans.msg = "data"
    BY <1>2 DEF Answers
  <1>4. Finish(c, ans) /\ head' = head /\ node' = node /\ size' = size /\ freed' = freed
    BY DEF Show
  <1> HIDE DEF ans
  <1> QED BY <1>1, <1>3, <1>4, UntouchedThere, ShapeFinishes

LEMMA PushShape ==
    ASSUME Owned, NEW C, NEW h, Shape(C, h), NEW c \in Clients, Push(c)
    PROVE  Shape(C, h)'
  <1>1. Active(c) /\ th[c].pc = "push"
    BY DEF Push, Active
  <1>2. Present(C, Key(c))
    BY <1>1, ShapePlace DEF Standing, Holding, Writing
  <1>3. Finish(c, Plain("ok")) /\ head' = head /\ node' = node /\ size' = size /\ freed' = freed
    BY DEF Push
  <1> QED BY <1>1, <1>2, <1>3, UntouchedThere, PlainIs, ShapeFinishes

LEMMA LockShape ==
    ASSUME Owned, NEW C, NEW h, Shape(C, h), NEW c \in Clients, Lock(c)
    PROVE  Shape(C, h)'
  <1> DEFINE s == th[c].stage
             p == AfterLock(c)
  <1>1. Active(c) /\ th[c].pc = "lock" /\ TypeOK /\ Fits("lock", s, Cmd(c).op)
    BY PlaceIs DEF Lock, Active
  <1>2. Cur(c) \in C[Slot(c)] /\ Cur(c) = th[c].cur /\ (s = "del" => Key(c) \notin Lasting /\ Deleter(C, c))
    BY <1>1, ShapePlace DEF Standing
  <1>3. p \in {"setv", "unprev", "load", "setr", "setw", "expire"}
    <2>1. s \in {"check", "set", "del"}
      BY <1>1, PlaceIs
    <2> QED BY <2>1 DEF AfterLock
  <1>4. Goto(c, p)
    BY DEF Lock
  <1> HIDE DEF p
  <1>5. Goes(c, p, s, th[c].cur, th[c].got)
    BY <1>1, <1>3, <1>4, GotoIs DEF Places
  <1>6. Stands(C, h, c, p, s, th[c].cur)
    BY <1>2, <1>3 DEF Stands
  <1> HIDE DEF s
  <1> QED BY <1>1, <1>3, <1>5, <1>6, ShapeThere DEF Lock

LEMMA CountShape ==
    ASSUME Owned, NEW C, NEW h, Shape(C, h), NEW c \in Clients, Count(c)
    PROVE  Shape(C, h)'
  <1> DEFINE p == IF th[c].pc = "count" THEN "inc" ELSE "dec"
             r == size[Slot(c)]
             s == th[c].stage
  <1>1. Active(c) /\ th[c].pc \in {"count", "size"} /\ TypeOK /\ Slot(c) \in Buckets
    BY PlaceIs DEF Count, Active
  <1>2. th' = [th EXCEPT ![c].pc = p, ![c].reg = r] /\ r \in Int
    BY <1>1 DEF Count, TypeOK
  <1>3. p \in {"inc", "dec"} /\ (p = "inc" <=> th[c].pc = "count") /\ p \in Places
    BY DEF Places
  <1>4. s = "del" => Key(c) \notin Lasting /\ Deleter(C, c)
    BY <1>1, ShapePlace
  <1>5. /\ th[c].pc = "count" => Cur(c) \in C[Slot(c)]
        /\ th[c].pc = "size" => Cur(c) \notin C[Slot(c)]
        /\ Cur(c) = th[c].cur
    BY <1>1, ShapePlace, PlaceIs DEF Located, Standing, Holding, Inserting
  <1> HIDE DEF p, r, s
  <1>6. Goes(c, p, s, Cur(c), th[c].got) /\ th'[c].reg = r
    <2>1. Goes(c, p, th[c].stage, th[c].cur, th[c].got) /\ th'[c].reg = r
      BY <1>1, <1>2, <1>3, GotoRegIs
    <2> QED BY <1>5, <2>1 DEF s
  <1>7. Stands(C, h, c, p, s, Cur(c))
    BY <1>1, <1>3, <1>4, <1>5 DEF Stands, Standing, Holding
  <1>8. Untouched(C, c, NULL)
    BY <1>1, <1>6, UntouchedThere DEF Goes, Count
  <1> QED BY <1>1, <1>3, <1>6, <1>7, <1>8, ShapeGoes DEF Count, r

LEMMA UntouchedWritten ==
    ASSUME Owned, NEW C, NEW h, Shape(C, h), NEW c \in Clients, Steps(c),
           th[c].pc \in {"setv", "setr", "fixw", "setw", "fixr"},
           head' = head, size' = size, freed' = freed, NEW n \in Node, node' = [node EXCEPT ![Cur(c)] = n],
           n.key = node[Cur(c)].key, n.next = node[Cur(c)].next, n.prev = node[Cur(c)].prev,
           n.expired = node[Cur(c)].expired
    PROVE  Untouched(C, c, NULL)
  <1>1. Cmd(c)' = Cmd(c) /\ Me(c)' = Me(c)
    BY DEF Steps, Cmd, Me
  <1>2. \A b \in Buckets : NULL \notin C[b]
    BY NullIs, ChainNodes DEF Shape
  <1>3. \A d \in Clients : th[d].pc \in Inserting => Cur(d) # NULL
    BY NullIs DEF Owned, Memory, Placed, Standing, Holding, Inserting, Alloc
  <1>4. Cur(c) \in Alloc /\ Cur(c) \in Ids /\ n # NULL /\ node \in [Ids -> Node \union {NULL}]
    BY WriterIs, NullIs DEF Alloc, Owned, Memory, TypeOK
  <1>5. \A i \in Ids : node'[i] = IF i = Cur(c) THEN n ELSE node[i]
    BY <1>4
  <1>6. Alloc' = Alloc
    BY <1>4, <1>5 DEF Alloc
  <1>7. \A i \in Alloc : i \in Ids
    BY DEF Alloc
  <1> QED BY <1>1, <1>2, <1>3, <1>5, <1>6, <1>7 DEF Untouched, Steps

LEMMA WriterShape ==
    ASSUME Owned, NEW C, NEW h, Shape(C, h), NEW c \in Clients, NEW p \in {"setr", "fixw", "setw", "fixr"},
           th[c].pc \in {"setv", "setr", "fixw", "setw", "fixr"}, Goto(c, p), kept' = kept,
           head' = head, size' = size, freed' = freed, NEW n \in Node, node' = [node EXCEPT ![Cur(c)] = n],
           n.key = node[Cur(c)].key, n.next = node[Cur(c)].next, n.prev = node[Cur(c)].prev,
           n.expired = node[Cur(c)].expired
    PROVE  Shape(C, h)'
  <1>1. Active(c) /\ TypeOK /\ th[c].stage \in {"check", "set"}
    BY WriterIs, PlaceIs DEF Fits, Inserting, Removing
  <1>2. Cur(c) \in C[Slot(c)] /\ Cur(c) = th[c].cur
    BY <1>1, ShapePlace DEF Standing, Holding, Writing
  <1>3. Goes(c, p, th[c].stage, th[c].cur, th[c].got)
    BY <1>1, GotoIs DEF Places
  <1>4. Untouched(C, c, NULL)
    BY <1>3, UntouchedWritten DEF Goes
  <1>5. Stands(C, h, c, p, th[c].stage, th[c].cur)
    BY <1>1, <1>2 DEF Stands
  <1> QED BY <1>1, <1>3, <1>4, <1>5, ShapeGoes

LEMMA WrittenShape ==
    ASSUME Owned, NEW C, NEW h, Shape(C, h), NEW c \in Clients,
           th[c].pc \in {"setv", "setr", "fixw", "setw", "fixr"}, Finish(c, Plain("ok")),
           head' = head, size' = size, freed' = freed, NEW n \in Node, node' = [node EXCEPT ![Cur(c)] = n],
           n.key = node[Cur(c)].key, n.next = node[Cur(c)].next, n.prev = node[Cur(c)].prev,
           n.expired = node[Cur(c)].expired
    PROVE  Shape(C, h)'
  <1>1. Active(c) /\ TypeOK
    BY WriterIs, PlaceIs
  <1>2. Present(C, Key(c))
    BY <1>1, ShapePlace DEF Standing, Holding, Writing
  <1>3. Steps(c) => Untouched(C, c, NULL)
    BY UntouchedWritten
  <1> QED BY <1>1, <1>2, <1>3, PlainIs, ShapeFinishes

LEMMA WriteShape ==
    ASSUME Owned, NEW C, NEW h, Shape(C, h), NEW c \in Clients,
           SetV(c) \/ SetR(c) \/ FixW(c) \/ SetW(c) \/ FixR(c)
    PROVE  Shape(C, h)'
  <1>1. th[c].pc \in {"setv", "setr", "fixw", "setw", "fixr"}
    BY DEF SetV, SetR, FixW, SetW, FixR
  <1>2. node[Cur(c)] \in Node /\ Me(c) \in Ids /\ Cmd(c) \in Commands
    BY <1>1, WriterIs
  <1>3. CASE SetV(c)
    <2> DEFINE n == [node[Cur(c)] EXCEPT !.val = Me(c)]
    <2>1. /\ n \in Node /\ n.key = node[Cur(c)].key /\ n.next = node[Cur(c)].next
          /\ n.prev = node[Cur(c)].prev /\ n.expired = node[Cur(c)].expired
      BY <1>2 DEF Node
    <2>2. node' = [node EXCEPT ![Cur(c)] = n]
      BY <1>3 DEF SetV
    <2> HIDE DEF n
    <2> QED BY <1>1, <1>3, <2>1, <2>2, WriterShape DEF SetV
  <1>4. CASE SetR(c)
    <2> DEFINE n == [node[Cur(c)] EXCEPT !.authr = Cmd(c).r]
    <2>1. /\ n \in Node /\ n.key = node[Cur(c)].key /\ n.next = node[Cur(c)].next
          /\ n.prev = node[Cur(c)].prev /\ n.expired = node[Cur(c)].expired
      BY <1>2 DEF Node, Commands
    <2>2. node' = [node EXCEPT ![Cur(c)] = n]
      BY <1>4 DEF SetR
    <2> HIDE DEF n
    <2> QED BY <1>1, <1>4, <2>1, <2>2, WriterShape DEF SetR
  <1>5. CASE SetW(c)
    <2> DEFINE n == [node[Cur(c)] EXCEPT !.authw = Cmd(c).w]
    <2>1. /\ n \in Node /\ n.key = node[Cur(c)].key /\ n.next = node[Cur(c)].next
          /\ n.prev = node[Cur(c)].prev /\ n.expired = node[Cur(c)].expired
      BY <1>2 DEF Node, Commands
    <2>2. node' = [node EXCEPT ![Cur(c)] = n]
      BY <1>5 DEF SetW
    <2> HIDE DEF n
    <2> QED BY <1>1, <1>5, <2>1, <2>2, WriterShape DEF SetW
  <1>6. CASE FixW(c)
    <2> DEFINE n == Ordered(node[Cur(c)], "authw", node[Cur(c)].authr)
    <2>1. /\ n \in Node /\ n.key = node[Cur(c)].key /\ n.next = node[Cur(c)].next
          /\ n.prev = node[Cur(c)].prev /\ n.expired = node[Cur(c)].expired
      BY <1>2, OrderedIs
    <2>2. node' = [node EXCEPT ![Cur(c)] = n]
      BY <1>6 DEF FixW
    <2> HIDE DEF n
    <2>3. (Goto(c, "setw") /\ kept' = kept) \/ Finish(c, Plain("ok"))
      BY <1>6 DEF FixW
    <2> QED BY <1>1, <1>6, <2>1, <2>2, <2>3, WriterShape, WrittenShape DEF FixW
  <1>7. CASE FixR(c)
    <2> DEFINE n == Ordered(node[Cur(c)], "authr", node[Cur(c)].authw)
    <2>1. /\ n \in Node /\ n.key = node[Cur(c)].key /\ n.next = node[Cur(c)].next
          /\ n.prev = node[Cur(c)].prev /\ n.expired = node[Cur(c)].expired
      BY <1>2, OrderedIs
    <2>2. node' = [node EXCEPT ![Cur(c)] = n]
      BY <1>7 DEF FixR
    <2> HIDE DEF n
    <2> QED BY <1>1, <1>7, <2>1, <2>2, WrittenShape DEF FixR
  <1> QED BY <1>3, <1>4, <1>5, <1>6, <1>7

-----------------------------------------------------------------------------
(* An insertion                                                            *)

LEMMA NewNode ==
    ASSUME Owned, NEW C, NEW h, Shape(C, h), NEW c \in Clients, th[c].pc \in {"test", "link", "back", "publish"}
    PROVE  /\ Active(c) /\ Slot(c) \in Buckets /\ Slot(c) = Bucket[Key(c)] /\ Cur(c) = th[c].cur /\ Cur(c) = Me(c)
           /\ Cur(c) \in Alloc /\ Cur(c) \in Ids /\ node[Cur(c)].key = Key(c)
           /\ Cmd(c).op = "make" /\ th[c].stage = "set" /\ Located(C, h, c) /\ ~Present(C, Key(c))
           /\ \A b \in Buckets : Cur(c) \notin C[b]
           /\ \A d \in Clients : d # c /\ th[d].pc \in Inserting => Cur(d) # Cur(c)
  <1>1. Active(c) /\ th[c].pc \in Standing /\ th[c].pc \in Inserting
    BY DEF Active, Standing, Holding, Inserting
  <1>2. /\ Slot(c) \in Buckets /\ Slot(c) = Bucket[Key(c)] /\ Cur(c) = th[c].cur /\ Cur(c) = Me(c)
        /\ Cur(c) \in Alloc /\ node[Cur(c)].key = Key(c)
        /\ Cmd(c).op = "make" /\ th[c].stage = "set"
    BY <1>1, PlaceIs DEF Slot, Fits, Inserting, Removing
  <1>3. Located(C, h, c) /\ ~Present(C, Key(c))
    BY <1>1, ShapePlace DEF Located
  <1>4. \A b \in Buckets : Cur(c) \notin C[b]
    BY <1>2, <1>3, ChainNodes DEF Shape, Present
  <1>5. ASSUME NEW d \in Clients, d # c, th[d].pc \in Inserting PROVE Cur(d) # Cur(c)
    <2>1. Cur(d) = Me(d)
      BY <1>5, PlaceIs DEF Active, Inserting
    <2> QED BY <1>2, <1>5, <2>1 DEF Me
  <1> QED BY <1>1, <1>2, <1>3, <1>4, <1>5 DEF Alloc

LEMMA AllocatesShape ==
    ASSUME Owned, NEW C, NEW h, Shape(C, h), NEW c \in Clients, Allocates(c)
    PROVE  Shape(C, h)'
  <1> PICK i : i = Me(c)
    OBVIOUS
  <1>1. /\ Active(c) /\ i \in Ids /\ i \notin Alloc
        /\ Alloc' = Alloc \union {i}
        /\ \A j \in Ids : node'[j] = IF j = i THEN Fresher(c) ELSE node[j]
        /\ Goes(c, "test", "set", i, th[c].got)
    BY AllocatesIs
  <1>2. th[c].pc = "walk" /\ th[c].stage = "set" /\ Cur(c) = NULL
        /\ head' = head /\ size' = size /\ freed' = freed /\ kept' = kept
    BY DEF Allocates
  <1>3. /\ th'[c].pc = "test" /\ th'[c].stage = "set" /\ Cur(c)' = i /\ Cmd(c)' = Cmd(c) /\ Me(c)' = Me(c)
        /\ Key(c)' = Key(c) /\ Slot(c)' = Slot(c) /\ Steps(c)
    BY <1>1 DEF Goes, Steps, Cur, Cmd, Key, Slot, Me
  <1>4. Fresher(c).next = NULL /\ Fresher(c).prev = NULL /\ ~Fresher(c).expired
    BY DEF Fresher
  <1>5. Untouched(C, c, NULL)
    <2>1. \A b \in Buckets : NULL \notin C[b]
      BY NullIs, ChainNodes DEF Shape
    <2>2. \A d \in Clients : th[d].pc \in Inserting => Cur(d) # NULL
      BY NullIs DEF Owned, Memory, Placed, Standing, Holding, Inserting, Alloc
    <2>3. \A j \in Alloc : node'[j] = node[j]
      BY <1>1 DEF Alloc
    <2>4. \A j \in Alloc' : j \notin Alloc => ~node'[j].expired
      BY <1>1, <1>4
    <2> QED BY <1>1, <1>2, <1>3, <2>1, <2>2, <2>3, <2>4 DEF Untouched, Steps
  <1>6. Slot(c) \in Buckets /\ Slot(c) = Bucket[Key(c)] /\ Located(C, h, c)
    BY <1>1, ShapePlace
  <1>7. ~Present(C, Key(c))'
    <2>1. ~Present(C, Key(c))
      BY <1>2, <1>6 DEF Located, Before, Present
    <2>2. \A j \in C[Slot(c)] : node'[j].key = node[j].key
      BY <1>5, <1>6, ChainNodes DEF Untouched, Shape
    <2> QED BY <1>3, <1>6, <2>1, <2>2 DEF Present
  <1>8. i \notin freed'
    BY <1>1, <1>2 DEF Shape, Chains
  <1>9. node'[i].next = NULL /\ node'[i].prev = NULL /\ ~node'[i].expired
    BY <1>1, <1>4
  <1>10. Located(C, h, c)'
    BY <1>3, <1>7, <1>8, <1>9 DEF Located
  <1>11. Quiet(C, c)
    BY <1>2, <1>3 DEF Quiet
  <1> QED BY <1>1, <1>5, <1>10, <1>11, ShapeStays

LEMMA WalkEndShape ==
    ASSUME Owned, NEW C, NEW h, Shape(C, h), NEW c \in Clients, WalkEnd(c), ~Strays(c)
    PROVE  Shape(C, h)'
  <1>1. th[c].pc = "walk" /\ Active(c) /\ Cur(c) = NULL /\ TypeOK
    BY DEF WalkEnd, Active, Owned, Memory
  <1>2. CASE /\ th[c].stage = "check" /\ Cmd(c).op = "make"
             /\ th' = [th EXCEPT ![c].pc = "enter", ![c].stage = "set"]
             /\ UNCHANGED <<head, size, node, lock, freed, obj, kept>>
    <2>1. Goes(c, "enter", "set", th[c].cur, th[c].got)
      BY <1>1, <1>2, GotoStageIs DEF Places
    <2>2. Stands(C, h, c, "enter", "set", th[c].cur)
      BY DEF Stands, Standing, Holding, Writing, Inserting, Removing
    <2> QED BY <1>1, <1>2, <2>1, <2>2, ShapeThere
  <1>3. CASE /\ th[c].stage = "check" /\ Cmd(c).op # "make" /\ Finish(c, Plain("nokey"))
             /\ UNCHANGED <<head, size, node, lock, freed, obj>>
    BY <1>1, <1>3, UntouchedThere, PlainIs, ShapeFinishes
  <1>4. CASE Allocates(c)
    BY <1>4, AllocatesShape
  <1> QED BY <1>2, <1>3, <1>4, WalkEndIs

LEMMA TestShape ==
    ASSUME Owned, NEW C, NEW h, Shape(C, h), NEW c \in Clients, Test(c)
    PROVE  Shape(C, h)'
  <1> DEFINE p == IF head[Slot(c)] = NULL THEN "publish" ELSE "link"
  <1>1. th[c].pc = "test" /\ Goto(c, p) /\ p \in {"publish", "link"} /\ (p = "publish" <=> head[Slot(c)] = NULL)
        /\ head' = head /\ size' = size /\ freed' = freed /\ node' = node /\ kept' = kept
    BY DEF Test
  <1> HIDE DEF p
  <1>2. Active(c) /\ Located(C, h, c) /\ Cmd(c).op = "make" /\ th[c].stage = "set"
    BY <1>1, NewNode
  <1>3. Goes(c, p, "set", th[c].cur, th[c].got)
    BY <1>1, <1>2, GotoIs DEF Places, Owned, Memory
  <1>4. /\ th'[c].pc = p /\ th'[c].stage = "set" /\ Cur(c)' = Cur(c) /\ Key(c)' = Key(c) /\ Slot(c)' = Slot(c)
        /\ Steps(c)
    BY <1>3 DEF Goes, Steps, Cur, Cmd, Key, Slot
  <1>5. Untouched(C, c, NULL)
    BY <1>1, <1>2, <1>4, UntouchedThere
  <1>6. Quiet(C, c)
    BY <1>1, <1>4 DEF Quiet
  <1>7. Present(C, Key(c))' <=> Present(C, Key(c))
    BY <1>1, <1>4 DEF Present
  <1>8. Located(C, h, c)'
    BY <1>1, <1>2, <1>4, <1>7 DEF Located, Standing, Holding, Writing, Inserting, Removing
  <1> QED BY <1>2, <1>5, <1>6, <1>8, ShapeStays

LEMMA LinkShape ==
    ASSUME Owned, NEW C, NEW h, Shape(C, h), NEW c \in Clients, Link(c)
    PROVE  Shape(C, h)'
  <1>1. th[c].pc = "link" /\ Goto(c, "back") /\ head' = head /\ size' = size /\ freed' = freed /\ kept' = kept
        /\ node' = [node EXCEPT ![Cur(c)].next = head[Slot(c)]]
    BY DEF Link
  <1>2. /\ Active(c) /\ Slot(c) \in Buckets /\ Cur(c) \in Alloc /\ Cur(c) \in Ids /\ Located(C, h, c)
        /\ th[c].stage = "set" /\ Cur(c) = th[c].cur
        /\ \A b \in Buckets : Cur(c) \notin C[b]
        /\ \A d \in Clients : d # c /\ th[d].pc \in Inserting => Cur(d) # Cur(c)
    BY <1>1, NewNode
  <1>3. Goes(c, "back", "set", th[c].cur, th[c].got)
    BY <1>1, <1>2, GotoIs DEF Places, Owned, Memory
  <1>4. /\ th'[c].pc = "back" /\ th'[c].stage = "set" /\ Cur(c)' = Cur(c) /\ Key(c)' = Key(c)
        /\ Slot(c)' = Slot(c) /\ Steps(c) /\ Cmd(c)' = Cmd(c) /\ Me(c)' = Me(c)
    BY <1>3 DEF Goes, Steps, Cur, Cmd, Key, Slot, Me
  <1> PICK x : x = Cur(c)
    OBVIOUS
  <1>5. /\ node[x] \in Node /\ node \in [Ids -> Node \union {NULL}] /\ node[x] # NULL
    BY <1>2, NodeIs DEF Owned, Memory, Alloc
  <1>6. /\ \A j \in Ids : j # x => node'[j] = node[j]
        /\ node'[x] = [node[x] EXCEPT !.next = head[Slot(c)]]
    BY <1>1, <1>2, <1>5
  <1>7. /\ node'[x].next = head[Slot(c)] /\ node'[x].prev = node[x].prev /\ node'[x].key = node[x].key
        /\ node'[x].expired = node[x].expired
    BY <1>5, <1>6 DEF Node
  <1>8. Alloc' = Alloc
    <2>1. Relinks
      BY <1>1, <1>2, HeadIs, NextRelinked DEF Owned
    <2> QED BY <2>1 DEF Relinks
  <1>9. \A j \in Alloc : j \in Ids
    BY DEF Alloc
  <1>10. Untouched(C, c, x)
    BY <1>1, <1>2, <1>4, <1>6, <1>7, <1>8, <1>9 DEF Untouched, Steps
  <1>11. Quiet(C, c)
    BY <1>1, <1>4 DEF Quiet
  <1>12. \A j \in C[Slot(c)] : node'[j].key = node[j].key
    BY <1>2, <1>10, ChainNodes DEF Shape, Untouched
  <1>13. Slot(c) = Bucket[Key(c)]
    BY DEF Slot
  <1>14. ~Present(C, Key(c))'
    BY <1>1, <1>2, <1>4, <1>12, <1>13 DEF Present, Located
  <1>15. Located(C, h, c)'
    BY <1>1, <1>2, <1>4, <1>7, <1>14 DEF Located, Standing, Holding, Writing, Inserting, Removing
  <1> QED BY <1>2, <1>10, <1>11, <1>15, ShapeStays

\* While a command inserts, nobody deletes, and nobody else inserts into the same chain.
LEMMA SoleInserter ==
    ASSUME Owned, NEW C, NEW h, Shape(C, h), NEW c \in Clients, Active(c), Inserter(C, c),
           NEW d \in Clients, d # c, Active(d)
    PROVE  /\ ~Deleter(C, d) /\ th[d].stage # "del" /\ th[d].pc \notin Removing /\ ~Deleter(C, c)
           /\ Slot(d) = Slot(c) => ~Inserter(C, d) /\ th[d].pc \notin Inserting
  <1>1. ~Deleter(C, d) /\ ~Deleter(C, c) /\ (Slot(d) = Slot(c) => ~Inserter(C, d))
    BY DEF Shape, Apart
  <1>2. th[d].stage # "del" /\ th[d].pc \notin Removing
    BY <1>1, PlaceIs DEF Deleter, Fits, Removing, Inserting, Writing
  <1>3. th[d].pc \in Inserting => Inserter(C, d)
    BY NewNode DEF Inserter, Inserting
  <1> QED BY <1>1, <1>2, <1>3

\* D and g are C and h with what c inserts into its chain.
Grown(C, h, D, g, c) ==
    /\ freed' = freed
    /\ \A e \in Buckets : e # Slot(c) => head'[e] = head[e] /\ D[e] = C[e]
    /\ C[Slot(c)] \subseteq D[Slot(c)]
    /\ \A j \in D[Slot(c)] : j \notin C[Slot(c)] => node'[j].key = Key(c)
    /\ \A e \in Buckets : \A j \in C[e] : g[j] = h[j] /\ node'[j].key = node[j].key
                                           /\ (e # Slot(c) => node'[j].prev = node[j].prev)

LEMMA OthersInserted ==
    ASSUME Owned, NEW C, NEW h, Shape(C, h), NEW c \in Clients, th[c].pc \in {"back", "publish"},
           NEW D, NEW g, Grown(C, h, D, g, c), NEW d \in Clients, d # c, th'[d] = th[d],
           th[d].pc \in {"test", "link", "back", "publish"} => node'[Cur(d)] = node[Cur(d)]
    PROVE  Located(D, g, d)'
  <1> PICK b : b = Slot(c)
    OBVIOUS
  <1> PICK k : k = Key(c)
    OBVIOUS
  <1>0. /\ freed' = freed
        /\ \A e \in Buckets : e # b => head'[e] = head[e] /\ D[e] = C[e]
        /\ C[b] \subseteq D[b] /\ \A j \in D[b] : j \notin C[b] => node'[j].key = k
        /\ \A e \in Buckets : \A j \in C[e] : g[j] = h[j] /\ node'[j].key = node[j].key
                                              /\ (e # b => node'[j].prev = node[j].prev)
    BY DEF Grown
  <1>1. Active(c) /\ Inserter(C, c) /\ ~Present(C, k) /\ Bucket[k] = b /\ b \in Buckets
    BY NewNode DEF Inserter
  <1>2. Cmd(d)' = Cmd(d) /\ Cur(d)' = Cur(d) /\ Slot(d)' = Slot(d) /\ Key(d)' = Key(d)
    BY DEF Cmd, Cur, Slot, Key
  <1>3. CASE th[d].pc = "idle"
    <2>1. th[d].stage = "check"
      BY <1>3 DEF Owned, Memory, Placed
    <2> QED BY <1>2, <1>3, <2>1 DEF Located, Standing, Holding, Writing, Inserting, Removing
  <1>4. CASE th[d].pc # "idle"
    <2>1. /\ Active(d) /\ Slot(d) \in Buckets /\ Slot(d) = Bucket[Key(d)] /\ Located(C, h, d)
          /\ th[d].stage # "del" /\ th[d].pc \notin Removing
          /\ Slot(d) = b => ~Inserter(C, d) /\ th[d].pc \notin Inserting
      BY <1>1, <1>4, SoleInserter, ShapePlace DEF Active
    <2>2. C[Slot(d)] \subseteq D[Slot(d)]
      BY <1>0, <2>1
    <2>3. CASE th[d].pc \in {"test", "link", "back", "publish"}
      <3>1. Slot(d) # b
        BY <2>1, <2>3 DEF Inserting
      <3>2. Present(D, Key(d))' <=> Present(C, Key(d))
        BY <1>0, <1>2, <2>1, <3>1 DEF Present
      <3>3. head[Slot(d)] # NULL => head[Slot(d)] \in C[Slot(d)]
        BY <2>1 DEF Shape, Forward
      <3>4. head'[Slot(d)] = head[Slot(d)]
            /\ (head[Slot(d)] # NULL => node'[head[Slot(d)]].prev = node[head[Slot(d)]].prev)
        BY <1>0, <2>1, <3>1, <3>3
      <3> QED BY <1>0, <1>2, <2>1, <2>3, <3>2, <3>4 DEF Located, Standing, Holding, Writing, Inserting, Removing
    <2>4. CASE th[d].pc \notin {"test", "link", "back", "publish"}
      <3>1. th[d].pc = "walk" /\ th[d].stage = "set" => Before(D, g, d)'
        <4> SUFFICES ASSUME th[d].pc = "walk", th[d].stage = "set",
                            NEW i \in D[Slot(d)], node'[i].key = Key(d)
                     PROVE  Cur(d) # NULL /\ g[i] <= g[Cur(d)]
          BY <1>2 DEF Before
        <4>1. Before(C, h, d) /\ Cmd(d).op = "make"
          BY <2>1, PlaceIs DEF Located, Fits, Removing
        <4>2. i \in C[Slot(d)]
          <5>1. CASE Slot(d) # b
            BY <1>0, <2>1, <5>1
          <5>2. CASE Slot(d) = b
            <6>1. Present(C, Key(d))
              BY <2>1, <4>1, <5>2 DEF Inserter
            <6>2. Key(d) # k
              BY <1>1, <6>1
            <6> QED BY <1>0, <5>2, <6>2
          <5> QED BY <5>1, <5>2
        <4>3. node[i].key = Key(d) /\ g[i] = h[i]
          BY <1>0, <2>1, <4>2
        <4>4. Cur(d) # NULL /\ h[i] <= h[Cur(d)]
          BY <4>1, <4>2, <4>3 DEF Before
        <4>5. Cur(d) \in C[Slot(d)]
          BY <2>1, <4>4 DEF Located
        <4> QED BY <1>0, <2>1, <4>3, <4>4, <4>5
      <3> QED BY <1>2, <2>1, <2>2, <2>4, <3>1 DEF Located, Removing
    <2> QED BY <2>3, <2>4
  <1> QED BY <1>3, <1>4

LEMMA BackShape ==
    ASSUME Owned, NEW C, NEW h, Shape(C, h), NEW c \in Clients, Back(c)
    PROVE  Shape(C, h)'
  <1>1. th[c].pc = "back" /\ Goto(c, "publish") /\ head' = head /\ size' = size /\ freed' = freed /\ kept' = kept
        /\ node' = [node EXCEPT ![head[Slot(c)]].prev = Cur(c)]
    BY DEF Back
  <1>2. /\ Active(c) /\ Slot(c) \in Buckets /\ Cur(c) \in Alloc /\ Cur(c) \in Ids /\ Located(C, h, c)
        /\ th[c].stage = "set" /\ Cur(c) = th[c].cur /\ Cmd(c).op = "make" /\ Slot(c) = Bucket[Key(c)]
        /\ \A b \in Buckets : Cur(c) \notin C[b]
        /\ \A d \in Clients : d # c /\ th[d].pc \in Inserting => Cur(d) # Cur(c)
        /\ ~Present(C, Key(c)) /\ Inserter(C, c)
    BY <1>1, NewNode DEF Inserter
  <1> PICK b \in Buckets : b = Slot(c)
    BY <1>2
  <1> PICK i \in Ids : i = Cur(c)
    BY <1>2
  <1> PICK k : k = Key(c)
    OBVIOUS
  <1> PICK x : x = head[b]
    OBVIOUS
  <1>3. Chains(C, h) /\ Forward(C, h) /\ Backward(C) /\ Counted(C) /\ Apart(C) /\ Lost(C) /\ Unexpired
    BY DEF Shape
  <1>4. x # NULL /\ x \in C[b] /\ x \in Ids /\ x \in Alloc /\ \A j \in C[b] : h[j] <= h[x]
    BY <1>1, <1>2, <1>3, ChainNodes DEF Located, Forward
  <1>5. Goes(c, "publish", "set", th[c].cur, th[c].got)
    BY <1>1, <1>2, GotoIs DEF Places, Owned, Memory
  <1>6. /\ th'[c].pc = "publish" /\ th'[c].stage = "set" /\ Cur(c)' = i /\ Key(c)' = k
        /\ Slot(c)' = b /\ Steps(c) /\ Cmd(c)' = Cmd(c) /\ Me(c)' = Me(c)
    BY <1>2, <1>5 DEF Goes, Steps, Cur, Cmd, Key, Slot, Me
  <1>7. \A d \in Clients : d # c => th'[d] = th[d]
    BY <1>6 DEF Steps
  <1>8. /\ node[x] \in Node /\ node \in [Ids -> Node \union {NULL}]
    BY <1>4, NodeIs DEF Owned, Memory
  <1>9. /\ \A j \in Ids : j # x => node'[j] = node[j]
        /\ node'[x] = [node[x] EXCEPT !.prev = i]
    BY <1>1, <1>4, <1>8
  <1>10. /\ node'[x].next = node[x].next /\ node'[x].prev = i /\ node'[x].key = node[x].key
         /\ node'[x].expired = node[x].expired
    BY <1>8, <1>9 DEF Node
  <1>11. Alloc' = Alloc
    <2>1. Relinks
      BY <1>1, <1>2, <1>4, PrevRelinked DEF Owned
    <2> QED BY <2>1 DEF Relinks
  <1>12. \A j \in Alloc : /\ j \in Ids /\ node'[j].next = node[j].next /\ node'[j].key = node[j].key
                          /\ node'[j].expired = node[j].expired
    BY <1>9, <1>10 DEF Alloc
  <1>13. \A e \in Buckets : \A j \in C[e] : j \in Ids /\ j \in Alloc /\ (j = x => e = b) /\ h[j] \in Nat
    BY <1>3, <1>4, ChainNodes
  <1>14. Chains(C, h)'
    BY <1>1, <1>3, <1>11, <1>12, <1>13 DEF Chains, Alloc
  <1>15. Forward(C, h)'
    BY <1>1, <1>3, <1>12, <1>13 DEF Forward
  <1>16. Backward(C)'
    <2>1. \A j : Unhooking(j)' <=> Unhooking(j)
      BY <1>1, <1>6, <1>7 DEF Unhooking, Cur
    <2>2. \A e, j : Publishing(e, j) => Publishing(e, j)'
      BY <1>1, <1>7 DEF Publishing, Cur, Slot, Key, Cmd
    <2>3. Publishing(b, i)'
      BY <1>6 DEF Publishing
    <2>4. ASSUME NEW e \in Buckets, NEW j \in C[e], node'[j].next # NULL
          PROVE  node'[node'[j].next].prev = IF Unhooking(j)' THEN node'[j].prev ELSE j
      <3>1. node'[j].next = node[j].next /\ node[j].next \in C[e] /\ h[node[j].next] < h[j]
        BY <1>3, <1>12, <1>13, <2>4 DEF Forward
      <3>2. node[j].next # x
        BY <1>4, <1>13, <3>1
      <3>3. node'[node[j].next].prev = node[node[j].next].prev
        BY <1>9, <1>13, <3>1, <3>2
      <3>4. ~Unhooking(j)
        <4> SUFFICES ASSUME NEW d \in Clients, th[d].pc = "unhook" PROVE FALSE
          BY DEF Unhooking
        <4> QED BY <1>1, <1>2, SoleInserter DEF Active, Removing
      <3> QED BY <1>3, <2>1, <2>4, <3>1, <3>3, <3>4 DEF Backward
    <2>5. ASSUME NEW e \in Buckets, head'[e] # NULL
          PROVE  (node[head[e]].prev = NULL \/ Publishing(e, node[head[e]].prev))'
      <3>1. CASE e = b
        BY <1>1, <1>10, <2>3, <3>1
      <3>2. CASE e # b
        <4>1. PICK q : q = node[head[e]].prev
          OBVIOUS
        <4>2. head[e] # x /\ head[e] \in Ids
          BY <1>1, <1>3, <1>13, <2>5, <3>2 DEF Forward
        <4>3. node'[head'[e]].prev = q
          BY <1>1, <1>9, <4>1, <4>2
        <4>4. q = NULL \/ Publishing(e, q)
          BY <1>1, <1>3, <2>5, <4>1 DEF Backward
        <4>5. q = NULL \/ Publishing(e, q)'
          BY <2>2, <4>4
        <4> QED BY <4>3, <4>5 DEF Publishing
      <3> QED BY <3>1, <3>2
    <2> QED BY <2>4, <2>5 DEF Backward
  <1>17. Counted(C)'
    <2>1. \A e : (Rising(e)' <=> Rising(e)) /\ (Falling(e)' <=> Falling(e))
      BY <1>1, <1>6, <1>7 DEF Rising, Falling, Slot, Key, Cmd
    <2>2. ASSUME NEW d \in Clients, th'[d].pc \in {"inc", "dec"}
          PROVE  th'[d].reg = size'[Slot(d)']
      BY <1>1, <1>3, <1>6, <1>7, <2>2 DEF Counted, Slot, Key, Cmd
    <2> QED BY <1>1, <1>3, <2>1, <2>2 DEF Counted
  <1>18. \A d \in Clients : Active(d)' => /\ Active(d) /\ Cmd(d)' = Cmd(d) /\ Key(d)' = Key(d)
                                          /\ Slot(d)' = Slot(d) /\ Slot(d) \in Buckets
    <2> SUFFICES ASSUME NEW d \in Clients, Active(d)'
                 PROVE  /\ Active(d) /\ Cmd(d)' = Cmd(d) /\ Key(d)' = Key(d)
                        /\ Slot(d)' = Slot(d)
      BY PlaceIs
    <2> QED BY <1>2, <1>6, <1>7 DEF Active, Cmd, Key, Slot
  <1>19. ASSUME NEW d \in Clients, Active(d)'
         PROVE  (Deleter(C, d)' => Deleter(C, d)) /\ (Inserter(C, d)' => Inserter(C, d))
    <2>1. th'[d].stage = th[d].stage /\ (th'[d].pc \in {"count", "inc"} => th[d].pc \in {"count", "inc"})
      BY <1>2, <1>6, <1>7
    <2>2. \A j \in C[Slot(d)] : node'[j].key = node[j].key /\ node'[j].expired = node[j].expired
      BY <1>12, <1>13, <1>18, <1>19
    <2>3. Present(C, Key(d)) <=> Present(C, Key(d))'
      BY <1>18, <1>19, <2>2 DEF Present, Slot
    <2> QED BY <1>18, <1>19, <2>1, <2>2, <2>3 DEF Deleter, Inserter
  <1>20. Apart(C)'
    BY <1>3, <1>18, <1>19 DEF Apart
  <1>21. ASSUME NEW d \in Clients PROVE Located(C, h, d)'
    <2>1. CASE d = c
      <3>1. \A j \in C[b] : node'[j].key = node[j].key
        BY <1>12, <1>13
      <3>2. ~Present(C, k)'
        BY <1>2, <3>1 DEF Present
      <3>3. /\ i # x /\ i \in Ids /\ node'[i] = node[i]
        BY <1>2, <1>4, <1>9
      <3>4. /\ i \notin freed /\ node[i].prev = NULL /\ ~node[i].expired /\ node[i].next = x
        BY <1>1, <1>2 DEF Located
      <3> QED BY <1>1, <1>6, <1>10, <2>1, <3>2, <3>3, <3>4
              DEF Located, Standing, Holding, Writing, Inserting, Removing
    <2>2. CASE d # c
      <3>1. th[d].pc \in {"test", "link", "back", "publish"} => node'[Cur(d)] = node[Cur(d)]
        BY <1>4, <1>9, NewNode
      <3>2. \A e \in Buckets : \A j \in C[e] : node'[j].key = node[j].key /\ (e # b => node'[j].prev = node[j].prev)
        BY <1>9, <1>12, <1>13
      <3>3. Grown(C, h, C, h, c)
        BY <1>1, <3>2 DEF Grown
      <3> QED BY <1>1, <1>7, <2>2, <3>1, <3>3, OthersInserted
    <2> QED BY <2>1, <2>2
  <1>22. Lost(C)'
    <2> SUFFICES ASSUME NEW l \in kept, l \in Lasting PROVE Present(C, l)'
      BY <1>1 DEF Lost
    <2>1. Present(C, l) /\ Bucket[l] \in Buckets
      BY <1>3, TableAssumption DEF Lost, Owned, Memory, TypeOK
    <2> QED BY <1>12, <1>13, <2>1 DEF Present
  <1>23. Unexpired'
    BY <1>3, <1>11, <1>12 DEF Unexpired
  <1> QED BY <1>14, <1>15, <1>16, <1>17, <1>20, <1>21, <1>22, <1>23 DEF Shape

LEMMA IdsFinite == IsFiniteSet(Ids)
  <1>1. IsFiniteSet(1..MaxCommands)
    <2>1. 1 \in Int /\ MaxCommands \in Int
      BY ClientAssumption
    <2> QED BY <2>1, FS_Interval
  <1>0. IsFiniteSet({0})
    BY FS_Singleton
  <1>2. InitKeys \subseteq Keys
    BY TableAssumption DEF InitKeys
  <1>3. IsFiniteSet(InitKeys)
    BY <1>2, FS_Subset, TableAssumption
  <1>4. IsFiniteSet(Clients \X (1..MaxCommands)) /\ IsFiniteSet(InitKeys \X {0})
    BY <1>0, <1>1, <1>3, FS_Product, ClientAssumption
  <1> QED BY <1>4, FS_Union DEF Ids

LEMMA ChainsFinite ==
    ASSUME NEW C, NEW h, Chains(C, h), NEW b \in Buckets
    PROVE  IsFiniteSet(C[b]) /\ Cardinality(C[b]) \in Nat
  <1>1. C[b] \subseteq Ids
    BY DEF Chains
  <1> QED BY <1>1, IdsFinite, FS_Subset, FS_CardinalityType

LEMMA PublishShape ==
    ASSUME Owned, NEW C, NEW h, Shape(C, h), NEW c \in Clients, Publish(c)
    PROVE  \E D, g : Shape(D, g)'
  <1>1. th[c].pc = "publish" /\ Goto(c, "count") /\ size' = size /\ freed' = freed /\ kept' = kept /\ node' = node
        /\ head' = [head EXCEPT ![Slot(c)] = Cur(c)]
    BY DEF Publish
  <1>2. /\ Active(c) /\ Slot(c) \in Buckets /\ Cur(c) \in Alloc /\ Cur(c) \in Ids /\ Located(C, h, c)
        /\ th[c].stage = "set" /\ Cur(c) = th[c].cur /\ Cmd(c).op = "make" /\ Slot(c) = Bucket[Key(c)]
        /\ node[Cur(c)].key = Key(c)
        /\ \A b \in Buckets : Cur(c) \notin C[b]
        /\ ~Present(C, Key(c)) /\ Inserter(C, c)
    BY <1>1, NewNode DEF Inserter
  <1> PICK b \in Buckets : b = Slot(c)
    BY <1>2
  <1> PICK i \in Ids : i = Cur(c)
    BY <1>2
  <1> PICK k : k = Key(c)
    OBVIOUS
  <1> PICK x : x = head[b]
    OBVIOUS
  <1>3. Chains(C, h) /\ Forward(C, h) /\ Backward(C) /\ Counted(C) /\ Apart(C) /\ Lost(C) /\ Unexpired
    BY DEF Shape
  <1>4. /\ node[i].next = x /\ node[i].prev = NULL /\ ~node[i].expired /\ i \notin freed
        /\ x # NULL => node[x].prev = i
    BY <1>1, <1>2 DEF Located
  <1>5. IF x = NULL THEN C[b] = {} ELSE x \in C[b] /\ h[x] \in Nat /\ \A j \in C[b] : h[j] <= h[x]
    BY <1>3, ChainNodes DEF Forward
  <1>6. Goes(c, "count", "set", th[c].cur, th[c].got)
    BY <1>1, <1>2, GotoIs DEF Places, Owned, Memory
  <1>7. /\ th'[c].pc = "count" /\ th'[c].stage = "set" /\ Cur(c)' = i /\ Key(c)' = k
        /\ Slot(c)' = b /\ Steps(c) /\ Cmd(c)' = Cmd(c)
    BY <1>2, <1>6 DEF Goes, Steps, Cur, Cmd, Key, Slot
  <1>8. \A d \in Clients : d # c => th'[d] = th[d]
    BY <1>7 DEF Steps
  <1>9. head'[b] = i /\ \A e \in Buckets : e # b => head'[e] = head[e]
    BY <1>1 DEF Owned, Memory, TypeOK
  <1>10. i # NULL /\ node[i] # NULL /\ Bucket[k] = b /\ node[i].key = k
    BY <1>2, NullIs DEF Alloc
  <1> PICK t \in Nat : t = IF x = NULL THEN 0 ELSE h[x] + 1
    BY <1>5
  <1> PICK D : D = [C EXCEPT ![b] = C[b] \union {i}]
    OBVIOUS
  <1> PICK g : g = [h EXCEPT ![i] = t]
    OBVIOUS
  <1>11. /\ C \in [Buckets -> SUBSET Ids] /\ h \in [Ids -> Nat]
         /\ D \in [Buckets -> SUBSET Ids] /\ D[b] = C[b] \union {i} /\ \A e \in Buckets : e # b => D[e] = C[e]
    BY <1>3 DEF Chains
  <1>12. /\ g \in [Ids -> Nat] /\ g[i] = t
         /\ \A e \in Buckets : \A j \in C[e] : j # i /\ j \in Ids /\ h[j] \in Nat /\ g[j] = h[j]
    <2>1. \A e \in Buckets : \A j \in C[e] : j # i /\ j \in Ids /\ h[j] \in Nat
      BY <1>2, <1>3, ChainNodes
    <2>2. g \in [Ids -> Nat] /\ g[i] = t /\ \A j \in Ids : j # i => g[j] = h[j]
      BY <1>11
    <2> QED BY <2>1, <2>2
  <1>13. \A j \in C[b] : g[j] < t /\ node[j].key # k
    BY <1>2, <1>5, <1>12 DEF Present
  <1>14. Chains(D, g)'
    <2>1. freed \subseteq Alloc /\ Alloc' = Alloc
      BY <1>1, <1>3 DEF Chains, Alloc
    <2>2. ASSUME NEW e \in Buckets, NEW j \in D[e]
          PROVE  node[j] # NULL /\ j \notin freed /\ Bucket[node[j].key] = e
      <3>1. CASE j \in C[e]
        BY <1>3, <3>1 DEF Chains
      <3>2. CASE j \notin C[e]
        BY <1>4, <1>10, <1>11, <3>2
      <3> QED BY <3>1, <3>2
    <2>3. ASSUME NEW e \in Buckets, NEW j \in D[e], NEW l \in D[e], node[j].key = node[l].key \/ g[j] = g[l]
          PROVE  j = l
      <3>1. CASE j \in C[e] /\ l \in C[e]
        BY <1>3, <1>12, <2>3, <3>1 DEF Chains
      <3>2. CASE j \notin C[e] \/ l \notin C[e]
        BY <1>10, <1>11, <1>12, <1>13, <2>3, <3>2
      <3> QED BY <3>1, <3>2
    <2> QED BY <1>1, <1>11, <1>12, <2>1, <2>2, <2>3 DEF Chains
  <1>15. Forward(D, g)'
    <2>1. ASSUME NEW e \in Buckets
          PROVE  IF head'[e] = NULL THEN D[e] = {} ELSE head'[e] \in D[e] /\ \A j \in D[e] : g[j] <= g[head'[e]]
      <3>1. CASE e = b
        BY <1>9, <1>10, <1>11, <1>12, <1>13, <3>1
      <3>2. CASE e # b
        <4>1. IF head[e] = NULL THEN C[e] = {} ELSE head[e] \in C[e] /\ \A j \in C[e] : h[j] <= h[head[e]]
          BY <1>3 DEF Forward
        <4> QED BY <1>9, <1>11, <1>12, <3>2, <4>1
      <3> QED BY <3>1, <3>2
    <2>2. ASSUME NEW e \in Buckets, NEW j \in D[e]
          PROVE  IF node[j].next = NULL THEN \A l \in D[e] : g[j] <= g[l]
                 ELSE /\ node[j].next \in D[e] /\ g[node[j].next] < g[j]
                      /\ \A l \in D[e] : g[l] < g[j] => g[l] <= g[node[j].next]
      <3>1. CASE j \in C[e]
        <4>1. IF node[j].next = NULL THEN \A l \in C[e] : h[j] <= h[l]
              ELSE /\ node[j].next \in C[e] /\ h[node[j].next] < h[j]
                   /\ \A l \in C[e] : h[l] < h[j] => h[l] <= h[node[j].next]
          BY <1>3, <3>1 DEF Forward
        <4>2. \A l \in D[e] : l \in C[e] \/ (l = i /\ e = b /\ ~(g[l] < g[j]) /\ g[j] <= g[l])
          BY <1>11, <1>12, <1>13, <3>1
        <4>3. C[e] \subseteq D[e]
          BY <1>11
        <4> QED BY <1>12, <3>1, <4>1, <4>2, <4>3
      <3>2. CASE j \notin C[e]
        <4>1. j = i /\ e = b
          BY <1>11, <3>2
        <4> QED BY <1>4, <1>5, <1>11, <1>12, <1>13, <4>1
      <3> QED BY <3>1, <3>2
    <2> QED BY <1>1, <2>1, <2>2 DEF Forward
  <1>16. \A j : ~Unhooking(j) /\ ~Unhooking(j)'
    <2>1. \A d \in Clients : th[d].pc # "unhook" /\ th'[d].pc # "unhook"
      BY <1>1, <1>2, <1>7, <1>8, SoleInserter DEF Active, Removing
    <2> QED BY <2>1 DEF Unhooking
  <1>17. Backward(D)'
    <2>1. \A e, j : e # b /\ Publishing(e, j) => Publishing(e, j)'
      BY <1>1, <1>8 DEF Publishing, Cur, Slot, Key, Cmd
    <2>2. ASSUME NEW e \in Buckets, NEW j \in D[e], node[j].next # NULL
          PROVE  node[node[j].next].prev = j
      <3>1. CASE j \in C[e]
        BY <1>3, <1>16, <2>2, <3>1 DEF Backward
      <3>2. CASE j \notin C[e]
        BY <1>4, <1>11, <2>2, <3>2
      <3> QED BY <3>1, <3>2
    <2>3. ASSUME NEW e \in Buckets, head'[e] # NULL
          PROVE  (node[head[e]].prev = NULL \/ Publishing(e, node[head[e]].prev))'
      <3>1. CASE e = b
        BY <1>1, <1>4, <1>9, <3>1
      <3>2. CASE e # b
        <4>1. PICK q : q = node[head[e]].prev
          OBVIOUS
        <4>2. node'[head'[e]].prev = q
          BY <1>1, <1>9, <3>2, <4>1
        <4>3. q = NULL \/ Publishing(e, q)
          BY <1>3, <1>9, <2>3, <3>2, <4>1 DEF Backward
        <4>4. q = NULL \/ Publishing(e, q)'
          BY <2>1, <3>2, <4>3
        <4> QED BY <4>2, <4>4 DEF Publishing
      <3> QED BY <3>1, <3>2
    <2> QED BY <1>1, <1>16, <2>2, <2>3 DEF Backward
  <1>18. Counted(D)'
    <2>1. \A e : e # b => (Rising(e)' <=> Rising(e)) /\ (Falling(e)' <=> Falling(e))
      BY <1>1, <1>2, <1>7, <1>8 DEF Rising, Falling, Slot, Key, Cmd
    <2>2. Rising(b)'
      BY <1>7 DEF Rising
    <2>3. ~Rising(b) /\ ~Falling(b)
      <3> SUFFICES ASSUME NEW d \in Clients, th[d].pc \in {"count", "inc", "free", "size", "dec"}, Slot(d) = b
                   PROVE  FALSE
        BY DEF Rising, Falling
      <3> QED BY <1>1, <1>2, SoleInserter DEF Active, Inserting, Removing
    <2>4. size[b] = Cardinality(C[b])
      BY <1>3, <2>3 DEF Counted
    <2>5. Cardinality(D[b]) = Cardinality(C[b]) + 1 /\ Cardinality(C[b]) \in Nat
      BY <1>3, <1>11, <1>12, ChainsFinite, FS_AddElement
    <2>6. ASSUME NEW d \in Clients, th'[d].pc \in {"inc", "dec"}
          PROVE  th'[d].reg = size'[Slot(d)']
      BY <1>1, <1>3, <1>7, <1>8, <2>6 DEF Counted, Slot, Key, Cmd
    <2>7. ASSUME NEW e \in Buckets
          PROVE  size'[e] = IF Rising(e)' THEN Cardinality(D[e]) - 1
                            ELSE IF Falling(e)' THEN Cardinality(D[e]) + 1 ELSE Cardinality(D[e])
      <3>1. CASE e = b
        BY <1>1, <2>2, <2>4, <2>5, <3>1
      <3>2. CASE e # b
        BY <1>1, <1>3, <1>11, <2>1, <3>2 DEF Counted
      <3> QED BY <3>1, <3>2
    <2> QED BY <2>6, <2>7 DEF Counted
  <1>19. \A d \in Clients : Active(d)' => /\ Active(d) /\ Cmd(d)' = Cmd(d) /\ Key(d)' = Key(d)
                                          /\ Slot(d)' = Slot(d) /\ Slot(d) \in Buckets
    <2> SUFFICES ASSUME NEW d \in Clients, Active(d)'
                 PROVE  /\ Active(d) /\ Cmd(d)' = Cmd(d) /\ Key(d)' = Key(d)
                        /\ Slot(d)' = Slot(d)
      BY PlaceIs
    <2> QED BY <1>2, <1>7, <1>8 DEF Active, Cmd, Key, Slot
  <1>20. ASSUME NEW d \in Clients, Active(d)'
         PROVE  (Deleter(D, d)' => Deleter(C, d)) /\ (Inserter(D, d)' => Inserter(C, d))
    <2>1. th'[d].stage = th[d].stage /\ (d # c => th'[d].pc = th[d].pc)
      BY <1>2, <1>7, <1>8
    <2>2. \A j \in D[Slot(d)] : j \in C[Slot(d)] \/ j = i
      BY <1>11, <1>19, <1>20
    <2>3. Deleter(D, d)' => Deleter(C, d)
      BY <1>1, <1>4, <1>19, <1>20, <2>1, <2>2 DEF Deleter
    <2>4. Present(C, Key(d)) => Present(D, Key(d))'
      BY <1>1, <1>11, <1>19, <1>20 DEF Present, Slot
    <2>5. Inserter(D, d)' => Inserter(C, d)
      BY <1>2, <1>19, <1>20, <2>1, <2>4 DEF Inserter
    <2> QED BY <2>3, <2>5
  <1>21. Apart(D)'
    BY <1>3, <1>19, <1>20 DEF Apart
  <1>22. ASSUME NEW d \in Clients PROVE Located(D, g, d)'
    <2>1. CASE d = c
      BY <1>7, <1>11, <2>1 DEF Located, Standing, Holding, Writing, Inserting, Removing
    <2>2. CASE d # c
      <3>1. \A j \in D[b] : j \notin C[b] => node'[j].key = k
        BY <1>1, <1>10, <1>11
      <3>2. Grown(C, h, D, g, c)
        BY <1>1, <1>9, <1>11, <1>12, <3>1 DEF Grown
      <3> QED BY <1>1, <1>8, <2>2, <3>2, OthersInserted
    <2> QED BY <2>1, <2>2
  <1>23. Lost(D)'
    <2> SUFFICES ASSUME NEW l \in kept, l \in Lasting PROVE Present(D, l)'
      BY <1>1 DEF Lost
    <2>1. Present(C, l) /\ Bucket[l] \in Buckets
      BY <1>3, TableAssumption DEF Lost, Owned, Memory, TypeOK
    <2> QED BY <1>1, <1>11, <2>1 DEF Present
  <1>24. Unexpired'
    BY <1>1, <1>3 DEF Unexpired, Alloc
  <1>25. Shape(D, g)'
    BY <1>14, <1>15, <1>17, <1>18, <1>21, <1>22, <1>23, <1>24 DEF Shape
  <1> QED BY <1>25

LEMMA StillLocated ==
    ASSUME NEW C, NEW h, NEW d \in Clients, Located(C, h, d), head' = head, node' = node, freed' = freed,
           th'[d] = th[d]
    PROVE  Located(C, h, d)'
  <1>1. Cmd(d)' = Cmd(d) /\ Cur(d)' = Cur(d) /\ Slot(d)' = Slot(d) /\ Key(d)' = Key(d)
    BY DEF Cmd, Cur, Slot, Key
  <1>2. (Before(C, h, d)' <=> Before(C, h, d)) /\ (Present(C, Key(d))' <=> Present(C, Key(d)))
    BY <1>1 DEF Before, Present
  <1> QED BY <1>1, <1>2 DEF Located

\* A counter is written, and the command ends.
LEMMA CountedShape ==
    ASSUME Owned, NEW C, NEW h, Shape(C, h), NEW c \in Clients, Active(c), Steps(c),
           th'[c].pc = "idle", th'[c].stage = "check", th[c].pc \notin {"unhook", "publish"},
           head' = head, node' = node, freed' = freed, Counted(C)', Lost(C)'
    PROVE  Shape(C, h)'
  <1>1. Chains(C, h) /\ Forward(C, h) /\ Backward(C) /\ Apart(C) /\ Unexpired
        /\ \A d \in Clients : Located(C, h, d)
    BY DEF Shape
  <1>2. \A d \in Clients : d # c => th'[d] = th[d]
    BY DEF Steps
  <1>3. Chains(C, h)' /\ Forward(C, h)' /\ Unexpired'
    BY <1>1 DEF Chains, Forward, Unexpired, Alloc
  <1>4. Backward(C)'
    <2>1. \A j : Unhooking(j)' <=> Unhooking(j)
      BY <1>2 DEF Unhooking, Cur
    <2>2. \A e, j : Publishing(e, j) => Publishing(e, j)'
      BY <1>2 DEF Publishing, Cur, Slot, Key, Cmd
    <2>3. ASSUME NEW e \in Buckets, head'[e] # NULL
          PROVE  (node[head[e]].prev = NULL \/ Publishing(e, node[head[e]].prev))'
      <3>1. PICK q : q = node[head[e]].prev
        OBVIOUS
      <3>2. q = NULL \/ Publishing(e, q)
        BY <1>1, <2>3, <3>1 DEF Backward
      <3>3. q = NULL \/ Publishing(e, q)'
        BY <2>2, <3>2
      <3> QED BY <3>1, <3>3 DEF Publishing
    <2> QED BY <1>1, <2>1, <2>3 DEF Backward
  <1>5. Apart(C)'
    <2>1. \A d \in Clients : Active(d)' => d # c /\ Active(d)
      BY <1>2 DEF Active
    <2>2. \A d \in Clients : d # c =>
            /\ (Deleter(C, d)' <=> Deleter(C, d)) /\ (Inserter(C, d)' <=> Inserter(C, d)) /\ Slot(d)' = Slot(d)
      BY <1>2 DEF Deleter, Inserter, Present, Slot, Key, Cmd
    <2> QED BY <1>1, <2>1, <2>2 DEF Apart
  <1>6. ASSUME NEW d \in Clients PROVE Located(C, h, d)'
    <2>1. CASE d = c
      BY <2>1 DEF Located, Standing, Holding, Writing, Inserting, Removing
    <2>2. CASE d # c
      BY <1>1, <1>2, <2>2, StillLocated
    <2> QED BY <2>1, <2>2
  <1> QED BY <1>3, <1>4, <1>5, <1>6 DEF Shape

LEMMA IncShape ==
    ASSUME Owned, NEW C, NEW h, Shape(C, h), NEW c \in Clients, Inc(c)
    PROVE  Shape(C, h)'
  <1>1. /\ th[c].pc = "inc" /\ Finish(c, Plain("ok"))
        /\ head' = head /\ node' = node /\ freed' = freed
        /\ size' = [size EXCEPT ![Slot(c)] = th[c].reg + 1]
    BY DEF Inc
  <1>2. /\ Active(c) /\ Slot(c) \in Buckets /\ TypeOK /\ Key(c) \in Keys /\ Cmd(c).op = "make"
        /\ Present(C, Key(c)) /\ Inserter(C, c)
    BY <1>1, ShapePlace, PlaceIs
       DEF Active, Standing, Holding, Writing, Inserting, Removing, Fits, Inserter
  <1> PICK b \in Buckets : b = Slot(c)
    BY <1>2
  <1>3. Goes(c, "idle", "check", NULL, NULL) /\ kept' = kept \union {Key(c)}
    BY <1>1, <1>2, PlainIs, FinishIs
  <1>4. Steps(c) /\ th'[c].pc = "idle" /\ th'[c].stage = "check" /\ \A d \in Clients : d # c => th'[d] = th[d]
    BY <1>3 DEF Goes, Steps
  <1>5. Counted(C)'
    <2>1. \A d \in Clients : d # c /\ Slot(d) = b => th[d].pc \notin {"count", "inc", "free", "size", "dec"}
      BY <1>2, SoleInserter DEF Active, Inserting, Removing
    <2>2. ~Rising(b)' /\ ~Falling(b)' /\ Rising(b)
      BY <1>1, <1>4, <2>1 DEF Rising, Falling, Slot, Key, Cmd
    <2>3. \A e : e # b => (Rising(e)' <=> Rising(e)) /\ (Falling(e)' <=> Falling(e))
      BY <1>1, <1>4 DEF Rising, Falling, Slot, Key, Cmd
    <2>4. size[b] = Cardinality(C[b]) - 1 /\ th[c].reg = size[b] /\ Cardinality(C[b]) \in Nat
      BY <1>1, <2>2, ChainsFinite DEF Shape, Counted
    <2>5. size'[b] = th[c].reg + 1 /\ \A e \in Buckets : e # b => size'[e] = size[e]
      BY <1>1, <1>2 DEF TypeOK
    <2>6. ASSUME NEW d \in Clients, th'[d].pc \in {"inc", "dec"}
          PROVE  th'[d].reg = size'[Slot(d)']
      <3>1. d # c /\ th'[d] = th[d] /\ Slot(d)' = Slot(d) /\ Slot(d) # b
        BY <1>4, <2>1, <2>6 DEF Slot, Key, Cmd
      <3>2. Slot(d) \in Buckets /\ th[d].reg = size[Slot(d)]
        BY <2>6, <3>1, PlaceIs DEF Shape, Counted, Active, Slot
      <3> QED BY <2>5, <3>1, <3>2
    <2>7. ASSUME NEW e \in Buckets
          PROVE  size'[e] = IF Rising(e)' THEN Cardinality(C[e]) - 1
                            ELSE IF Falling(e)' THEN Cardinality(C[e]) + 1 ELSE Cardinality(C[e])
      <3>1. CASE e = b
        BY <2>2, <2>4, <2>5, <3>1
      <3>2. CASE e # b
        BY <2>3, <2>5, <3>2 DEF Shape, Counted
      <3> QED BY <3>1, <3>2
    <2> QED BY <2>6, <2>7 DEF Counted
  <1>6. Lost(C)'
    BY <1>1, <1>2, <1>3 DEF Lost, Shape, Present
  <1> QED BY <1>1, <1>2, <1>4, <1>5, <1>6, CountedShape

-----------------------------------------------------------------------------
(* A deletion                                                              *)

\* A set of natural numbers that is not empty has a least element.
LEMMA LeastNat ==
    ASSUME NEW T \in SUBSET Nat, T # {}
    PROVE  \E m \in T : \A n \in T : m <= n
  <1> DEFINE R == OpToRel(<, Nat)
  <1>1. \A x, y \in Nat : <<x, y>> \in R <=> x < y
    BY DEF OpToRel
  <1>2. \E m \in T : \A n \in T : ~(<<n, m>> \in R)
    <2> HIDE DEF R
    <2>1. IsWellFoundedOn(R, Nat)
      BY NatLessThanWellFounded DEF R
    <2> QED BY <2>1, WFMin
  <1> HIDE DEF R
  <1>3. PICK m \in T : \A n \in T : ~(<<n, m>> \in R)
    BY <1>2
  <1>4. ASSUME NEW n \in T
        PROVE  m <= n
    <2>1. m \in Nat /\ n \in Nat /\ ~(n < m)
      BY <1>1, <1>3
    <2> QED BY <2>1
  <1> QED BY <1>4

\* Every node of a chain but its head is the next of another one: of the lowest of those
\* that are higher.
LEMMA PredIs ==
    ASSUME NEW C, NEW h, Chains(C, h), Forward(C, h), NEW b \in Buckets, NEW i \in C[b], i # head[b]
    PROVE  \E p \in C[b] : node[p].next = i
  <1> DEFINE T == {h[j] : j \in {l \in C[b] : h[l] > h[i]}}
  <1>1. \A j \in C[b] : h[j] \in Nat
    BY ChainNodes
  <1>2. \A j, l \in C[b] : h[j] = h[l] => j = l
    BY DEF Chains
  <1>3. head[b] \in C[b] /\ h[i] <= h[head[b]]
    BY DEF Forward
  <1>4. h[head[b]] \in T /\ T \in SUBSET Nat
    BY <1>1, <1>2, <1>3
  <1>5. PICK m \in T : \A n \in T : m <= n
    <2> HIDE DEF T
    <2> QED BY <1>4, LeastNat
  <1>6. PICK p \in C[b] : h[p] = m /\ h[p] > h[i]
    BY <1>5
  <1>7. /\ node[p].next \in C[b] /\ h[node[p].next] < h[p] /\ h[i] <= h[node[p].next]
    BY <1>1, <1>6 DEF Forward
  <1>8. ~(h[node[p].next] > h[i])
    <2> SUFFICES ASSUME h[node[p].next] > h[i] PROVE FALSE
      OBVIOUS
    <2>1. h[node[p].next] \in T
      BY <1>7
    <2>2. m <= h[node[p].next] /\ m = h[p]
      BY <1>5, <1>6, <2>1
    <2> QED BY <1>1, <1>6, <1>7, <2>2
  <1>9. h[node[p].next] = h[i]
    BY <1>1, <1>7, <1>8
  <1> QED BY <1>2, <1>7, <1>9

\* A thread that deletes, or will, is the only one: nobody else changes links or counters.
LEMMA AloneIs ==
    ASSUME Owned, NEW C, NEW h, Shape(C, h), NEW c \in Clients, Active(c), Deleter(C, c),
           th[c].pc \notin {"publish", "count", "inc"}
    PROVE  /\ \A d \in Clients : d # c => th[d].pc = "idle" /\ th[d].stage = "check"
           /\ \A b \in Buckets : \A j \in C[b] : node[j].next # NULL =>
                node[node[j].next].prev =
                  IF th[c].pc = "unhook" /\ j = Cur(c) THEN node[j].prev ELSE j
           /\ \A b \in Buckets : head[b] # NULL => node[head[b]].prev = NULL
           /\ \A b \in Buckets :
                size[b] = IF b = Slot(c) /\ th[c].pc \in {"free", "size", "dec"}
                          THEN Cardinality(C[b]) + 1 ELSE Cardinality(C[b])
  <1>1. \A d \in Clients : d # c => th[d].pc = "idle"
    BY DEF Shape, Apart, Active
  <1>2. \A d \in Clients : d # c => th[d].stage = "check"
    BY <1>1 DEF Owned, Memory, Placed
  <1>3. \A j : Unhooking(j) <=> th[c].pc = "unhook" /\ j = Cur(c)
    BY <1>1 DEF Unhooking
  <1>4. \A b, j : ~Publishing(b, j)
    BY <1>1 DEF Publishing
  <1>5. \A b : ~Rising(b) /\ (Falling(b) <=> b = Slot(c) /\ th[c].pc \in {"free", "size", "dec"})
    BY <1>1 DEF Rising, Falling
  <1>6. Backward(C) /\ Counted(C)
    BY DEF Shape
  <1>7. \A b \in Buckets : \A j \in C[b] : node[j].next # NULL =>
                node[node[j].next].prev =
                  IF th[c].pc = "unhook" /\ j = Cur(c) THEN node[j].prev ELSE j
    BY <1>3, <1>6 DEF Backward
  <1>8. \A b \in Buckets : head[b] # NULL => node[head[b]].prev = NULL
    BY <1>4, <1>6 DEF Backward
  <1>9. \A b \in Buckets : size[b] = IF b = Slot(c) /\ th[c].pc \in {"free", "size", "dec"}
                          THEN Cardinality(C[b]) + 1 ELSE Cardinality(C[b])
    BY <1>5, <1>6 DEF Counted
  <1> QED BY <1>1, <1>2, <1>7, <1>8, <1>9

\* The links back and the counters while c, at p, is the only thread that may change them.
Tidy(D, c, p) ==
    /\ p = "unhook" => Cur(c)' = Cur(c)
    /\ \A b \in Buckets : \A j \in D[b] : node'[j].next # NULL =>
         node'[node'[j].next].prev = IF p = "unhook" /\ j = Cur(c) THEN node'[j].prev ELSE j
    /\ \A b \in Buckets : head'[b] # NULL => node'[head'[b]].prev = NULL
    /\ \A b \in Buckets :
         size'[b] = IF b = Slot(c) /\ p \in {"free", "size"} THEN Cardinality(D[b]) + 1 ELSE Cardinality(D[b])

LEMMA AloneShape ==
    ASSUME Owned, NEW C, NEW h, Shape(C, h), NEW c \in Clients, Active(c), Deleter(C, c), Steps(c),
           th[c].pc \notin {"publish", "count", "inc"},
           NEW p \in {"idle", "unhook", "free", "size"}, th'[c].pc = p,
           NEW D, Chains(D, h)', Forward(D, h)', Located(D, h, c)', Lost(D)', Unexpired', Tidy(D, c, p)
    PROVE  Shape(D, h)'
  <1>1. \A d \in Clients : d # c => th'[d] = th[d] /\ th'[d].pc = "idle" /\ th'[d].stage = "check"
    BY AloneIs DEF Steps
  <1>2. Slot(c)' = Slot(c)
    BY DEF Steps, Slot, Key, Cmd
  <1>3. \A j : Unhooking(j)' <=> p = "unhook" /\ j = Cur(c)
    BY <1>1 DEF Unhooking, Cur, Tidy
  <1>4. \A b : ~Rising(b)' /\ (Falling(b)' <=> b = Slot(c) /\ p \in {"free", "size"})
    BY <1>1, <1>2 DEF Rising, Falling
  <1>5. Backward(D)'
    BY <1>3 DEF Backward, Tidy
  <1>6. Counted(D)'
    <2>1. \A d \in Clients : th'[d].pc \notin {"inc", "dec"}
      BY <1>1
    <2> QED BY <1>4, <2>1 DEF Counted, Tidy
  <1>7. Apart(D)'
    BY <1>1 DEF Apart, Active
  <1>8. ASSUME NEW d \in Clients PROVE Located(D, h, d)'
    <2>1. CASE d = c
      BY <2>1
    <2>2. CASE d # c
      BY <1>1, <2>2 DEF Located, Standing, Holding, Writing, Inserting, Removing
    <2> QED BY <2>1, <2>2
  <1> QED BY <1>5, <1>6, <1>7, <1>8 DEF Shape

LEMMA ExpireShape ==
    ASSUME Owned, NEW C, NEW h, Shape(C, h), NEW c \in Clients, Expire(c)
    PROVE  Shape(C, h)'
  <1>1. th[c].pc = "expire" /\ Finish(c, Plain("ok")) /\ head' = head /\ size' = size /\ freed' = freed
        /\ node' = [node EXCEPT ![Cur(c)].expired = TRUE]
    BY DEF Expire
  <1>2. /\ Active(c) /\ TypeOK /\ Key(c) \in Keys /\ Cmd(c).op = "expire" /\ Cur(c) \in Alloc
        /\ node[Cur(c)].key = Key(c)
    BY <1>1, PlaceIs DEF Active, Fits, Inserting, Removing, Standing, Holding, Writing
  <1> PICK i \in Alloc : i = Cur(c)
    BY <1>2
  <1>3. Deleter(C, c) /\ Key(c) \notin Lasting
    BY <1>2 DEF Deleter, Lasting, Owned, Memory, Placed, Active, Key
  <1>4. Goes(c, "idle", "check", NULL, NULL) /\ kept' = kept
    BY <1>1, <1>2, PlainIs, FinishIs
  <1>5. Steps(c) /\ th'[c].pc = "idle" /\ th'[c].stage = "check"
    BY <1>4 DEF Goes
  <1>6. /\ node \in [Ids -> Node \union {NULL}] /\ node[i] \in Node
        /\ \A j \in Alloc : j \in Ids
    BY <1>2, NodeIs DEF Alloc
  <1>7. node'[i] = [node[i] EXCEPT !.expired = TRUE] /\ \A j \in Ids : j # i => node'[j] = node[j]
    BY <1>1, <1>6
  <1>8. node'[i] \in Node /\ node'[i].key = node[i].key /\ node'[i].next = node[i].next
        /\ node'[i].prev = node[i].prev
    BY <1>6, <1>7 DEF Node
  <1>9. Alloc' = Alloc
    BY <1>6, <1>7, <1>8, NullIs DEF Alloc
  <1>10. \A j \in Alloc : node'[j].key = node[j].key /\ node'[j].next = node[j].next /\ node'[j].prev = node[j].prev
    BY <1>6, <1>7, <1>8
  <1>11. \A b \in Buckets : \A j \in C[b] : j \in Alloc
    BY ChainNodes DEF Shape
  <1>12. Chains(C, h)'
    BY <1>1, <1>9, <1>10, <1>11 DEF Shape, Chains, Alloc
  <1>13. Forward(C, h)'
    BY <1>1, <1>10, <1>11 DEF Shape, Forward
  <1>14. Located(C, h, c)'
    BY <1>5 DEF Located, Standing, Holding, Writing, Inserting, Removing
  <1>15. Lost(C)'
    <2> SUFFICES ASSUME NEW k \in kept, k \in Lasting PROVE Present(C, k)'
      BY <1>4 DEF Lost
    <2>1. Present(C, k) /\ Bucket[k] \in Buckets
      BY TableAssumption DEF Shape, Lost, Owned, Memory, TypeOK
    <2> QED BY <1>10, <1>11, <2>1 DEF Present
  <1>16. Unexpired'
    BY <1>2, <1>3, <1>6, <1>7, <1>9, <1>10 DEF Shape, Unexpired
  <1>17. ASSUME NEW b \in Buckets, NEW j \in C[b], node'[j].next # NULL PROVE node'[node'[j].next].prev = j
    <2>1. node[j].next # NULL /\ node[j].next \in C[b] /\ node'[j].next = node[j].next
      BY <1>10, <1>11, <1>17 DEF Shape, Forward
    <2>2. node[node[j].next].prev = j
      BY <1>1, <1>2, <1>3, <2>1, AloneIs
    <2> QED BY <1>10, <1>11, <2>1, <2>2
  <1>18. ASSUME NEW b \in Buckets, head'[b] # NULL PROVE node'[head'[b]].prev = NULL
    <2>1. head[b] # NULL /\ head[b] \in C[b] /\ head'[b] = head[b]
      BY <1>1, <1>18 DEF Shape, Forward
    <2>2. node[head[b]].prev = NULL
      BY <1>1, <1>2, <1>3, <2>1, AloneIs
    <2> QED BY <1>10, <1>11, <2>1, <2>2
  <1>19. \A b \in Buckets : size'[b] = Cardinality(C[b])
    BY <1>1, <1>2, <1>3, AloneIs
  <1>20. Tidy(C, c, "idle")
    BY <1>17, <1>18, <1>19 DEF Tidy
  <1> QED BY <1>1, <1>2, <1>3, <1>5, <1>12, <1>13, <1>14, <1>15, <1>16, <1>20, AloneShape

LEMMA RemoverIs ==
    ASSUME Owned, NEW C, NEW h, Shape(C, h), NEW c \in Clients, th[c].pc \in Removing
    PROVE  /\ Active(c) /\ TypeOK /\ Slot(c) \in Buckets /\ Slot(c) = Bucket[Key(c)] /\ Key(c) \in Keys
           /\ th[c].stage = "del" /\ Deleter(C, c) /\ Key(c) \notin Lasting /\ Cmd(c).op # "make"
           /\ Cur(c) \in Alloc /\ Cur(c) \in Ids /\ Cur(c) = th[c].cur /\ node[Cur(c)].key = Key(c)
           /\ th[c].pc \in {"unprev", "unhook"} => Cur(c) \in C[Slot(c)]
           /\ th[c].pc \in {"free", "size", "dec"} => \A b \in Buckets : Cur(c) \notin C[b]
  <1>1. Active(c) /\ th[c].pc \in Standing
    BY DEF Active, Removing, Standing, Holding
  <1>2. /\ th[c].stage = "del" /\ Cmd(c).op # "make"
    BY <1>1, PlaceIs DEF Fits, Removing, Inserting, Writing, AsksExpiry
  <1>3. /\ Slot(c) \in Buckets /\ Slot(c) = Bucket[Key(c)] /\ Deleter(C, c) /\ Key(c) \notin Lasting
        /\ Located(C, h, c)
    BY <1>1, <1>2, ShapePlace
  <1>4. /\ TypeOK /\ Key(c) \in Keys /\ Cur(c) \in Alloc /\ Cur(c) = th[c].cur /\ node[Cur(c)].key = Key(c)
    BY <1>1, PlaceIs
  <1>5. th[c].pc \in {"unprev", "unhook"} => Cur(c) \in C[Slot(c)]
    BY <1>1, <1>3 DEF Located
  <1>6. th[c].pc \in {"free", "size", "dec"} => \A b \in Buckets : Cur(c) \notin C[b]
    BY <1>3, <1>4, ChainNodes DEF Located, Shape
  <1> QED BY <1>1, <1>2, <1>3, <1>4, <1>5, <1>6 DEF Alloc

LEMMA UnprevShape ==
    ASSUME Owned, NEW C, NEW h, Shape(C, h), NEW c \in Clients, Unprev(c)
    PROVE  Shape(C, h)'
  <1>1. th[c].pc = "unprev" /\ Goto(c, "unhook") /\ head' = head /\ size' = size /\ freed' = freed /\ kept' = kept
        /\ node' = IF node[Cur(c)].next = NULL THEN node
                   ELSE [node EXCEPT ![node[Cur(c)].next].prev = node[Cur(c)].prev]
    BY DEF Unprev
  <1>2. /\ Active(c) /\ TypeOK /\ Slot(c) \in Buckets /\ th[c].stage = "del" /\ Deleter(C, c)
        /\ Key(c) \notin Lasting /\ Cur(c) \in C[Slot(c)] /\ Cur(c) \in Ids /\ Cur(c) = th[c].cur
    BY <1>1, RemoverIs DEF Removing
  <1> PICK b \in Buckets : b = Slot(c)
    BY <1>2
  <1> PICK i \in C[b] : i = Cur(c)
    BY <1>2
  <1> PICK x : x = node[i].next
    OBVIOUS
  <1>3. Goes(c, "unhook", "del", th[c].cur, th[c].got)
    BY <1>1, <1>2, GotoIs DEF Places
  <1>4. Steps(c) /\ th'[c].pc = "unhook" /\ th'[c].stage = "del" /\ Cur(c)' = i /\ Key(c)' = Key(c) /\ Slot(c)' = b
    BY <1>2, <1>3 DEF Goes, Steps, Cur, Cmd, Key, Slot
  <1>5. Chains(C, h) /\ Forward(C, h) /\ Unexpired /\ Lost(C)
    BY DEF Shape
  <1>6. \A e \in Buckets : \A j \in C[e] : j \in Alloc /\ j \in Ids /\ h[j] \in Nat /\ \A d \in Buckets : j \in C[d] => d = e
    BY <1>5, ChainNodes
  <1>7. x # NULL => x \in C[b] /\ h[x] < h[i] /\ x # i
    BY <1>5, <1>6 DEF Forward
  <1>8. /\ \A j \in Ids : j # x \/ x = NULL => node'[j] = node[j]
        /\ x # NULL => node'[x] = [node[x] EXCEPT !.prev = node[i].prev]
    BY <1>1, <1>2, <1>6, <1>7 DEF TypeOK
  <1>9. x # NULL => node'[x].next = node[x].next /\ node'[x].prev = node[i].prev /\ node'[x].key = node[x].key
                    /\ node'[x].expired = node[x].expired
    BY <1>2, <1>6, <1>7, <1>8, NodeIs DEF Node
  <1>10. Alloc' = Alloc
    <2>1. Relinks
      <3>1. CASE x = NULL
        BY <1>1, <1>2, <3>1, NothingRelinked DEF Owned
      <3>2. CASE x # NULL
        <4>1. node[i].prev \in Alloc \union {NULL}
          BY <1>6 DEF Owned, Memory, Pointers
        <4> QED BY <1>1, <1>6, <1>7, <3>2, <4>1, PrevRelinked DEF Owned
      <3> QED BY <3>1, <3>2
    <2> QED BY <2>1 DEF Relinks
  <1>11. \A j \in Alloc : /\ j \in Ids /\ node'[j].next = node[j].next /\ node'[j].key = node[j].key
                          /\ node'[j].expired = node[j].expired
    BY <1>8, <1>9 DEF Alloc
  <1>12. Chains(C, h)'
    BY <1>1, <1>5, <1>6, <1>10, <1>11 DEF Chains, Alloc
  <1>13. Forward(C, h)'
    BY <1>1, <1>5, <1>6, <1>11 DEF Forward
  <1>14. Located(C, h, c)'
    BY <1>2, <1>4 DEF Located
  <1>15. Lost(C)'
    <2> SUFFICES ASSUME NEW k \in kept, k \in Lasting PROVE Present(C, k)'
      BY <1>1 DEF Lost
    <2>1. Present(C, k) /\ Bucket[k] \in Buckets
      BY <1>5, TableAssumption DEF Lost, Owned, Memory, TypeOK
    <2> QED BY <1>6, <1>11, <2>1 DEF Present
  <1>16. Unexpired'
    BY <1>5, <1>10, <1>11 DEF Unexpired
  <1>17. ASSUME NEW e \in Buckets, NEW j \in C[e], node'[j].next # NULL
         PROVE  node'[node'[j].next].prev = IF j = Cur(c) THEN node'[j].prev ELSE j
    <2>1. node[j].next # NULL /\ node[j].next \in C[e] /\ node'[j].next = node[j].next
      BY <1>5, <1>6, <1>11, <1>17 DEF Forward
    <2>2. node[node[j].next].prev = j
      BY <1>1, <1>2, <2>1, AloneIs
    <2>3. CASE j = i
      BY <1>6, <1>7, <1>8, <1>9, <2>1, <2>3
    <2>4. CASE j # i
      <3>1. node[j].next # x \/ x = NULL
        <4>1. x # NULL => node[x].prev = i
          BY <1>1, <1>2, AloneIs
        <4> QED BY <2>2, <2>4, <4>1
      <3>2. node'[node[j].next] = node[node[j].next]
        BY <1>6, <1>8, <2>1, <3>1
      <3> QED BY <2>1, <2>2, <2>4, <3>2
    <2> QED BY <2>3, <2>4
  <1>18. ASSUME NEW e \in Buckets, head'[e] # NULL PROVE node'[head'[e]].prev = NULL
    <2>1. head[e] # NULL /\ head[e] \in C[e] /\ head'[e] = head[e] /\ \A j \in C[e] : h[j] <= h[head[e]]
      BY <1>1, <1>5, <1>18 DEF Forward
    <2>2. node[head[e]].prev = NULL
      BY <1>1, <1>2, <2>1, AloneIs
    <2>3. head[e] # x \/ x = NULL
      BY <1>6, <1>7, <2>1
    <2>4. node'[head[e]] = node[head[e]]
      BY <1>6, <1>8, <2>1, <2>3
    <2> QED BY <2>1, <2>2, <2>4
  <1>19. \A e \in Buckets : size'[e] = Cardinality(C[e])
    BY <1>1, <1>2, AloneIs
  <1>20. Tidy(C, c, "unhook")
    BY <1>4, <1>17, <1>18, <1>19 DEF Tidy
  <1> QED BY <1>1, <1>2, <1>4, <1>12, <1>13, <1>14, <1>15, <1>16, <1>20, AloneShape

\* The head of a chain, or the node that prev names, is what Hash::del has to redirect.
LEMMA PrevIs ==
    ASSUME Owned, NEW C, NEW h, Shape(C, h), NEW c \in Clients, th[c].pc \in {"unprev", "unhook"}
    PROVE  IF node[Cur(c)].prev = NULL THEN Cur(c) = head[Slot(c)]
           ELSE node[Cur(c)].prev \in C[Slot(c)] /\ node[node[Cur(c)].prev].next = Cur(c)
  <1>1. /\ Active(c) /\ Slot(c) \in Buckets /\ Deleter(C, c) /\ Cur(c) \in C[Slot(c)] /\ Chains(C, h) /\ Forward(C, h)
    BY RemoverIs DEF Removing, Shape
  <1>2. Cur(c) # NULL
    BY <1>1, ChainNodes, NullIs
  <1>3. CASE Cur(c) = head[Slot(c)]
    BY <1>1, <1>2, <1>3, AloneIs
  <1>4. CASE Cur(c) # head[Slot(c)]
    <2>1. PICK p \in C[Slot(c)] : node[p].next = Cur(c)
      BY <1>1, <1>4, PredIs
    <2>2. p # Cur(c)
      <3>1. h[Cur(c)] < h[p] /\ h[p] \in Nat
        BY <1>1, <1>2, <2>1, ChainNodes DEF Forward
      <3> QED BY <3>1
    <2>3. node[Cur(c)].prev = p
      BY <1>1, <1>2, <2>1, <2>2, AloneIs
    <2>4. p # NULL
      BY <1>1, <2>1, ChainNodes, NullIs
    <2> QED BY <2>1, <2>3, <2>4
  <1> QED BY <1>3, <1>4

LEMMA UnhookShape ==
    ASSUME Owned, NEW C, NEW h, Shape(C, h), NEW c \in Clients, Unhook(c)
    PROVE  \E D : Shape(D, h)'
  <1>1. th[c].pc = "unhook" /\ Goto(c, "free") /\ size' = size /\ freed' = freed /\ kept' = kept
    BY DEF Unhook
  <1>2. /\ Active(c) /\ TypeOK /\ Slot(c) \in Buckets /\ th[c].stage = "del" /\ Deleter(C, c)
        /\ Key(c) \notin Lasting /\ Cur(c) \in C[Slot(c)] /\ Cur(c) \in Ids /\ Cur(c) = th[c].cur
        /\ node[Cur(c)].key = Key(c)
    BY <1>1, RemoverIs DEF Removing
  <1> PICK b \in Buckets : b = Slot(c)
    BY <1>2
  <1> PICK i \in C[b] : i = Cur(c)
    BY <1>2
  <1> PICK x : x = node[i].next
    OBVIOUS
  <1> PICK q : q = node[i].prev
    OBVIOUS
  <1> PICK D : D = [C EXCEPT ![b] = C[b] \ {i}]
    OBVIOUS
  <1>3. Goes(c, "free", "del", th[c].cur, th[c].got)
    BY <1>1, <1>2, GotoIs DEF Places
  <1>4. Steps(c) /\ th'[c].pc = "free" /\ th'[c].stage = "del" /\ Cur(c)' = i /\ Key(c)' = Key(c) /\ Slot(c)' = b
    BY <1>2, <1>3 DEF Goes, Steps, Cur, Cmd, Key, Slot
  <1>5. Chains(C, h) /\ Forward(C, h) /\ Unexpired /\ Lost(C)
    BY DEF Shape
  <1>6. /\ \A e \in Buckets : \A j \in C[e] : j \in Alloc /\ j \in Ids /\ h[j] \in Nat
        /\ \A d, e \in Buckets : \A j \in C[e] : j \in C[d] => d = e
        /\ i \in Ids /\ i \in Alloc /\ i \notin freed
    BY <1>5, ChainNodes
  <1>7. IF x = NULL THEN \A j \in C[b] : h[i] <= h[j]
        ELSE x \in C[b] /\ h[x] < h[i] /\ \A j \in C[b] : h[j] < h[i] => h[j] <= h[x]
    BY <1>5 DEF Forward
  <1>8. IF q = NULL THEN i = head[b] ELSE q \in C[b] /\ node[q].next = i
    BY <1>1, PrevIs
  <1>9. /\ D \in [Buckets -> SUBSET Ids] /\ D[b] = C[b] \ {i} /\ \A e \in Buckets : e # b => D[e] = C[e]
        /\ \A e \in Buckets : D[e] \subseteq C[e]
    BY <1>5 DEF Chains
  <1>10. IF q = NULL THEN node' = node /\ head'[b] = x /\ \A e \in Buckets : e # b => head'[e] = head[e]
         ELSE /\ head' = head /\ node' = [node EXCEPT ![q].next = x]
    BY <1>2 DEF Unhook, TypeOK
  <1>11. q # NULL => /\ node'[q].next = x /\ node'[q].prev = node[q].prev /\ node'[q].key = node[q].key
                     /\ node'[q].expired = node[q].expired /\ \A j \in Ids : j # q => node'[j] = node[j]
    BY <1>2, <1>6, <1>8, <1>10, NodeIs DEF Node
  <1>12. Alloc' = Alloc
    <2>1. CASE q = NULL
      BY <1>10, <2>1 DEF Alloc
    <2>2. CASE q # NULL
      <3>1. x \in Alloc \union {NULL}
        BY <1>6, <1>7
      <3>2. Relinks
        BY <1>6, <1>8, <1>10, <2>2, <3>1, NextRelinked DEF Owned
      <3> QED BY <3>2 DEF Relinks
    <2> QED BY <2>1, <2>2
  <1>13. \A j \in Alloc : /\ j \in Ids /\ node'[j].prev = node[j].prev /\ node'[j].key = node[j].key
                          /\ node'[j].expired = node[j].expired
    BY <1>10, <1>11 DEF Alloc
  <1>14. \A j \in Alloc : j # q \/ q = NULL => node'[j].next = node[j].next
    BY <1>10, <1>11 DEF Alloc
  <1>15. ASSUME NEW e \in Buckets, NEW j \in D[e] PROVE j # q \/ q = NULL => node[j].next # i
    <2>1. j \in C[e] /\ j # i
      BY <1>6, <1>9
    <2>2. SUFFICES ASSUME node[j].next = i PROVE q # NULL /\ j = q
      OBVIOUS
    <2>3. i # NULL
      BY <1>6, NullIs
    <2>4. node[i].prev = j
      BY <1>1, <1>2, <2>1, <2>2, <2>3, AloneIs
    <2> QED BY <1>6, <2>1, <2>4, NullIs
  <1>16. \A e \in Buckets : \A j \in C[e] : j # i => j \in D[e]
    BY <1>9
  <1>17. Chains(D, h)'
    BY <1>1, <1>5, <1>6, <1>9, <1>12, <1>13 DEF Chains, Alloc
  <1>18. \A j, l \in C[b] : h[j] = h[l] => j = l
    BY <1>5 DEF Chains
  <1>19. ASSUME NEW e \in Buckets
         PROVE  IF head'[e] = NULL THEN D[e] = {} ELSE head'[e] \in D[e] /\ \A j \in D[e] : h[j] <= h[head'[e]]
    <2>1. IF head[e] = NULL THEN C[e] = {} ELSE head[e] \in C[e] /\ \A j \in C[e] : h[j] <= h[head[e]]
      BY <1>5 DEF Forward
    <2>2. CASE e = b /\ q = NULL
      <3>1. head'[b] = x /\ i = head[b] /\ i # NULL
        BY <1>6, <1>8, <1>10, <2>2, NullIs
      <3>2. \A j \in D[b] : j \in C[b] /\ h[j] < h[i]
        BY <1>6, <1>9, <1>18, <2>1, <2>2, <3>1
      <3>3. CASE x = NULL
        BY <1>6, <1>7, <2>2, <3>1, <3>2, <3>3
      <3>4. CASE x # NULL
        BY <1>6, <1>7, <1>16, <2>2, <3>1, <3>2, <3>4
      <3> QED BY <3>3, <3>4
    <2>3. CASE e # b /\ q = NULL
      BY <1>9, <1>10, <2>1, <2>3
    <2>4. CASE e # b /\ q # NULL
      BY <1>9, <1>10, <2>1, <2>4
    <2>5. CASE e = b /\ q # NULL
      <3>1. head[b] # i
        <4>1. h[i] < h[q]
          BY <1>5, <1>6, <1>8, <2>5, NullIs DEF Forward
        <4> QED BY <1>6, <1>8, <2>1, <2>5, <4>1
      <3> QED BY <1>9, <1>10, <1>16, <2>1, <2>5, <3>1
    <2> QED BY <2>2, <2>3, <2>4, <2>5
  <1>20. ASSUME NEW e \in Buckets, NEW j \in D[e]
         PROVE  IF node'[j].next = NULL THEN \A l \in D[e] : h[j] <= h[l]
                ELSE /\ node'[j].next \in D[e] /\ h[node'[j].next] < h[j]
                     /\ \A l \in D[e] : h[l] < h[j] => h[l] <= h[node'[j].next]
    <2>1. IF node[j].next = NULL THEN \A l \in C[e] : h[j] <= h[l]
          ELSE /\ node[j].next \in C[e] /\ h[node[j].next] < h[j]
               /\ \A l \in C[e] : h[l] < h[j] => h[l] <= h[node[j].next]
      BY <1>5, <1>9 DEF Forward
    <2>2. CASE j # q \/ q = NULL
      <3>1. node'[j].next = node[j].next /\ node[j].next # i
        BY <1>6, <1>9, <1>14, <1>15, <2>2
      <3> QED BY <1>9, <1>16, <2>1, <3>1
    <2>3. CASE j = q /\ q # NULL
      <3>1. node'[j].next = x /\ node[j].next = i /\ i # NULL /\ e = b
        BY <1>6, <1>8, <1>9, <1>11, <2>3, NullIs
      <3>2. h[i] < h[j] /\ \A l \in D[e] : l \in C[b] /\ (h[l] < h[j] => h[l] < h[i])
        BY <1>6, <1>9, <1>18, <2>1, <3>1
      <3>3. h[j] \in Nat /\ h[i] \in Nat /\ \A l \in C[b] : h[l] \in Nat
        BY <1>6, <1>9, <3>1
      <3>4. CASE x = NULL
        BY <1>7, <3>1, <3>2, <3>3, <3>4
      <3>5. CASE x # NULL
        BY <1>7, <1>16, <3>1, <3>2, <3>3, <3>5
      <3> QED BY <3>4, <3>5
    <2> QED BY <2>2, <2>3
  <1>21. Forward(D, h)'
    BY <1>19, <1>20 DEF Forward
  <1>22. Located(D, h, c)'
    BY <1>1, <1>2, <1>4, <1>6, <1>9 DEF Located, Standing, Holding, Writing, Inserting, Removing
  <1>23. Lost(D)'
    <2> SUFFICES ASSUME NEW k \in kept, k \in Lasting PROVE Present(D, k)'
      BY <1>1 DEF Lost
    <2>1. Present(C, k) /\ Bucket[k] \in Buckets /\ k # Key(c)
      BY <1>2, <1>5, TableAssumption DEF Lost, Owned, Memory, TypeOK
    <2> QED BY <1>2, <1>6, <1>13, <1>16, <2>1 DEF Present
  <1>24. Unexpired'
    BY <1>5, <1>12, <1>13 DEF Unexpired
  <1>25. ASSUME NEW e \in Buckets, NEW j \in D[e], node'[j].next # NULL
         PROVE  node'[node'[j].next].prev = j
    <2>1. j \in C[e] /\ j # i
      BY <1>6, <1>9
    <2>2. CASE j # q \/ q = NULL
      <3>1. node'[j].next = node[j].next /\ node[j].next \in C[e]
        BY <1>5, <1>6, <1>14, <1>25, <2>1, <2>2 DEF Forward
      <3>2. node[node[j].next].prev = j
        BY <1>1, <1>2, <1>25, <2>1, <3>1, AloneIs
      <3> QED BY <1>6, <1>13, <3>1, <3>2
    <2>3. CASE j = q /\ q # NULL
      <3>1. node'[j].next = x /\ x \in C[b]
        BY <1>7, <1>11, <1>25, <2>3
      <3>2. node[x].prev = q
        BY <1>1, <1>2, <1>25, <3>1, AloneIs
      <3> QED BY <1>6, <1>13, <2>3, <3>1, <3>2
    <2> QED BY <2>2, <2>3
  <1>26. ASSUME NEW e \in Buckets, head'[e] # NULL PROVE node'[head'[e]].prev = NULL
    <2>1. CASE e = b /\ q = NULL
      <3>1. head'[e] = x /\ x \in C[b]
        BY <1>7, <1>10, <1>26, <2>1
      <3>2. node[x].prev = q
        BY <1>1, <1>2, <1>26, <3>1, AloneIs
      <3> QED BY <1>6, <1>13, <2>1, <3>1, <3>2
    <2>2. CASE ~(e = b /\ q = NULL)
      <3>1. head'[e] = head[e] /\ head[e] \in C[e]
        BY <1>5, <1>10, <1>26, <2>2 DEF Forward
      <3>2. node[head[e]].prev = NULL
        BY <1>1, <1>2, <1>26, <3>1, AloneIs
      <3> QED BY <1>6, <1>13, <3>1, <3>2
    <2> QED BY <2>1, <2>2
  <1>27. ASSUME NEW e \in Buckets
         PROVE  size'[e] = IF e = b THEN Cardinality(D[e]) + 1 ELSE Cardinality(D[e])
    <2>1. size[e] = Cardinality(C[e])
      BY <1>1, <1>2, AloneIs
    <2>2. IsFiniteSet(C[b]) /\ Cardinality(C[b]) \in Nat
      BY <1>5, ChainsFinite
    <2>3. Cardinality(D[b]) = Cardinality(C[b]) - 1
      BY <1>9, <2>2, FS_RemoveElement
    <2> QED BY <1>1, <1>9, <2>1, <2>2, <2>3
  <1>28. Tidy(D, c, "free")
    BY <1>25, <1>26, <1>27 DEF Tidy
  <1>29. Shape(D, h)'
    BY <1>1, <1>2, <1>4, <1>17, <1>21, <1>22, <1>23, <1>24, <1>28, AloneShape
  <1> QED BY <1>29

LEMMA FreeShape ==
    ASSUME Owned, NEW C, NEW h, Shape(C, h), NEW c \in Clients, Free(c)
    PROVE  Shape(C, h)'
  <1>1. th[c].pc = "free" /\ Goto(c, "size") /\ head' = head /\ size' = size /\ node' = node /\ kept' = kept
        /\ freed' = freed \union {Cur(c)}
    BY DEF Free
  <1>2. /\ Active(c) /\ TypeOK /\ Slot(c) \in Buckets /\ th[c].stage = "del" /\ Deleter(C, c)
        /\ Key(c) \notin Lasting /\ Cur(c) \in Alloc /\ Cur(c) = th[c].cur
        /\ \A b \in Buckets : Cur(c) \notin C[b]
    BY <1>1, RemoverIs DEF Removing
  <1>3. Goes(c, "size", "del", th[c].cur, th[c].got)
    BY <1>1, <1>2, GotoIs DEF Places
  <1>4. Steps(c) /\ th'[c].pc = "size" /\ th'[c].stage = "del" /\ Cur(c)' = Cur(c) /\ Key(c)' = Key(c)
        /\ Slot(c)' = Slot(c)
    BY <1>2, <1>3 DEF Goes, Steps, Cur, Cmd, Key, Slot
  <1>5. Chains(C, h)'
    BY <1>1, <1>2 DEF Shape, Chains, Alloc
  <1>6. Forward(C, h)'
    BY <1>1 DEF Shape, Forward
  <1>7. Located(C, h, c)'
    BY <1>2, <1>4 DEF Located, Standing, Holding, Writing, Inserting, Removing
  <1>8. Lost(C)' /\ Unexpired'
    BY <1>1 DEF Shape, Lost, Present, Unexpired, Alloc
  <1>9. \A b \in Buckets : \A j \in C[b] : node[j].next # NULL => node[node[j].next].prev = j
    BY <1>1, <1>2, AloneIs
  <1>10. \A b \in Buckets : head[b] # NULL => node[head[b]].prev = NULL
    BY <1>1, <1>2, AloneIs
  <1>11. \A b \in Buckets : size[b] = IF b = Slot(c) THEN Cardinality(C[b]) + 1 ELSE Cardinality(C[b])
    BY <1>1, <1>2, AloneIs
  <1>12. Tidy(C, c, "size")
    BY <1>1, <1>9, <1>10, <1>11 DEF Tidy
  <1> QED BY <1>1, <1>2, <1>4, <1>5, <1>6, <1>7, <1>8, <1>12, AloneShape

LEMMA DecShape ==
    ASSUME Owned, NEW C, NEW h, Shape(C, h), NEW c \in Clients, Dec(c)
    PROVE  Shape(C, h)'
  <1> DEFINE ans == Plain(IF Cmd(c).op = "del" THEN "ok" ELSE "nokey")
  <1>1. th[c].pc = "dec" /\ Finish(c, ans) /\ head' = head /\ node' = node /\ freed' = freed
        /\ size' = [size EXCEPT ![Slot(c)] = th[c].reg - 1]
    BY DEF Dec
  <1>2. /\ Active(c) /\ TypeOK /\ Slot(c) \in Buckets /\ Key(c) \in Keys /\ Deleter(C, c) /\ Cmd(c).op # "make"
    BY <1>1, RemoverIs DEF Removing
  <1>3. ans \in Answers
    BY PlainIs
  <1> HIDE DEF ans
  <1>4. Goes(c, "idle", "check", NULL, NULL) /\ kept' = kept
    BY <1>1, <1>2, <1>3, FinishIs
  <1>5. Steps(c) /\ th'[c].pc = "idle" /\ th'[c].stage = "check"
    BY <1>4 DEF Goes
  <1>6. Chains(C, h)'
    BY <1>1 DEF Shape, Chains, Alloc
  <1>7. Forward(C, h)'
    BY <1>1 DEF Shape, Forward
  <1>8. Located(C, h, c)'
    BY <1>5 DEF Located, Standing, Holding, Writing, Inserting, Removing
  <1>9. Lost(C)' /\ Unexpired'
    BY <1>1, <1>4 DEF Shape, Lost, Present, Unexpired, Alloc
  <1>10. \A b \in Buckets : \A j \in C[b] : node[j].next # NULL => node[node[j].next].prev = j
    BY <1>1, <1>2, AloneIs
  <1>11. \A b \in Buckets : head[b] # NULL => node[head[b]].prev = NULL
    BY <1>1, <1>2, AloneIs
  <1>12. \A b \in Buckets : size'[b] = Cardinality(C[b])
    <2>1. \A b \in Buckets : size[b] = IF b = Slot(c) THEN Cardinality(C[b]) + 1 ELSE Cardinality(C[b])
      BY <1>1, <1>2, AloneIs
    <2>2. th[c].reg = size[Slot(c)] /\ \A b \in Buckets : Cardinality(C[b]) \in Nat
      BY <1>1, ChainsFinite DEF Shape, Counted
    <2>3. \A b \in Buckets : size'[b] = IF b = Slot(c) THEN th[c].reg - 1 ELSE size[b]
      BY <1>1, <1>2 DEF TypeOK
    <2> QED BY <1>2, <2>1, <2>2, <2>3
  <1>13. Tidy(C, c, "idle")
    BY <1>1, <1>10, <1>11, <1>12 DEF Tidy
  <1> QED BY <1>1, <1>2, <1>5, <1>6, <1>7, <1>8, <1>9, <1>13, AloneShape

-----------------------------------------------------------------------------
(* find_node comes to the nodes of C                                       *)

\* A function can be applied any number of times.
LEMMA Iterates ==
    ASSUME NEW T, NEW a \in T, NEW g \in [T -> T], NEW n \in Nat
    PROVE  \E f \in [0..n -> T] : \A i \in 0..n : f[i] = IF i = 0 THEN a ELSE g[f[i-1]]
  <1> DEFINE Runs(f, m) == f \in [0..m -> T] /\ \A i \in 0..m : f[i] = IF i = 0 THEN a ELSE g[f[i-1]]
             S == {m \in Nat : ~\E f : Runs(f, m)}
  <1>1. SUFFICES ASSUME S # {} PROVE FALSE
    OBVIOUS
  <1>2. PICK m \in S : \A k \in S : m <= k
    <2>1. S \in SUBSET Nat
      OBVIOUS
    <2> HIDE DEF S
    <2> QED BY <1>1, <2>1, LeastNat
  <1>3. m \in Nat /\ ~\E f : Runs(f, m)
    BY <1>2
  <1>4. CASE m = 0
    <2>1. Runs([i \in 0..0 |-> a], 0)
      OBVIOUS
    <2> HIDE DEF Runs
    <2> QED BY <1>3, <1>4, <2>1
  <1>5. CASE m # 0
    <2>1. m - 1 \in Nat /\ m - 1 \notin S
      BY <1>2, <1>3, <1>5
    <2>2. PICK f : Runs(f, m - 1)
      BY <2>1
    <2> DEFINE e == [i \in 0..m |-> IF i = m THEN g[f[m-1]] ELSE f[i]]
    <2>3. m - 1 \in 0..(m - 1) /\ f[m-1] \in T
      BY <1>3, <2>1, <2>2
    <2>4. \A i \in 0..m : i # m => i \in 0..(m - 1)
      BY <1>3
    <2>5. e \in [0..m -> T]
      BY <2>2, <2>3, <2>4
    <2>6. ASSUME NEW i \in 0..m PROVE e[i] = IF i = 0 THEN a ELSE g[e[i-1]]
      <3>1. CASE i = m
        BY <1>3, <1>5, <2>3, <3>1
      <3>2. CASE i # m /\ i # 0
        <4>1. i \in 0..(m - 1) /\ i - 1 \in 0..m /\ i - 1 # m
          BY <1>3, <3>2
        <4> QED BY <2>2, <3>2, <4>1
      <3>3. CASE i # m /\ i = 0
        BY <2>2, <2>4, <3>3
      <3> QED BY <3>1, <3>2, <3>3
    <2>7. Runs(e, m)
      BY <2>5, <2>6
    <2> HIDE DEF Runs, e
    <2> QED BY <1>3, <2>7
  <1> QED BY <1>4, <1>5

\* The nodes of S and the next ones.
Wider(S) == (UNION {{x, node[x].next} : x \in S}) \ {NULL}

LEMMA WiderIs ==
    ASSUME NEW S
    PROVE  \A y : y \in Wider(S) <=> y # NULL /\ \E x \in S : y = x \/ y = node[x].next
  BY DEF Wider

\* The nodes within i steps from the head.
Walks(r, b, n) ==
    /\ DOMAIN r = 0..n
    /\ \A i \in 0..n : r[i] = IF i = 0 THEN {head[b]} \ {NULL} ELSE Wider(r[i-1])

\* They are the highest ones, and more with each step until they are all.
LEMMA WalksAll ==
    ASSUME NEW C, NEW h, Chains(C, h), Forward(C, h), NEW b \in Buckets, NEW n \in Nat, NEW r, Walks(r, b, n),
           NEW k \in 0..n
    PROVE  /\ r[k] \subseteq C[b]
           /\ \A x \in r[k] : \A j \in C[b] : h[x] <= h[j] => j \in r[k]
           /\ r[k] = C[b] \/ Cardinality(r[k]) >= k + 1
  <1> DEFINE Good(i) == /\ r[i] \subseteq C[b]
                        /\ \A x \in r[i] : \A j \in C[b] : h[x] <= h[j] => j \in r[i]
                        /\ r[i] = C[b] \/ Cardinality(r[i]) >= i + 1
             S == {i \in 0..n : ~Good(i)}
  <1>1. SUFFICES ASSUME S # {} PROVE FALSE
    BY DEF S
  <1>2. PICK m \in S : \A i \in S : m <= i
    <2>1. S \in SUBSET Nat
      OBVIOUS
    <2> HIDE DEF S
    <2> QED BY <1>1, <2>1, LeastNat
  <1>3. m \in 0..n /\ ~Good(m)
    BY <1>2
  <1>4. /\ \A j \in C[b] : h[j] \in Nat /\ j # NULL /\ j \in Ids
        /\ \A j, l \in C[b] : h[j] = h[l] => j = l
        /\ IF head[b] = NULL THEN C[b] = {} ELSE head[b] \in C[b] /\ \A j \in C[b] : h[j] <= h[head[b]]
    BY ChainNodes, NullIs DEF Chains, Forward
  <1>5. CASE m = 0
    <2>1. r[0] = {head[b]} \ {NULL}
      BY <1>3, <1>5 DEF Walks
    <2>2. CASE head[b] = NULL
      BY <1>3, <1>4, <1>5, <2>1, <2>2
    <2>3. CASE head[b] # NULL
      <3>1. r[0] = {head[b]}
        BY <2>1, <2>3
      <3>2. Cardinality(r[0]) = 1
        BY <3>1, FS_Singleton
      <3>3. \A x \in r[0] : \A j \in C[b] : h[x] <= h[j] => j \in r[0]
        BY <1>4, <2>3, <3>1
      <3>4. Good(0)
        BY <1>4, <2>3, <3>1, <3>2, <3>3
      <3> QED BY <1>3, <1>5, <3>4
    <2> QED BY <2>2, <2>3
  <1>6. CASE m # 0
    <2>1. m - 1 \in 0..n /\ m - 1 \notin S
      BY <1>2, <1>3, <1>6
    <2>2. PICK s : s = r[m-1]
      OBVIOUS
    <2>3. /\ s \subseteq C[b] /\ \A x \in s : \A j \in C[b] : h[x] <= h[j] => j \in s
          /\ s = C[b] \/ Cardinality(s) >= m
      BY <1>3, <2>1, <2>2
    <2>4. r[m] = Wider(s)
      BY <1>3, <1>6, <2>2 DEF Walks
    <2>5. \A j \in C[b] : IF node[j].next = NULL THEN \A l \in C[b] : h[j] <= h[l]
                          ELSE /\ node[j].next \in C[b] /\ h[node[j].next] < h[j]
                               /\ \A l \in C[b] : h[l] < h[j] => h[l] <= h[node[j].next]
      BY DEF Forward
    <2>0. \A y : y \in r[m] <=> y # NULL /\ \E x \in s : y = x \/ y = node[x].next
      BY <2>4, WiderIs
    <2>6. r[m] \subseteq C[b] /\ s \subseteq r[m]
      BY <1>4, <2>0, <2>3, <2>5
    <2>7. ASSUME NEW x \in r[m], NEW j \in C[b], h[x] <= h[j] PROVE j \in r[m]
      <3>1. CASE x \in s
        BY <2>3, <2>6, <2>7, <3>1
      <3>2. CASE x \notin s
        <4>1. PICK z \in s : x = node[z].next
          BY <2>0, <3>2
        <4>2. CASE h[z] <= h[j]
          BY <2>3, <2>6, <4>2
        <4>3. CASE h[j] < h[z]
          <5>1. x # NULL /\ h[j] <= h[x]
            BY <1>4, <2>3, <2>5, <2>6, <4>1, <4>3
          <5>2. x = j
            BY <1>4, <2>6, <2>7, <5>1
          <5> QED BY <5>2
        <4> QED BY <1>4, <2>3, <4>2, <4>3
      <3> QED BY <3>1, <3>2
    <2>8. r[m] = C[b] \/ Cardinality(r[m]) >= m + 1
      <3>1. CASE s = C[b]
        BY <2>6, <3>1
      <3>2. CASE s # C[b]
        <4>1. Cardinality(s) >= m /\ IsFiniteSet(C[b])
          BY <2>3, <3>2, ChainsFinite
        <4>2. IsFiniteSet(s) /\ IsFiniteSet(r[m]) /\ Cardinality(s) \in Nat /\ Cardinality(r[m]) \in Nat
          BY <2>3, <2>6, <4>1, FS_Subset, FS_CardinalityType
        <4>3. s # {}
          <5> SUFFICES ASSUME s = {} PROVE FALSE
            OBVIOUS
          <5>1. Cardinality(s) = 0
            BY FS_EmptySet
          <5> QED BY <1>3, <1>6, <4>1, <5>1
        <4> DEFINE H == {h[x] : x \in s}
        <4>4. H \in SUBSET Nat /\ H # {}
          BY <1>4, <2>3, <4>3
        <4>5. PICK l \in H : \A k2 \in H : l <= k2
          <5> HIDE DEF H
          <5> QED BY <4>4, LeastNat
        <4>6. PICK z \in s : h[z] = l
          BY <4>5
        <4>7. \A x \in s : h[z] <= h[x]
          BY <4>5, <4>6
        <4>8. node[z].next # NULL
          <5> SUFFICES ASSUME node[z].next = NULL PROVE FALSE
            OBVIOUS
          <5>1. \A j \in C[b] : h[z] <= h[j]
            BY <2>3, <2>5
          <5>2. C[b] \subseteq s
            BY <2>3, <5>1
          <5> QED BY <2>3, <3>2, <5>2
        <4>9. h[node[z].next] < h[z] /\ node[z].next \in C[b]
          BY <2>3, <2>5, <4>8
        <4>10. node[z].next \notin s
          BY <1>4, <2>3, <4>7, <4>9
        <4>11. node[z].next \in r[m]
          BY <2>0, <4>8
        <4>12. Cardinality(s \union {node[z].next}) = Cardinality(s) + 1
          BY <4>2, <4>10, FS_AddElement
        <4>13. Cardinality(s \union {node[z].next}) <= Cardinality(r[m])
          <5>1. s \union {node[z].next} \subseteq r[m]
            BY <2>6, <4>11
          <5> QED BY <4>2, <5>1, FS_Subset
        <4> QED BY <1>3, <4>1, <4>2, <4>12, <4>13
      <3> QED BY <3>1, <3>2
    <2>9. Good(m)
      BY <2>6, <2>7, <2>8
    <2> QED BY <1>3, <2>9
  <1> QED BY <1>5, <1>6

LEMMA ChainIs ==
    ASSUME NEW C, NEW h, Chains(C, h), Forward(C, h), NEW b \in Buckets
    PROVE  Chain(b) = C[b]
  <1> DEFINE n == Cardinality(Ids)
             T == SUBSET C[b]
             a == {head[b]} \ {NULL}
             g == [S \in T |-> Wider(S)]
             Eq(r) == r = [i \in 0..n |-> IF i = 0 THEN {head[b]} \ {NULL} ELSE Wider(r[i-1])]
  <1>1. n \in Nat
    BY IdsFinite, FS_CardinalityType
  <1>2. a \in T
    BY DEF Forward
  <1>3. g \in [T -> T]
    <2>1. ASSUME NEW S \in T PROVE Wider(S) \in T
      <3>1. \A y : y \in Wider(S) <=> y # NULL /\ \E x \in S : y = x \/ y = node[x].next
        BY WiderIs
      <3>2. \A x \in S : node[x].next # NULL => node[x].next \in C[b]
        BY DEF Forward
      <3> QED BY <3>1, <3>2
    <2> QED BY <2>1
  <1>4. PICK f \in [0..n -> T] : \A i \in 0..n : f[i] = IF i = 0 THEN a ELSE g[f[i-1]]
    <2> HIDE DEF n, T, a, g
    <2> QED BY <1>1, <1>2, <1>3, Iterates
  <1>5. Eq(f)
    <2>1. ASSUME NEW i \in 0..n, i # 0 PROVE f[i] = Wider(f[i-1])
      <3>1. i - 1 \in 0..n
        BY <1>1, <2>1
      <3>2. f[i-1] \in T /\ f[i] = g[f[i-1]]
        BY <1>4, <2>1, <3>1
      <3> QED BY <3>2
    <2>2. f[0] = {head[b]} \ {NULL}
      <3>1. 0 \in 0..n
        BY <1>1
      <3>2. f[0] = a
        <4> HIDE DEF n, a, g
        <4> QED BY <1>4, <3>1
      <3> QED BY <3>2
    <2> HIDE DEF n
    <2> QED BY <1>4, <2>1, <2>2
  <1> DEFINE r == CHOOSE q : Eq(q)
  <1>6. Eq(r)
    <2> HIDE DEF Eq
    <2> QED BY <1>5
  <1>7. Chain(b) = r[n]
    BY DEF Chain, Wider
  <1>8. Walks(r, b, n)
    <2> HIDE DEF r, n
    <2> QED BY <1>6 DEF Walks
  <1> HIDE DEF r
  <1>9. /\ r[n] \subseteq C[b]
        /\ r[n] = C[b] \/ Cardinality(r[n]) >= n + 1
    <2>1. n \in 0..n
      BY <1>1
    <2> HIDE DEF n
    <2> QED BY <1>1, <1>8, <2>1, WalksAll
  <1>10. Cardinality(r[n]) <= n /\ Cardinality(r[n]) \in Nat
    <2>1. r[n] \subseteq Ids
      BY <1>9 DEF Chains
    <2> QED BY <2>1, IdsFinite, FS_Subset, FS_CardinalityType
  <1> HIDE DEF n
  <1> QED BY <1>1, <1>7, <1>9, <1>10

-----------------------------------------------------------------------------
(* The shape of the table when a command arrives, and at first             *)

LEMMA FoundIs ==
    ASSUME NEW C, NEW h, Chains(C, h), Forward(C, h), NEW k \in Keys
    PROVE  NodesOf(k) = {i \in C[Bucket[k]] : node[i].key = k} /\ (Found(k) <=> Present(C, k))
  <1>1. Chain(Bucket[k]) = C[Bucket[k]]
    BY ChainIs, TableAssumption
  <1> QED BY <1>1 DEF NodesOf, Found, Present

\* A command that is let in, and those that are under way, do not get in each other's way.
LEMMA LetIn ==
    ASSUME Owned, NEW C, NEW h, Shape(C, h), NEW c \in Clients, Call(c), Serial, NEW d \in Clients \ {c}, Active(d)
    PROVE  /\ ~Deleter(C, c)' /\ ~Deleter(C, d)
           /\ Slot(c)' = Slot(d) => ~(Inserter(C, c)' /\ Inserter(C, d))
  <1> PICK m : m = Cmd(c)'
    OBVIOUS
  <1>1. /\ th'[c].pc = "enter" /\ th'[c].stage = "check" /\ m \in Commands /\ node' = node /\ ~Clash(m, d)
    BY CallIs DEF Active
  <1>2. /\ m.key \in Keys /\ Key(c)' = m.key /\ Slot(c)' = Bucket[m.key] /\ Key(d) \in Keys /\ Slot(d) = Bucket[Key(d)]
    BY <1>1, PlaceIs DEF Commands, Key, Slot
  <1>3. Chains(C, h) /\ Forward(C, h)
    BY DEF Shape
  <1>4. /\ NodesOf(m.key) = {i \in C[Bucket[m.key]] : node[i].key = m.key} /\ (Found(m.key) <=> Present(C, m.key))
    BY <1>2, <1>3, FoundIs
  <1>5. /\ NodesOf(Key(d)) = {i \in C[Slot(d)] : node[i].key = Key(d)} /\ (Found(Key(d)) <=> Present(C, Key(d)))
    BY <1>2, <1>3, FoundIs
  <1>6. ~Deleter(C, c)'
    BY <1>1, <1>2, <1>4 DEF Deleter, Clash, Deletes
  <1>7. ~Deleter(C, d)
    BY <1>1, <1>5 DEF Deleter, Clash, Deletes, Key
  <1>8. Inserter(C, c)' => Inserts(m)
    BY <1>1, <1>2, <1>4 DEF Inserter, Inserts, Present
  <1>9. Inserter(C, d) => Inserts(Cmd(d)) \/ th[d].pc \in {"count", "inc"}
    BY <1>5 DEF Inserter, Inserts, Key
  <1> QED BY <1>1, <1>2, <1>6, <1>7, <1>8, <1>9 DEF Clash

LEMMA CallShape ==
    ASSUME Owned, NEW C, NEW h, Shape(C, h), NEW c \in Clients, Call(c), Serial
    PROVE  Shape(C, h)'
  <1>1. /\ th[c].pc = "idle" /\ th'[c].pc = "enter" /\ th'[c].stage = "check"
        /\ \A d \in Clients : d # c => th'[d] = th[d]
        /\ UNCHANGED <<head, size, node, lock, freed, obj, kept>>
    BY CallIs
  <1>2. Chains(C, h) /\ Forward(C, h) /\ Backward(C) /\ Counted(C) /\ Apart(C) /\ Lost(C) /\ Unexpired
        /\ \A d \in Clients : Located(C, h, d)
    BY DEF Shape
  <1>3. Chains(C, h)' /\ Forward(C, h)' /\ Unexpired' /\ Lost(C)'
    BY <1>1, <1>2 DEF Chains, Forward, Unexpired, Alloc, Lost, Present
  <1>4. Backward(C)'
    <2>1. \A j : Unhooking(j)' <=> Unhooking(j)
      BY <1>1 DEF Unhooking, Cur
    <2>2. \A e, j : Publishing(e, j) => Publishing(e, j)'
      BY <1>1 DEF Publishing, Cur, Slot, Key, Cmd
    <2>3. ASSUME NEW e \in Buckets, head'[e] # NULL
          PROVE  (node[head[e]].prev = NULL \/ Publishing(e, node[head[e]].prev))'
      <3>1. PICK q : q = node[head[e]].prev
        OBVIOUS
      <3>2. q = NULL \/ Publishing(e, q)
        BY <1>1, <1>2, <2>3, <3>1 DEF Backward
      <3>3. q = NULL \/ Publishing(e, q)'
        BY <2>2, <3>2
      <3> QED BY <1>1, <3>1, <3>3 DEF Publishing
    <2> QED BY <1>1, <1>2, <2>1, <2>3 DEF Backward
  <1>5. Counted(C)'
    <2>1. \A e : (Rising(e)' <=> Rising(e)) /\ (Falling(e)' <=> Falling(e))
      BY <1>1 DEF Rising, Falling, Slot, Key, Cmd
    <2>2. ASSUME NEW d \in Clients, th'[d].pc \in {"inc", "dec"}
          PROVE  th'[d].reg = size'[Slot(d)']
      BY <1>1, <1>2, <2>2 DEF Counted, Slot, Key, Cmd
    <2> QED BY <1>1, <1>2, <2>1, <2>2 DEF Counted
  <1>6. Apart(C)'
    <2> SUFFICES ASSUME NEW d \in Clients, NEW e \in Clients, d # e, Active(d)', Active(e)'
                 PROVE  /\ ~Deleter(C, d)'
                        /\ Slot(d)' = Slot(e)' => ~(Inserter(C, d)' /\ Inserter(C, e)')
      BY DEF Apart
    <2>1. \A x \in Clients : x # c =>
            /\ (Deleter(C, x)' <=> Deleter(C, x)) /\ (Inserter(C, x)' <=> Inserter(C, x)) /\ Slot(x)' = Slot(x)
            /\ (Active(x)' <=> Active(x))
      BY <1>1 DEF Deleter, Inserter, Present, Slot, Key, Cmd, Active
    <2>2. CASE d # c /\ e # c
      BY <1>2, <2>1, <2>2 DEF Apart
    <2>3. CASE d = c
      <3>1. e \in Clients \ {c} /\ Active(e)
        BY <2>1, <2>3
      <3>2. /\ ~Deleter(C, c)'
            /\ Slot(c)' = Slot(e) => ~(Inserter(C, c)' /\ Inserter(C, e))
        BY <3>1, LetIn
      <3> QED BY <2>1, <2>3, <3>1, <3>2
    <2>4. CASE e = c
      <3>1. d \in Clients \ {c} /\ Active(d)
        BY <2>1, <2>4
      <3>2. /\ ~Deleter(C, d)
            /\ Slot(c)' = Slot(d) => ~(Inserter(C, c)' /\ Inserter(C, d))
        BY <3>1, LetIn
      <3> QED BY <2>1, <2>4, <3>1, <3>2
    <2> QED BY <2>2, <2>3, <2>4
  <1>7. ASSUME NEW d \in Clients PROVE Located(C, h, d)'
    <2>1. CASE d = c
      BY <1>1, <2>1 DEF Located, Standing, Holding, Writing, Inserting, Removing
    <2>2. CASE d # c
      BY <1>1, <1>2, <2>2, StillLocated
    <2> QED BY <2>1, <2>2
  <1> QED BY <1>3, <1>4, <1>5, <1>6, <1>7 DEF Shape

LEMMA UnchangedShape ==
    ASSUME NEW C, NEW h, Shape(C, h), UNCHANGED <<head, size, node, freed, th, kept>>
    PROVE  Shape(C, h)'
  <1>1. \A d \in Clients : Located(C, h, d)'
    BY StillLocated DEF Shape
  <1>2. Chains(C, h)' /\ Forward(C, h)' /\ Backward(C)' /\ Counted(C)' /\ Apart(C)' /\ Lost(C)' /\ Unexpired'
    BY DEF Shape, Chains, Forward, Backward, Counted, Apart, Lost, Unexpired, Unhooking, Publishing, Rising, Falling,
           Active, Deleter, Inserter, Present, Alloc, Cur, Slot, Key, Cmd
  <1> QED BY <1>1, <1>2 DEF Shape

LEMMA InitShape ==
    ASSUME Init
    PROVE  \E C, h : Shape(C, h)
  <1> DEFINE I(b, j) == <<InitChain[b][j], 0>>
             At(i) == CHOOSE j \in DOMAIN InitChain[Bucket[i[1]]] : InitChain[Bucket[i[1]]][j] = i[1]
             C == [b \in Buckets |-> {I(b, j) : j \in DOMAIN InitChain[b]}]
             h == [i \in Ids |-> IF i[1] \in InitKeys THEN Len(InitChain[Bucket[i[1]]]) - At(i) ELSE 0]
  <1>1. ASSUME NEW b \in Buckets
        PROVE  /\ DOMAIN InitChain[b] = 1..Len(InitChain[b]) /\ Len(InitChain[b]) \in Nat
               /\ \A j \in DOMAIN InitChain[b] :
                    /\ InitChain[b][j] \in Keys /\ Bucket[InitChain[b][j]] = b
                    /\ \A l \in DOMAIN InitChain[b] : InitChain[b][j] = InitChain[b][l] => j = l
    BY TableAssumption
  <1>2. ASSUME NEW b \in Buckets, NEW j \in DOMAIN InitChain[b]
        PROVE  /\ I(b, j) \in Ids /\ I(b, j) \in Alloc /\ node[I(b, j)] # NULL
               /\ node[I(b, j)].key = InitChain[b][j] /\ node[I(b, j)].expired = FALSE
               /\ node[I(b, j)].next = IF j + 1 \in DOMAIN InitChain[b] THEN I(b, j + 1) ELSE NULL
               /\ node[I(b, j)].prev = IF j - 1 \in DOMAIN InitChain[b] THEN I(b, j - 1) ELSE NULL
               /\ h[I(b, j)] = Len(InitChain[b]) - j
    <2>1. /\ node[I(b, j)].key = InitChain[b][j] /\ node[I(b, j)].expired = FALSE
          /\ node[I(b, j)].next = IF j + 1 \in DOMAIN InitChain[b] THEN I(b, j + 1) ELSE NULL
          /\ node[I(b, j)].prev = IF j - 1 \in DOMAIN InitChain[b] THEN I(b, j - 1) ELSE NULL
      BY InitNodes
    <2>2. I(b, j) \in Ids /\ I(b, j) \in Alloc /\ node[I(b, j)] # NULL
      BY InitAlloc DEF Alloc
    <2>3. InitChain[b][j] \in InitKeys
      BY DEF InitKeys
    <2>4. I(b, j)[1] = InitChain[b][j] /\ Bucket[I(b, j)[1]] = b
      BY <1>1
    <2>5. At(I(b, j)) = j
      BY <1>1, <2>4
    <2> HIDE DEF At, I
    <2>6. h[I(b, j)] = Len(InitChain[b]) - j
      BY <2>2, <2>3, <2>4, <2>5
    <2> QED BY <2>1, <2>2, <2>6
  <1>3. \A b \in Buckets : C[b] = {I(b, j) : j \in DOMAIN InitChain[b]}
    OBVIOUS
  <1>4. h \in [Ids -> Nat]
    <2>1. ASSUME NEW i \in Ids, i[1] \in InitKeys PROVE Len(InitChain[Bucket[i[1]]]) - At(i) \in Nat
      <3>1. PICK b \in Buckets : \E j \in DOMAIN InitChain[b] : i[1] = InitChain[b][j]
        BY <2>1 DEF InitKeys
      <3>2. PICK j \in DOMAIN InitChain[b] : i[1] = InitChain[b][j]
        BY <3>1
      <3>3. Bucket[i[1]] = b
        BY <1>1, <3>2
      <3>4. At(i) = j
        BY <1>1, <3>2, <3>3
      <3> HIDE DEF At
      <3> QED BY <1>1, <3>3, <3>4
    <2> HIDE DEF At
    <2> QED BY <2>1
  <1>5. C \in [Buckets -> SUBSET Ids]
    BY <1>2
  <1> HIDE DEF C, h, At
  <1>6. ASSUME NEW b \in Buckets, NEW i \in C[b] PROVE \E j \in DOMAIN InitChain[b] : i = I(b, j)
    BY <1>3
  <1>7. ASSUME NEW b \in Buckets, NEW j \in DOMAIN InitChain[b] PROVE I(b, j) \in C[b]
    BY <1>3
  <1>8. ASSUME NEW b \in Buckets, NEW j \in DOMAIN InitChain[b], NEW l \in DOMAIN InitChain[b], I(b, j) = I(b, l)
        PROVE  j = l
    BY <1>1, <1>8
  <1> HIDE DEF I
  <1>9. \A c \in Clients : th[c].pc = "idle" /\ th[c].stage = "check"
    BY DEF Init
  <1>10. Chains(C, h)
    <2>1. freed \subseteq Alloc /\ freed = {}
      BY DEF Init
    <2>2. ASSUME NEW b \in Buckets, NEW i \in C[b] PROVE node[i] # NULL /\ i \notin freed /\ Bucket[node[i].key] = b
      <3>1. PICK x \in DOMAIN InitChain[b] : i = I(b, x)
        BY <1>6
      <3>2. node[I(b, x)] # NULL /\ node[I(b, x)].key = InitChain[b][x]
        BY <1>2
      <3>3. Bucket[InitChain[b][x]] = b
        BY <1>1
      <3> QED BY <2>1, <3>1, <3>2, <3>3
    <2>3. ASSUME NEW b \in Buckets, NEW i \in C[b], NEW l \in C[b], node[i].key = node[l].key \/ h[i] = h[l]
          PROVE  i = l
      <3>1. PICK x \in DOMAIN InitChain[b] : i = I(b, x)
        BY <1>6
      <3>2. PICK y \in DOMAIN InitChain[b] : l = I(b, y)
        BY <1>6
      <3>3. CASE node[i].key = node[l].key
        <4>1. InitChain[b][x] = InitChain[b][y]
          BY <1>2, <3>1, <3>2, <3>3
        <4>2. x = y
          BY <1>1, <4>1
        <4> QED BY <3>1, <3>2, <4>2
      <3>4. CASE h[i] = h[l]
        <4>1. Len(InitChain[b]) - x = Len(InitChain[b]) - y
          <5>1. h[I(b, x)] = Len(InitChain[b]) - x /\ h[I(b, y)] = Len(InitChain[b]) - y
            BY <1>2
          <5> QED BY <3>1, <3>2, <3>4, <5>1
        <4>2. x \in Nat /\ y \in Nat /\ Len(InitChain[b]) \in Nat
          BY <1>1
        <4>3. x = y
          BY <4>1, <4>2
        <4> QED BY <3>1, <3>2, <4>3
      <3> QED BY <2>3, <3>3, <3>4
    <2> QED BY <1>4, <1>5, <2>1, <2>2, <2>3 DEF Chains
  <1>11. ASSUME NEW b \in Buckets
         PROVE  IF head[b] = NULL THEN InitChain[b] = <<>>
                ELSE 1 \in DOMAIN InitChain[b] /\ head[b] = I(b, 1)
    <2>1. CASE InitChain[b] = <<>>
      BY <2>1 DEF Init
    <2>2. CASE InitChain[b] # <<>>
      <3>1. 1 \in DOMAIN InitChain[b]
        BY <1>1, <2>2, TableAssumption
      <3>2. head[b] = I(b, 1)
        BY <2>2 DEF Init, I
      <3>3. head[b] # NULL
        BY <1>2, <3>1, <3>2, NullIs
      <3> QED BY <3>1, <3>2, <3>3
    <2> QED BY <2>1, <2>2
  <1>12. Forward(C, h)
    <2>1. ASSUME NEW b \in Buckets
          PROVE  IF head[b] = NULL THEN C[b] = {} ELSE head[b] \in C[b] /\ \A j \in C[b] : h[j] <= h[head[b]]
      <3>1. CASE head[b] = NULL
        <4>1. DOMAIN InitChain[b] = {}
          BY <1>11, <3>1
        <4> QED BY <1>6, <3>1, <4>1
      <3>2. CASE head[b] # NULL
        <4>1. ASSUME NEW i \in C[b] PROVE h[i] <= h[head[b]]
          <5>1. PICK x \in DOMAIN InitChain[b] : i = I(b, x)
            BY <1>6
          <5>2. h[i] = Len(InitChain[b]) - x /\ h[head[b]] = Len(InitChain[b]) - 1
            <6>1. h[I(b, x)] = Len(InitChain[b]) - x
              BY <1>2
            <6>2. 1 \in DOMAIN InitChain[b] /\ head[b] = I(b, 1)
              BY <1>11, <3>2
            <6>3. h[I(b, 1)] = Len(InitChain[b]) - 1
              BY <1>2, <6>2
            <6> QED BY <5>1, <6>1, <6>2, <6>3
          <5> QED BY <1>1, <5>2
        <4> QED BY <1>7, <1>11, <3>2, <4>1
      <3> QED BY <3>1, <3>2
    <2>2. ASSUME NEW b \in Buckets, NEW i \in C[b]
          PROVE  IF node[i].next = NULL THEN \A l \in C[b] : h[i] <= h[l]
                 ELSE /\ node[i].next \in C[b] /\ h[node[i].next] < h[i]
                      /\ \A l \in C[b] : h[l] < h[i] => h[l] <= h[node[i].next]
      <3>1. PICK x \in DOMAIN InitChain[b] : i = I(b, x)
        BY <1>6
      <3>2. x \in 1..Len(InitChain[b]) /\ Len(InitChain[b]) \in Nat /\ h[i] = Len(InitChain[b]) - x
        BY <1>1, <1>2, <3>1
      <3>3. ASSUME NEW l \in C[b] PROVE \E y \in 1..Len(InitChain[b]) : h[l] = Len(InitChain[b]) - y
        <4>1. PICK y \in DOMAIN InitChain[b] : l = I(b, y)
          BY <1>6
        <4>2. h[I(b, y)] = Len(InitChain[b]) - y
          BY <1>2
        <4> QED BY <1>1, <4>1, <4>2
      <3>4. CASE x + 1 \in DOMAIN InitChain[b]
        <4>1. node[i].next = I(b, x + 1) /\ I(b, x + 1) # NULL /\ I(b, x + 1) \in C[b]
              /\ h[I(b, x + 1)] = Len(InitChain[b]) - (x + 1)
          BY <1>2, <1>7, <3>1, <3>4, NullIs
        <4>2. \A l \in C[b] : h[l] < h[i] => h[l] <= h[node[i].next]
          BY <3>2, <3>3, <4>1
        <4>3. h[node[i].next] < h[i]
          BY <3>2, <4>1
        <4> QED BY <4>1, <4>2, <4>3
      <3>5. CASE x + 1 \notin DOMAIN InitChain[b]
        <4>1. node[i].next = NULL
          BY <1>2, <3>1, <3>5
        <4>2. x = Len(InitChain[b])
          BY <1>1, <3>2, <3>5
        <4>3. \A l \in C[b] : h[i] <= h[l]
          BY <3>2, <3>3, <4>2
        <4> QED BY <4>1, <4>3
      <3> QED BY <3>4, <3>5
    <2> QED BY <2>1, <2>2 DEF Forward
  <1>13. Backward(C)
    <2>1. \A j : ~Unhooking(j)
      BY <1>9 DEF Unhooking
    <2>2. ASSUME NEW b \in Buckets, NEW i \in C[b], node[i].next # NULL PROVE node[node[i].next].prev = i
      <3>1. PICK x \in DOMAIN InitChain[b] : i = I(b, x)
        BY <1>6
      <3>2. x + 1 \in DOMAIN InitChain[b] /\ node[i].next = I(b, x + 1) /\ (x + 1) - 1 = x
        <4>1. node[I(b, x)].next = IF x + 1 \in DOMAIN InitChain[b] THEN I(b, x + 1) ELSE NULL
          BY <1>2
        <4>2. x \in Nat
          BY <1>1
        <4> QED BY <2>2, <3>1, <4>1, <4>2
      <3>3. node[I(b, x + 1)].prev = IF (x + 1) - 1 \in DOMAIN InitChain[b] THEN I(b, (x + 1) - 1) ELSE NULL
        BY <1>2, <3>2
      <3> QED BY <3>1, <3>2, <3>3
    <2>3. ASSUME NEW b \in Buckets, head[b] # NULL PROVE node[head[b]].prev = NULL
      <3>1. 1 \in DOMAIN InitChain[b] /\ head[b] = I(b, 1) /\ 1 - 1 \notin DOMAIN InitChain[b]
        BY <1>1, <1>11, <2>3
      <3>2. node[I(b, 1)].prev = IF 1 - 1 \in DOMAIN InitChain[b] THEN I(b, 1 - 1) ELSE NULL
        BY <1>2, <3>1
      <3> QED BY <3>1, <3>2
    <2> QED BY <2>1, <2>2, <2>3 DEF Backward
  <1>14. Counted(C)
    <2>1. \A b : ~Rising(b) /\ ~Falling(b)
      BY <1>9 DEF Rising, Falling
    <2>2. ASSUME NEW b \in Buckets PROVE size[b] = Cardinality(C[b])
      <3> DEFINE S == DOMAIN InitChain[b]
                 f == [j \in S |-> I(b, j)]
      <3>1. IsFiniteSet(S)
        BY <1>1, FS_Interval
      <3>2. f \in Bijection(S, C[b])
        <4>1. f \in [S -> C[b]] /\ \A j, l \in S : f[j] = f[l] => j = l
          BY <1>7, <1>8
        <4>2. \A i \in C[b] : \E j \in S : f[j] = i
          BY <1>6
        <4> HIDE DEF f, S
        <4>3. f \in Injection(S, C[b])
          BY <4>1 DEF Injection, IsInjective
        <4>4. f \in Surjection(S, C[b])
          BY <4>1, <4>2 DEF Surjection
        <4> QED BY <4>3, <4>4 DEF Bijection
      <3>3. ExistsBijection(S, C[b])
        BY <3>2 DEF ExistsBijection
      <3>4. Cardinality(C[b]) = Cardinality(S)
        <4> HIDE DEF S
        <4> QED BY <3>1, <3>3, FS_Bijection
      <3> QED BY <3>4 DEF Init
    <2> QED BY <1>9, <2>1, <2>2 DEF Counted
  <1>15. Apart(C)
    BY <1>9 DEF Apart, Active
  <1>16. \A c \in Clients : Located(C, h, c)
    BY <1>9 DEF Located, Standing, Holding, Writing, Inserting, Removing
  <1>17. Lost(C)
    <2> SUFFICES ASSUME NEW k \in InitKeys PROVE Present(C, k)
      BY DEF Lost, Init
    <2>1. PICK b \in Buckets : \E j \in DOMAIN InitChain[b] : k = InitChain[b][j]
      BY DEF InitKeys
    <2>2. PICK j \in DOMAIN InitChain[b] : k = InitChain[b][j]
      BY <2>1
    <2>3. I(b, j) \in C[b] /\ node[I(b, j)].key = InitChain[b][j] /\ Bucket[InitChain[b][j]] = b
      <3>1. I(b, j) \in C[b]
        BY <1>7
      <3>2. node[I(b, j)].key = InitChain[b][j]
        BY <1>2
      <3>3. Bucket[InitChain[b][j]] = b
        BY <1>1
      <3> QED BY <3>1, <3>2, <3>3
    <2> QED BY <2>2, <2>3 DEF Present
  <1>18. Unexpired
    <2> SUFFICES ASSUME NEW i \in Alloc PROVE ~node[i].expired
      BY DEF Unexpired
    <2>1. PICK b \in Buckets : \E j \in DOMAIN InitChain[b] : i = I(b, j)
      BY InitNodes DEF Alloc, I
    <2>2. PICK j \in DOMAIN InitChain[b] : i = I(b, j)
      BY <2>1
    <2>3. node[I(b, j)].expired = FALSE
      BY <1>2
    <2> QED BY <2>2, <2>3
  <1>19. Shape(C, h)
    BY <1>10, <1>12, <1>13, <1>14, <1>15, <1>16, <1>17, <1>18 DEF Shape
  <1> QED BY <1>19

-----------------------------------------------------------------------------
(* No thread of a serial run goes to memory that is not there              *)

\* A thread that touches a node touches one of the chain of its key, or its own.
LEMMA TouchesChain ==
    ASSUME Owned, NEW C, NEW h, Shape(C, h), NEW c \in Clients, Active(c)
    PROVE  Touched(c) \subseteq Alloc \ freed
  <1>1. /\ TypeOK /\ Slot(c) \in Buckets /\ Located(C, h, c)
        /\ C[Slot(c)] \subseteq Alloc \ freed
    <2>1. TypeOK /\ Slot(c) \in Buckets /\ Located(C, h, c)
      BY ShapePlace, PlaceIs
    <2>2. C \in [Buckets -> SUBSET Ids] /\ \A i \in C[Slot(c)] : node[i] # NULL /\ i \notin freed
      BY <2>1 DEF Shape, Chains
    <2>3. C[Slot(c)] \subseteq Ids
      BY <2>1, <2>2
    <2> QED BY <2>1, <2>2, <2>3 DEF Alloc
  <1>2. CASE th[c].pc \in {"fresh", "take", "auth", "read", "lock", "setv", "setr", "fixw", "setw", "fixr",
                           "expire"}
    <2>1. Touched(c) = {Cur(c)}
      BY <1>2 DEF Touched
    <2>2. Cur(c) \in C[Slot(c)]
      BY <1>2, ShapePlace DEF Standing, Holding, Writing
    <2> QED BY <1>1, <2>1, <2>2
  <1>3. CASE th[c].pc = "free"
    <2>1. Touched(c) = {Cur(c)}
      BY <1>3 DEF Touched
    <2>2. Cur(c) \in Alloc /\ Cur(c) \notin freed
      BY <1>1, <1>3, RemoverIs DEF Located, Removing
    <2> QED BY <2>1, <2>2
  <1>4. CASE th[c].pc = "walk"
    <2>1. CASE Cur(c) # NULL
      <3>1. Touched(c) = {Cur(c)}
        BY <1>4, <2>1 DEF Touched
      <3>2. Cur(c) \in C[Slot(c)]
        BY <1>1, <1>4, <2>1 DEF Located
      <3> QED BY <1>1, <3>1, <3>2
    <2>2. CASE Cur(c) = NULL /\ th[c].stage = "del"
      <3>1. Present(C, Key(c)) /\ Before(C, h, c) /\ Slot(c) = Bucket[Key(c)]
        BY <1>1, <1>4, <2>2, ShapePlace DEF Located
      <3> QED BY <2>2, <3>1 DEF Present, Before
    <2>3. CASE Cur(c) = NULL /\ th[c].stage # "del"
      <3>1. Touched(c) = {}
        BY <1>4, <2>3 DEF Touched
      <3> QED BY <3>1
    <2> QED BY <2>1, <2>2, <2>3
  <1>5. CASE th[c].pc = "back"
    <2>1. Touched(c) = {head[Slot(c)]}
      BY <1>5 DEF Touched
    <2>2. head[Slot(c)] # NULL
      BY <1>1, <1>5 DEF Located
    <2>3. head[Slot(c)] \in C[Slot(c)]
      BY <1>1, <2>2 DEF Shape, Forward
    <2> QED BY <1>1, <2>1, <2>3
  <1>6. CASE th[c].pc = "unprev"
    <2>1. Cur(c) \in C[Slot(c)]
      BY <1>6, RemoverIs DEF Removing
    <2>2. Touched(c) = {Cur(c), node[Cur(c)].next} \ {NULL}
      <3>1. Cur(c) \notin freed
        BY <1>1, <2>1
      <3> QED BY <1>6, <3>1 DEF Touched
    <2>3. node[Cur(c)].next = NULL \/ node[Cur(c)].next \in C[Slot(c)]
      BY <1>1, <2>1 DEF Shape, Forward
    <2> QED BY <1>1, <2>1, <2>2, <2>3
  <1>7. CASE th[c].pc = "unhook"
    <2>1. Cur(c) \in C[Slot(c)]
      BY <1>7, RemoverIs DEF Removing
    <2>2. Touched(c) = {Cur(c), node[Cur(c)].prev} \ {NULL}
      <3>1. Cur(c) \notin freed
        BY <1>1, <2>1
      <3> QED BY <1>7, <3>1 DEF Touched
    <2>3. node[Cur(c)].prev = NULL \/ node[Cur(c)].prev \in C[Slot(c)]
      BY <1>7, PrevIs
    <2> QED BY <1>1, <2>1, <2>2, <2>3
  <1>8. CASE th[c].pc \notin {"fresh", "take", "auth", "read", "lock", "setv", "setr", "fixw", "setw", "fixr",
                              "expire", "free", "walk", "back", "unprev", "unhook"}
    <2>1. Touched(c) = {}
      BY <1>8 DEF Touched
    <2> QED BY <2>1
  <1> QED BY <1>2, <1>3, <1>4, <1>5, <1>6, <1>7, <1>8

LEMMA StaysIn ==
    ASSUME Owned, NEW C, NEW h, Shape(C, h), NEW c \in Clients
    PROVE  ~Strays(c)
  <1>1. CASE th[c].pc = "idle"
    <2>1. Touched(c) = {}
      BY <1>1 DEF Touched
    <2> QED BY <1>1, <2>1 DEF Strays
  <1>2. CASE Active(c)
    <2>1. Touched(c) \intersect (freed \union {NULL}) = {}
      BY <1>2, TouchesChain, NullIs DEF Alloc
    <2>2. ASSUME th[c].pc \in {"show", "load", "push"}, th[c].got \in FreedValues PROVE FALSE
      <3>1. PICK i \in freed : node[i].val = th[c].got
        BY <2>2 DEF FreedValues
      <3>2. i \in Alloc
        BY DEF Shape, Chains
      <3>3. i = Cur(c)
        BY <2>2, <3>1, <3>2 DEF Owned, Values, Taken
      <3>4. Cur(c) \in C[Slot(c)] /\ Slot(c) \in Buckets
        BY <1>2, <2>2, ShapePlace DEF Standing, Holding, Writing
      <3>5. Cur(c) \notin freed
        BY <3>4 DEF Shape, Chains
      <3> QED BY <3>3, <3>5
    <2> QED BY <2>1, <2>2 DEF Strays
  <1> QED BY <1>1, <1>2 DEF Active

Shaped == \E C, h : Shape(C, h)

LEMMA AccessShape ==
    ASSUME Owned, Shaped, NEW c \in Clients, Run(c)
    PROVE  Shaped'
  <1>1. PICK C, h : Shape(C, h)
    BY DEF Shaped
  <1>2. ~Strays(c) /\ Access(c)
    BY DEF Run
  <1>3. CASE \/ Enter(c) \/ WalkEnd(c) \/ Walk(c)
             \/ Fresh(c) \/ TakeList(c) \/ Check(c) \/ Read(c) \/ Show(c)
    <2>1. Shape(C, h)'
      BY <1>1, <1>2, <1>3, EnterShape, WalkEndShape, WalkShape, FreshShape, TakenShape, CheckShape, ShowShape
    <2> QED BY <2>1 DEF Shaped
  <1>4. CASE \/ Lock(c) \/ SetV(c) \/ SetR(c) \/ FixW(c) \/ SetW(c) \/ FixR(c)
             \/ Expire(c) \/ Load(c) \/ Push(c)
    <2>1. Shape(C, h)'
      BY <1>1, <1>4, LockShape, WriteShape, ExpireShape, TakenShape, PushShape
    <2> QED BY <2>1 DEF Shaped
  <1>5. CASE Test(c) \/ Link(c) \/ Back(c) \/ Count(c) \/ Inc(c)
    <2>1. Shape(C, h)'
      BY <1>1, <1>5, TestShape, LinkShape, BackShape, CountShape, IncShape
    <2> QED BY <2>1 DEF Shaped
  <1>6. CASE Publish(c)
    BY <1>1, <1>6, PublishShape DEF Shaped
  <1>7. CASE Unprev(c) \/ Free(c) \/ Dec(c)
    <2>1. Shape(C, h)'
      BY <1>1, <1>7, UnprevShape, FreeShape, DecShape
    <2> QED BY <2>1 DEF Shaped
  <1>8. CASE Unhook(c)
    <2>1. PICK D : Shape(D, h)'
      BY <1>1, <1>8, UnhookShape
    <2> QED BY <2>1 DEF Shaped
  <1> QED BY <1>2, <1>3, <1>4, <1>5, <1>6, <1>7, <1>8 DEF Access

LEMMA ShapedNext ==
    ASSUME Owned, Shaped, [Next]_vars, Serial
    PROVE  Shaped' /\ (NoFault => NoFault')
  <1>1. PICK C, h : Shape(C, h)
    BY DEF Shaped
  <1>2. ASSUME NEW c \in Clients, fault = "none" /\ Call(c) /\ UNCHANGED fault PROVE Shaped' /\ (NoFault => NoFault')
    <2>1. Shape(C, h)'
      BY <1>1, <1>2, CallShape
    <2> QED BY <1>2, <2>1 DEF Shaped, NoFault
  <1>3. ASSUME NEW c \in Clients, Run(c) PROVE Shaped' /\ (NoFault => NoFault')
    BY <1>3, AccessShape DEF Run, NoFault
  <1>4. ASSUME NEW c \in Clients, Stray(c) PROVE FALSE
    BY <1>1, <1>4, StaysIn DEF Stray, Crash
  <1>5. CASE Over \/ UNCHANGED vars
    <2>1. UNCHANGED <<head, size, node, freed, th, kept>> /\ fault' = fault
      BY <1>5 DEF Over, vars
    <2>2. Shape(C, h)'
      BY <1>1, <2>1, UnchangedShape
    <2> QED BY <2>1, <2>2 DEF Shaped, NoFault
  <1> QED BY <1>2, <1>3, <1>4, <1>5 DEF Next

\* The invariant of serial runs.
Sound == Owned /\ Shaped /\ NoFault

LEMMA SoundAlways ==
    ASSUME Serial
    PROVE  Spec => []Sound
  <1>1. Init => Sound
    BY InitOwned, InitShape DEF Sound, Shaped, NoFault, Init
  <1>2. Sound /\ [Next]_vars => Sound'
    BY OwnedNext, ShapedNext DEF Sound
  <1> QED BY <1>1, <1>2, PTL DEF Spec

-----------------------------------------------------------------------------
(* What holds in serial runs                                               *)

\* NoFault: if commands that delete or insert run without the others that Clash names, no
\* thread of find_node, Hash::set, Hash::del or push_front goes through a null pointer or to
\* freed memory, in whatever order the threads of the other commands run.
THEOREM NothingStrays == Serial => (Spec => []NoFault)
  <1> SUFFICES ASSUME Serial PROVE Spec => []NoFault
    OBVIOUS
  <1>1. Sound => NoFault
    BY DEF Sound
  <1> QED BY <1>1, SoundAlways, PTL

\* ChainsOK: whenever nobody is inside Hash::set or Hash::del, what find_node reaches from
\* each head is linked both ways, holds each key once, in its bucket, and is counted by size.
THEOREM ChainsSound == Serial => (Spec => []ChainsOK)
  <1> SUFFICES ASSUME Serial PROVE Spec => []ChainsOK
    OBVIOUS
  <1>1. ASSUME Sound PROVE ChainsOK
    <2> SUFFICES ASSUME Settled, NEW b \in Buckets PROVE WellLinked(b)
      BY DEF ChainsOK
    <2>1. PICK C, h : Shape(C, h)
      BY <1>1 DEF Sound, Shaped
    <2>2. Chains(C, h) /\ Forward(C, h) /\ Backward(C) /\ Counted(C)
      BY <2>1 DEF Shape
    <2>3. Chain(b) = C[b]
      BY <2>2, ChainIs
    <2>4. /\ ~Rising(b) /\ ~Falling(b)
          /\ \A i : ~Unhooking(i) /\ ~Publishing(b, i)
      BY DEF Settled, Rising, Falling, Unhooking, Publishing
    <2>5. size[b] = Cardinality(C[b])
      BY <2>2, <2>4 DEF Counted
    <2>6. head[b] # NULL => node[head[b]].prev = NULL
      BY <2>2, <2>4 DEF Backward
    <2>7. ASSUME NEW i \in C[b]
          PROVE  /\ i \notin freed /\ Bucket[node[i].key] = b
                 /\ node[i].next # NULL => node[node[i].next].prev = i
                 /\ \A j \in C[b] : node[i].key = node[j].key => i = j
      BY <2>2, <2>4 DEF Chains, Backward
    <2> QED BY <2>3, <2>5, <2>6, <2>7 DEF WellLinked
  <1> QED BY <1>1, SoundAlways, PTL

\* KeptKeys: a key whose make was answered OK is found ever after, if nobody sends a del or an
\* expire for it: no insertion at the head of a chain is overwritten by another one.
THEOREM KeysKept == Serial => (Spec => []KeptKeys)
  <1> SUFFICES ASSUME Serial PROVE Spec => []KeptKeys
    OBVIOUS
  <1>1. ASSUME Sound PROVE KeptKeys
    <2> SUFFICES ASSUME NEW k \in kept \intersect Lasting PROVE Found(k)
      BY DEF KeptKeys
    <2>1. PICK C, h : Shape(C, h)
      BY <1>1 DEF Sound, Shaped
    <2>2. Present(C, k) /\ k \in Keys
      BY <2>1 DEF Shape, Lost, Lasting
    <2> QED BY <2>1, <2>2, FoundIs DEF Shape
  <1> QED BY <1>1, SoundAlways, PTL

=============================================================================
