---------------------------- MODULE PersistProofs ----------------------------
(***************************************************************************)
(* Theorems about the lists of Persist, for any number of clients, keys    *)
(* and commands, with saves, crashes and restarts at any moment.           *)
(*                                                                         *)
(* R gives each key the sequence of the nodes of its list, from the head   *)
(* on.  Inv says how the pointers follow it, and how far a push is.        *)
(***************************************************************************)
EXTENDS Persist, SequenceTheorems, FiniteSetTheorems, WellFoundedInduction, TLAPS

-----------------------------------------------------------------------------
(* Rings                                                                   *)

\* The nodes r of nd are linked in a ring.
Turns(nd, r) ==
    \A i \in 1..Len(r) :
        /\ nd[r[i]].next = r[IF i = Len(r) THEN 1 ELSE i + 1]
        /\ nd[r[i]].prev = r[IF i = 1 THEN Len(r) ELSE i - 1]

Once(r) == \A i, j \in 1..Len(r) : r[i] = r[j] => i = j
HeadOf(r) == IF r = <<>> THEN Nil ELSE r[1]

\* Ring, for any nodes.
Around(nd, h) ==
    LET from[i \in 1..Cardinality(DOMAIN nd)] == IF i = 1 THEN h ELSE nd[from[i - 1]].next
        ends == {i \in DOMAIN from : nd[from[i]].next = h}
    IN  IF h = Nil THEN <<>>
        ELSE [i \in 1..Min(ends \union {Cardinality(DOMAIN nd)}) |-> from[i]]

LEMMA LeastNat ==
    ASSUME NEW T \in SUBSET Nat, T # {}
    PROVE  \E m \in T : \A n \in T : m <= n
  <1> DEFINE R == OpToRel(<, Nat)
  <1>1. \A x, y \in Nat : <<x, y>> \in R <=> x < y
    BY DEF OpToRel
  <1>2. \E m \in T : \A n \in T : ~(<<n, m>> \in R)
    <2> HIDE DEF R
    <2>1. IsWellFoundedOn(R, Nat)
      BY NatLessThanWellFounded DEF R
    <2> QED BY <2>1, WFMin
  <1> HIDE DEF R
  <1>3. PICK m \in T : \A n \in T : ~(<<n, m>> \in R)
    BY <1>2
  <1>4. ASSUME NEW n \in T
        PROVE  m <= n
    <2>1. m \in Nat /\ n \in Nat /\ ~(n < m)
      BY <1>1, <1>3
    <2> QED BY <2>1
  <1> QED BY <1>4

\* The first n nodes from h on.
Goes(f, nd, h, n) == f = [i \in 1..n |-> IF i = 1 THEN h ELSE nd[f[i - 1]].next]

LEMMA GoesIs ==
    ASSUME NEW f, NEW nd, NEW h, NEW n \in Nat, Goes(f, nd, h, n)
    PROVE  DOMAIN f = 1..n /\ \A i \in 1..n : f[i] = IF i = 1 THEN h ELSE nd[f[i - 1]].next
  <1> DEFINE g == [i \in 1..n |-> IF i = 1 THEN h ELSE nd[f[i - 1]].next]
  <1>1. f = g
    BY DEF Goes
  <1>2. DOMAIN g = 1..n /\ \A i \in 1..n : g[i] = IF i = 1 THEN h ELSE nd[f[i - 1]].next
    OBVIOUS
  <1> HIDE DEF g
  <1> QED BY <1>1, <1>2

LEMMA GoesExists ==
    ASSUME NEW nd, NEW h, NEW n \in Nat
    PROVE  \E f : Goes(f, nd, h, n)
  <1> DEFINE S == {m \in Nat : ~\E f : Goes(f, nd, h, m)}
  <1>1. SUFFICES ASSUME S # {} PROVE FALSE
    OBVIOUS
  <1>2. PICK m \in S : \A k \in S : m <= k
    <2>1. S \in SUBSET Nat
      OBVIOUS
    <2> HIDE DEF S
    <2> QED BY <1>1, <2>1, LeastNat
  <1>3. m \in Nat /\ ~\E f : Goes(f, nd, h, m)
    BY <1>2
  <1>4. CASE m = 0
    <2> DEFINE f == [i \in 1..0 |-> h]
    <2>1. f = [i \in 1..0 |-> IF i = 1 THEN h ELSE nd[f[i - 1]].next]
      OBVIOUS
    <2> HIDE DEF f
    <2>2. Goes(f, nd, h, 0)
      BY <2>1 DEF Goes
    <2> QED BY <1>3, <1>4, <2>2
  <1>5. CASE m # 0
    <2>1. m - 1 \in Nat /\ ~(m <= m - 1)
      BY <1>3, <1>5
    <2>2. PICK f : Goes(f, nd, h, m - 1)
      BY <1>2, <2>1
    <2>3. DOMAIN f = 1..(m - 1) /\ \A i \in 1..(m - 1) : f[i] = IF i = 1 THEN h ELSE nd[f[i - 1]].next
      BY <2>1, <2>2, GoesIs
    <2> DEFINE g == [i \in 1..m |-> IF i = m THEN (IF m = 1 THEN h ELSE nd[f[m - 1]].next) ELSE f[i]]
    <2>4. DOMAIN g = 1..m /\ g[m] = (IF m = 1 THEN h ELSE nd[f[m - 1]].next) /\ \A i \in 1..(m - 1) : g[i] = f[i]
      BY <1>3, <1>5
    <2>5. g = [i \in 1..m |-> g[i]]
      OBVIOUS
    <2> DEFINE w == [i \in 1..m |-> IF i = 1 THEN h ELSE nd[g[i - 1]].next]
    <2> HIDE DEF g
    <2>6. DOMAIN w = 1..m /\ w = [i \in 1..m |-> w[i]]
      OBVIOUS
    <2>7. ASSUME NEW i \in 1..m PROVE g[i] = w[i]
      <3>1. w[i] = IF i = 1 THEN h ELSE nd[g[i - 1]].next
        OBVIOUS
      <3>2. CASE i = 1 /\ m = 1
        BY <2>4, <3>1, <3>2
      <3>3. CASE i = 1 /\ m # 1
        <4>1. 1 \in 1..(m - 1)
          BY <1>3, <1>5, <3>3
        <4> QED BY <2>3, <2>4, <3>1, <3>3, <4>1
      <3>4. CASE i # 1 /\ i = m
        <4>1. m - 1 \in 1..(m - 1) /\ m # 1
          BY <1>3, <1>5, <3>4
        <4> QED BY <2>4, <3>1, <3>4, <4>1
      <3>5. CASE i # 1 /\ i # m
        <4>1. i \in 1..(m - 1) /\ i - 1 \in 1..(m - 1)
          BY <1>3, <1>5, <3>5
        <4> QED BY <2>3, <2>4, <3>1, <3>5, <4>1
      <3> QED BY <3>2, <3>3, <3>4, <3>5
    <2> HIDE DEF w
    <2>8. g = w
      BY <2>4, <2>5, <2>6, <2>7
    <2>9. Goes(g, nd, h, m)
      BY <2>8 DEF Goes, w
    <2> QED BY <1>3, <2>9
  <1> QED BY <1>4, <1>5

\* Whoever follows a ring finds its nodes, in order.
Follows(f, nd, n, r) ==
    Goes(f, nd, r[1], n) /\ Turns(nd, r) /\ n \in Nat /\ Len(r) \in Nat /\ Len(r) <= n

LEMMA GoesRound ==
    ASSUME NEW f, NEW nd, NEW n, NEW r, Follows(f, nd, n, r)
    PROVE  \A i \in 1..Len(r) : f[i] = r[i]
  <1> USE DEF Follows
  <1> DEFINE Bad == {i \in 1..Len(r) : f[i] # r[i]}
  <1>1. SUFFICES ASSUME Bad # {} PROVE FALSE
    OBVIOUS
  <1>2. PICK m \in Bad : \A i \in Bad : m <= i
    <2>1. Bad \in SUBSET Nat
      OBVIOUS
    <2> HIDE DEF Bad
    <2> QED BY <1>1, <2>1, LeastNat
  <1>3. m \in 1..Len(r) /\ m \in 1..n /\ f[m] # r[m] /\ Len(r) \in Nat
    BY <1>2
  <1>4. f[m] = IF m = 1 THEN r[1] ELSE nd[f[m - 1]].next
    BY <1>3, GoesIs
  <1>5. CASE m # 1
    <2>1. m - 1 \in 1..Len(r) /\ ~(m <= m - 1) /\ m - 1 # Len(r) /\ (m - 1) + 1 = m
      BY <1>3, <1>5
    <2>2. f[m - 1] = r[m - 1]
      BY <1>2, <2>1
    <2>3. nd[r[m - 1]].next = r[m]
      BY <2>1 DEF Turns
    <2> QED BY <1>3, <1>4, <1>5, <2>2, <2>3
  <1> QED BY <1>3, <1>4, <1>5

\* A sequence without repetition is not longer than its elements are many.
LEMMA OnceShort ==
    ASSUME NEW S, IsFiniteSet(S), NEW r \in Seq(S), Once(r)
    PROVE  Len(r) <= Cardinality(S) /\ Cardinality(S) \in Nat
  <1>1. Len(r) \in Nat /\ r \in [1..Len(r) -> S]
    OBVIOUS
  <1>2. IsFiniteSet(1..Len(r)) /\ Cardinality(1..Len(r)) = Len(r)
    <2>1. Len(r) \in Int /\ 1 \in Int
      BY <1>1
    <2>2. Cardinality(1..Len(r)) = IF 1 > Len(r) THEN 0 ELSE Len(r) - 1 + 1
      BY <2>1, FS_Interval
    <2> QED BY <1>1, <2>1, <2>2, FS_Interval
  <1>3. r \in Injection(1..Len(r), S)
    BY <1>1 DEF Injection, IsInjective, Once
  <1>4. Cardinality(1..Len(r)) <= Cardinality(S)
    BY <1>2, <1>3, FS_Injection
  <1> QED BY <1>2, <1>4, FS_CardinalityType

LEMMA AroundIs ==
    ASSUME NEW nd, IsFiniteSet(DOMAIN nd), Nil \notin DOMAIN nd,
           NEW r \in Seq(DOMAIN nd), Once(r), Turns(nd, r)
    PROVE  Around(nd, HeadOf(r)) = r
  <1> DEFINE n == Cardinality(DOMAIN nd)
             h == HeadOf(r)
             from == CHOOSE f : Goes(f, nd, h, n)
             ends == {i \in DOMAIN from : nd[from[i]].next = h}
             m == Min(ends \union {n})
  <1>1. n \in Nat /\ Len(r) \in Nat /\ Len(r) <= n
    BY OnceShort
  <1>2. Goes(from, nd, h, n)
    <2>1. \E f : Goes(f, nd, h, n)
      BY <1>1, GoesExists
    <2> QED BY <2>1
  <1>3. Around(nd, h) = IF h = Nil THEN <<>> ELSE [i \in 1..m |-> from[i]]
    BY DEF Around, Goes
  <1>4. CASE r = <<>>
    BY <1>3, <1>4 DEF HeadOf
  <1>5. CASE r # <<>>
    <2>1. h = r[1] /\ 1 \in 1..Len(r) /\ Len(r) \in 1..Len(r) /\ h # Nil
      BY <1>5 DEF HeadOf
    <2>9. n \in Nat /\ Len(r) \in Nat /\ Len(r) <= n /\ Goes(from, nd, h, n)
      BY <1>1, <1>2
    <2> HIDE DEF from, h, n
    <2>2. \A i \in 1..Len(r) : from[i] = r[i]
      <3>1. Follows(from, nd, n, r)
        BY <2>1, <2>9 DEF Follows
      <3> QED BY <3>1, GoesRound
    <2>3. DOMAIN from = 1..n
      BY <1>1, <1>2, GoesIs
    <2>4. Len(r) \in ends
      BY <1>1, <2>1, <2>2, <2>3 DEF Turns
    <2>5. ASSUME NEW i \in ends \union {n} PROVE Len(r) <= i
      <3>1. CASE i \in 1..Len(r) /\ i # Len(r) /\ i \in ends
        <4>1. nd[r[i]].next = r[i + 1] /\ i + 1 \in 1..Len(r) /\ i + 1 # 1
          BY <3>1 DEF Turns
        <4>2. nd[from[i]].next = h
          BY <3>1
        <4> QED BY <2>1, <2>2, <3>1, <4>1, <4>2 DEF Once
      <3>2. i \in 1..n \/ i = n
        BY <2>3
      <3>3. CASE i = n
        BY <1>1, <3>3
      <3> QED BY <1>1, <2>3, <3>1, <3>2, <3>3
    <2>6. m = Len(r)
      <3>1. m = CHOOSE x \in ends \union {n} : \A y \in ends \union {n} : x =< y
        BY DEF Min
      <3>2. ends \union {n} \subseteq Nat
        BY <1>1, <2>3
      <3> HIDE DEF ends
      <3>3. \E x \in ends \union {n} : \A y \in ends \union {n} : x =< y
        BY <2>4, <2>5
      <3>4. m \in ends \union {n} /\ \A y \in ends \union {n} : m =< y
        BY <3>1, <3>3
      <3> HIDE DEF m
      <3>5. m <= Len(r) /\ Len(r) <= m /\ m \in Nat
        BY <2>4, <2>5, <3>2, <3>4
      <3> QED BY <1>1, <3>5
    <2> HIDE DEF m
    <2>7. [i \in 1..m |-> from[i]] = [i \in 1..Len(r) |-> r[i]]
      BY <2>2, <2>6
    <2>8. r = [i \in 1..Len(r) |-> r[i]]
      OBVIOUS
    <2> QED BY <1>3, <2>1, <2>7, <2>8 DEF h
  <1> QED BY <1>4, <1>5

LEMMA RingAround == \A k : Ring(k) = Around(node, list[k].head)
  BY DEF Ring, Around

LEMMA RingAroundNext == \A k : Ring(k)' = Around(node', list'[k].head)
  BY DEF Ring, Around

\* There is a name for a new node.
LEMMA NewIs ==
    ASSUME IsFiniteSet(DOMAIN node)
    PROVE  New \in Ids /\ New \notin DOMAIN node /\ New \in Nat /\ New # Nil
  <1> DEFINE n == Cardinality(DOMAIN node)
  <1>1. n \in Nat
    BY FS_CardinalityType
  <1>2. \E i \in Ids : i \notin DOMAIN node
    <2>1. SUFFICES ASSUME Ids \subseteq DOMAIN node PROVE FALSE
      OBVIOUS
    <2>2. n + 1 \in Int /\ 1 \in Int /\ ~(1 > n + 1) /\ Ids = 1..(n + 1)
      BY <1>1 DEF Ids
    <2> HIDE DEF n
    <2>3. Cardinality(1..(n + 1)) = IF 1 > n + 1 THEN 0 ELSE (n + 1) - 1 + 1
      BY <2>2, FS_Interval
    <2>4. Cardinality(Ids) <= n
      BY <2>1, FS_Subset DEF n
    <2> QED BY <1>1, <2>2, <2>3, <2>4
  <1>3. New \in Ids /\ New \notin DOMAIN node
    BY <1>2 DEF New
  <1>4. Ids = 1..(n + 1)
    BY DEF Ids
  <1> HIDE DEF n
  <1> QED BY <1>1, <1>3, <1>4 DEF Nil

-----------------------------------------------------------------------------
(* The invariant                                                           *)

\* No node is in two places.
Rings(R) ==
    /\ R \in [Keys -> Seq(DOMAIN node)]
    /\ \A k \in Keys : Once(R[k]) /\ Turns(node, R[k])
    /\ \A k, l \in Keys : k # l => \A i \in 1..Len(R[k]), j \in 1..Len(R[l]) : R[k][i] # R[l][j]

\* A push has linked its node, which length does not count yet.
Late(k) == \E c \in Clients : lock[k] = c /\ th[c].pc \in {"head", "leave"}
Headed(R) ==
    \A k \in Keys :
        IF list[k] = NULL THEN R[k] = <<>> /\ lock[k] = NULL
        ELSE /\ list[k].head = HeadOf(R[k])
             /\ list[k].length = Len(R[k]) - IF Late(k) THEN 1 ELSE 0

Pushing == {"link", "head", "leave"}
Locked ==
    \A k \in Keys : lock[k] # NULL => lock[k] \in Clients /\ th[lock[k]].pc \in Pushing /\ Key(lock[k]) = k

\* The node that push_front or push_back is about to link.
Linking(R, c) ==
    LET r == R[Key(c)]
        e == th[c].e
    IN  /\ e \in DOMAIN node /\ node[e].val = Cmd(c).val
        /\ node[e].next = IF r = <<>> THEN e ELSE r[1]
        /\ node[e].prev = IF r = <<>> THEN e ELSE r[Len(r)]
        /\ \A k \in Keys : \A i \in 1..Len(R[k]) : R[k][i] # e
        /\ \A d \in Clients : d # c /\ th[d].pc = "link" => th[d].e # e

Placed(R, c) ==
    /\ th[c].pc # "idle" => Cmd(c) \in Work[c]
    /\ th[c].pc = "take" => Shrinks(Cmd(c)) /\ list[Key(c)] # NULL
    /\ th[c].pc \in Pushing => ~Shrinks(Cmd(c)) /\ lock[Key(c)] = c
    /\ th[c].pc = "link" => Linking(R, c)
    /\ th[c].pc = "head" => /\ Cmd(c).op = "lpush" /\ Len(R[Key(c)]) >= 2
                            /\ R[Key(c)][Len(R[Key(c)])] = th[c].e

\* print stands in the list, from which nobody takes anything.
Within(r, x) == \E i \in 1..Len(r) : x = r[i]
Saver(R) ==
    saver.pc \in {"first", "test", "next"} =>
        /\ saver.n <= Len(Order)
        /\ R[Order[saver.n]] # <<>> /\ ~Shrinking(Order[saver.n])
        /\ saver.pc # "first" => Within(R[Order[saver.n]], saver.it)

\* A damaged line is the last one, and left by a crash.
Damaged == \A i \in 1..Len(file) : file[i].key = NULL => saver.pc = "idle" /\ i = Len(file)

Shape(R) ==
    IsFiniteSet(DOMAIN node) /\ Rings(R) /\ Headed(R) /\ Locked /\ \A c \in Clients : Placed(R, c)
Inv(R) == TypeOK /\ Shape(R) /\ Saver(R) /\ Damaged

-----------------------------------------------------------------------------
(* Constants and threads                                                   *)

LEMMA NullIs ==
    /\ NULL \notin Clients /\ NULL \notin Keys /\ NULL \notin Commands
    /\ NULL \notin Seq(Elements) /\ NULL \notin List
  BY WorkAssumption, FileAssumption

LEMMA CommandIs ==
    ASSUME NEW m \in Commands
    PROVE  m.key \in Keys /\ m.val \in Vals /\ m.val \in Elements /\ m.i \in Int
           /\ m.op \in {"lpush", "rpush", "lpop", "rpop", "lerase"}
  BY DEF Commands, Elements, Pushes, Pops

LEMMA WorkIs ==
    ASSUME NEW c \in Clients, NEW m \in Work[c]
    PROVE  m \in Commands
  BY WorkAssumption

LEMMA OrderIs ==
    /\ Len(Order) \in Nat /\ DOMAIN Order = 1..Len(Order)
    /\ \A i \in 1..Len(Order) : Order[i] \in Keys
    /\ \A i, j \in 1..Len(Order) : Order[i] = Order[j] => i = j
    /\ \A k \in Keys : \E i \in 1..Len(Order) : Order[i] = k
  BY OrderAssumption DEF Range

LEMMA PlainIs ==
    \A msg \in {"none", "ok", "nokey", "empty", "blank", "data"} :
        Plain(msg) \in [msg : {"none", "ok", "nokey", "empty", "blank", "data"}, val : Elements \union {NULL}]
  BY DEF Plain

\* What a thread does to itself.
LEMMA GotoIs ==
    ASSUME th \in [Clients -> Thread], NEW c \in Clients, NEW p,
           p \in {"idle", "check", "take", "link", "head", "leave"}, Goto(c, p)
    PROVE  /\ th' \in [Clients -> Thread]
           /\ \A d \in Clients : d # c => th'[d] = th[d]
           /\ th'[c].pc = p /\ th'[c].cmd = th[c].cmd /\ th'[c].n = th[c].n /\ th'[c].e = th[c].e
           /\ th'[c].ans = th[c].ans
  <1>1. th[c] \in Thread /\ th' = [th EXCEPT ![c] = [th[c] EXCEPT !.pc = p]]
    BY DEF Goto
  <1>2. [th[c] EXCEPT !.pc = p] \in Thread
    BY <1>1 DEF Thread
  <1> QED BY <1>1, <1>2 DEF Thread

LEMMA FinishIs ==
    ASSUME th \in [Clients -> Thread], NEW c \in Clients, NEW ans,
           ans \in [msg : {"none", "ok", "nokey", "empty", "blank", "data"}, val : Elements \union {NULL}],
           Finish(c, ans)
    PROVE  /\ th' \in [Clients -> Thread]
           /\ \A d \in Clients : d # c => th'[d] = th[d]
           /\ th'[c].pc = "idle" /\ th'[c].cmd = th[c].cmd /\ th'[c].n = th[c].n
           /\ th'[c].ans = ans
  <1>1. th[c] \in Thread /\ th' = [th EXCEPT ![c] = [th[c] EXCEPT !.pc = "idle", !.e = Nil, !.ans = ans]]
    BY DEF Finish
  <1>2. [th[c] EXCEPT !.pc = "idle", !.e = Nil, !.ans = ans] \in Thread
    BY <1>1 DEF Thread, Nil
  <1> QED BY <1>1, <1>2 DEF Thread

\* A step of c that begins no command.
Moves(c) ==
    /\ th' \in [Clients -> Thread]
    /\ \A d \in Clients : d # c => th'[d] = th[d]
    /\ th'[c].pc # "idle" => th[c].pc # "idle" /\ th'[c].cmd = th[c].cmd

LEMMA KeyIs ==
    ASSUME NEW R, Shape(R), NEW c \in Clients, th[c].pc # "idle"
    PROVE  Cmd(c) \in Commands /\ Cmd(c) \in Work[c] /\ Key(c) \in Keys
  <1>1. Cmd(c) \in Work[c]
    BY DEF Shape, Placed
  <1>2. Cmd(c) \in Commands
    BY <1>1, WorkIs
  <1> QED BY <1>1, <1>2, CommandIs DEF Key

\* The holder of a mutex, and its list.
LEMMA HolderIs ==
    ASSUME NEW R, Shape(R), NEW c \in Clients, th[c].pc \in Pushing
    PROVE  /\ Key(c) \in Keys /\ lock[Key(c)] = c /\ list[Key(c)] # NULL
           /\ Cmd(c).op \in Pushes /\ list[Key(c)].head = HeadOf(R[Key(c)])
           /\ \A d \in Clients : d # c /\ th[d].pc \in Pushing => Key(d) # Key(c)
  <1>1. th[c].pc # "idle"
    BY DEF Pushing
  <1>2. Key(c) \in Keys /\ lock[Key(c)] = c /\ ~Shrinks(Cmd(c))
    BY <1>1, KeyIs DEF Shape, Placed
  <1>3. list[Key(c)] # NULL /\ list[Key(c)].head = HeadOf(R[Key(c)])
    BY <1>2, NullIs DEF Shape, Headed
  <1>4. \A d \in Clients : th[d].pc \in Pushing => lock[Key(d)] = d
    BY DEF Shape, Placed
  <1> QED BY <1>2, <1>3, <1>4 DEF Shrinks

-----------------------------------------------------------------------------
(* Steps that leave the lists alone                                        *)

\* c neither begins nor ends to write.
LEMMA CalmShape ==
    ASSUME NEW R, Shape(R), UNCHANGED <<list, node, lock>>, NEW c \in Clients,
           \A d \in Clients : d # c => th'[d] = th[d],
           th[c].pc \notin Pushing, th'[c].pc \notin Pushing,
           th'[c].pc # "idle" => th'[c].cmd \in Work[c],
           th'[c].pc = "take" => Shrinks(th'[c].cmd) /\ list[th'[c].cmd.key] # NULL
    PROVE  Shape(R)'
  <1>1. IsFiniteSet(DOMAIN node)' /\ Rings(R)'
    BY DEF Shape, Rings
  <1>2. \A k \in Keys : Late(k)' <=> Late(k)
    BY DEF Late, Pushing
  <1>3. Headed(R)'
    BY <1>2 DEF Shape, Headed
  <1>4. Locked'
    <2> SUFFICES ASSUME NEW k \in Keys, lock[k] # NULL
                 PROVE  lock[k] \in Clients /\ th'[lock[k]].pc \in Pushing /\ th'[lock[k]].cmd.key = k
      BY DEF Locked, Key, Cmd
    <2>1. lock[k] \in Clients /\ th[lock[k]].pc \in Pushing /\ th[lock[k]].cmd.key = k
      BY DEF Shape, Locked, Key, Cmd
    <2>2. lock[k] # c
      BY <2>1
    <2> QED BY <2>1, <2>2
  <1>5. ASSUME NEW d \in Clients PROVE Placed(R, d)'
    <2>1. CASE d = c
      BY <2>1 DEF Placed, Pushing, Key, Cmd
    <2>2. CASE d # c
      <3>1. Placed(R, d) /\ th'[d] = th[d]
        BY <2>2 DEF Shape
      <3>2. th'[d].pc = "link" => Linking(R, d)'
        <4> SUFFICES ASSUME th[d].pc = "link" PROVE Linking(R, d)'
          BY <3>1
        <4>1. Linking(R, d)
          BY <3>1 DEF Placed
        <4>2. \A b \in Clients : th'[b].pc = "link" => th'[b] = th[b]
          BY DEF Pushing
        <4> QED BY <3>1, <4>1, <4>2 DEF Linking, Key, Cmd
      <3> QED BY <3>1, <3>2 DEF Placed, Key, Cmd
    <2> QED BY <2>1, <2>2
  <1> QED BY <1>1, <1>3, <1>4, <1>5 DEF Shape

\* print goes on where it stands, as long as the nodes of its list stay.
LEMMA SaverKept ==
    ASSUME NEW R, NEW S, Saver(R), UNCHANGED saver, saver \in Saving, NEW c \in Clients,
           \A d \in Clients : d # c => th'[d] = th[d],
           th'[c].pc # "idle" /\ Shrinks(th'[c].cmd) => ~Printing(th'[c].cmd.key),
           \A k \in Keys : Printing(k) => S[k] # <<>> /\ \A x : Within(R[k], x) => Within(S[k], x)
    PROVE  Saver(S)'
  <1> SUFFICES ASSUME saver.pc \in {"first", "test", "next"}
               PROVE  /\ saver.n <= Len(Order)
                      /\ S[Order[saver.n]] # <<>> /\ ~Shrinking(Order[saver.n])'
                      /\ saver.pc # "first" => Within(S[Order[saver.n]], saver.it)
    BY DEF Saver
  <1>1. /\ saver.n <= Len(Order)
        /\ R[Order[saver.n]] # <<>> /\ ~Shrinking(Order[saver.n])
        /\ saver.pc # "first" => Within(R[Order[saver.n]], saver.it)
    BY DEF Saver
  <1>2. Order[saver.n] \in Keys
    <2>1. saver.n \in 1..Len(Order)
      BY <1>1, OrderIs DEF Saving
    <2> QED BY <2>1, OrderIs
  <1>3. Printing(Order[saver.n])
    BY DEF Printing
  <1>4. ~Shrinking(Order[saver.n])'
    <2> SUFFICES ASSUME NEW d \in Clients, th'[d].pc # "idle", Shrinks(th'[d].cmd), th'[d].cmd.key = Order[saver.n]
                 PROVE  FALSE
      BY DEF Shrinking, Cmd, Key, Shrinks
    <2> QED BY <1>1, <1>3 DEF Shrinking, Cmd, Key
  <1> QED BY <1>1, <1>2, <1>3, <1>4

\* Steps of the thread that saves.
LEMMA AloneShape ==
    ASSUME NEW R, Shape(R), UNCHANGED <<list, node, lock, th>>
    PROVE  Shape(R)'
  <1>1. IsFiniteSet(DOMAIN node)' /\ Rings(R)' /\ Headed(R)' /\ Locked'
    BY DEF Shape, Rings, Headed, Late, Locked, Key, Cmd
  <1>2. \A c \in Clients : Placed(R, c)'
    BY DEF Shape, Placed, Linking, Key, Cmd
  <1> QED BY <1>1, <1>2 DEF Shape

LEMMA DamagedKept ==
    ASSUME Damaged, UNCHANGED file, saver'.pc = "idle" \/ saver'.pc = saver.pc \/ saver.pc # "idle"
    PROVE  Damaged'
  BY DEF Damaged

-----------------------------------------------------------------------------
(* What the commands see                                                   *)

\* The values of nodes r, of which the last may count as the first.
Shown(nd, r, f) ==
    LET vals == [i \in DOMAIN r |-> nd[r[i]].val]
    IN  IF f THEN <<Last(vals)>> \o Front(vals) ELSE vals

LEMMA ShownIs ==
    ASSUME NEW nd, nd \in [DOMAIN nd -> Node], NEW r \in Seq(DOMAIN nd), NEW f \in BOOLEAN, f => Len(r) >= 2
    PROVE  /\ Shown(nd, r, f) \in Seq(Elements) /\ Len(Shown(nd, r, f)) = Len(r) /\ Len(r) \in Nat
           /\ ~f => \A i \in 1..Len(r) : Shown(nd, r, f)[i] = nd[r[i]].val
           /\ f => /\ Shown(nd, r, f)[1] = nd[r[Len(r)]].val
                   /\ \A i \in 1..(Len(r) - 1) : Shown(nd, r, f)[i + 1] = nd[r[i]].val
           /\ f => /\ Tail(Shown(nd, r, f)) \in Seq(Elements) /\ Len(Tail(Shown(nd, r, f))) = Len(r) - 1
                   /\ \A i \in 1..(Len(r) - 1) : Tail(Shown(nd, r, f))[i] = nd[r[i]].val
  <1> DEFINE vals == [i \in 1..Len(r) |-> nd[r[i]].val]
  <1>1. Len(r) \in Nat /\ DOMAIN r = 1..Len(r) /\ \A i \in 1..Len(r) : r[i] \in DOMAIN nd
    OBVIOUS
  <1>2. \A i \in 1..Len(r) : nd[r[i]].val \in Elements
    BY <1>1 DEF Node
  <1>3. vals \in Seq(Elements) /\ Len(vals) = Len(r) /\ \A i \in 1..Len(r) : vals[i] = nd[r[i]].val
    BY <1>1, <1>2
  <1>4. Shown(nd, r, f) = IF f THEN <<Last(vals)>> \o Front(vals) ELSE vals
    BY <1>1 DEF Shown
  <1> HIDE DEF vals
  <1>5. CASE ~f
    BY <1>1, <1>3, <1>4, <1>5
  <1>6. CASE f
    <2> DEFINE a == <<Last(vals)>>
               b == Front(vals)
    <2>1. Last(vals) = vals[Len(r)] /\ Last(vals) \in Elements /\ Len(r) \in 1..Len(r) /\ Len(r) >= 2
      BY <1>1, <1>3, <1>6 DEF Last
    <2>2. a \in Seq(Elements) /\ Len(a) = 1 /\ a[1] = vals[Len(r)]
      BY <2>1
    <2>3. b \in Seq(Elements) /\ Len(b) = Len(r) - 1 /\ \A i \in 1..(Len(r) - 1) : b[i] = vals[i]
      <3>1. b = SubSeq(vals, 1, Len(r) - 1)
        BY <1>3 DEF Front
      <3>2. \A i \in 1..(Len(r) - 1) : vals[i] \in Elements
        BY <1>1, <1>3
      <3>3. 1 \in Int /\ Len(r) - 1 \in Int /\ 1 <= Len(r) - 1
        BY <1>1, <2>1
      <3> HIDE DEF b
      <3> QED BY <3>1, <3>2, <3>3, SubSeqProperties
    <2> HIDE DEF a, b
    <2>4. a \o b \in Seq(Elements) /\ Len(a \o b) = Len(r)
          /\ \A i \in 1..Len(r) : (a \o b)[i] = IF i <= 1 THEN a[i] ELSE b[i - 1]
      <3>1. Len(a) + Len(b) = Len(r) /\ Len(a) = 1
        BY <1>1, <2>2, <2>3
      <3>2. /\ a \o b \in Seq(Elements) /\ Len(a \o b) = Len(a) + Len(b)
            /\ \A i \in 1..(Len(a) + Len(b)) : (a \o b)[i] = IF i <= Len(a) THEN a[i] ELSE b[i - Len(a)]
        BY <2>2, <2>3, ConcatProperties
      <3> QED BY <3>1, <3>2
    <2>5. Shown(nd, r, f) = a \o b
      BY <1>4, <1>6 DEF a, b
    <2> DEFINE s == Shown(nd, r, f)
    <2>6. s \in Seq(Elements) /\ Len(s) = Len(r) /\ s # <<>> /\ s[1] = vals[Len(r)]
          /\ \A i \in 1..(Len(r) - 1) : s[i + 1] = vals[i]
      <3>1. \A i \in 1..(Len(r) - 1) : i + 1 \in 1..Len(r) /\ ~(i + 1 <= 1) /\ (i + 1) - 1 = i
        BY <1>1
      <3>2. 1 \in 1..Len(r) /\ 1 <= 1
        BY <2>1
      <3> QED BY <2>1, <2>2, <2>3, <2>4, <2>5, <3>1, <3>2
    <2> HIDE DEF s
    <2>7. Tail(s) \in Seq(Elements) /\ Len(Tail(s)) = Len(r) - 1 /\ \A i \in 1..(Len(r) - 1) : Tail(s)[i] = s[i + 1]
      BY <2>6, HeadTailProperties
    <2>8. /\ s[1] = nd[r[Len(r)]].val
          /\ \A i \in 1..(Len(r) - 1) : s[i + 1] = nd[r[i]].val
          /\ \A i \in 1..(Len(r) - 1) : Tail(s)[i] = nd[r[i]].val
      BY <1>1, <1>3, <2>1, <2>6, <2>7
    <2> QED BY <1>1, <1>6, <2>6, <2>7, <2>8 DEF s
  <1> QED BY <1>5, <1>6

\* View, for any nodes.
ViewAs(nd, l, f) == IF l = NULL THEN NULL ELSE Shown(nd, Around(nd, l.head), f)

LEMMA ViewAsIs ==
    /\ \A k : View(k) = ViewAs(node, list[k], Fronting(k))
    /\ \A k : View(k)' = ViewAs(node', list'[k], Fronting(k)')
  <1>1. \A k : View(k) = ViewAs(node, list[k], Fronting(k))
    BY RingAround DEF View, ViewAs, Shown
  <1>2. \A k : View(k)' = ViewAs(node', list'[k], Fronting(k)')
    BY RingAroundNext DEF View, ViewAs, Shown
  <1> QED BY <1>1, <1>2

Types == list \in [Keys -> List \union {NULL}] /\ DOMAIN node \subseteq Nat \ {Nil} /\ node \in [DOMAIN node -> Node]

\* A list l whose nodes are r.
Proper(nd, l, r, f) ==
    /\ IsFiniteSet(DOMAIN nd) /\ Nil \notin DOMAIN nd /\ nd \in [DOMAIN nd -> Node]
    /\ r \in Seq(DOMAIN nd) /\ Once(r) /\ Turns(nd, r) /\ l # NULL /\ l.head = HeadOf(r)
    /\ f \in BOOLEAN /\ (f => Len(r) >= 2)

LEMMA ProperIs ==
    ASSUME NEW nd, NEW l, NEW r, NEW f, Proper(nd, l, r, f)
    PROVE  ViewAs(nd, l, f) = Shown(nd, r, f)
  <1>1. Around(nd, HeadOf(r)) = r
    BY AroundIs DEF Proper
  <1> QED BY <1>1 DEF Proper, ViewAs

LEMMA FrontingIs ==
    ASSUME NEW R, Shape(R), NEW k \in Keys, Fronting(k)
    PROVE  /\ Len(R[k]) >= 2 /\ list[k] # NULL /\ lock[k] \in Clients
           /\ th[lock[k]].pc = "head" /\ Key(lock[k]) = k /\ R[k][Len(R[k])] = th[lock[k]].e
  <1>1. PICK c \in Clients : lock[k] = c /\ Cmd(c).op = "lpush" /\ th[c].pc = "head"
    BY DEF Fronting
  <1>2. lock[k] # NULL
    BY <1>1, NullIs
  <1>3. Key(c) = k /\ Placed(R, c)
    BY <1>1, <1>2 DEF Shape, Locked
  <1>4. list[k] # NULL
    BY <1>2 DEF Shape, Headed
  <1> QED BY <1>1, <1>3, <1>4 DEF Placed

\* ... in this state and in the next.
LEMMA ViewIs ==
    ASSUME NEW R, Shape(R), Types, NEW k \in Keys
    PROVE  /\ View(k) = IF list[k] = NULL THEN NULL ELSE Shown(node, R[k], Fronting(k))
           /\ Sights(k) \subseteq Seq(Elements) \union {NULL}
  <1>1. Fronting(k) \in BOOLEAN /\ (Fronting(k) => Len(R[k]) >= 2 /\ list[k] # NULL)
    <2>1. Fronting(k) \in BOOLEAN
      BY DEF Fronting
    <2> QED BY <2>1, FrontingIs
  <1>2. ASSUME list[k] # NULL PROVE Proper(node, list[k], R[k], Fronting(k))
    BY <1>1, <1>2 DEF Proper, Shape, Rings, Headed, Types
  <1>3. View(k) = IF list[k] = NULL THEN NULL ELSE Shown(node, R[k], Fronting(k))
    BY <1>2, ProperIs, ViewAsIs DEF ViewAs
  <1>4. ASSUME list[k] # NULL
        PROVE  /\ View(k) \in Seq(Elements)
               /\ Fronting(k) => Tail(View(k)) \in Seq(Elements)
    <2>1. /\ Shown(node, R[k], Fronting(k)) \in Seq(Elements)
          /\ Fronting(k) => Tail(Shown(node, R[k], Fronting(k))) \in Seq(Elements)
      BY <1>2, <1>4, ShownIs DEF Proper
    <2> QED BY <1>3, <1>4, <2>1
  <1>5. Sights(k) \subseteq Seq(Elements) \union {NULL}
    BY <1>1, <1>3, <1>4 DEF Sights
  <1> QED BY <1>3, <1>5

LEMMA FrontingIsNext ==
    ASSUME NEW R, Shape(R)', NEW k \in Keys, Fronting(k)'
    PROVE  /\ Len(R[k]) >= 2 /\ list'[k] # NULL /\ lock'[k] \in Clients
           /\ th'[lock'[k]].pc = "head" /\ th'[lock'[k]].cmd.key = k /\ R[k][Len(R[k])] = th'[lock'[k]].e
  <1>1. PICK c \in Clients : lock'[k] = c /\ th'[c].cmd.op = "lpush" /\ th'[c].pc = "head"
    BY DEF Fronting, Cmd
  <1>2. lock'[k] # NULL
    BY <1>1, NullIs
  <1>3. th'[c].cmd.key = k /\ Placed(R, c)'
    BY <1>1, <1>2 DEF Shape, Locked, Key, Cmd
  <1>4. list'[k] # NULL
    BY <1>2 DEF Shape, Headed
  <1> QED BY <1>1, <1>3, <1>4 DEF Placed, Key, Cmd

LEMMA ViewIsNext ==
    ASSUME NEW R, Shape(R)', Types', NEW k \in Keys
    PROVE  /\ View(k)' = IF list'[k] = NULL THEN NULL ELSE Shown(node', R[k], Fronting(k)')
           /\ Sights(k)' \subseteq Seq(Elements) \union {NULL}
  <1>1. Fronting(k)' \in BOOLEAN /\ (Fronting(k)' => Len(R[k]) >= 2 /\ list'[k] # NULL)
    <2>1. Fronting(k)' \in BOOLEAN
      BY DEF Fronting
    <2> QED BY <2>1, FrontingIsNext
  <1>2. ASSUME list'[k] # NULL PROVE Proper(node', list'[k], R[k], Fronting(k)')
    BY <1>1, <1>2 DEF Proper, Shape, Rings, Headed, Types
  <1>3. View(k)' = IF list'[k] = NULL THEN NULL ELSE Shown(node', R[k], Fronting(k)')
    BY <1>2, ProperIs, ViewAsIs DEF ViewAs
  <1>4. ASSUME list'[k] # NULL
        PROVE  /\ View(k)' \in Seq(Elements)
               /\ Fronting(k)' => Tail(View(k)') \in Seq(Elements)
    <2>1. /\ Shown(node', R[k], Fronting(k)') \in Seq(Elements)
          /\ Fronting(k)' => Tail(Shown(node', R[k], Fronting(k)')) \in Seq(Elements)
      BY <1>2, <1>4, ShownIs DEF Proper
    <2> QED BY <1>3, <1>4, <2>1
  <1>5. Sights(k)' \subseteq Seq(Elements) \union {NULL}
    BY <1>1, <1>3, <1>4 DEF Sights
  <1> QED BY <1>3, <1>5

-----------------------------------------------------------------------------
(* The steps                                                               *)

LEMMA CallIs ==
    ASSUME NEW R, Inv(R), NEW c \in Clients, Call(c)
    PROVE  /\ th' \in [Clients -> Thread]
           /\ \A d \in Clients : d # c => th'[d] = th[d]
           /\ th[c].pc = "idle" /\ th'[c].pc = "check" /\ th'[c].cmd \in Work[c] /\ Apart(th'[c].cmd)
           /\ th'[c].n = th[c].n + 1 /\ th'[c].ans = Plain("none") /\ th[c].n < MaxCommands[c]
           /\ UNCHANGED <<list, node, lock, saver, file, whole, saves, crashes, since, moved>>
  <1>1. PICK m \in Work[c] :
          /\ Apart(m)
          /\ th' = [th EXCEPT ![c].pc = "check", ![c].cmd = m, ![c].n = @ + 1, ![c].ans = Plain("none")]
    BY DEF Call
  <1> DEFINE t == [th[c] EXCEPT !.pc = "check", !.cmd = m, !.n = th[c].n + 1, !.ans = Plain("none")]
  <1>2. th \in [Clients -> Thread] /\ th[c] \in Thread /\ m \in Commands
    BY WorkIs DEF Inv, TypeOK
  <1>3. Plain("none") \in [msg : {"none", "ok", "nokey", "empty", "blank", "data"}, val : Elements \union {NULL}]
    BY PlainIs
  <1>4. t \in Thread /\ t.pc = "check" /\ t.cmd = m /\ t.n = th[c].n + 1 /\ t.ans = Plain("none")
    <2>1. th[c].n \in Nat /\ th[c].n + 1 \in Nat
      BY <1>2 DEF Thread
    <2> QED BY <1>2, <1>3, <2>1 DEF Thread
  <1>5. th' = [th EXCEPT ![c] = t]
    BY <1>1
  <1> HIDE DEF t
  <1>6. th' \in [Clients -> Thread] /\ th'[c] = t /\ \A d \in Clients : d # c => th'[d] = th[d]
    BY <1>2, <1>4, <1>5
  <1> QED BY <1>1, <1>4, <1>6 DEF Call

LEMMA CallInv ==
    ASSUME NEW R, Inv(R), NEW c \in Clients, Call(c)
    PROVE  Inv(R)'
  <1>1. /\ th' \in [Clients -> Thread]
        /\ \A d \in Clients : d # c => th'[d] = th[d]
        /\ th[c].pc = "idle" /\ th'[c].pc = "check" /\ th'[c].cmd \in Work[c] /\ Apart(th'[c].cmd)
        /\ UNCHANGED <<list, node, lock, saver, file, whole, saves, crashes, since, moved>>
    BY CallIs
  <1>2. TypeOK'
    BY <1>1 DEF Inv, TypeOK
  <1>3. Shape(R)'
    BY <1>1, CalmShape DEF Inv, Pushing
  <1>4. Saver(R)'
    <2>1. Saver(R) /\ saver \in Saving
      BY DEF Inv, TypeOK
    <2>2. \A k \in Keys : Printing(k) => R[k] # <<>>
      BY <2>1 DEF Saver, Printing
    <2> QED BY <1>1, <2>1, <2>2, SaverKept DEF Apart
  <1>5. Damaged'
    BY <1>1, DamagedKept DEF Inv
  <1> QED BY <1>2, <1>3, <1>4, <1>5 DEF Inv

\* What print does not lose by a step of a thread that has begun its command.
LEMMA SaverStays ==
    ASSUME NEW R, NEW S, Inv(R), NEW c \in Clients, Moves(c), UNCHANGED saver,
           \A k \in Keys : Printing(k) => S[k] # <<>> /\ \A x : Within(R[k], x) => Within(S[k], x)
    PROVE  Saver(S)'
  <1>1. Saver(R) /\ saver \in Saving
    BY DEF Inv, TypeOK
  <1>2. th'[c].pc # "idle" /\ Shrinks(th'[c].cmd) => ~Printing(th'[c].cmd.key)
    <2> SUFFICES ASSUME th'[c].pc # "idle", Shrinks(th'[c].cmd), Printing(th'[c].cmd.key) PROVE FALSE
      OBVIOUS
    <2>1. th[c].pc # "idle" /\ th'[c].cmd = th[c].cmd
      BY DEF Moves
    <2>2. Shrinking(th[c].cmd.key)
      BY <2>1 DEF Shrinking, Cmd, Key
    <2>3. saver.pc \in {"first", "test", "next"} /\ Order[saver.n] = th[c].cmd.key
      BY <2>1 DEF Printing
    <2> QED BY <1>1, <2>2, <2>3 DEF Saver
  <1>3. \A d \in Clients : d # c => th'[d] = th[d]
    BY DEF Moves
  <1> QED BY <1>1, <1>2, <1>3, SaverKept

LEMMA PrintingIs ==
    ASSUME NEW R, Saver(R), NEW k, Printing(k)
    PROVE  R[k] # <<>> /\ ~Shrinking(k)
  BY DEF Saver, Printing

LEMMA CheckInv ==
    ASSUME NEW R, Inv(R), NEW c \in Clients, Check(c)
    PROVE  Inv(R)'
  <1>1. th \in [Clients -> Thread] /\ th[c].pc = "check"
    BY DEF Inv, TypeOK, Check
  <1>2. UNCHANGED <<list, node, lock, saver, file, whole, saves, crashes, since, moved>>
    BY DEF Check
  <1>3. /\ th' \in [Clients -> Thread]
        /\ \A d \in Clients : d # c => th'[d] = th[d]
        /\ th'[c].cmd = th[c].cmd /\ th'[c].pc \in {"idle", "take"}
        /\ th'[c].pc = "take" => Shrinks(Cmd(c)) /\ list[Key(c)] # NULL
    <2>1. ASSUME NEW msg \in {"nokey", "empty"}, Plainly(c, msg)
          PROVE  /\ th' \in [Clients -> Thread]
                 /\ \A d \in Clients : d # c => th'[d] = th[d]
                 /\ th'[c].cmd = th[c].cmd /\ th'[c].pc = "idle"
      BY <1>1, <2>1, FinishIs, PlainIs DEF Plainly
    <2>2. ASSUME Goto(c, "take")
          PROVE  /\ th' \in [Clients -> Thread]
                 /\ \A d \in Clients : d # c => th'[d] = th[d]
                 /\ th'[c].cmd = th[c].cmd /\ th'[c].pc = "take"
      BY <1>1, <2>2, GotoIs
    <2> QED BY <2>1, <2>2 DEF Check
  <1>4. TypeOK'
    BY <1>2, <1>3 DEF Inv, TypeOK
  <1>5. Shape(R) /\ Cmd(c) \in Work[c]
    BY <1>1, KeyIs DEF Inv
  <1>6. Shape(R)'
    BY <1>1, <1>2, <1>3, <1>5, CalmShape DEF Pushing, Cmd, Key
  <1>7. Saver(R)'
    <2>1. Moves(c)
      BY <1>1, <1>3 DEF Moves
    <2> QED BY <1>2, <2>1, SaverStays, PrintingIs DEF Inv
  <1>8. Damaged'
    BY <1>2, DamagedKept DEF Inv
  <1> QED BY <1>4, <1>6, <1>7, <1>8 DEF Inv

LEMMA WithinIs ==
    ASSUME NEW S, NEW nd, NEW r \in Seq(S), Turns(nd, r), NEW x, Within(r, x)
    PROVE  x \in S /\ Within(r, nd[x].next)
  <1>1. PICK i \in 1..Len(r) : x = r[i]
    BY DEF Within
  <1>2. Len(r) \in Nat /\ (IF i = Len(r) THEN 1 ELSE i + 1) \in 1..Len(r)
    OBVIOUS
  <1>3. nd[x].next = r[IF i = Len(r) THEN 1 ELSE i + 1]
    BY <1>1 DEF Turns
  <1> QED BY <1>1, <1>2, <1>3 DEF Within

LEMMA OpenInv ==
    ASSUME NEW R, Inv(R), Open
    PROVE  Inv(R)'
  <1>1. /\ UNCHANGED <<list, node, lock, th, crashes>>
        /\ saver' = [pc |-> "key", n |-> 1, it |-> Nil, str |-> <<>>]
        /\ file' = <<>> /\ whole' = FALSE /\ moved' = {} /\ since' = [k \in Keys |-> Sights(k)]
        /\ saves' = saves + 1 /\ saves < MaxSaves
    BY DEF Open
  <1>2. saver' \in Saving
    BY <1>1, OrderIs DEF Saving, Nil
  <1>3. since' \in [Keys -> SUBSET (Seq(Elements) \union {NULL})]
    <2>1. \A k \in Keys : Sights(k) \subseteq Seq(Elements) \union {NULL}
      BY ViewIs DEF Inv, TypeOK, Types
    <2> QED BY <1>1, <2>1
  <1>4. saves' \in 0..MaxSaves
    BY <1>1, FileAssumption DEF Inv, TypeOK
  <1>5. file' \in Seq(Line) /\ Len(file') = 0
    BY <1>1
  <1>6. TypeOK'
    BY <1>1, <1>2, <1>3, <1>4, <1>5 DEF Inv, TypeOK
  <1>7. Shape(R)'
    BY <1>1, AloneShape DEF Inv
  <1>8. Saver(R)'
    BY <1>1 DEF Saver
  <1>9. Damaged'
    BY <1>5 DEF Damaged
  <1> QED BY <1>6, <1>7, <1>8, <1>9 DEF Inv

\* A line goes to the file.
LEMMA WriteIs ==
    ASSUME NEW R, Inv(R), NEW k \in Keys, saver.n <= Len(Order), saver.pc # "idle",
           NEW val \in Seq(Elements), Write(k, val)
    PROVE  saver' \in Saving /\ saver'.pc = "key" /\ file' \in Seq(Line) /\ Damaged'
  <1>1. saver \in Saving /\ file \in Seq(Line)
    BY DEF Inv, TypeOK
  <1>2. /\ file' = Append(file, [key |-> k, val |-> val])
        /\ saver' = [pc |-> "key", n |-> saver.n + 1, it |-> Nil, str |-> <<>>]
    BY DEF Write
  <1>3. saver' \in Saving /\ saver'.pc = "key"
    <2>1. saver.n \in 1..(Len(Order) + 1) /\ saver.n + 1 \in 1..(Len(Order) + 1)
      BY <1>1, OrderIs DEF Saving
    <2> QED BY <1>2, <2>1 DEF Saving, Nil
  <1>4. [key |-> k, val |-> val] \in Line /\ k # NULL
    BY NullIs DEF Line
  <1>5. file' \in Seq(Line) /\ Len(file') = Len(file) + 1 /\ Len(file) \in Nat
        /\ file'[Len(file) + 1].key = k /\ \A i \in 1..Len(file) : file'[i] = file[i]
    BY <1>1, <1>2, <1>4
  <1>6. Damaged'
    <2>1. ASSUME NEW i \in 1..Len(file') PROVE file'[i].key # NULL
      <3>1. CASE i \in 1..Len(file)
        BY <1>5, <3>1 DEF Inv, Damaged
      <3>2. CASE i = Len(file) + 1
        BY <1>4, <1>5, <3>2
      <3> QED BY <1>5, <3>1, <3>2
    <2> QED BY <2>1 DEF Damaged
  <1> QED BY <1>3, <1>5, <1>6

LEMMA BeginInv ==
    ASSUME NEW R, Inv(R), Begin
    PROVE  Inv(R)'
  <1>9. PICK k : k = Order[saver.n]
    OBVIOUS
  <1>1. /\ saver.pc = "key" /\ saver.n <= Len(Order) /\ ~Shrinking(k)
        /\ NoNode(k) \/ PrintEmpty(k) \/ PrintHead(k)
        /\ UNCHANGED <<list, node, lock, th, whole, saves, crashes, since>>
    BY <1>9 DEF Begin
  <1>2. saver \in Saving /\ saver.n \in 1..Len(Order) /\ saver.n + 1 \in 1..(Len(Order) + 1)
    BY <1>1, OrderIs DEF Inv, TypeOK, Saving
  <1>3. k \in Keys
    BY <1>2, <1>9, OrderIs
  <1>4. Shape(R) /\ Shape(R)'
    BY <1>1, AloneShape DEF Inv
  <1>5. ASSUME saver' \in Saving, file' \in Seq(Line), moved' \subseteq Keys PROVE TypeOK'
    BY <1>1, <1>5 DEF Inv, TypeOK
  <1>6. CASE NoNode(k)
    <2>1. saver' = [saver EXCEPT !.n = @ + 1] /\ UNCHANGED <<file, moved>>
      BY <1>6 DEF NoNode
    <2>2. saver' \in Saving /\ saver'.pc = "key"
      BY <1>1, <1>2, <2>1 DEF Saving
    <2>3. TypeOK'
      BY <1>5, <2>1, <2>2 DEF Inv, TypeOK
    <2>4. Damaged'
      BY <1>1, <2>1, <2>2, DamagedKept DEF Inv
    <2> QED BY <1>4, <2>2, <2>3, <2>4 DEF Inv, Saver
  <1>7. CASE PrintEmpty(k)
    <2>1. Write(k, <<EMPTY>>) /\ UNCHANGED moved /\ <<EMPTY>> \in Seq(Elements)
      BY <1>7 DEF PrintEmpty, Elements
    <2>2. saver' \in Saving /\ saver'.pc = "key" /\ file' \in Seq(Line) /\ Damaged'
      BY <1>1, <1>3, <2>1, WriteIs
    <2>3. TypeOK'
      BY <1>5, <2>1, <2>2 DEF Inv, TypeOK
    <2> QED BY <1>4, <2>2, <2>3 DEF Inv, Saver
  <1>8. CASE PrintHead(k)
    <2>1. /\ list[k] # NULL /\ list[k].head # Nil /\ UNCHANGED file
          /\ saver' = [saver EXCEPT !.pc = "first", !.str = <<node[list[k].head].val>>]
          /\ moved' = IF Fronting(k) THEN moved \union {k} ELSE moved
      BY <1>8 DEF PrintHead
    <2>2. R[k] # <<>> /\ list[k].head \in DOMAIN node
      <3>1. list[k].head = HeadOf(R[k]) /\ R[k] \in Seq(DOMAIN node)
        BY <1>3, <1>4, <2>1 DEF Shape, Headed, Rings
      <3>2. R[k] # <<>>
        BY <2>1, <3>1 DEF HeadOf
      <3> QED BY <3>1, <3>2 DEF HeadOf
    <2>3. node[list[k].head].val \in Elements
      <3>1. node[list[k].head] \in Node
        BY <2>2 DEF Inv, TypeOK
      <3> QED BY <3>1 DEF Node
    <2>4. saver' \in Saving /\ saver'.pc = "first" /\ saver'.n = saver.n
      <3>3. \A v \in Elements : <<v>> \in Seq(Elements)
        OBVIOUS
      <3>1. PICK s \in Seq(Elements) : s = <<node[list[k].head].val>>
        BY ONLY <2>3, <3>3
      <3>2. saver' = [saver EXCEPT !.pc = "first", !.str = s]
        BY <2>1, <3>1
      <3> QED BY <1>2, <3>2 DEF Saving
    <2>5. TypeOK'
      BY <1>3, <1>5, <2>1, <2>4 DEF Inv, TypeOK
    <2>6. ~Shrinking(k)'
      BY <1>1 DEF Shrinking, Shrinks, Key, Cmd
    <2>7. Saver(R)'
      BY <1>1, <1>9, <2>2, <2>4, <2>6 DEF Saver
    <2>8. Damaged'
      BY <1>1, <2>1, DamagedKept DEF Inv
    <2> QED BY <1>4, <2>5, <2>7, <2>8 DEF Inv
  <1> QED BY <1>1, <1>6, <1>7, <1>8

\* The key that is printed, and its list.
LEMMA PrintedIs ==
    ASSUME NEW R, Inv(R), saver.pc \in {"first", "test", "next"}
    PROVE  /\ saver.n \in 1..Len(Order) /\ Order[saver.n] \in Keys /\ saver \in Saving
           /\ R[Order[saver.n]] # <<>> /\ ~Shrinking(Order[saver.n])
           /\ R[Order[saver.n]] \in Seq(DOMAIN node) /\ Turns(node, R[Order[saver.n]])
           /\ list[Order[saver.n]] # NULL /\ list[Order[saver.n]].head = R[Order[saver.n]][1]
           /\ Within(R[Order[saver.n]], R[Order[saver.n]][1])
           /\ saver.pc # "first" => Within(R[Order[saver.n]], saver.it)
           /\ \A x \in DOMAIN node : node[x] \in Node
  <1>1. saver \in Saving /\ saver.n <= Len(Order) /\ R[Order[saver.n]] # <<>> /\ ~Shrinking(Order[saver.n])
        /\ (saver.pc # "first" => Within(R[Order[saver.n]], saver.it)) /\ node \in [DOMAIN node -> Node]
    BY DEF Inv, TypeOK, Saver
  <1>2. saver.n \in 1..Len(Order)
    BY <1>1, OrderIs DEF Saving
  <1>3. Order[saver.n] \in Keys
    BY <1>2, OrderIs
  <1>4. R[Order[saver.n]] \in Seq(DOMAIN node) /\ Turns(node, R[Order[saver.n]])
    BY <1>3 DEF Inv, Shape, Rings
  <1>5. list[Order[saver.n]] # NULL /\ list[Order[saver.n]].head = R[Order[saver.n]][1]
    BY <1>1, <1>3 DEF Inv, Shape, Headed, HeadOf
  <1>6. Within(R[Order[saver.n]], R[Order[saver.n]][1])
    <2>1. 1 \in 1..Len(R[Order[saver.n]])
      BY <1>1, <1>4
    <2> QED BY <2>1 DEF Within
  <1> QED BY <1>1, <1>2, <1>3, <1>4, <1>5, <1>6

\* A step of print.
LEMMA PrintInv ==
    ASSUME NEW R, Inv(R), UNCHANGED <<list, node, lock, th, file, whole, saves, crashes, since, moved>>,
           saver.pc \in {"first", "test", "next"}, saver' \in Saving, saver'.n = saver.n,
           saver'.pc \in {"test", "next"}, Within(R[Order[saver.n]], saver'.it)
    PROVE  Inv(R)'
  <1>1. TypeOK'
    BY DEF Inv, TypeOK
  <1>2. Shape(R)'
    BY AloneShape DEF Inv
  <1>3. Saver(R)'
    <2>1. PICK k : k = Order[saver.n]
      OBVIOUS
    <2>2. ~Shrinking(k)
      BY <2>1, PrintedIs
    <2>3. ~Shrinking(k)'
      BY <2>2 DEF Shrinking, Shrinks, Key, Cmd
    <2> QED BY <2>1, <2>3, PrintedIs DEF Saver
  <1>4. Damaged'
    BY DamagedKept DEF Inv
  <1> QED BY <1>1, <1>2, <1>3, <1>4 DEF Inv

LEMMA PrintFirstInv ==
    ASSUME NEW R, Inv(R), PrintFirst
    PROVE  Inv(R)'
  <1>1. PICK k : k = Order[saver.n]
    OBVIOUS
  <1>2. /\ saver.pc = "first" /\ saver' = [saver EXCEPT !.pc = "test", !.it = node[list[k].head].next]
        /\ UNCHANGED <<list, node, lock, th, file, whole, saves, crashes, since, moved>>
    BY <1>1 DEF PrintFirst
  <1>3. PICK x : x = list[k].head
    OBVIOUS
  <1>4. x \in DOMAIN node /\ Within(R[k], node[x].next)
    <2>1. R[k] \in Seq(DOMAIN node) /\ Turns(node, R[k]) /\ Within(R[k], x)
      BY <1>1, <1>2, <1>3, PrintedIs
    <2> QED BY <2>1, WithinIs
  <1>5. node[x].next \in Nat /\ saver \in Saving
    <2>1. node[x] \in Node /\ saver \in Saving
      BY <1>2, <1>4, PrintedIs
    <2> QED BY <2>1 DEF Node
  <1>6. saver' \in Saving /\ saver'.pc = "test" /\ saver'.n = saver.n /\ saver'.it = node[x].next
    BY <1>2, <1>3, <1>5 DEF Saving
  <1> QED BY <1>1, <1>2, <1>4, <1>6, PrintInv

LEMMA PrintNextInv ==
    ASSUME NEW R, Inv(R), PrintNext
    PROVE  Inv(R)'
  <1>1. PICK k : k = Order[saver.n]
    OBVIOUS
  <1>2. /\ saver.pc = "next" /\ saver' = [saver EXCEPT !.pc = "test", !.it = node[saver.it].next]
        /\ UNCHANGED <<list, node, lock, th, file, whole, saves, crashes, since, moved>>
    BY DEF PrintNext
  <1>3. PICK x : x = saver.it
    OBVIOUS
  <1>4. x \in DOMAIN node /\ Within(R[k], node[x].next)
    <2>1. R[k] \in Seq(DOMAIN node) /\ Turns(node, R[k]) /\ Within(R[k], x)
      BY <1>1, <1>2, <1>3, PrintedIs
    <2> QED BY <2>1, WithinIs
  <1>5. node[x].next \in Nat /\ saver \in Saving
    <2>1. node[x] \in Node /\ saver \in Saving
      BY <1>2, <1>4, PrintedIs
    <2> QED BY <2>1 DEF Node
  <1>6. saver' \in Saving /\ saver'.pc = "test" /\ saver'.n = saver.n /\ saver'.it = node[x].next
    BY <1>2, <1>3, <1>5 DEF Saving
  <1> QED BY <1>1, <1>2, <1>4, <1>6, PrintInv

LEMMA PrintTestInv ==
    ASSUME NEW R, Inv(R), PrintTest
    PROVE  Inv(R)'
  <1>1. PICK k : k = Order[saver.n]
    OBVIOUS
  <1>2. /\ saver.pc = "test"
        /\ IF saver.it = list[k].head THEN Write(k, saver.str)
           ELSE /\ saver' = [saver EXCEPT !.pc = "next", !.str = Append(@, node[saver.it].val)]
                /\ UNCHANGED file
        /\ UNCHANGED <<list, node, lock, th, whole, saves, crashes, since, moved>>
    BY <1>1 DEF PrintTest
  <1>3. /\ k \in Keys /\ saver \in Saving /\ saver.str \in Seq(Elements) /\ saver.n <= Len(Order)
        /\ Within(R[k], saver.it) /\ R[k] \in Seq(DOMAIN node) /\ Turns(node, R[k])
        /\ \A x \in DOMAIN node : node[x] \in Node
    <2>1. saver.n \in 1..Len(Order)
      BY <1>2, PrintedIs
    <2> QED BY <1>1, <1>2, <2>1, PrintedIs, OrderIs DEF Saving
  <1>4. CASE saver.it = list[k].head
    <2>1. Write(k, saver.str)
      BY <1>2, <1>4
    <2>2. saver' \in Saving /\ saver'.pc = "key" /\ file' \in Seq(Line) /\ Damaged'
      BY <1>2, <1>3, <2>1, WriteIs
    <2>3. TypeOK'
      BY <1>2, <2>2 DEF Inv, TypeOK
    <2>4. Shape(R)'
      BY <1>2, AloneShape DEF Inv
    <2> QED BY <2>2, <2>3, <2>4 DEF Inv, Saver
  <1>5. CASE saver.it # list[k].head
    <2>1. node[saver.it].val \in Elements
      <3>1. saver.it \in DOMAIN node
        BY <1>3, WithinIs
      <3>2. node[saver.it] \in Node
        BY <1>3, <3>1
      <3> QED BY <3>2 DEF Node
    <2>2. PICK s \in Seq(Elements) : s = Append(saver.str, node[saver.it].val)
      <3>1. \A a \in Seq(Elements), v \in Elements : Append(a, v) \in Seq(Elements)
        OBVIOUS
      <3> QED BY <1>3, <2>1, <3>1, Zenon
    <2>3. saver' = [saver EXCEPT !.pc = "next", !.str = s]
      BY <1>2, <1>5, <2>2
    <2>4. saver' \in Saving /\ saver'.pc = "next" /\ saver'.n = saver.n /\ saver'.it = saver.it
      BY <1>3, <2>3 DEF Saving
    <2> QED BY <1>1, <1>2, <1>3, <1>5, <2>4, PrintInv
  <1> QED BY <1>4, <1>5

LEMMA CloseInv ==
    ASSUME NEW R, Inv(R), Close
    PROVE  Inv(R)'
  <1>1. /\ saver' = [saver EXCEPT !.pc = "idle", !.n = 1] /\ whole' = TRUE
        /\ UNCHANGED <<list, node, lock, th, file, saves, crashes, since, moved>>
    BY DEF Close
  <1>2. saver \in Saving
    BY DEF Inv, TypeOK
  <1>3. saver' \in Saving /\ saver'.pc = "idle"
    <2>1. 1 \in 1..(Len(Order) + 1)
      BY OrderIs
    <2> QED BY <1>1, <1>2, <2>1 DEF Saving
  <1>4. TypeOK'
    BY <1>1, <1>3 DEF Inv, TypeOK
  <1>5. Shape(R)'
    BY <1>1, AloneShape DEF Inv
  <1>6. Damaged'
    BY <1>1, <1>3, DamagedKept DEF Inv
  <1> QED BY <1>3, <1>4, <1>5, <1>6 DEF Inv, Saver

-----------------------------------------------------------------------------
(* Pushes                                                                  *)

\* What d has to know of a step of another.
Beside(R, S, c, d) ==
    /\ Shape(R) /\ c \in Clients /\ d \in Clients /\ d # c
    /\ \A b \in Clients : b # c => th'[b] = th[b]
    /\ th[d].pc = "take" /\ list'[Key(d)] = NULL => list[Key(d)] = NULL
    /\ th[d].pc \in Pushing => lock'[Key(d)] = d /\ S[Key(d)] = R[Key(d)]
    /\ th[d].pc = "link" => /\ th[d].e \in DOMAIN node' /\ node'[th[d].e] = node[th[d].e]
                            /\ \A k \in Keys : ~Within(S[k], th[d].e)
                            /\ th'[c].pc = "link" => th'[c].e # th[d].e

LEMMA OthersPlaced ==
    ASSUME NEW R, NEW S, NEW c, NEW d, Beside(R, S, c, d)
    PROVE  Placed(S, d)'
  <1> USE DEF Beside
  <1>1. Placed(R, d) /\ th'[d] = th[d]
    BY DEF Shape
  <1>2. ASSUME th[d].pc = "link" PROVE Linking(S, d)'
    <2>1. Linking(R, d) /\ S[Key(d)] = R[Key(d)]
      BY <1>1, <1>2 DEF Placed, Pushing
    <2>2. \A b \in Clients : b # d /\ th'[b].pc = "link" => th'[b].e # th[d].e
      BY <1>2, <2>1 DEF Linking
    <2>3. \A k \in Keys : \A i \in 1..Len(S[k]) : S[k][i] # th[d].e
      BY <1>2 DEF Within
    <2> QED BY <1>1, <1>2, <2>1, <2>2, <2>3 DEF Linking, Key, Cmd
  <1>3. th[d].pc = "head" => S[Key(d)] = R[Key(d)]
    BY DEF Pushing
  <1> QED BY <1>1, <1>2, <1>3 DEF Placed, Key, Cmd

\* The mutex of k goes from x to y.
LEMMA LockPassed ==
    ASSUME Locked, lock \in [Keys -> Clients \union {NULL}], NEW c \in Clients, NEW k \in Keys,
           \A b \in Clients : b # c => th'[b] = th[b],
           \/ lock[k] \in {c, NULL} /\ lock' = [lock EXCEPT ![k] = c] /\ th'[c].pc \in Pushing /\ th'[c].cmd.key = k
              /\ (th[c].pc \in Pushing => Key(c) = k)
           \/ lock[k] = c /\ lock' = [lock EXCEPT ![k] = NULL]
    PROVE  Locked'
  <1> SUFFICES ASSUME NEW l \in Keys, lock'[l] # NULL
               PROVE  lock'[l] \in Clients /\ th'[lock'[l]].pc \in Pushing /\ th'[lock'[l]].cmd.key = l
    BY DEF Locked, Key, Cmd
  <1>1. CASE l = k
    BY <1>1, NullIs
  <1>2. CASE l # k
    <2>1. lock'[l] = lock[l]
      BY <1>2
    <2>2. lock[l] \in Clients /\ th[lock[l]].pc \in Pushing /\ th[lock[l]].cmd.key = l
      BY <2>1 DEF Locked, Key, Cmd
    <2>3. lock[l] # c
      <3>1. lock[k] = c => th[c].cmd.key = k
        BY NullIs DEF Locked, Key, Cmd
      <3> QED BY <1>2, <2>2, <3>1 DEF Key, Cmd
    <2> QED BY <2>1, <2>2, <2>3
  <1> QED BY <1>1, <1>2

\* The next of the last node is the head, whose prev is the last one.
LEMMA EndsAre ==
    ASSUME NEW S, NEW nd, NEW r \in Seq(S), r # <<>>, Turns(nd, r)
    PROVE  /\ Len(r) \in 1..Len(r) /\ 1 \in 1..Len(r) /\ r[1] \in S /\ r[Len(r)] \in S
           /\ nd[r[1]].prev = r[Len(r)] /\ nd[r[Len(r)]].next = r[1]
  <1>1. Len(r) \in 1..Len(r) /\ 1 \in 1..Len(r) /\ r[1] \in S /\ r[Len(r)] \in S
    OBVIOUS
  <1> QED BY <1>1 DEF Turns

LEMMA EnterIs ==
    ASSUME NEW R, Inv(R), NEW c \in Clients, Enter(c)
    PROVE  /\ th' \in [Clients -> Thread]
           /\ \A d \in Clients : d # c => th'[d] = th[d]
           /\ th[c].pc = "check" /\ th'[c].pc = "link" /\ th'[c].cmd = th[c].cmd /\ th'[c].n = th[c].n
           /\ th'[c].ans = th[c].ans
           /\ th'[c].e \in Nat \ {Nil} /\ th'[c].e \notin DOMAIN node
           /\ DOMAIN node' = DOMAIN node \union {th'[c].e}
           /\ \A i \in DOMAIN node : node'[i] = node[i]
           /\ node'[th'[c].e] \in Node /\ node'[th'[c].e].val = Cmd(c).val
           /\ node'[th'[c].e].next = IF R[Key(c)] = <<>> THEN th'[c].e ELSE R[Key(c)][1]
           /\ node'[th'[c].e].prev = IF R[Key(c)] = <<>> THEN th'[c].e ELSE R[Key(c)][Len(R[Key(c)])]
           /\ Key(c) \in Keys /\ lock[Key(c)] = NULL /\ lock' = [lock EXCEPT ![Key(c)] = c]
           /\ list[Key(c)] # NULL /\ ~Shrinks(Cmd(c))
           /\ UNCHANGED <<list, saver, file, whole, saves, crashes, since, moved>>
  <1> DEFINE k == Key(c)
             h == list[k].head
             new == IF h = Nil THEN [val |-> Cmd(c).val, next |-> New, prev |-> New]
                    ELSE [val |-> Cmd(c).val, next |-> h, prev |-> node[h].prev]
  <1>1. /\ th[c].pc = "check" /\ ~Shrinks(Cmd(c)) /\ list[k] # NULL /\ lock[k] = NULL
        /\ lock' = [lock EXCEPT ![k] = c]
        /\ node' = [i \in DOMAIN node \union {New} |-> IF i # New THEN node[i] ELSE new]
        /\ th' = [th EXCEPT ![c].pc = "link", ![c].e = New]
        /\ UNCHANGED <<list, saver, file, whole, saves, crashes, since, moved>>
    BY DEF Enter
  <1>2. /\ IsFiniteSet(DOMAIN node) /\ Shape(R) /\ th \in [Clients -> Thread]
        /\ node \in [DOMAIN node -> Node] /\ DOMAIN node \subseteq Nat \ {Nil}
    BY DEF Inv, Shape, TypeOK
  <1>3. New \in Nat \ {Nil} /\ New \notin DOMAIN node
    BY <1>2, NewIs
  <1>4. Cmd(c) \in Commands /\ k \in Keys /\ Cmd(c).val \in Elements
    BY <1>1, <1>2, KeyIs, CommandIs
  <1>5. h = HeadOf(R[k]) /\ R[k] \in Seq(DOMAIN node) /\ Turns(node, R[k])
    BY <1>1, <1>2, <1>4 DEF Shape, Headed, Rings
  <1>6. /\ new \in Node /\ new.val = Cmd(c).val
        /\ new.next = IF R[k] = <<>> THEN New ELSE R[k][1]
        /\ new.prev = IF R[k] = <<>> THEN New ELSE R[k][Len(R[k])]
    <2>1. CASE R[k] = <<>>
      <3>1. h = Nil
        BY <1>5, <2>1 DEF HeadOf
      <3> HIDE DEF k, h
      <3> QED BY <1>3, <1>4, <2>1, <3>1 DEF Node
    <2>2. CASE R[k] # <<>>
      <3>1. h = R[k][1] /\ h \in DOMAIN node /\ node[h].prev = R[k][Len(R[k])] /\ R[k][Len(R[k])] \in DOMAIN node
        BY <1>5, <2>2, EndsAre DEF HeadOf
      <3>2. h # Nil /\ h \in Nat /\ node[h].prev \in Nat
        BY <1>2, <3>1
      <3> HIDE DEF k, h
      <3> QED BY <1>4, <2>2, <3>1, <3>2 DEF Node
    <2> QED BY <2>1, <2>2
  <1> HIDE DEF new, h
  <1>7. DOMAIN node' = DOMAIN node \union {New} /\ node'[New] = new /\ \A i \in DOMAIN node : node'[i] = node[i]
    BY <1>1, <1>3
  <1>8. /\ th' \in [Clients -> Thread] /\ \A d \in Clients : d # c => th'[d] = th[d]
        /\ th'[c].pc = "link" /\ th'[c].e = New /\ th'[c].cmd = th[c].cmd /\ th'[c].n = th[c].n
        /\ th'[c].ans = th[c].ans
    <2> DEFINE t == [th[c] EXCEPT !.pc = "link", !.e = New]
    <2>1. t \in Thread /\ t.pc = "link" /\ t.e = New /\ t.cmd = th[c].cmd /\ t.n = th[c].n /\ t.ans = th[c].ans
      BY <1>2, <1>3 DEF Thread
    <2>2. th' = [th EXCEPT ![c] = t]
      BY <1>1
    <2> HIDE DEF t
    <2> QED BY <1>2, <2>1, <2>2
  <1> QED BY <1>1, <1>3, <1>4, <1>6, <1>7, <1>8

LEMMA EnterInv ==
    ASSUME NEW R, Inv(R), NEW c \in Clients, Enter(c)
    PROVE  Inv(R)'
  <1>1. PICK k \in Keys : k = Key(c)
    BY EnterIs
  <1>2. PICK e \in Nat \ {Nil} : e = th'[c].e
    BY EnterIs
  <1>3. /\ th' \in [Clients -> Thread]
        /\ \A d \in Clients : d # c => th'[d] = th[d]
        /\ th[c].pc = "check" /\ th'[c].pc = "link" /\ th'[c].cmd = th[c].cmd
        /\ e \notin DOMAIN node /\ DOMAIN node' = DOMAIN node \union {e}
        /\ \A i \in DOMAIN node : node'[i] = node[i]
        /\ node'[e] \in Node /\ node'[e].val = Cmd(c).val
        /\ node'[e].next = IF R[k] = <<>> THEN e ELSE R[k][1]
        /\ node'[e].prev = IF R[k] = <<>> THEN e ELSE R[k][Len(R[k])]
        /\ lock[k] = NULL /\ lock' = [lock EXCEPT ![k] = c]
        /\ list[k] # NULL /\ ~Shrinks(Cmd(c))
        /\ UNCHANGED <<list, saver, file, whole, saves, crashes, since, moved>>
    BY <1>1, <1>2, EnterIs, ZenonT(60)
  <1>4. Shape(R) /\ TypeOK /\ Cmd(c) \in Work[c]
    BY <1>3, KeyIs DEF Inv
  <1>5. TypeOK'
    <2>1. node' \in [DOMAIN node' -> Node] /\ DOMAIN node' \subseteq Nat \ {Nil}
      <3>1. node' = [i \in DOMAIN node' |-> node'[i]]
        <4>1. node' = [i \in DOMAIN node \union {New} |->
                         IF i # New THEN node[i]
                         ELSE IF list[Key(c)].head = Nil THEN [val |-> Cmd(c).val, next |-> New, prev |-> New]
                         ELSE [val |-> Cmd(c).val, next |-> list[Key(c)].head, prev |-> node[list[Key(c)].head].prev]]
          BY DEF Enter
        <4> QED BY <4>1
      <3>2. \A i \in DOMAIN node' : node'[i] \in Node
        BY <1>3, <1>4 DEF TypeOK
      <3> QED BY <1>3, <1>4, <3>1, <3>2 DEF TypeOK
    <2>2. lock' \in [Keys -> Clients \union {NULL}]
      BY <1>3, <1>4 DEF TypeOK
    <2> QED BY <1>3, <1>4, <2>1, <2>2 DEF TypeOK
  <1>6. IsFiniteSet(DOMAIN node')
    <2>1. IsFiniteSet(DOMAIN node)
      BY <1>4 DEF Shape
    <2> QED BY <1>3, <2>1, FS_AddElement
  <1>7. ASSUME NEW l \in Keys
        PROVE  /\ R[l] \in Seq(DOMAIN node') /\ Turns(node', R[l])
               /\ \A i \in 1..Len(R[l]) : R[l][i] \in DOMAIN node
    <2>1. R[l] \in Seq(DOMAIN node) /\ Turns(node, R[l])
      BY <1>4 DEF Shape, Rings
    <2>2. \A i \in 1..Len(R[l]) : R[l][i] \in DOMAIN node
      BY <2>1
    <2>3. R[l] \in Seq(DOMAIN node')
      BY <1>3, <2>1, SeqMonotonic
    <2>4. \A i \in 1..Len(R[l]) : node'[R[l][i]] = node[R[l][i]]
      BY <1>3, <2>2
    <2> QED BY <2>1, <2>2, <2>3, <2>4 DEF Turns
  <1>8. Rings(R)'
    <2>1. R \in [Keys -> Seq(DOMAIN node')]
      BY <1>4, <1>7 DEF Shape, Rings
    <2> QED BY <1>4, <1>7, <2>1 DEF Shape, Rings
  <1>9. Headed(R)'
    <2>1. \A l \in Keys : Late(l)' <=> Late(l)
      <3>1. ASSUME NEW l \in Keys, l # k PROVE Late(l)' <=> Late(l)
        BY <1>3, <1>4, <3>1 DEF Late, TypeOK
      <3>2. ~Late(k) /\ ~Late(k)'
        BY <1>3, <1>4, NullIs DEF Late, TypeOK
      <3> QED BY <3>1, <3>2
    <2>2. lock'[k] = c /\ \A l \in Keys : l # k => lock'[l] = lock[l]
      BY <1>3, <1>4 DEF TypeOK
    <2> QED BY <1>3, <1>4, <2>1, <2>2 DEF Shape, Headed
  <1>10. Locked'
    <2>1. Locked /\ lock \in [Keys -> Clients \union {NULL}]
      BY <1>4 DEF Shape, TypeOK
    <2>2. th'[c].pc \in Pushing /\ th[c].pc \notin Pushing /\ th'[c].cmd.key = k
      BY <1>1, <1>3 DEF Pushing, Key, Cmd
    <2> QED BY <1>3, <2>1, <2>2, LockPassed
  <1>11. ASSUME NEW d \in Clients PROVE Placed(R, d)'
    <2>1. CASE d = c
      <3>1. lock'[k] = c
        BY <1>3, <1>4 DEF TypeOK
      <3>2. \A b \in Clients : b # c /\ th'[b].pc = "link" => th'[b].e # e
        BY <1>3, <1>4 DEF Shape, Placed, Linking
      <3>3. \A l \in Keys : \A i \in 1..Len(R[l]) : R[l][i] # e
        BY <1>3, <1>7
      <3>4. th'[c].cmd.key = k
        BY <1>1, <1>3 DEF Key, Cmd
      <3>5. Linking(R, c)'
        BY <1>2, <1>3, <3>2, <3>3, <3>4 DEF Linking, Key, Cmd
      <3> QED BY <1>3, <1>4, <2>1, <3>1, <3>4, <3>5 DEF Placed, Pushing, Key, Cmd
    <2>2. CASE d # c
      <3>1. ASSUME th[d].pc \in Pushing PROVE lock'[Key(d)] = d
        <4>1. lock[Key(d)] = d /\ Key(d) \in Keys
          BY <1>4, <3>1, HolderIs
        <4>2. Key(d) # k
          BY <1>3, <4>1, NullIs
        <4> QED BY <1>3, <1>4, <4>1, <4>2 DEF TypeOK
      <3>2. ASSUME th[d].pc = "link"
            PROVE  /\ th[d].e \in DOMAIN node' /\ node'[th[d].e] = node[th[d].e]
                   /\ \A l \in Keys : ~Within(R[l], th[d].e)
                   /\ th'[c].pc = "link" => th'[c].e # th[d].e
        <4>1. Linking(R, d)
          BY <1>4, <3>2 DEF Shape, Placed
        <4> QED BY <1>2, <1>3, <4>1 DEF Linking, Within
      <3>3. Beside(R, R, c, d)
        BY <1>3, <1>4, <2>2, <3>1, <3>2 DEF Beside
      <3> QED BY <3>3, OthersPlaced
    <2> QED BY <2>1, <2>2
  <1>12. Saver(R)'
    <2>1. Moves(c)
      BY <1>3 DEF Moves
    <2> QED BY <1>3, <2>1, SaverStays, PrintingIs DEF Inv
  <1>13. Damaged'
    BY <1>3, DamagedKept DEF Inv
  <1> QED BY <1>5, <1>6, <1>8, <1>9, <1>10, <1>11, <1>12, <1>13 DEF Inv, Shape

\* A node is linked between the last one and the first.
LEMMA LinkTurns ==
    ASSUME NEW nd, NEW nd2, NEW r \in Seq(DOMAIN nd), Once(r), Turns(nd, r), NEW e \in DOMAIN nd, ~Within(r, e),
           nd[e].next = IF r = <<>> THEN e ELSE r[1], nd[e].prev = IF r = <<>> THEN e ELSE r[Len(r)],
           DOMAIN nd2 = DOMAIN nd,
           \A x \in DOMAIN nd : /\ nd2[x].next = IF r # <<>> /\ x = r[Len(r)] THEN e ELSE nd[x].next
                                /\ nd2[x].prev = IF r # <<>> /\ x = r[1] THEN e ELSE nd[x].prev
    PROVE  Append(r, e) \in Seq(DOMAIN nd2) /\ Once(Append(r, e)) /\ Turns(nd2, Append(r, e))
  <1>1. PICK s : s = Append(r, e)
    OBVIOUS
  <1>2. PICK n \in Nat : n = Len(r)
    OBVIOUS
  <1>3. /\ s \in Seq(DOMAIN nd2) /\ Len(s) = n + 1 /\ s[n + 1] = e
        /\ \A i \in 1..n : s[i] = r[i] /\ r[i] \in DOMAIN nd /\ r[i] # e
    BY <1>1, <1>2 DEF Within
  <1>4. Once(s)
    <2> SUFFICES ASSUME NEW i \in 1..(n + 1), NEW j \in 1..(n + 1), s[i] = s[j] PROVE i = j
      BY <1>3 DEF Once
    <2>1. i \in 1..n \/ i = n + 1
      BY <1>2
    <2>2. j \in 1..n \/ j = n + 1
      BY <1>2
    <2> QED BY <1>2, <1>3, <2>1, <2>2 DEF Once
  <1>5. r = <<>> <=> n = 0
    BY <1>2
  <1>6. ASSUME NEW i \in 1..(n + 1)
        PROVE  /\ nd2[s[i]].next = s[IF i = n + 1 THEN 1 ELSE i + 1]
               /\ nd2[s[i]].prev = s[IF i = 1 THEN n + 1 ELSE i - 1]
    <2>1. CASE i = n + 1
      <3>1. nd2[e].next = nd[e].next /\ nd2[e].prev = nd[e].prev
        <4>1. r # <<>> => Len(r) \in 1..n /\ 1 \in 1..n
          BY <1>2, <1>5
        <4> QED BY <1>2, <1>3, <4>1
      <3>2. CASE n = 0
        BY <1>3, <1>5, <2>1, <3>1, <3>2
      <3>3. CASE n # 0
        <4>1. n \in 1..n /\ 1 \in 1..n /\ i # 1 /\ i - 1 = n
          BY <2>1, <3>3
        <4> QED BY <1>2, <1>3, <1>5, <2>1, <3>1, <3>3, <4>1
      <3> QED BY <3>2, <3>3
    <2>2. CASE i # n + 1
      <3>1. i \in 1..n /\ r # <<>> /\ s[i] = r[i] /\ r[i] \in DOMAIN nd /\ 1 \in 1..n /\ n \in 1..n
        BY <1>3, <1>5, <2>2
      <3>2. /\ nd[r[i]].next = r[IF i = n THEN 1 ELSE i + 1]
            /\ nd[r[i]].prev = r[IF i = 1 THEN n ELSE i - 1]
        BY <1>2, <3>1 DEF Turns
      <3>3. nd2[s[i]].next = s[i + 1]
        <4>1. CASE i = n
          BY <1>2, <1>3, <3>1, <4>1
        <4>2. CASE i # n
          <5>1. r[i] # r[n] /\ i + 1 \in 1..n
            BY <1>2, <3>1, <4>2 DEF Once
          <5> QED BY <1>2, <1>3, <3>1, <3>2, <4>2, <5>1
        <4> QED BY <4>1, <4>2
      <3>4. nd2[s[i]].prev = s[IF i = 1 THEN n + 1 ELSE i - 1]
        <4>1. CASE i = 1
          BY <1>2, <1>3, <3>1, <4>1
        <4>2. CASE i # 1
          <5>1. r[i] # r[1] /\ i - 1 \in 1..n
            BY <1>2, <3>1, <4>2 DEF Once
          <5> QED BY <1>2, <1>3, <3>1, <3>2, <4>2, <5>1
        <4> QED BY <4>1, <4>2
      <3> QED BY <2>2, <3>3, <3>4
    <2> QED BY <2>1, <2>2
  <1> QED BY <1>1, <1>3, <1>4, <1>6 DEF Turns

\* The history keeps lists.
LEMMA RememberIs ==
    ASSUME NEW S, Shape(S)', Types', NEW k \in Keys, Remember(k),
           since \in [Keys -> SUBSET (Seq(Elements) \union {NULL})]
    PROVE  since' \in [Keys -> SUBSET (Seq(Elements) \union {NULL})]
  <1>1. PICK x : x = Sights(k)'
    OBVIOUS
  <1>2. x \subseteq Seq(Elements) \union {NULL}
    BY <1>1, ViewIsNext
  <1>3. since' = IF saver.pc = "idle" THEN since ELSE [since EXCEPT ![k] = since[k] \union x]
    BY <1>1 DEF Remember
  <1> QED BY <1>2, <1>3

LEMMA LinkIs ==
    ASSUME NEW R, Inv(R), NEW c \in Clients, Link(c), NEW k \in Keys, k = Key(c), NEW r, r = R[k],
           NEW e, e = th[c].e
    PROVE  /\ e \in DOMAIN node
           /\ th' \in [Clients -> Thread] /\ \A d \in Clients : d # c => th'[d] = th[d]
           /\ th'[c].pc = (IF r # <<>> /\ Cmd(c).op = "lpush" THEN "head" ELSE "leave")
           /\ th'[c].cmd = th[c].cmd /\ th'[c].e = e
           /\ DOMAIN node' = DOMAIN node /\ node' \in [DOMAIN node -> Node]
           /\ \A x \in DOMAIN node :
                 /\ node'[x].next = IF r # <<>> /\ x = r[Len(r)] THEN e ELSE node[x].next
                 /\ node'[x].prev = IF r # <<>> /\ x = r[1] THEN e ELSE node[x].prev
                 /\ node'[x].val = node[x].val
                 /\ ~Within(r, x) => node'[x] = node[x]
           /\ list' \in [Keys -> List \union {NULL}]
           /\ \A l \in Keys : l # k => list'[l] = list[l]
           /\ list'[k] # NULL /\ list'[k].length = list[k].length
           /\ list'[k].head = IF r = <<>> THEN e ELSE r[1]
           /\ moved' \subseteq Keys
           /\ UNCHANGED <<lock, saver, file, whole, saves, crashes>> /\ Remember(k)
  <1>1. PICK h : h = list[k].head
    OBVIOUS
  <1>2. /\ th[c].pc = "link"
        /\ IF h = Nil THEN list' = [list EXCEPT ![k].head = e] /\ UNCHANGED node
           ELSE node' = [node EXCEPT ![node[h].prev].next = e, ![h].prev = e] /\ UNCHANGED list
        /\ Goto(c, IF h # Nil /\ Cmd(c).op = "lpush" THEN "head" ELSE "leave")
        /\ moved' = IF h # Nil /\ Cmd(c).op = "lpush" /\ Printing(k) THEN moved \union {k} ELSE moved
        /\ UNCHANGED <<lock, saver, file, whole, saves, crashes>> /\ Remember(k)
    BY <1>1 DEF Link
  <1>3. /\ Shape(R) /\ list \in [Keys -> List \union {NULL}] /\ th \in [Clients -> Thread] /\ moved \subseteq Keys
        /\ node \in [DOMAIN node -> Node] /\ DOMAIN node \subseteq Nat \ {Nil}
    BY DEF Inv, TypeOK
  <1>4. list[k] # NULL /\ h = HeadOf(r) /\ r \in Seq(DOMAIN node) /\ Turns(node, r) /\ list[k] \in List
    <2>1. k \in Keys /\ list[k] # NULL /\ h = HeadOf(r)
      BY <1>1, <1>2, <1>3, HolderIs DEF Pushing
    <2> QED BY <1>3, <2>1 DEF Shape, Rings
  <1>5. e \in DOMAIN node /\ e \in Nat
    BY <1>2, <1>3 DEF Shape, Placed, Linking
  <1>6. r = <<>> <=> h = Nil
    <2>1. r # <<>> => r[1] # Nil
      BY <1>3, <1>4
    <2> QED BY <1>4, <2>1 DEF HeadOf
  <1>7. /\ th' \in [Clients -> Thread] /\ \A d \in Clients : d # c => th'[d] = th[d]
        /\ th'[c].pc = (IF r # <<>> /\ Cmd(c).op = "lpush" THEN "head" ELSE "leave")
        /\ th'[c].cmd = th[c].cmd /\ th'[c].e = e
    BY <1>2, <1>3, <1>6, GotoIs
  <1>8. CASE r = <<>>
    <2>1. list' = [list EXCEPT ![k].head = e] /\ node' = node
      BY <1>2, <1>6, <1>8
    <2>2. \A x : ~(r # <<>> /\ x = r[Len(r)]) /\ ~(r # <<>> /\ x = r[1])
      BY <1>8
    <2> DEFINE t == [list[k] EXCEPT !.head = e]
    <2>3. t \in List /\ t.head = e /\ t.length = list[k].length
      BY <1>4, <1>5 DEF List
    <2>4. list' = [list EXCEPT ![k] = t]
      BY <2>1
    <2> HIDE DEF t
    <2>5. list' \in [Keys -> List \union {NULL}] /\ list'[k] = t /\ \A l \in Keys : l # k => list'[l] = list[l]
      BY <1>3, <2>3, <2>4
    <2>6. t # NULL
      BY <2>3, NullIs
    <2> QED BY <1>2, <1>3, <1>5, <1>7, <1>8, <2>1, <2>2, <2>3, <2>5, <2>6
  <1>9. CASE r # <<>>
    <2>1. PICK t : t = r[Len(r)]
      OBVIOUS
    <2>2. h = r[1] /\ node[h].prev = t /\ h \in DOMAIN node /\ t \in DOMAIN node /\ Within(r, h) /\ Within(r, t)
      BY <1>4, <1>9, <2>1, EndsAre DEF HeadOf, Within
    <2>3. node' = [node EXCEPT ![t].next = e, ![h].prev = e] /\ list' = list
      BY <1>2, <1>6, <1>9, <2>2
    <2>4. DOMAIN node' = DOMAIN node
      BY <2>3
    <2>5. ASSUME NEW x \in DOMAIN node
          PROVE  /\ node'[x] \in Node
                 /\ node'[x].next = IF x = t THEN e ELSE node[x].next
                 /\ node'[x].prev = IF x = h THEN e ELSE node[x].prev
                 /\ node'[x].val = node[x].val
                 /\ ~Within(r, x) => node'[x] = node[x]
      <3>1. node[x] \in Node
        BY <1>3
      <3>2. node'[x] = IF x = t THEN (IF x = h THEN [[node[x] EXCEPT !.next = e] EXCEPT !.prev = e]
                                      ELSE [node[x] EXCEPT !.next = e])
                       ELSE IF x = h THEN [node[x] EXCEPT !.prev = e] ELSE node[x]
        BY <2>2, <2>3
      <3> QED BY <1>5, <2>2, <3>1, <3>2 DEF Node
    <2>6. node' \in [DOMAIN node -> Node]
      <3>1. node' = [x \in DOMAIN node' |-> node'[x]]
        BY <2>3
      <3> QED BY <2>4, <2>5, <3>1
    <2>7. \A x \in DOMAIN node :
             /\ node'[x].next = IF r # <<>> /\ x = r[Len(r)] THEN e ELSE node[x].next
             /\ node'[x].prev = IF r # <<>> /\ x = r[1] THEN e ELSE node[x].prev
             /\ node'[x].val = node[x].val
             /\ ~Within(r, x) => node'[x] = node[x]
      BY <1>9, <2>1, <2>2, <2>5
    <2>8. moved' \subseteq Keys
      BY <1>2, <1>3
    <2>9. list'[k] # NULL /\ list'[k].length = list[k].length /\ list'[k].head = r[1]
      BY <1>1, <1>4, <2>2, <2>3
    <2> QED BY <1>2, <1>3, <1>5, <1>7, <1>9, <2>3, <2>4, <2>6, <2>7, <2>8, <2>9
  <1> QED BY <1>8, <1>9

\* What a step of c makes of the rings: the node is the last of its list ...
LinkedTo(R, S, c) ==
    S[Key(c)] = Append(R[Key(c)], th[c].e) /\ \A l \in Keys : l # Key(c) => S[l] = R[l]

LEMMA LinkInv ==
    ASSUME NEW R, Inv(R), NEW c \in Clients, Link(c)
    PROVE  \E S : Inv(S)' /\ LinkedTo(R, S, c)
  <1>1. th[c].pc = "link" /\ th[c].pc \in Pushing /\ Shape(R) /\ TypeOK
    BY DEF Link, Pushing, Inv
  <1>2. PICK k \in Keys : k = Key(c)
    BY <1>1, HolderIs
  <1>3. PICK r : r = R[k]
    OBVIOUS
  <1>4. PICK e : e = th[c].e
    OBVIOUS
  <1>5. PICK s : s = Append(r, e)
    OBVIOUS
  <1>6. PICK S : S = [R EXCEPT ![k] = s]
    OBVIOUS
  <1>7. /\ e \in DOMAIN node
        /\ th' \in [Clients -> Thread] /\ \A d \in Clients : d # c => th'[d] = th[d]
        /\ th'[c].pc = (IF r # <<>> /\ Cmd(c).op = "lpush" THEN "head" ELSE "leave")
        /\ th'[c].cmd = th[c].cmd /\ th'[c].e = e
        /\ DOMAIN node' = DOMAIN node /\ node' \in [DOMAIN node -> Node]
        /\ \A x \in DOMAIN node :
              /\ node'[x].next = IF r # <<>> /\ x = r[Len(r)] THEN e ELSE node[x].next
              /\ node'[x].prev = IF r # <<>> /\ x = r[1] THEN e ELSE node[x].prev
              /\ node'[x].val = node[x].val
              /\ ~Within(r, x) => node'[x] = node[x]
        /\ list' \in [Keys -> List \union {NULL}]
        /\ \A l \in Keys : l # k => list'[l] = list[l]
        /\ list'[k] # NULL /\ list'[k].length = list[k].length
        /\ list'[k].head = IF r = <<>> THEN e ELSE r[1]
        /\ moved' \subseteq Keys
        /\ UNCHANGED <<lock, saver, file, whole, saves, crashes>> /\ Remember(k)
    BY <1>2, <1>3, <1>4, LinkIs
  <1>8. /\ IsFiniteSet(DOMAIN node) /\ Rings(R) /\ Headed(R) /\ Locked
        /\ r \in Seq(DOMAIN node) /\ Once(r) /\ Turns(node, r) /\ Len(r) \in Nat
    BY <1>1, <1>3 DEF Shape, Rings
  <1>9. /\ lock[k] = c /\ list[k] # NULL /\ Cmd(c).op \in Pushes /\ list[k].head = HeadOf(r)
        /\ \A d \in Clients : d # c /\ th[d].pc \in Pushing => Key(d) # k
    BY <1>1, <1>2, <1>3, HolderIs
  <1>10. /\ node[e].next = IF r = <<>> THEN e ELSE r[1]
         /\ node[e].prev = IF r = <<>> THEN e ELSE r[Len(r)]
         /\ \A l \in Keys : \A i \in 1..Len(R[l]) : R[l][i] # e
         /\ \A d \in Clients : d # c /\ th[d].pc = "link" => th[d].e # e
    BY <1>1, <1>2, <1>3, <1>4 DEF Shape, Placed, Linking
  <1>11. s \in Seq(DOMAIN node') /\ Once(s) /\ Turns(node', s)
    <2>1. ~Within(r, e)
      BY <1>3, <1>10 DEF Within
    <2> QED BY <1>5, <1>7, <1>8, <1>10, <2>1, LinkTurns
  <1>12. /\ S[k] = s /\ DOMAIN S = Keys /\ \A l \in Keys : l # k => S[l] = R[l]
         /\ Len(s) = Len(r) + 1 /\ s[Len(r) + 1] = e /\ \A i \in 1..Len(r) : s[i] = r[i]
    <2>1. DOMAIN R = Keys
      BY <1>8 DEF Rings
    <2> QED BY <1>5, <1>6, <1>8, <2>1
  <1>13. ASSUME NEW l \in Keys, l # k
         PROVE  /\ \A i \in 1..Len(R[l]) : R[l][i] \in DOMAIN node /\ ~Within(r, R[l][i])
                /\ R[l] \in Seq(DOMAIN node') /\ Turns(node', R[l])
    <2>1. R[l] \in Seq(DOMAIN node) /\ Turns(node, R[l])
      BY <1>8 DEF Rings
    <2>2. \A i \in 1..Len(R[l]) : R[l][i] \in DOMAIN node /\ ~Within(r, R[l][i])
      BY <1>3, <1>8, <1>13, <2>1 DEF Rings, Within
    <2> QED BY <1>7, <2>1, <2>2 DEF Turns
  <1>14. Rings(S)'
    <2>1. S \in [Keys -> Seq(DOMAIN node')]
      <3>1. \A l \in Keys : S[l] \in Seq(DOMAIN node')
        BY <1>11, <1>12, <1>13
      <3>2. S = [l \in Keys |-> S[l]]
        BY <1>6, <1>8 DEF Rings
      <3> QED BY <3>1, <3>2
    <2>2. \A l \in Keys : Once(S[l]) /\ Turns(node', S[l])
      BY <1>8, <1>11, <1>12, <1>13 DEF Rings
    <2>3. ASSUME NEW l \in Keys, l # k, NEW i \in 1..Len(R[l]), NEW j \in 1..Len(s)
          PROVE  R[l][i] # s[j]
      <3>1. CASE j \in 1..Len(r)
        BY <1>12, <1>13, <2>3, <3>1 DEF Within
      <3>2. CASE j = Len(r) + 1
        BY <1>10, <1>12, <2>3, <3>2
      <3> QED BY <1>8, <1>12, <3>1, <3>2
    <2>4. \A l, m \in Keys : l # m => \A i \in 1..Len(S[l]), j \in 1..Len(S[m]) : S[l][i] # S[m][j]
      <3> SUFFICES ASSUME NEW l \in Keys, NEW m \in Keys, l # m, NEW i \in 1..Len(S[l]), NEW j \in 1..Len(S[m])
                   PROVE  S[l][i] # S[m][j]
        OBVIOUS
      <3>1. CASE l # k /\ m # k
        BY <1>8, <1>12, <3>1 DEF Rings
      <3>2. CASE l # k /\ m = k
        BY <1>12, <2>3, <3>2
      <3>3. CASE l = k /\ m # k
        <4>1. R[m][j] # s[i]
          BY <1>12, <2>3, <3>3
        <4> QED BY <1>12, <3>3, <4>1
      <3> QED BY <3>1, <3>2, <3>3
    <2> QED BY <2>1, <2>2, <2>4 DEF Rings
  <1>15. Headed(S)'
    <2>1. ~Late(k) /\ Late(k)'
      <3>1. ~Late(k)
        BY <1>1, <1>9 DEF Late
      <3>2. lock'[k] = c /\ th'[c].pc \in {"head", "leave"}
        BY <1>7, <1>9
      <3> QED BY <3>1, <3>2 DEF Late
    <2>2. \A l \in Keys : l # k => (Late(l)' <=> Late(l))
      <3>1. \A l \in Keys : l # k => lock[l] # c
        BY <1>1, <1>2, <1>8, NullIs DEF Locked
      <3> QED BY <1>7, <3>1 DEF Late
    <2>3. list[k].length = Len(r)
      <3>1. list[k].length = Len(r) - 0
        BY <1>3, <1>8, <1>9, <2>1 DEF Headed
      <3> QED BY <1>8, <3>1
    <2>4. list'[k].head = HeadOf(s) /\ list'[k].length = Len(s) - 1
      <3>1. s # <<>> /\ s[1] = IF r = <<>> THEN e ELSE r[1]
        BY <1>8, <1>12
      <3> QED BY <1>7, <1>8, <1>12, <2>3, <3>1 DEF HeadOf
    <2>5. ASSUME NEW l \in Keys
          PROVE  IF list'[l] = NULL THEN S[l] = <<>> /\ lock'[l] = NULL
                 ELSE /\ list'[l].head = HeadOf(S[l])
                      /\ list'[l].length = Len(S[l]) - IF Late(l)' THEN 1 ELSE 0
      <3>1. CASE l = k
        BY <1>7, <1>12, <2>1, <2>4, <3>1
      <3>2. CASE l # k
        <4>1. list'[l] = list[l] /\ lock'[l] = lock[l] /\ S[l] = R[l] /\ (Late(l)' <=> Late(l))
          BY <1>7, <1>12, <2>2, <3>2
        <4>2. IF list[l] = NULL THEN R[l] = <<>> /\ lock[l] = NULL
              ELSE list[l].head = HeadOf(R[l]) /\ list[l].length = Len(R[l]) - IF Late(l) THEN 1 ELSE 0
          BY <1>8 DEF Headed
        <4> QED BY <4>1, <4>2
      <3> QED BY <3>1, <3>2
    <2> QED BY <2>5 DEF Headed
  <1>16. Locked'
    <2>1. th'[c].pc \in Pushing
      BY <1>7 DEF Pushing
    <2>2. th'[c].cmd.key = k
      BY <1>2, <1>7 DEF Key, Cmd
    <2> SUFFICES ASSUME NEW l \in Keys, lock[l] # NULL
                 PROVE  lock[l] \in Clients /\ th'[lock[l]].pc \in Pushing /\ th'[lock[l]].cmd.key = l
      BY <1>7 DEF Locked, Key, Cmd
    <2>3. lock[l] \in Clients /\ th[lock[l]].pc \in Pushing /\ th[lock[l]].cmd.key = l
      BY <1>8 DEF Locked, Key, Cmd
    <2> QED BY <1>7, <2>1, <2>3
  <1>17. ASSUME NEW d \in Clients PROVE Placed(S, d)'
    <2>1. CASE d = c
      <3>1. th'[c].cmd.key = k /\ lock'[k] = c /\ Cmd(c) \in Work[c] /\ ~Shrinks(Cmd(c))
        BY <1>1, <1>2, <1>7, <1>9, KeyIs DEF Key, Cmd, Shrinks, Pushing
      <3>2. th'[c].pc = "head" => Cmd(c).op = "lpush" /\ Len(s) >= 2 /\ s[Len(s)] = e
        BY <1>7, <1>8, <1>12
      <3> QED BY <1>7, <1>12, <2>1, <3>1, <3>2 DEF Placed, Key, Cmd
    <2>2. CASE d # c
      <3>1. ASSUME th[d].pc \in Pushing PROVE lock'[Key(d)] = d /\ S[Key(d)] = R[Key(d)]
        BY <1>1, <1>7, <1>9, <1>12, <2>2, <3>1, HolderIs
      <3>2. ASSUME th[d].pc = "link"
            PROVE  /\ th[d].e \in DOMAIN node' /\ node'[th[d].e] = node[th[d].e]
                   /\ \A l \in Keys : ~Within(S[l], th[d].e)
                   /\ th'[c].pc # "link"
        <4>1. /\ th[d].e \in DOMAIN node /\ th[d].e # e
              /\ \A l \in Keys : \A i \in 1..Len(R[l]) : R[l][i] # th[d].e
          BY <1>1, <1>10, <2>2, <3>2 DEF Shape, Placed, Linking
        <4>2. ~Within(r, th[d].e)
          BY <1>3, <4>1 DEF Within
        <4>3. ~Within(s, th[d].e)
          <5> SUFFICES ASSUME NEW i \in 1..Len(s) PROVE th[d].e # s[i]
            BY DEF Within
          <5>1. i \in 1..Len(r) \/ i = Len(r) + 1
            BY <1>8, <1>12
          <5> QED BY <1>12, <4>1, <4>2, <5>1 DEF Within
        <4>4. \A l \in Keys : l # k => ~Within(S[l], th[d].e)
          BY <1>12, <4>1 DEF Within
        <4> QED BY <1>7, <1>12, <4>1, <4>2, <4>3, <4>4
      <3>3. ASSUME th[d].pc = "take" PROVE list'[Key(d)] = NULL => list[Key(d)] = NULL
        BY <1>1, <1>7, <3>3, KeyIs
      <3>4. Shape(R) /\ \A b \in Clients : b # c => th'[b] = th[b]
        BY <1>1, <1>7
      <3>5. Beside(R, S, c, d)
        BY <2>2, <3>1, <3>2, <3>3, <3>4 DEF Beside
      <3> QED BY <3>5, OthersPlaced
    <2> QED BY <2>1, <2>2
  <1>18. Shape(S)'
    BY <1>7, <1>8, <1>14, <1>15, <1>16, <1>17 DEF Shape
  <1>19. TypeOK'
    <2>1. Types'
      BY <1>1, <1>7 DEF Types, TypeOK
    <2>2. since' \in [Keys -> SUBSET (Seq(Elements) \union {NULL})]
      BY <1>1, <1>7, <1>18, <2>1, RememberIs DEF TypeOK
    <2> QED BY <1>1, <1>7, <2>2 DEF TypeOK
  <1>20. Saver(S)'
    <2>1. Moves(c)
      BY <1>1, <1>7 DEF Moves
    <2>2. ASSUME NEW l \in Keys, Printing(l)
          PROVE  S[l] # <<>> /\ \A x : Within(R[l], x) => Within(S[l], x)
      <3>1. CASE l = k
        <4>1. s # <<>> /\ \A i \in 1..Len(r) : i \in 1..Len(s)
          BY <1>8, <1>12
        <4> QED BY <1>3, <1>12, <3>1, <4>1 DEF Within
      <3>2. CASE l # k
        BY <1>12, <2>2, <3>2, PrintingIs DEF Inv
      <3> QED BY <3>1, <3>2
    <2> QED BY <1>7, <2>1, <2>2, SaverStays
  <1>21. Damaged'
    BY <1>7, DamagedKept DEF Inv
  <1>22. LinkedTo(R, S, c)
    BY <1>2, <1>3, <1>4, <1>5, <1>12 DEF LinkedTo
  <1> QED BY <1>18, <1>19, <1>20, <1>21, <1>22 DEF Inv

\* The list of k gets the nodes s, and the others stay.
Spliced(R, k, s, S) ==
    /\ Rings(R) /\ k \in Keys /\ S = [R EXCEPT ![k] = s]
    /\ s \in Seq(DOMAIN node') /\ Once(s) /\ Turns(node', s)
    /\ \A x : Within(s, x) => Within(R[k], x)
    /\ \A x \in DOMAIN node : ~Within(R[k], x) => x \in DOMAIN node' /\ node'[x] = node[x]

LEMMA SplicedIs ==
    ASSUME NEW R, NEW k, NEW s, NEW S, Spliced(R, k, s, S)
    PROVE  Rings(S)' /\ k \in Keys /\ S[k] = s /\ \A l \in Keys : l # k => S[l] = R[l]
  <1> USE DEF Spliced
  <1>1. R \in [Keys -> Seq(DOMAIN node)] /\ S[k] = s /\ \A l \in Keys : l # k => S[l] = R[l]
    BY DEF Rings
  <1>2. ASSUME NEW l \in Keys, l # k
        PROVE  /\ \A i \in 1..Len(R[l]) : R[l][i] \in DOMAIN node /\ ~Within(R[k], R[l][i])
               /\ R[l] \in Seq(DOMAIN node') /\ Turns(node', R[l])
    <2>1. R[l] \in Seq(DOMAIN node) /\ Turns(node, R[l])
      BY DEF Rings
    <2>2. \A i \in 1..Len(R[l]) : R[l][i] \in DOMAIN node /\ ~Within(R[k], R[l][i])
      BY <1>2, <2>1 DEF Rings, Within
    <2>3. \A i \in 1..Len(R[l]) : R[l][i] \in DOMAIN node' /\ node'[R[l][i]] = node[R[l][i]]
      BY <2>2
    <2>4. R[l] \in Seq(DOMAIN node')
      BY <2>1, <2>3
    <2> QED BY <2>1, <2>2, <2>3, <2>4 DEF Turns
  <1>3. S \in [Keys -> Seq(DOMAIN node')]
    <2>1. \A l \in Keys : S[l] \in Seq(DOMAIN node')
      BY <1>1, <1>2
    <2>2. S = [l \in Keys |-> S[l]]
      BY <1>1
    <2> QED BY <2>1, <2>2
  <1>4. \A l \in Keys : Once(S[l]) /\ Turns(node', S[l])
    BY <1>1, <1>2 DEF Rings
  <1>5. ASSUME NEW l \in Keys, l # k, NEW i \in 1..Len(R[l]), NEW j \in 1..Len(s)
        PROVE  R[l][i] # s[j]
    <2>1. Within(s, s[j])
      BY DEF Within
    <2> QED BY <1>2, <1>5, <2>1
  <1>6. ASSUME NEW l \in Keys, NEW m \in Keys, l # m, NEW i \in 1..Len(S[l]), NEW j \in 1..Len(S[m])
        PROVE  S[l][i] # S[m][j]
    <2>1. CASE l # k /\ m # k
      BY <1>1, <1>6, <2>1 DEF Rings
    <2>2. CASE l # k /\ m = k
      BY <1>1, <1>5, <2>2
    <2>3. CASE l = k /\ m # k
      <3>1. R[m][j] # s[i]
        BY <1>1, <1>5, <2>3
      <3> QED BY <1>1, <2>3, <3>1
    <2> QED BY <1>6, <2>1, <2>2, <2>3
  <1> QED BY <1>1, <1>3, <1>4, <1>6 DEF Rings

\* The last node becomes the first.
LEMMA TurnedIs ==
    ASSUME NEW D, NEW nd, NEW r \in Seq(D), Once(r), Turns(nd, r), Len(r) >= 2
    PROVE  \E s \in Seq(D) :
               /\ Once(s) /\ Turns(nd, s) /\ Len(s) = Len(r) /\ s[1] = r[Len(r)]
               /\ \A i \in 1..(Len(r) - 1) : s[i + 1] = r[i]
               /\ \A x : Within(s, x) <=> Within(r, x)
  <1>1. PICK n \in Nat : n = Len(r) /\ n >= 2
    OBVIOUS
  <1>2. \A i \in 1..n : r[i] \in D
    BY <1>1
  <1>3. PICK s : s = [j \in 1..n |-> r[IF j = 1 THEN n ELSE j - 1]]
    OBVIOUS
  <1>4. \A j \in 1..n : (IF j = 1 THEN n ELSE j - 1) \in 1..n /\ s[j] = r[IF j = 1 THEN n ELSE j - 1]
    BY <1>1, <1>3
  <1>5. s \in Seq(D) /\ Len(s) = n
    BY <1>2, <1>3, <1>4
  <1>6. Once(s)
    <2> SUFFICES ASSUME NEW i \in 1..n, NEW j \in 1..n, s[i] = s[j] PROVE i = j
      BY <1>5 DEF Once
    <2>1. (IF i = 1 THEN n ELSE i - 1) = (IF j = 1 THEN n ELSE j - 1)
      BY <1>1, <1>4 DEF Once
    <2> QED BY <1>1, <2>1
  <1>7. Turns(nd, s)
    <2> SUFFICES ASSUME NEW i \in 1..n
                 PROVE  /\ nd[s[i]].next = s[IF i = n THEN 1 ELSE i + 1]
                        /\ nd[s[i]].prev = s[IF i = 1 THEN n ELSE i - 1]
      BY <1>5 DEF Turns
    <2>1. \A j \in 1..n : /\ nd[r[j]].next = r[IF j = n THEN 1 ELSE j + 1]
                          /\ nd[r[j]].prev = r[IF j = 1 THEN n ELSE j - 1]
      BY <1>1 DEF Turns
    <2>2. CASE i = 1
      <3>1. s[i] = r[n] /\ n \in 1..n /\ 1 \in 1..n /\ 2 \in 1..n /\ s[2] = r[1] /\ s[n] = r[n - 1] /\ n # 1
        BY <1>1, <1>4, <2>2
      <3> QED BY <1>1, <2>1, <2>2, <3>1
    <2>3. CASE i # 1
      <3>1. i - 1 \in 1..n /\ s[i] = r[i - 1] /\ i - 1 # n
        BY <1>4, <2>3
      <3>2. nd[r[i - 1]].next = r[(i - 1) + 1] /\ (i - 1) + 1 = i
        <4>1. \A j \in 1..n : j # n => nd[r[j]].next = r[j + 1]
          BY <2>1
        <4> QED BY <3>1, <4>1
      <3>3. nd[r[i - 1]].prev = r[IF i - 1 = 1 THEN n ELSE (i - 1) - 1]
        BY <2>1, <3>1
      <3>4. s[IF i = n THEN 1 ELSE i + 1] = r[i]
        BY <1>4, <2>3
      <3>5. s[i - 1] = r[IF i - 1 = 1 THEN n ELSE (i - 1) - 1]
        BY <1>4, <3>1
      <3> QED BY <2>3, <3>1, <3>2, <3>3, <3>4, <3>5
    <2> QED BY <2>2, <2>3
  <1>8. ASSUME NEW x PROVE Within(s, x) <=> Within(r, x)
    <2>1. ASSUME Within(s, x) PROVE Within(r, x)
      BY <1>1, <1>4, <1>5, <2>1 DEF Within
    <2>2. ASSUME Within(r, x) PROVE Within(s, x)
      <3>1. PICK i \in 1..n : x = r[i]
        BY <1>1, <2>2 DEF Within
      <3>2. CASE i = n
        <4>1. 1 \in 1..n /\ s[1] = x
          BY <1>1, <1>4, <3>1, <3>2
        <4> QED BY <1>5, <4>1 DEF Within
      <3>3. CASE i # n
        <4>1. i + 1 \in 1..n /\ s[i + 1] = x
          BY <1>1, <1>4, <3>1, <3>3
        <4> QED BY <1>5, <4>1 DEF Within
      <3> QED BY <3>2, <3>3
    <2> QED BY <2>1, <2>2
  <1>9. s[1] = r[n] /\ \A i \in 1..(n - 1) : s[i + 1] = r[i]
    BY <1>1, <1>4
  <1> QED BY <1>1, <1>5, <1>6, <1>7, <1>8, <1>9

\* The others, when c gives a list the nodes s.
LEMMA OthersSpliced ==
    ASSUME NEW R, Shape(R), NEW c \in Clients, th'[c].pc # "link",
           \A b \in Clients : b # c => th'[b] = th[b], NEW k, NEW s, NEW S, Spliced(R, k, s, S),
           \A b \in Clients : b # c /\ th[b].pc \in Pushing => Key(b) # k,
           \A l \in Keys : l # k => lock'[l] = lock[l],
           \A l \in Keys : list'[l] = NULL => list[l] = NULL
    PROVE  \A d \in Clients : d # c => Placed(S, d)'
  <1> SUFFICES ASSUME NEW d \in Clients, d # c PROVE Placed(S, d)'
    OBVIOUS
  <1>1. k \in Keys /\ S[k] = s /\ \A l \in Keys : l # k => S[l] = R[l]
    BY SplicedIs
  <1>2. ASSUME th[d].pc \in Pushing PROVE Key(d) \in Keys /\ Key(d) # k /\ lock[Key(d)] = d
    BY <1>2, HolderIs
  <1>3. ASSUME th[d].pc = "link"
        PROVE  /\ th[d].e \in DOMAIN node' /\ node'[th[d].e] = node[th[d].e]
               /\ \A l \in Keys : ~Within(S[l], th[d].e)
    <2>1. th[d].e \in DOMAIN node /\ \A l \in Keys : ~Within(R[l], th[d].e)
      BY <1>3 DEF Shape, Placed, Linking, Within
    <2>2. ~Within(s, th[d].e)
      BY <1>1, <2>1 DEF Spliced
    <2> QED BY <1>1, <2>1, <2>2 DEF Spliced
  <1>4. ASSUME th[d].pc = "take" PROVE Key(d) \in Keys
    BY <1>4, KeyIs
  <1>5. Beside(R, S, c, d)
    BY <1>1, <1>2, <1>3, <1>4 DEF Beside
  <1> QED BY <1>5, OthersPlaced

\* ... its last node is the first ...
TurnedTo(R, S, c) ==
    LET r == R[Key(c)]
        s == S[Key(c)]
    IN  /\ Len(s) = Len(r) /\ s[1] = r[Len(r)] /\ \A i \in 1..(Len(r) - 1) : s[i + 1] = r[i]
        /\ \A l \in Keys : l # Key(c) => S[l] = R[l]

LEMMA SetHeadInv ==
    ASSUME NEW R, Inv(R), NEW c \in Clients, SetHead(c)
    PROVE  \E S : Inv(S)' /\ TurnedTo(R, S, c)
  <1>1. th[c].pc = "head" /\ th[c].pc \in Pushing /\ Shape(R) /\ TypeOK
    BY DEF SetHead, Pushing, Inv
  <1>2. PICK k \in Keys : k = Key(c)
    BY <1>1, HolderIs
  <1>3. PICK r : r = R[k]
    OBVIOUS
  <1>4. PICK e : e = th[c].e
    OBVIOUS
  <1>5. /\ IsFiniteSet(DOMAIN node) /\ Rings(R) /\ Headed(R) /\ Locked
        /\ r \in Seq(DOMAIN node) /\ Once(r) /\ Turns(node, r) /\ Len(r) \in Nat
        /\ Len(r) >= 2 /\ r[Len(r)] = e
    BY <1>1, <1>2, <1>3, <1>4 DEF Shape, Rings, Placed
  <1>6. /\ lock[k] = c /\ list[k] # NULL /\ Cmd(c) \in Work[c] /\ ~Shrinks(Cmd(c))
        /\ list[k] \in List /\ e \in Nat
    <2>1. lock[k] = c /\ list[k] # NULL /\ ~Shrinks(Cmd(c))
      BY <1>1, <1>2, HolderIs DEF Shrinks
    <2>2. e \in DOMAIN node
      BY <1>5
    <2> QED BY <1>1, <1>2, <2>1, <2>2, KeyIs DEF TypeOK
  <1>7. /\ list' = [list EXCEPT ![k].head = e]
        /\ th' \in [Clients -> Thread] /\ \A d \in Clients : d # c => th'[d] = th[d]
        /\ th'[c].pc = "leave" /\ th'[c].cmd = th[c].cmd
        /\ UNCHANGED <<node, lock, saver, file, whole, saves, crashes, since, moved>>
    <2>1. th \in [Clients -> Thread]
      BY <1>1 DEF TypeOK
    <2> QED BY <1>2, <1>4, <2>1, GotoIs DEF SetHead
  <1>8. /\ list' \in [Keys -> List \union {NULL}]
        /\ list'[k] # NULL /\ list'[k].head = e /\ list'[k].length = list[k].length
        /\ \A l \in Keys : l # k => list'[l] = list[l]
    <2> DEFINE t == [list[k] EXCEPT !.head = e]
    <2>1. t \in List /\ t.head = e /\ t.length = list[k].length
      BY <1>6 DEF List
    <2>2. list' = [list EXCEPT ![k] = t] /\ list \in [Keys -> List \union {NULL}]
      BY <1>1, <1>7 DEF TypeOK
    <2>3. t # NULL
      BY <2>1, NullIs
    <2> HIDE DEF t
    <2> QED BY <2>1, <2>2, <2>3
  <1>9. PICK s \in Seq(DOMAIN node) :
          /\ Once(s) /\ Turns(node, s) /\ Len(s) = Len(r) /\ s[1] = r[Len(r)]
          /\ \A i \in 1..(Len(r) - 1) : s[i + 1] = r[i]
          /\ \A x : Within(s, x) <=> Within(r, x)
    BY <1>5, TurnedIs
  <1>10. PICK S : S = [R EXCEPT ![k] = s]
    OBVIOUS
  <1>11. Spliced(R, k, s, S)
    BY <1>3, <1>5, <1>7, <1>9, <1>10 DEF Spliced
  <1>12. Rings(S)' /\ S[k] = s /\ \A l \in Keys : l # k => S[l] = R[l]
    BY <1>11, SplicedIs
  <1>13. s # <<>> /\ HeadOf(s) = e
    BY <1>5, <1>9 DEF HeadOf
  <1>14. Headed(S)'
    <2>1. ASSUME NEW l \in Keys PROVE Late(l)' <=> Late(l)
      <3>1. \A d \in Clients : th'[d].pc \in {"head", "leave"} <=> th[d].pc \in {"head", "leave"}
        BY <1>1, <1>7
      <3> QED BY <1>7, <3>1 DEF Late
    <2>2. ASSUME NEW l \in Keys
          PROVE  IF list'[l] = NULL THEN S[l] = <<>> /\ lock'[l] = NULL
                 ELSE /\ list'[l].head = HeadOf(S[l])
                      /\ list'[l].length = Len(S[l]) - IF Late(l)' THEN 1 ELSE 0
      <3>1. IF list[l] = NULL THEN R[l] = <<>> /\ lock[l] = NULL
            ELSE list[l].head = HeadOf(R[l]) /\ list[l].length = Len(R[l]) - IF Late(l) THEN 1 ELSE 0
        BY <1>5 DEF Headed
      <3>2. CASE l = k
        BY <1>3, <1>6, <1>8, <1>9, <1>12, <1>13, <2>1, <3>1, <3>2
      <3>3. CASE l # k
        BY <1>7, <1>8, <1>12, <2>1, <3>1, <3>3
      <3> QED BY <3>2, <3>3
    <2> QED BY <2>2 DEF Headed
  <1>15. Locked'
    <2> SUFFICES ASSUME NEW l \in Keys, lock[l] # NULL
                 PROVE  lock[l] \in Clients /\ th'[lock[l]].pc \in Pushing /\ th'[lock[l]].cmd.key = l
      BY <1>7 DEF Locked, Key, Cmd
    <2>1. lock[l] \in Clients /\ th[lock[l]].pc \in Pushing /\ th[lock[l]].cmd.key = l
      BY <1>5 DEF Locked, Key, Cmd
    <2> QED BY <1>7, <2>1 DEF Pushing
  <1>16. ASSUME NEW d \in Clients PROVE Placed(S, d)'
    <2>1. CASE d = c
      BY <1>2, <1>6, <1>7, <2>1 DEF Placed, Key, Cmd
    <2>2. CASE d # c
      <3>1. \A l \in Keys : list'[l] = NULL => list[l] = NULL
        BY <1>8
      <3>2. \A b \in Clients : b # c /\ th[b].pc \in Pushing => Key(b) # k
        BY <1>1, <1>2, HolderIs
      <3> QED BY <1>1, <1>7, <1>11, <2>2, <3>1, <3>2, OthersSpliced
    <2> QED BY <2>1, <2>2
  <1>17. Shape(S)'
    BY <1>5, <1>7, <1>12, <1>14, <1>15, <1>16 DEF Shape
  <1>18. TypeOK'
    BY <1>1, <1>7, <1>8 DEF TypeOK
  <1>19. Saver(S)'
    <2>1. Moves(c)
      BY <1>1, <1>7 DEF Moves
    <2>2. ASSUME NEW l \in Keys, Printing(l)
          PROVE  S[l] # <<>> /\ \A x : Within(R[l], x) => Within(S[l], x)
      <3>1. CASE l = k
        BY <1>3, <1>9, <1>12, <1>13, <3>1
      <3>2. CASE l # k
        BY <1>12, <2>2, <3>2, PrintingIs DEF Inv
      <3> QED BY <3>1, <3>2
    <2> QED BY <1>7, <2>1, <2>2, SaverStays
  <1>20. Damaged'
    BY <1>7, DamagedKept DEF Inv
  <1>21. TurnedTo(R, S, c)
    BY <1>2, <1>3, <1>9, <1>12 DEF TurnedTo
  <1> QED BY <1>17, <1>18, <1>19, <1>20, <1>21 DEF Inv

LEMMA LeaveInv ==
    ASSUME NEW R, Inv(R), NEW c \in Clients, Leave(c)
    PROVE  Inv(R)'
  <1>1. th[c].pc = "leave" /\ th[c].pc \in Pushing /\ Shape(R) /\ TypeOK
    BY DEF Leave, Pushing, Inv
  <1>2. PICK k \in Keys : k = Key(c)
    BY <1>1, HolderIs
  <1>3. IsFiniteSet(DOMAIN node) /\ Rings(R) /\ Headed(R) /\ Locked
    BY <1>1 DEF Shape
  <1>4. lock[k] = c /\ list[k] # NULL /\ list[k] \in List /\ lock \in [Keys -> Clients \union {NULL}]
    <2>1. lock[k] = c /\ list[k] # NULL
      BY <1>1, <1>2, HolderIs
    <2> QED BY <1>1, <2>1 DEF TypeOK
  <1>5. /\ list' = [list EXCEPT ![k].length = @ + 1] /\ lock' = [lock EXCEPT ![k] = NULL]
        /\ th' \in [Clients -> Thread] /\ \A d \in Clients : d # c => th'[d] = th[d]
        /\ th'[c].pc = "idle"
        /\ UNCHANGED <<node, saver, file, whole, saves, crashes, since, moved>>
    <2>1. th \in [Clients -> Thread] /\ Finish(c, Plain("ok"))
      BY <1>1 DEF TypeOK, Leave, Plainly
    <2> QED BY <1>2, <2>1, FinishIs, PlainIs DEF Leave
  <1>6. /\ list' \in [Keys -> List \union {NULL}]
        /\ list'[k] # NULL /\ list'[k].head = list[k].head /\ list'[k].length = list[k].length + 1
        /\ \A l \in Keys : l # k => list'[l] = list[l]
    <2> DEFINE t == [list[k] EXCEPT !.length = list[k].length + 1]
    <2>1. t \in List /\ t.head = list[k].head /\ t.length = list[k].length + 1
      BY <1>4 DEF List
    <2>2. list' = [list EXCEPT ![k] = t] /\ list \in [Keys -> List \union {NULL}]
      BY <1>1, <1>5 DEF TypeOK
    <2>3. t # NULL
      BY <2>1, NullIs
    <2> HIDE DEF t
    <2> QED BY <2>1, <2>2, <2>3
  <1>7. lock'[k] = NULL /\ lock' \in [Keys -> Clients \union {NULL}] /\ \A l \in Keys : l # k => lock'[l] = lock[l]
    BY <1>4, <1>5
  <1>8. Rings(R)'
    BY <1>3, <1>5 DEF Rings
  <1>9. Headed(R)'
    <2>1. Late(k) /\ ~Late(k)'
      BY <1>1, <1>4, <1>7, NullIs DEF Late
    <2>2. \A l \in Keys : l # k => (Late(l)' <=> Late(l))
      <3>1. \A l \in Keys : l # k => lock[l] # c
        BY <1>2, <1>3, NullIs DEF Locked
      <3> QED BY <1>5, <1>7, <3>1 DEF Late
    <2>3. ASSUME NEW l \in Keys
          PROVE  IF list'[l] = NULL THEN R[l] = <<>> /\ lock'[l] = NULL
                 ELSE /\ list'[l].head = HeadOf(R[l])
                      /\ list'[l].length = Len(R[l]) - IF Late(l)' THEN 1 ELSE 0
      <3>1. IF list[l] = NULL THEN R[l] = <<>> /\ lock[l] = NULL
            ELSE list[l].head = HeadOf(R[l]) /\ list[l].length = Len(R[l]) - IF Late(l) THEN 1 ELSE 0
        BY <1>3 DEF Headed
      <3>2. CASE l = k
        <4>1. Len(R[k]) \in Nat
          BY <1>3 DEF Rings
        <4> QED BY <1>4, <1>6, <2>1, <3>1, <3>2, <4>1
      <3>3. CASE l # k
        BY <1>6, <1>7, <2>2, <3>1, <3>3
      <3> QED BY <3>2, <3>3
    <2> QED BY <2>3 DEF Headed
  <1>10. Locked'
    BY <1>3, <1>4, <1>5, LockPassed
  <1>11. ASSUME NEW d \in Clients PROVE Placed(R, d)'
    <2>1. CASE d = c
      BY <1>5, <2>1 DEF Placed, Pushing
    <2>2. CASE d # c
      <3>1. ASSUME th[d].pc \in Pushing PROVE lock'[Key(d)] = d
        <4>1. Key(d) \in Keys /\ lock[Key(d)] = d /\ Key(d) # k
          BY <1>1, <1>2, <2>2, <3>1, HolderIs
        <4> QED BY <1>7, <4>1
      <3>2. ASSUME th[d].pc = "link"
            PROVE  th[d].e \in DOMAIN node /\ \A l \in Keys : ~Within(R[l], th[d].e)
        BY <1>1, <3>2 DEF Shape, Placed, Linking, Within
      <3>3. ASSUME th[d].pc = "take" PROVE Key(d) \in Keys
        BY <1>1, <3>3, KeyIs
      <3>4. Beside(R, R, c, d)
        BY <1>1, <1>5, <1>6, <2>2, <3>1, <3>2, <3>3 DEF Beside
      <3> QED BY <3>4, OthersPlaced
    <2> QED BY <2>1, <2>2
  <1>12. Shape(R)'
    BY <1>3, <1>5, <1>8, <1>9, <1>10, <1>11 DEF Shape
  <1>13. TypeOK'
    BY <1>1, <1>5, <1>6, <1>7 DEF TypeOK
  <1>14. Saver(R)'
    <2>1. Moves(c)
      BY <1>1, <1>5 DEF Moves
    <2> QED BY <1>5, <2>1, SaverStays, PrintingIs DEF Inv
  <1>15. Damaged'
    BY <1>5, DamagedKept DEF Inv
  <1> QED BY <1>12, <1>13, <1>14, <1>15 DEF Inv

LEMMA RingIs ==
    ASSUME NEW R, Shape(R), Types, NEW k \in Keys, list[k] # NULL
    PROVE  Ring(k) = R[k]
  <1>1. /\ IsFiniteSet(DOMAIN node) /\ Nil \notin DOMAIN node /\ R[k] \in Seq(DOMAIN node)
        /\ Once(R[k]) /\ Turns(node, R[k]) /\ list[k].head = HeadOf(R[k])
    BY DEF Types, Shape, Rings, Headed
  <1>2. Around(node, HeadOf(R[k])) = R[k]
    BY <1>1, AroundIs
  <1> QED BY <1>1, <1>2, RingAround

\* A node t is taken out of a ring.
Unlinked(nd, nd2, t) ==
    \A x \in DOMAIN nd2 :
        /\ nd2[x].next = IF x = nd[t].prev THEN nd[t].next ELSE nd[x].next
        /\ nd2[x].prev = IF x = nd[t].next THEN nd[t].prev ELSE nd[x].prev

Removal(nd, nd2, r, p) ==
    /\ r \in Seq(DOMAIN nd) /\ Once(r) /\ Turns(nd, r) /\ Len(r) >= 2 /\ p \in 1..Len(r)
    /\ DOMAIN nd2 = DOMAIN nd \ {r[p]} /\ Unlinked(nd, nd2, r[p])

LEMMA RemovedIs ==
    ASSUME NEW nd, NEW nd2, NEW r, NEW p, Removal(nd, nd2, r, p)
    PROVE  \E s \in Seq(DOMAIN nd2) :
               /\ Once(s) /\ Turns(nd2, s) /\ Len(s) = Len(r) - 1
               /\ \A j \in 1..Len(s) : s[j] = r[IF j < p THEN j ELSE j + 1]
               /\ s[1] = IF p = 1 THEN nd[r[p]].next ELSE r[1]
               /\ \A x : Within(s, x) => Within(r, x)
  <1> USE DEF Removal
  <1>1. PICK n \in Nat : n = Len(r) /\ n >= 2 /\ p \in 1..n
    OBVIOUS
  <1> DEFINE at(j) == IF j < p THEN j ELSE j + 1
             nxt(j) == IF j = n - 1 THEN 1 ELSE j + 1
             prv(j) == IF j = 1 THEN n - 1 ELSE j - 1
             succ(i) == IF i = n THEN 1 ELSE i + 1
             pred(i) == IF i = 1 THEN n ELSE i - 1
  <1>2. \A j \in 1..(n - 1) : at(j) \in 1..n /\ at(j) # p /\ nxt(j) \in 1..(n - 1) /\ prv(j) \in 1..(n - 1)
    BY <1>1
  <1>3. \A i, j \in 1..(n - 1) : at(i) = at(j) => i = j
    BY <1>1
  <1>4. \A j \in 1..(n - 1) : at(nxt(j)) = IF at(j) = pred(p) THEN succ(p) ELSE succ(at(j))
    BY <1>1
  <1>5. \A j \in 1..(n - 1) : at(prv(j)) = IF at(j) = succ(p) THEN pred(p) ELSE pred(at(j))
    BY <1>1
  <1>6. succ(p) \in 1..n /\ pred(p) \in 1..n /\ (p = 1 => succ(p) = at(1)) /\ (p # 1 => at(1) = 1)
    BY <1>1
  <1>7. PICK s : s = [j \in 1..(n - 1) |-> r[at(j)]]
    OBVIOUS
  <1> HIDE DEF at, nxt, prv
  <1>8. \A i \in 1..n : /\ r[i] \in DOMAIN nd /\ nd[r[i]].next = r[succ(i)] /\ nd[r[i]].prev = r[pred(i)]
                        /\ \A j \in 1..n : r[i] = r[j] => i = j
    BY <1>1 DEF Turns, Once
  <1> HIDE DEF succ, pred
  <1>9. \A j \in 1..(n - 1) : s[j] = r[at(j)] /\ r[at(j)] \in DOMAIN nd2
    <2>1. \A j \in 1..(n - 1) : s[j] = r[at(j)]
      BY <1>7
    <2>2. \A j \in 1..(n - 1) : r[at(j)] \in DOMAIN nd /\ r[at(j)] # r[p]
      BY <1>1, <1>2, <1>8
    <2> QED BY <2>1, <2>2
  <1>10. s \in Seq(DOMAIN nd2) /\ Len(s) = n - 1 /\ n - 1 \in Nat
    BY <1>1, <1>7, <1>9
  <1>11. Once(s)
    <2>1. ASSUME NEW i \in 1..(n - 1), NEW j \in 1..(n - 1), s[i] = s[j] PROVE i = j
      <3>1. r[at(i)] = r[at(j)] /\ at(i) \in 1..n /\ at(j) \in 1..n
        BY <1>2, <1>9, <2>1
      <3>2. at(i) = at(j)
        BY <1>8, <3>1
      <3> QED BY <1>3, <3>2
    <2> QED BY <1>10, <2>1 DEF Once
  <1>12. ASSUME NEW j \in 1..(n - 1)
         PROVE  nd2[s[j]].next = s[nxt(j)] /\ nd2[s[j]].prev = s[prv(j)]
    <2>1. /\ nd2[s[j]].next = IF s[j] = r[pred(p)] THEN r[succ(p)] ELSE r[succ(at(j))]
          /\ nd2[s[j]].prev = IF s[j] = r[succ(p)] THEN r[pred(p)] ELSE r[pred(at(j))]
      <3>1. s[j] = r[at(j)] /\ s[j] \in DOMAIN nd2 /\ at(j) \in 1..n
        BY <1>2, <1>9
      <3>2. /\ nd2[s[j]].next = IF s[j] = nd[r[p]].prev THEN nd[r[p]].next ELSE nd[s[j]].next
            /\ nd2[s[j]].prev = IF s[j] = nd[r[p]].next THEN nd[r[p]].prev ELSE nd[s[j]].prev
        BY <3>1 DEF Unlinked
      <3>3. nd[r[p]].prev = r[pred(p)] /\ nd[r[p]].next = r[succ(p)]
        BY <1>1, <1>8
      <3>4. nd[s[j]].prev = r[pred(at(j))] /\ nd[s[j]].next = r[succ(at(j))]
        BY <1>8, <3>1
      <3> QED BY <3>2, <3>3, <3>4
    <2>2. (s[j] = r[pred(p)] <=> at(j) = pred(p)) /\ (s[j] = r[succ(p)] <=> at(j) = succ(p))
      <3>1. s[j] = r[at(j)] /\ at(j) \in 1..n
        BY <1>2, <1>9
      <3>2. \A i \in 1..n : r[at(j)] = r[i] => at(j) = i
        BY <1>8, <3>1
      <3> QED BY <1>6, <3>1, <3>2
    <2>3. s[nxt(j)] = r[at(nxt(j))] /\ s[prv(j)] = r[at(prv(j))]
      BY <1>2, <1>9
    <2> QED BY <1>4, <1>5, <2>1, <2>2, <2>3
  <1>13. Turns(nd2, s)
    BY <1>10, <1>12 DEF Turns, nxt, prv
  <1>14. ASSUME NEW x, Within(s, x) PROVE Within(r, x)
    BY <1>1, <1>2, <1>9, <1>10, <1>14 DEF Within
  <1>15. s[1] = IF p = 1 THEN nd[r[p]].next ELSE r[1]
    <2>1. 1 \in 1..(n - 1)
      BY <1>1
    <2> QED BY <1>1, <1>6, <1>8, <1>9, <2>1
  <1> QED BY <1>1, <1>9, <1>10, <1>11, <1>13, <1>14, <1>15 DEF at

\* The node that is taken is in the list.
LEMMA TargetIs ==
    ASSUME NEW R, Shape(R), Types, NEW m \in Commands, Shrinks(m), list[m.key] # NULL, list[m.key].head # Nil
    PROVE  \E p \in 1..Len(R[m.key]) :
               /\ Target(m) = R[m.key][p]
               /\ m.op = "lpop" => p = 1
               /\ m.op = "rpop" => p = Len(R[m.key])
               /\ m.op = "lerase" => p = Index(R[m.key], m.i)
  <1>1. PICK k \in Keys : k = m.key
    BY CommandIs
  <1>2. PICK r : r = R[k]
    OBVIOUS
  <1>3. r \in Seq(DOMAIN node) /\ Turns(node, r) /\ list[k].head = HeadOf(r) /\ Ring(k) = r
    BY <1>1, <1>2, RingIs DEF Shape, Rings, Headed
  <1>4. r # <<>>
    BY <1>1, <1>3 DEF HeadOf
  <1>5. PICK n \in Nat : n = Len(r) /\ n # 0
    BY <1>3, <1>4
  <1>6. m.op \in {"lpop", "rpop", "lerase"} /\ m.i \in Int
    BY CommandIs DEF Shrinks, Pushes
  <1>7. CASE m.op = "lpop"
    <2>1. Target(m) = r[1] /\ 1 \in 1..n
      BY <1>1, <1>3, <1>4, <1>5, <1>7 DEF Target, HeadOf
    <2> QED BY <1>1, <1>2, <1>5, <1>7, <2>1
  <1>8. CASE m.op = "rpop"
    <2>1. Target(m) = r[n] /\ n \in 1..n
      BY <1>1, <1>3, <1>4, <1>5, <1>8, EndsAre DEF Target, HeadOf
    <2> QED BY <1>1, <1>2, <1>5, <1>8, <2>1
  <1>9. CASE m.op = "lerase"
    <2>1. Target(m) = r[Index(r, m.i)]
      BY <1>1, <1>3, <1>9 DEF Target
    <2>2. Index(r, m.i) \in 1..n
      <3>1. (m.i % n) \in 0..(n - 1)
        BY <1>5, <1>6
      <3>2. Index(r, m.i) = (m.i % n) + 1
        BY <1>5 DEF Index
      <3> QED BY <1>5, <3>1, <3>2
    <2> QED BY <1>1, <1>2, <1>5, <1>9, <2>1, <2>2
  <1> QED BY <1>6, <1>7, <1>8, <1>9

Dropping(c, m, k, t) == Drop(c) /\ m = Cmd(c) /\ k = m.key /\ list[k].head # Nil /\ t = Target(m)

Dropped(c, m, k, t) ==
    /\ k \in Keys /\ t \in DOMAIN node
    /\ th' \in [Clients -> Thread] /\ \A d \in Clients : d # c => th'[d] = th[d]
    /\ th'[c].pc = "idle" /\ th'[c].n = th[c].n
    /\ th'[c].ans = IF m.op = "lerase" THEN Plain("ok") ELSE [msg |-> "data", val |-> node[t].val]
    /\ DOMAIN node' = IF node[t].next = t /\ m.op # "lerase" THEN DOMAIN node ELSE DOMAIN node \ {t}
    /\ node' \in [DOMAIN node' -> Node] /\ Unlinked(node, node', t)
    /\ \A x \in DOMAIN node' :
          /\ node'[x].val = node[x].val
          /\ x # node[t].prev /\ x # node[t].next => node'[x] = node[x]
    /\ list' \in [Keys -> List \union {NULL}]
    /\ \A l \in Keys : l # k => list'[l] = list[l]
    /\ list'[k] # NULL /\ list'[k].length = list[k].length - 1
    /\ list'[k].head = IF node[t].next = t THEN Nil
                       ELSE IF t = list[k].head THEN node[t].next ELSE list[k].head
    /\ UNCHANGED <<lock, saver, file, whole, saves, crashes, moved>> /\ Remember(k)

LEMMA DropIs ==
    ASSUME NEW R, Inv(R), NEW c \in Clients, NEW m, NEW k, NEW t, Dropping(c, m, k, t)
    PROVE  Dropped(c, m, k, t)
  <1> USE DEF Dropping
  <1> DEFINE n == node[t]
             last == n.next = t
             ok == IF m.op = "lerase" THEN Plain("ok") ELSE [msg |-> "data", val |-> n.val]
             kept == IF last /\ m.op # "lerase" THEN DOMAIN node ELSE DOMAIN node \ {t}
             un(x) == [node[x] EXCEPT !.next = IF x = n.prev THEN n.next ELSE @,
                                      !.prev = IF x = n.next THEN n.prev ELSE @]
             l2 == [head |-> IF last THEN Nil ELSE IF t = list[k].head THEN n.next ELSE list[k].head,
                    length |-> list[k].length - 1]
  <1>1. /\ th[c].pc = "take" /\ lock[k] = NULL
        /\ list' = [list EXCEPT ![k] = l2]
        /\ Finish(c, ok)
        /\ UNCHANGED <<lock, saver, file, whole, saves, crashes, moved>> /\ Remember(k)
    BY DEF Drop, Key, Cmd
  <1>2. node' = [x \in kept |-> un(x)]
    <2>1. node' = [i \in kept |-> [j \in DOMAIN node |-> un(j)][i]]
      BY DEF Drop
    <2> QED BY <2>1
  <1>3. /\ Shape(R) /\ list \in [Keys -> List \union {NULL}] /\ th \in [Clients -> Thread]
        /\ node \in [DOMAIN node -> Node] /\ DOMAIN node \subseteq Nat \ {Nil}
    BY DEF Inv, TypeOK
  <1>4. m \in Commands /\ k \in Keys /\ Shrinks(m) /\ list[k] # NULL
    <2>1. Placed(R, c) /\ th[c].pc # "idle"
      BY <1>1, <1>3 DEF Shape
    <2> QED BY <1>1, <1>3, <2>1, KeyIs DEF Placed, Key
  <1>5. t \in DOMAIN node
    <2>1. R[k] \in Seq(DOMAIN node) /\ Types
      BY <1>3, <1>4 DEF Shape, Rings, Types
    <2>2. \E p \in 1..Len(R[k]) : t = R[k][p]
      BY <1>3, <1>4, <2>1, TargetIs
    <2> QED BY <2>1, <2>2
  <1>6. n \in Node /\ list[k] \in List
    BY <1>3, <1>4, <1>5
  <1>7. ok \in [msg : {"none", "ok", "nokey", "empty", "blank", "data"}, val : Elements \union {NULL}]
    <2>1. Plain("ok") \in [msg : {"none", "ok", "nokey", "empty", "blank", "data"}, val : Elements \union {NULL}]
      BY PlainIs
    <2>2. n.val \in Elements
      BY <1>6 DEF Node
    <2> HIDE DEF n
    <2> QED BY <2>1, <2>2
  <1>8. l2 \in List
    <2>1. n.next \in Nat /\ list[k].head \in Nat /\ list[k].length \in Int
      BY <1>6 DEF Node, List
    <2> HIDE DEF n, last
    <2> QED BY <2>1 DEF List, Nil
  <1>9. ASSUME NEW x \in DOMAIN node
        PROVE  /\ un(x) \in Node /\ un(x).val = node[x].val
               /\ un(x).next = IF x = n.prev THEN n.next ELSE node[x].next
               /\ un(x).prev = IF x = n.next THEN n.prev ELSE node[x].prev
               /\ x # n.prev /\ x # n.next => un(x) = node[x]
    <2>1. node[x] \in Node
      BY <1>3
    <2>2. n.next \in Nat /\ n.prev \in Nat
      BY <1>6 DEF Node
    <2> HIDE DEF n
    <2> QED BY <2>1, <2>2 DEF Node
  <1>10. /\ th' \in [Clients -> Thread] /\ \A d \in Clients : d # c => th'[d] = th[d]
         /\ th'[c].pc = "idle" /\ th'[c].n = th[c].n /\ th'[c].ans = ok
    <2> HIDE DEF ok
    <2> QED BY <1>1, <1>3, <1>7, FinishIs
  <1>11. /\ DOMAIN node' = kept /\ kept \subseteq DOMAIN node /\ \A x \in DOMAIN node' : node'[x] = un(x)
         /\ node' = [x \in DOMAIN node' |-> node'[x]]
    <2> HIDE DEF un
    <2> QED BY <1>2
  <1>12. node' \in [DOMAIN node' -> Node] /\ Unlinked(node, node', t)
    <2> HIDE DEF un
    <2>1. \A x \in DOMAIN node' : node'[x] \in Node
      BY <1>9, <1>11
    <2>2. Unlinked(node, node', t)
      BY <1>9, <1>11 DEF Unlinked
    <2> QED BY <1>11, <2>1, <2>2
  <1>13. \A x \in DOMAIN node' : /\ node'[x].val = node[x].val
                                 /\ x # node[t].prev /\ x # node[t].next => node'[x] = node[x]
    <2> HIDE DEF un
    <2> QED BY <1>9, <1>11
  <1>14. /\ list' \in [Keys -> List \union {NULL}] /\ list'[k] = l2 /\ l2 # NULL
         /\ \A l \in Keys : l # k => list'[l] = list[l]
    <2> HIDE DEF l2
    <2> QED BY <1>1, <1>3, <1>4, <1>8, NullIs
  <1> QED BY <1>1, <1>4, <1>5, <1>10, <1>11, <1>12, <1>13, <1>14 DEF Dropped

\* What the list keeps when a node is taken out.
LEMMA DropSpliced ==
    ASSUME NEW R, Inv(R), NEW c \in Clients, Drop(c), NEW k, k = Key(c), list[k].head # Nil
    PROVE  \E s, S : /\ Spliced(R, k, s, S) /\ Len(s) = Len(R[k]) - 1
                     /\ list'[k].head = HeadOf(s)
                     /\ \E p \in 1..Len(R[k]) :
                           /\ Target(Cmd(c)) = R[k][p]
                           /\ Cmd(c).op = "lpop" => p = 1
                           /\ Cmd(c).op = "rpop" => p = Len(R[k])
                           /\ Cmd(c).op = "lerase" => p = Index(R[k], Cmd(c).i)
                           /\ \A j \in 1..Len(s) : s[j] = R[k][IF j < p THEN j ELSE j + 1]
  <1>1. PICK m : m = Cmd(c)
    OBVIOUS
  <1>2. k = m.key /\ th[c].pc = "take" /\ Shape(R) /\ Types
    BY <1>1 DEF Key, Drop, Inv, TypeOK, Types
  <1>3. m \in Commands /\ k \in Keys /\ Shrinks(m) /\ list[k] # NULL
    <2>1. Placed(R, c) /\ th[c].pc # "idle"
      BY <1>2 DEF Shape
    <2> QED BY <1>1, <1>2, <2>1, KeyIs DEF Placed, Key
  <1>4. PICK r : r = R[k]
    OBVIOUS
  <1>5. PICK t : t = Target(m)
    OBVIOUS
  <1>6. PICK p \in 1..Len(r) :
          /\ t = r[p]
          /\ m.op = "lpop" => p = 1
          /\ m.op = "rpop" => p = Len(r)
          /\ m.op = "lerase" => p = Index(r, m.i)
    BY <1>2, <1>3, <1>4, <1>5, TargetIs
  <1>7. /\ IsFiniteSet(DOMAIN node) /\ Rings(R) /\ r \in Seq(DOMAIN node) /\ Once(r) /\ Turns(node, r)
        /\ list[k].head = HeadOf(r) /\ r # <<>> /\ Nil \notin DOMAIN node
    <2>1. list[k].head = HeadOf(r)
      BY <1>2, <1>3, <1>4 DEF Shape, Headed
    <2>2. r # <<>>
      BY <2>1 DEF HeadOf
    <2> QED BY <1>2, <1>3, <1>4, <2>1, <2>2 DEF Shape, Rings, Types
  <1>8. /\ t \in DOMAIN node
        /\ DOMAIN node' = IF node[t].next = t /\ m.op # "lerase" THEN DOMAIN node ELSE DOMAIN node \ {t}
        /\ Unlinked(node, node', t)
        /\ \A x \in DOMAIN node' : x # node[t].prev /\ x # node[t].next => node'[x] = node[x]
        /\ list'[k].head = IF node[t].next = t THEN Nil
                           ELSE IF t = list[k].head THEN node[t].next ELSE list[k].head
    <2>1. Dropping(c, m, k, t)
      BY <1>1, <1>2, <1>5 DEF Dropping
    <2>2. Dropped(c, m, k, t)
      BY <2>1, DropIs
    <2> QED BY <2>2 DEF Dropped
  <1>9. PICK n \in Nat : n = Len(r) /\ n # 0 /\ p \in 1..n
    BY <1>6, <1>7
  <1>10. /\ node[t].next = r[IF p = n THEN 1 ELSE p + 1]
         /\ node[t].prev = r[IF p = 1 THEN n ELSE p - 1]
         /\ Within(r, node[t].next) /\ Within(r, node[t].prev) /\ Within(r, t)
    <2>1. (IF p = n THEN 1 ELSE p + 1) \in 1..n /\ (IF p = 1 THEN n ELSE p - 1) \in 1..n
      BY <1>9
    <2> QED BY <1>6, <1>7, <1>9, <2>1 DEF Turns, Within
  <1>11. \A x \in DOMAIN node : ~Within(r, x) => x \in DOMAIN node' /\ node'[x] = node[x]
    BY <1>8, <1>10
  <1>12. CASE n = 1
    <2>1. p = 1 /\ node[t].next = t
      BY <1>6, <1>9, <1>10, <1>12
    <2>2. PICK s : s = <<>> /\ s \in Seq(DOMAIN node')
      <3>1. \A D : <<>> \in Seq(D)
        OBVIOUS
      <3> QED BY <3>1, Zenon
    <2>3. PICK S : S = [R EXCEPT ![k] = s]
      OBVIOUS
    <2>4. Len(s) = 0
      BY <2>2
    <2>5. Spliced(R, k, s, S)
      BY <1>3, <1>4, <1>7, <1>11, <2>3, <2>4 DEF Spliced, Once, Turns, Within
    <2>6. list'[k].head = HeadOf(s)
      BY <1>8, <2>1, <2>2 DEF HeadOf
    <2> QED BY <1>1, <1>4, <1>5, <1>6, <1>9, <1>12, <2>4, <2>5, <2>6
  <1>13. CASE n # 1
    <2>1. n >= 2
      BY <1>9, <1>13
    <2>2. node[t].next # t
      <3>1. (IF p = n THEN 1 ELSE p + 1) # p /\ (IF p = n THEN 1 ELSE p + 1) \in 1..n
        BY <1>9, <2>1
      <3> QED BY <1>6, <1>7, <1>9, <1>10, <3>1 DEF Once
    <2>3. DOMAIN node' = DOMAIN node \ {r[p]} /\ Unlinked(node, node', r[p])
      BY <1>6, <1>8, <2>2
    <2>4. PICK s \in Seq(DOMAIN node') :
            /\ Once(s) /\ Turns(node', s) /\ Len(s) = Len(r) - 1
            /\ \A j \in 1..Len(s) : s[j] = r[IF j < p THEN j ELSE j + 1]
            /\ s[1] = IF p = 1 THEN node[r[p]].next ELSE r[1]
            /\ \A x : Within(s, x) => Within(r, x)
      <3>1. Removal(node, node', r, p)
        BY <1>7, <1>9, <2>1, <2>3 DEF Removal
      <3> QED BY <3>1, RemovedIs
    <2>5. PICK S : S = [R EXCEPT ![k] = s]
      OBVIOUS
    <2>6. Spliced(R, k, s, S)
      BY <1>3, <1>4, <1>7, <1>11, <2>4, <2>5 DEF Spliced
    <2>7. list'[k].head = HeadOf(s)
      <3>1. s # <<>>
        BY <1>9, <2>1, <2>4
      <3>2. t = list[k].head <=> p = 1
        <4>1. 1 \in 1..n
          BY <1>9
        <4> QED BY <1>6, <1>7, <1>9, <4>1 DEF HeadOf, Once
      <3> QED BY <1>6, <1>7, <1>8, <2>2, <2>4, <3>1, <3>2 DEF HeadOf
    <2> QED BY <1>1, <1>4, <1>5, <1>6, <2>4, <2>6, <2>7
  <1> QED BY <1>12, <1>13

\* ... or its p-th node is gone, which was the target of c.
Without(r, s, m, p) ==
    /\ Target(m) = r[p] /\ Len(s) = Len(r) - 1
    /\ (m.op = "lpop" => p = 1) /\ (m.op = "rpop" => p = Len(r)) /\ (m.op = "lerase" => p = Index(r, m.i))
    /\ \A j \in 1..Len(s) : s[j] = r[IF j < p THEN j ELSE j + 1]
TakenFrom(R, S, c) ==
    /\ IF list[Key(c)].head = Nil THEN S[Key(c)] = R[Key(c)]
       ELSE \E p \in 1..Len(R[Key(c)]) : Without(R[Key(c)], S[Key(c)], Cmd(c), p)
    /\ \A l \in Keys : l # Key(c) => S[l] = R[l]

LEMMA DropInv ==
    ASSUME NEW R, Inv(R), NEW c \in Clients, Drop(c)
    PROVE  \E S : Inv(S)' /\ TakenFrom(R, S, c)
  <1>1. th[c].pc = "take" /\ Shape(R) /\ TypeOK /\ Types
    BY DEF Drop, Inv, TypeOK, Types
  <1>2. /\ Cmd(c) \in Work[c] /\ Cmd(c) \in Commands /\ Key(c) \in Keys /\ Shrinks(Cmd(c))
        /\ list[Key(c)] # NULL /\ lock[Key(c)] = NULL
    BY <1>1, KeyIs DEF Shape, Placed, Drop, Key
  <1>3. PICK k \in Keys : k = Key(c)
    BY <1>2
  <1>4. ~Printing(k)
    <2>1. Shrinking(k)
      BY <1>1, <1>2, <1>3 DEF Shrinking
    <2> QED BY <2>1, PrintingIs DEF Inv
  <1>5. UNCHANGED <<lock, saver, file, whole, saves, crashes, moved>> /\ Remember(k)
    BY <1>3 DEF Drop, Key
  <1>6. ASSUME NEW S, Shape(S)', Types', \A l \in Keys : l # k => S[l] = R[l],
               th' \in [Clients -> Thread], \A d \in Clients : d # c => th'[d] = th[d], th'[c].pc = "idle"
        PROVE  Inv(S)'
    <2>1. since' \in [Keys -> SUBSET (Seq(Elements) \union {NULL})]
      BY <1>1, <1>5, <1>6, RememberIs DEF TypeOK
    <2>2. TypeOK'
      BY <1>1, <1>5, <1>6, <2>1 DEF TypeOK, Types
    <2>3. Saver(S)'
      <3>1. Moves(c)
        BY <1>6 DEF Moves
      <3>2. \A l \in Keys : Printing(l) => S[l] # <<>> /\ \A x : Within(R[l], x) => Within(S[l], x)
        BY <1>4, <1>6, PrintingIs DEF Inv
      <3> QED BY <1>5, <3>1, <3>2, SaverStays
    <2>4. Damaged'
      BY <1>5, DamagedKept DEF Inv
    <2> QED BY <1>6, <2>2, <2>3, <2>4 DEF Inv
  <1>7. CASE list[k].head = Nil
    <2>1. UNCHANGED <<list, node>> /\ Plainly(c, IF Cmd(c).op = "lerase" THEN "ok" ELSE "blank")
      BY <1>3, <1>7 DEF Drop, Key
    <2>2. th' \in [Clients -> Thread] /\ (\A d \in Clients : d # c => th'[d] = th[d]) /\ th'[c].pc = "idle"
      <3>1. th \in [Clients -> Thread]
        BY <1>1 DEF TypeOK
      <3>2. ASSUME NEW msg \in {"ok", "blank"}, Plainly(c, msg)
            PROVE  th' \in [Clients -> Thread] /\ (\A d \in Clients : d # c => th'[d] = th[d]) /\ th'[c].pc = "idle"
        BY <3>1, <3>2, FinishIs, PlainIs DEF Plainly
      <3> QED BY <2>1, <3>2
    <2>3. Shape(R)'
      <3>1. th[c].pc \notin Pushing /\ th'[c].pc \notin Pushing
        BY <1>1, <2>2 DEF Pushing
      <3> QED BY <1>1, <1>5, <2>1, <2>2, <3>1, CalmShape
    <2>4. Types'
      BY <1>1, <2>1 DEF Types
    <2>5. TakenFrom(R, R, c)
      BY <1>3, <1>7 DEF TakenFrom
    <2> QED BY <1>6, <2>2, <2>3, <2>4, <2>5
  <1>8. CASE list[k].head # Nil
    <2>1. PICK s, S : /\ Spliced(R, k, s, S) /\ Len(s) = Len(R[k]) - 1 /\ list'[k].head = HeadOf(s)
                      /\ \E p \in 1..Len(R[k]) : Without(R[k], s, Cmd(c), p)
      BY <1>3, <1>8, DropSpliced DEF Without
    <2>2. Rings(S)' /\ S[k] = s /\ \A l \in Keys : l # k => S[l] = R[l]
      BY <2>1, SplicedIs
    <2>3. PICK m : m = Cmd(c)
      OBVIOUS
    <2>4. PICK t : t = Target(m)
      OBVIOUS
    <2>5. /\ th' \in [Clients -> Thread] /\ (\A d \in Clients : d # c => th'[d] = th[d]) /\ th'[c].pc = "idle"
          /\ DOMAIN node' \subseteq DOMAIN node /\ node' \in [DOMAIN node' -> Node]
          /\ list' \in [Keys -> List \union {NULL}]
          /\ \A l \in Keys : l # k => list'[l] = list[l]
          /\ list'[k] # NULL /\ list'[k].length = list[k].length - 1
      <3>1. Dropping(c, m, k, t)
        BY <1>3, <1>8, <2>3, <2>4 DEF Key, Dropping
      <3>2. Dropped(c, m, k, t)
        BY <3>1, DropIs
      <3> QED BY <3>2 DEF Dropped
    <2>6. IsFiniteSet(DOMAIN node')
      <3>1. IsFiniteSet(DOMAIN node)
        BY <1>1 DEF Shape
      <3> QED BY <2>5, <3>1, FS_Subset
    <2>7. Headed(S)'
      <3>1. ASSUME NEW l \in Keys PROVE Late(l)' <=> Late(l)
        <4>1. \A d \in Clients : th'[d].pc \in {"head", "leave"} <=> th[d].pc \in {"head", "leave"}
          BY <1>1, <2>5
        <4> QED BY <1>5, <4>1 DEF Late
      <3>2. ASSUME NEW l \in Keys
            PROVE  IF list'[l] = NULL THEN S[l] = <<>> /\ lock'[l] = NULL
                   ELSE /\ list'[l].head = HeadOf(S[l])
                        /\ list'[l].length = Len(S[l]) - IF Late(l)' THEN 1 ELSE 0
        <4>1. IF list[l] = NULL THEN R[l] = <<>> /\ lock[l] = NULL
              ELSE list[l].head = HeadOf(R[l]) /\ list[l].length = Len(R[l]) - IF Late(l) THEN 1 ELSE 0
          BY <1>1 DEF Shape, Headed
        <4>2. CASE l = k
          <5>1. ~Late(k)
            BY <1>2, <1>3, NullIs DEF Late
          <5>2. Len(R[k]) \in Nat
            BY <1>1 DEF Shape, Rings
          <5>3. list[k].length = Len(R[k])
            BY <1>2, <1>3, <4>1, <4>2, <5>1, <5>2
          <5>4. ~Late(l)' /\ list'[l].length = Len(s) - 0
            BY <2>1, <2>5, <3>1, <4>2, <5>1, <5>2, <5>3
          <5> QED BY <2>1, <2>2, <2>5, <4>2, <5>4
        <4>3. CASE l # k
          BY <1>5, <2>2, <2>5, <3>1, <4>1, <4>3
        <4> QED BY <4>2, <4>3
      <3> QED BY <3>2 DEF Headed
    <2>8. Locked'
      <3> SUFFICES ASSUME NEW l \in Keys, lock[l] # NULL
                   PROVE  lock[l] \in Clients /\ th'[lock[l]].pc \in Pushing /\ th'[lock[l]].cmd.key = l
        BY <1>5 DEF Locked, Key, Cmd
      <3>1. lock[l] \in Clients /\ th[lock[l]].pc \in Pushing /\ th[lock[l]].cmd.key = l
        BY <1>1 DEF Shape, Locked, Key, Cmd
      <3>2. lock[l] # c
        BY <1>1, <3>1 DEF Pushing
      <3> QED BY <2>5, <3>1, <3>2
    <2>9. \A d \in Clients : Placed(S, d)'
      <3>1. Placed(S, c)'
        BY <2>5 DEF Placed, Pushing
      <3>2. \A b \in Clients : b # c /\ th[b].pc \in Pushing => Key(b) # k
        <4>1. \A b \in Clients : th[b].pc \in Pushing => lock[Key(b)] = b
          BY <1>1, HolderIs
        <4> QED BY <1>2, <1>3, <4>1, NullIs
      <3>3. \A l \in Keys : list'[l] = NULL => list[l] = NULL
        BY <2>5
      <3>4. \A d \in Clients : d # c => Placed(S, d)'
        BY <1>1, <1>5, <2>1, <2>5, <3>2, <3>3, OthersSpliced
      <3> QED BY <3>1, <3>4
    <2>10. Shape(S)'
      BY <2>2, <2>6, <2>7, <2>8, <2>9 DEF Shape
    <2>11. Types'
      BY <1>1, <2>5 DEF Types
    <2>12. TakenFrom(R, S, c)
      BY <1>3, <1>8, <2>1, <2>2 DEF TakenFrom
    <2> QED BY <1>6, <2>2, <2>5, <2>10, <2>11, <2>12
  <1> QED BY <1>7, <1>8

-----------------------------------------------------------------------------
(* A crash, and Read                                                       *)

LEMMA CutIs ==
    ASSUME NEW l \in Line, NEW p \in Cut(l)
    PROVE  p \in Line
  <1>1. l.val \in Seq(Elements) /\ l.key \in Keys \union {NULL} /\ Len(l.val) \in Nat
    BY DEF Line
  <1>2. ASSUME NEW v \in Seq(Elements), p = [l EXCEPT !.val = v] PROVE p \in Line
    BY <1>1, <1>2 DEF Line
  <1>3. \A j \in 0..(Len(l.val) - 1) : SubSeq(l.val, 1, j) \in Seq(Elements)
    BY <1>1
  <1>4. CASE p = [key |-> NULL, val |-> <<>>]
    <2>1. <<>> \in Seq(Elements)
      OBVIOUS
    <2> QED BY <1>4, <2>1 DEF Line
  <1>5. ASSUME NEW j \in 0..(Len(l.val) - 1), p = [l EXCEPT !.val = SubSeq(@, 1, j)] PROVE p \in Line
    <2>1. p = [l EXCEPT !.val = SubSeq(l.val, 1, j)]
      BY <1>5
    <2> QED BY <1>2, <1>3, <2>1
  <1>6. ASSUME NEW j \in 0..(Len(l.val) - 1), p = [l EXCEPT !.val = SubSeq(@, 1, j) \o <<PIECE>>] PROVE p \in Line
    <2>1. <<PIECE>> \in Seq(Elements)
      BY DEF Elements
    <2>2. SubSeq(l.val, 1, j) \o <<PIECE>> \in Seq(Elements)
      BY <1>3, <2>1, ConcatProperties
    <2>3. p = [l EXCEPT !.val = SubSeq(l.val, 1, j) \o <<PIECE>>]
      BY <1>6
    <2> QED BY <1>2, <2>2, <2>3
  <1> QED BY <1>4, <1>5, <1>6 DEF Cut

\* What is left of the file has its damage at the end.
LEMMA WrittenIs ==
    ASSUME NEW lines \in Seq(Line), \A i \in 1..Len(lines) : lines[i].key # NULL, NEW f \in Written(lines)
    PROVE  f \in Seq(Line) /\ \A i \in 1..Len(f) : f[i].key = NULL => i = Len(f)
  <1>1. \A j \in 0..Len(lines) : /\ SubSeq(lines, 1, j) \in Seq(Line) /\ Len(SubSeq(lines, 1, j)) = j
                                 /\ \A i \in 1..j : SubSeq(lines, 1, j)[i] = lines[i]
    OBVIOUS
  <1>2. ASSUME NEW j \in 0..Len(lines), f = SubSeq(lines, 1, j)
        PROVE  f \in Seq(Line) /\ \A i \in 1..Len(f) : f[i].key = NULL => i = Len(f)
    <2>1. Len(f) = j /\ j \in 0..Len(lines) /\ Len(lines) \in Nat
      BY <1>1, <1>2
    <2>2. \A i \in 1..j : i \in 1..Len(lines)
      BY <2>1
    <2> QED BY <1>1, <1>2, <2>1, <2>2
  <1>3. ASSUME NEW j \in 1..Len(lines), NEW p \in Cut(lines[j]), f = SubSeq(lines, 1, j - 1) \o <<p>>
        PROVE  f \in Seq(Line) /\ \A i \in 1..Len(f) : f[i].key = NULL => i = Len(f)
    <2>1. PICK s : s = SubSeq(lines, 1, j - 1)
      OBVIOUS
    <2>2. j - 1 \in 0..Len(lines) /\ j - 1 \in Nat /\ Len(lines) \in Nat
      OBVIOUS
    <2>3. s \in Seq(Line) /\ Len(s) = j - 1 /\ \A i \in 1..(j - 1) : s[i] = lines[i]
      BY <1>1, <2>1, <2>2
    <2>4. p \in Line
      <3>1. lines[j] \in Line
        OBVIOUS
      <3> QED BY <3>1, CutIs
    <2>5. <<p>> \in Seq(Line) /\ Len(<<p>>) = 1
      BY <2>4
    <2>6. f = s \o <<p>>
      BY <1>3, <2>1
    <2>7. f \in Seq(Line) /\ Len(f) = (j - 1) + 1 /\ \A i \in 1..(j - 1) : f[i] = lines[i]
      BY <2>2, <2>3, <2>5, <2>6, ConcatProperties
    <2>8. \A i \in 1..Len(f) : i = Len(f) \/ (i \in 1..(j - 1) /\ i \in 1..Len(lines))
      BY <2>2, <2>7
    <2> QED BY <2>7, <2>8
  <1> QED BY <1>2, <1>3 DEF Written

LEMMA CrashIs ==
    ASSUME NEW R, Inv(R), Crash
    PROVE  /\ th' \in [Clients -> Thread] /\ \A c \in Clients : th'[c].pc = "idle" /\ th'[c].n = th[c].n
                                                                /\ th'[c].ans = Plain("none")
           /\ file' \in Seq(Line) /\ Damaged'
  <1>1. saver'.pc = "idle" /\ (IF saver.pc = "idle" THEN UNCHANGED file ELSE file' \in Written(file))
    BY DEF Crash
  <1>2. th' = [c \in Clients |-> [th[c] EXCEPT !.pc = "idle", !.e = Nil, !.ans = Plain("none")]]
    BY DEF Crash
  <1>3. th \in [Clients -> Thread] /\ file \in Seq(Line) /\ Damaged
    BY DEF Inv, TypeOK
  <1>4. ASSUME NEW c \in Clients
        PROVE  th'[c] \in Thread /\ th'[c].pc = "idle" /\ th'[c].n = th[c].n /\ th'[c].ans = Plain("none")
    <2>1. th[c] \in Thread /\ th'[c] = [th[c] EXCEPT !.pc = "idle", !.e = Nil, !.ans = Plain("none")]
      BY <1>2, <1>3
    <2>2. PICK a : a = Plain("none")
      OBVIOUS
    <2>3. a \in [msg : {"none", "ok", "nokey", "empty", "blank", "data"}, val : Elements \union {NULL}]
      BY <2>2, PlainIs
    <2> DEFINE t == [th[c] EXCEPT !.pc = "idle", !.e = Nil, !.ans = a]
    <2>4. th'[c] = t
      BY <2>1, <2>2
    <2>5. t \in Thread
      BY <2>1, <2>3 DEF Thread, Nil
    <2>6. t.pc = "idle" /\ t.n = th[c].n /\ t.ans = a
      BY <2>1 DEF Thread
    <2> HIDE DEF t
    <2> QED BY <2>2, <2>4, <2>5, <2>6
  <1>5. th' \in [Clients -> Thread]
    BY <1>2, <1>4
  <1>6. CASE saver.pc = "idle"
    BY <1>1, <1>3, <1>4, <1>5, <1>6 DEF Damaged
  <1>7. CASE saver.pc # "idle"
    <2>1. \A i \in 1..Len(file) : file[i].key # NULL
      BY <1>3, <1>7 DEF Damaged
    <2>2. PICK f : f = file'
      OBVIOUS
    <2>3. f \in Seq(Line) /\ \A i \in 1..Len(f) : f[i].key = NULL => i = Len(f)
      BY <1>1, <1>3, <1>7, <2>1, <2>2, WrittenIs
    <2> QED BY <1>1, <1>4, <1>5, <2>2, <2>3 DEF Damaged
  <1> QED BY <1>6, <1>7

LEMMA CrashInv ==
    ASSUME NEW R, Inv(R), Crash
    PROVE  \E S : Inv(S)'
  <1>1. /\ list' = [k \in Keys |-> NULL] /\ node' = <<>> /\ lock' = [k \in Keys |-> NULL]
        /\ saver' = [pc |-> "idle", n |-> 1, it |-> Nil, str |-> <<>>]
        /\ crashes' = crashes + 1 /\ crashes < MaxCrashes /\ UNCHANGED <<whole, saves, since, moved>>
    BY DEF Crash
  <1>2. /\ th' \in [Clients -> Thread] /\ \A c \in Clients : th'[c].pc = "idle"
        /\ file' \in Seq(Line) /\ Damaged'
    BY CrashIs
  <1>3. DOMAIN node' = {} /\ node' \in [DOMAIN node' -> Node]
    <2>1. DOMAIN node' = {} /\ node' = [i \in {} |-> node'[i]]
      BY <1>1
    <2> QED BY <2>1
  <1>4. TypeOK'
    <2>1. list' \in [Keys -> List \union {NULL}] /\ lock' \in [Keys -> Clients \union {NULL}]
      BY <1>1
    <2>2. saver' \in Saving
      <3>1. 1 \in 1..(Len(Order) + 1) /\ <<>> \in Seq(Elements)
        BY OrderIs
      <3> QED BY <1>1, <3>1 DEF Saving, Nil
    <2>3. crashes' \in 0..MaxCrashes
      BY <1>1, FileAssumption DEF Inv, TypeOK
    <2> QED BY <1>1, <1>2, <1>3, <2>1, <2>2, <2>3 DEF Inv, TypeOK
  <1>5. PICK S : S = [k \in Keys |-> <<>>]
    OBVIOUS
  <1>6. S \in [Keys -> Seq(DOMAIN node')] /\ \A k \in Keys : S[k] = <<>> /\ Len(S[k]) = 0
    BY <1>3, <1>5
  <1>7. Rings(S)'
    BY <1>6 DEF Rings, Once, Turns
  <1>8. Headed(S)' /\ Locked'
    BY <1>1, <1>6 DEF Headed, Locked
  <1>9. \A c \in Clients : Placed(S, c)'
    BY <1>2 DEF Placed, Pushing
  <1>10. IsFiniteSet(DOMAIN node')
    BY <1>3, FS_EmptySet
  <1>11. Shape(S)' /\ Saver(S)'
    BY <1>1, <1>7, <1>8, <1>9, <1>10 DEF Shape, Saver
  <1> QED BY <1>2, <1>4, <1>11 DEF Inv

\* The nodes and lists of the first m lines.
Filling(mem, R, lines, m) ==
    /\ mem.node \in Seq(Node) /\ mem.list \in [Keys -> List \union {NULL}]
    /\ R \in [Keys -> Seq(1..Len(mem.node))]
    /\ \A k \in Keys : Once(R[k]) /\ Turns(mem.node, R[k])
    /\ \A k, l \in Keys : k # l => \A i \in 1..Len(R[k]), j \in 1..Len(R[l]) : R[k][i] # R[l][j]
    /\ \A k \in Keys :
          IF mem.list[k] = NULL THEN R[k] = <<>> /\ \A i \in 1..m : lines[i].key # k
          ELSE /\ mem.list[k].head = HeadOf(R[k]) /\ mem.list[k].length = Len(R[k])
               /\ \E i \in 1..m : /\ lines[i].key = k /\ Len(R[k]) = Len(lines[i].val)
                                  /\ \A j \in 1..Len(R[k]) : mem.node[R[k][j]].val = lines[i].val[j]

\* The nodes of a line are a ring behind those that are there.
Block(mem, l, g) ==
    /\ Len(mem.node) \in Nat /\ Len(l.val) \in Nat /\ l.key \in Keys
    /\ g.node \in Seq(Node) /\ Len(g.node) = Len(mem.node) + Len(l.val)
    /\ \A i \in 1..Len(mem.node) : g.node[i] = mem.node[i]
    /\ \A i \in 1..Len(l.val) :
          /\ g.node[Len(mem.node) + i].val = l.val[i]
          /\ g.node[Len(mem.node) + i].next = Len(mem.node) + IF i = Len(l.val) THEN 1 ELSE i + 1
          /\ g.node[Len(mem.node) + i].prev = Len(mem.node) + IF i = 1 THEN Len(l.val) ELSE i - 1
    /\ g.list = [mem.list EXCEPT ![l.key] =
                    [head |-> IF Len(l.val) = 0 THEN Nil ELSE Len(mem.node) + 1, length |-> Len(l.val)]]

LEMMA BlockIs ==
    ASSUME NEW mem, mem.node \in Seq(Node), NEW l \in Line, l.key # NULL
    PROVE  Block(mem, l, Grown(mem, l))
  <1>1. PICK b \in Nat : b = Len(mem.node)
    OBVIOUS
  <1>2. l.key \in Keys /\ l.val \in Seq(Elements)
    BY DEF Line
  <1>3. PICK n \in Nat : n = Len(l.val)
    BY <1>2
  <1> DEFINE new(i) == [val |-> l.val[i - b], next |-> IF i = b + n THEN b + 1 ELSE i + 1,
                        prev |-> IF i = b + 1 THEN b + n ELSE i - 1]
             f == [i \in 1..(b + n) |-> IF i <= b THEN mem.node[i] ELSE new(i)]
             g == Grown(mem, l)
  <1>4. g.node = f /\ g.list = [mem.list EXCEPT ![l.key] = [head |-> IF n = 0 THEN Nil ELSE b + 1, length |-> n]]
    BY <1>1, <1>3 DEF Grown
  <1>5. ASSUME NEW i \in 1..(b + n) PROVE f[i] \in Node
    <2>1. CASE i <= b
      BY <1>1, <2>1
    <2>2. CASE ~(i <= b)
      <3>1. i - b \in 1..n /\ i \in Nat /\ i - 1 \in Nat /\ b + 1 \in Nat /\ b + n \in Nat /\ i + 1 \in Nat
        BY <2>2
      <3>2. l.val[i - b] \in Elements
        BY <1>2, <1>3, <3>1
      <3> QED BY <2>2, <3>1, <3>2 DEF Node
    <2> QED BY <2>1, <2>2
  <1>6. \A i \in 1..b : f[i] = mem.node[i]
    OBVIOUS
  <1>7. ASSUME NEW i \in 1..n
        PROVE  /\ f[b + i].val = l.val[i] /\ f[b + i].next = b + IF i = n THEN 1 ELSE i + 1
               /\ f[b + i].prev = b + IF i = 1 THEN n ELSE i - 1
    <2>1. b + i \in 1..(b + n) /\ ~(b + i <= b) /\ (b + i) - b = i
      OBVIOUS
    <2>2. f[b + i] = new(b + i)
      BY <2>1
    <2> QED BY <2>1, <2>2
  <1>8. f \in Seq(Node) /\ Len(f) = b + n
    <2>1. f = [i \in 1..(b + n) |-> f[i]] /\ b + n \in Nat
      OBVIOUS
    <2> HIDE DEF f
    <2> QED BY <1>5, <2>1
  <1> HIDE DEF f, g
  <1> QED BY <1>1, <1>2, <1>3, <1>4, <1>6, <1>7, <1>8 DEF g, Block

LEMMA GrownIs ==
    ASSUME NEW mem, NEW R, NEW lines \in Seq(Line), NEW m \in Nat, Filling(mem, R, lines, m),
           m + 1 <= Len(lines), lines[m + 1].key # NULL
    PROVE  \E S : Filling(Grown(mem, lines[m + 1]), S, lines, m + 1)
  <1>1. PICK l \in Line : l = lines[m + 1] /\ l.key # NULL
    <2>1. m + 1 \in 1..Len(lines)
      OBVIOUS
    <2> QED BY <2>1
  <1>2. PICK k : k = l.key
    OBVIOUS
  <1>3. PICK g : g = Grown(mem, l)
    OBVIOUS
  <1>4. PICK b \in Nat : b = Len(mem.node)
    BY DEF Filling
  <1>5. PICK n \in Nat : n = Len(l.val)
    BY <1>1 DEF Line
  <1>6. /\ k \in Keys /\ g.node \in Seq(Node) /\ Len(g.node) = b + n
        /\ \A i \in 1..b : g.node[i] = mem.node[i]
        /\ \A i \in 1..n : /\ g.node[b + i].val = l.val[i]
                           /\ g.node[b + i].next = b + IF i = n THEN 1 ELSE i + 1
                           /\ g.node[b + i].prev = b + IF i = 1 THEN n ELSE i - 1
        /\ g.list = [mem.list EXCEPT ![k] = [head |-> IF n = 0 THEN Nil ELSE b + 1, length |-> n]]
    <2>1. Block(mem, l, g)
      BY <1>1, <1>3, BlockIs DEF Filling
    <2> QED BY <1>2, <1>4, <1>5, <2>1 DEF Block
  <1>7. PICK s : s = [i \in 1..n |-> b + i]
    OBVIOUS
  <1>8. s \in Seq(1..(b + n)) /\ Len(s) = n /\ \A i \in 1..n : s[i] = b + i
    BY <1>7
  <1>9. PICK S : S = [R EXCEPT ![k] = s]
    OBVIOUS
  <1>10. R \in [Keys -> Seq(1..b)] /\ mem.list \in [Keys -> List \union {NULL}]
    BY <1>4 DEF Filling
  <1>11. S[k] = s /\ DOMAIN S = Keys /\ \A j \in Keys : j # k => S[j] = R[j]
    BY <1>6, <1>9, <1>10
  <1>12. ASSUME NEW j \in Keys
         PROVE  /\ R[j] \in Seq(1..(b + n)) /\ Once(R[j]) /\ Turns(g.node, R[j])
                /\ \A i \in 1..Len(R[j]) : R[j][i] \in 1..b /\ g.node[R[j][i]] = mem.node[R[j][i]]
    <2>1. R[j] \in Seq(1..b) /\ Once(R[j]) /\ Turns(mem.node, R[j])
      BY <1>10 DEF Filling
    <2>2. \A i \in 1..Len(R[j]) : R[j][i] \in 1..b /\ g.node[R[j][i]] = mem.node[R[j][i]]
      <3>1. \A i \in 1..Len(R[j]) : R[j][i] \in 1..b
        BY <2>1
      <3>2. \A i \in 1..b : g.node[i] = mem.node[i]
        BY <1>6
      <3> QED BY <3>1, <3>2
    <2>3. 1..b \subseteq 1..(b + n)
      OBVIOUS
    <2>4. R[j] \in Seq(1..(b + n))
      BY <2>1, <2>2, <2>3
    <2> QED BY <2>1, <2>2, <2>4 DEF Turns
  <1>13. Once(s) /\ Turns(g.node, s)
    <2>1. \A i \in 1..n : (IF i = n THEN 1 ELSE i + 1) \in 1..n /\ (IF i = 1 THEN n ELSE i - 1) \in 1..n
      OBVIOUS
    <2>2. Once(s)
      BY <1>8 DEF Once
    <2>3. Turns(g.node, s)
      <3> SUFFICES ASSUME NEW i \in 1..n
                   PROVE  /\ g.node[s[i]].next = s[IF i = n THEN 1 ELSE i + 1]
                          /\ g.node[s[i]].prev = s[IF i = 1 THEN n ELSE i - 1]
        BY <1>8 DEF Turns
      <3>1. s[i] = b + i /\ s[IF i = n THEN 1 ELSE i + 1] = b + (IF i = n THEN 1 ELSE i + 1)
            /\ s[IF i = 1 THEN n ELSE i - 1] = b + (IF i = 1 THEN n ELSE i - 1)
        BY <1>8, <2>1
      <3> QED BY <1>6, <3>1
    <2> QED BY <2>2, <2>3
  <1>14. S \in [Keys -> Seq(1..(b + n))]
    <2>1. \A j \in Keys : S[j] \in Seq(1..(b + n))
      BY <1>8, <1>11, <1>12
    <2>2. S = [j \in Keys |-> S[j]]
      BY <1>9, <1>10
    <2> QED BY <2>1, <2>2
  <1>15. \A j \in Keys : Once(S[j]) /\ Turns(g.node, S[j])
    BY <1>11, <1>12, <1>13
  <1>16. ASSUME NEW j \in Keys, NEW h \in Keys, j # h, NEW x \in 1..Len(S[j]), NEW y \in 1..Len(S[h])
         PROVE  S[j][x] # S[h][y]
    <2>1. \A d \in Keys : d # k => \A i \in 1..Len(S[d]) : S[d][i] \in 1..b
      BY <1>11, <1>12
    <2>2. \A i \in 1..Len(s) : s[i] \notin 1..b
      BY <1>8
    <2>3. CASE j # k /\ h # k
      BY <1>11, <1>16, <2>3 DEF Filling
    <2>4. CASE j = k
      BY <1>11, <1>16, <2>1, <2>2, <2>4
    <2>5. CASE h = k
      BY <1>11, <1>16, <2>1, <2>2, <2>5
    <2> QED BY <2>3, <2>4, <2>5
  <1>17. g.list \in [Keys -> List \union {NULL}] /\ g.list[k] # NULL /\ g.list[k].head = HeadOf(s)
         /\ g.list[k].length = n /\ \A j \in Keys : j # k => g.list[j] = mem.list[j]
    <2> DEFINE t == [head |-> IF n = 0 THEN Nil ELSE b + 1, length |-> n]
    <2>1. t \in List /\ t.length = n
      BY DEF List, Nil
    <2>2. t.head = HeadOf(s)
      <3>1. CASE n = 0
        BY <1>8, <3>1 DEF HeadOf
      <3>2. CASE n # 0
        <4>1. 1 \in 1..n /\ s # <<>>
          BY <1>8, <3>2
        <4> QED BY <1>8, <3>2, <4>1 DEF HeadOf
      <3> QED BY <3>1, <3>2
    <2>3. g.list = [mem.list EXCEPT ![k] = t]
      BY <1>6
    <2>4. t # NULL
      BY <2>1, NullIs
    <2> HIDE DEF t
    <2> QED BY <1>6, <1>10, <2>1, <2>2, <2>3, <2>4
  <1>18. ASSUME NEW j \in Keys
         PROVE  IF g.list[j] = NULL THEN S[j] = <<>> /\ \A i \in 1..(m + 1) : lines[i].key # j
                ELSE /\ g.list[j].head = HeadOf(S[j]) /\ g.list[j].length = Len(S[j])
                     /\ \E i \in 1..(m + 1) : /\ lines[i].key = j /\ Len(S[j]) = Len(lines[i].val)
                                              /\ \A x \in 1..Len(S[j]) : g.node[S[j][x]].val = lines[i].val[x]
    <2>1. CASE j = k
      <3>1. m + 1 \in 1..(m + 1)
        OBVIOUS
      <3>2. lines[m + 1].key = k /\ Len(s) = Len(lines[m + 1].val)
        BY <1>1, <1>2, <1>5, <1>8
      <3>3. \A x \in 1..Len(s) : g.node[s[x]].val = lines[m + 1].val[x]
        BY <1>1, <1>6, <1>8
      <3> QED BY <1>8, <1>11, <1>17, <2>1, <3>1, <3>2, <3>3
    <2>2. CASE j # k /\ mem.list[j] = NULL
      <3>1. R[j] = <<>> /\ \A i \in 1..m : lines[i].key # j
        BY <2>2 DEF Filling
      <3>2. \A i \in 1..(m + 1) : i \in 1..m \/ i = m + 1
        OBVIOUS
      <3> QED BY <1>1, <1>2, <1>11, <1>17, <2>2, <3>1, <3>2
    <2>3. CASE j # k /\ mem.list[j] # NULL
      <3>1. /\ mem.list[j].head = HeadOf(R[j]) /\ mem.list[j].length = Len(R[j])
            /\ \E i \in 1..m : /\ lines[i].key = j /\ Len(R[j]) = Len(lines[i].val)
                               /\ \A x \in 1..Len(R[j]) : mem.node[R[j][x]].val = lines[i].val[x]
        BY <2>3 DEF Filling
      <3>2. \A i \in 1..m : i \in 1..(m + 1)
        OBVIOUS
      <3>3. S[j] = R[j] /\ g.list[j] = mem.list[j] /\ \A x \in 1..Len(R[j]) : g.node[R[j][x]] = mem.node[R[j][x]]
        BY <1>11, <1>12, <1>17, <2>3
      <3>4. PICK i \in 1..m : /\ lines[i].key = j /\ Len(R[j]) = Len(lines[i].val)
                              /\ \A x \in 1..Len(R[j]) : mem.node[R[j][x]].val = lines[i].val[x]
        BY <3>1
      <3>5. \A x \in 1..Len(S[j]) : g.node[S[j][x]].val = lines[i].val[x]
        BY <3>3, <3>4
      <3> QED BY <2>3, <3>1, <3>2, <3>3, <3>4, <3>5
    <2> QED BY <2>1, <2>2, <2>3
  <1>19. Filling(g, S, lines, m + 1)
    BY <1>6, <1>14, <1>15, <1>16, <1>17, <1>18 DEF Filling
  <1> QED BY <1>1, <1>3, <1>19

\* What the first n lines make, one after the other.
Bare == [node |-> <<>>, list |-> [k \in Keys |-> NULL]]
Fills(f, lines, n) == f = [i \in 0..n |-> IF i = 0 THEN Bare ELSE Grown(f[i - 1], lines[i])]

LEMMA FillsIs ==
    ASSUME NEW f, NEW lines, NEW n \in Nat, Fills(f, lines, n)
    PROVE  DOMAIN f = 0..n /\ \A i \in 0..n : f[i] = IF i = 0 THEN Bare ELSE Grown(f[i - 1], lines[i])
  <1> DEFINE g == [i \in 0..n |-> IF i = 0 THEN Bare ELSE Grown(f[i - 1], lines[i])]
  <1>1. f = g
    BY DEF Fills
  <1>2. DOMAIN g = 0..n /\ \A i \in 0..n : g[i] = IF i = 0 THEN Bare ELSE Grown(f[i - 1], lines[i])
    OBVIOUS
  <1> HIDE DEF g
  <1> QED BY <1>1, <1>2

LEMMA FillsExists ==
    ASSUME NEW lines, NEW n \in Nat
    PROVE  \E f : Fills(f, lines, n)
  <1> DEFINE S == {m \in Nat : ~\E f : Fills(f, lines, m)}
  <1>1. SUFFICES ASSUME S # {} PROVE FALSE
    OBVIOUS
  <1>2. PICK m \in S : \A k \in S : m <= k
    <2>1. S \in SUBSET Nat
      OBVIOUS
    <2> HIDE DEF S
    <2> QED BY <1>1, <2>1, LeastNat
  <1>3. m \in Nat /\ ~\E f : Fills(f, lines, m)
    BY <1>2
  <1>4. CASE m = 0
    <2> DEFINE f == [i \in 0..0 |-> Bare]
    <2>1. f = [i \in 0..0 |-> IF i = 0 THEN Bare ELSE Grown(f[i - 1], lines[i])]
      OBVIOUS
    <2> HIDE DEF f
    <2>2. Fills(f, lines, 0)
      BY <2>1 DEF Fills
    <2> QED BY <1>3, <1>4, <2>2
  <1>5. CASE m # 0
    <2>1. m - 1 \in Nat /\ ~(m <= m - 1)
      BY <1>3, <1>5
    <2>2. PICK f : Fills(f, lines, m - 1)
      BY <1>2, <2>1
    <2>3. DOMAIN f = 0..(m - 1) /\ \A i \in 0..(m - 1) : f[i] = IF i = 0 THEN Bare ELSE Grown(f[i - 1], lines[i])
      BY <2>1, <2>2, FillsIs
    <2> DEFINE g == [i \in 0..m |-> IF i = m THEN Grown(f[m - 1], lines[m]) ELSE f[i]]
    <2>4. DOMAIN g = 0..m /\ g[m] = Grown(f[m - 1], lines[m]) /\ \A i \in 0..(m - 1) : g[i] = f[i]
      BY <1>3, <1>5
    <2>5. g = [i \in 0..m |-> g[i]]
      OBVIOUS
    <2> DEFINE w == [i \in 0..m |-> IF i = 0 THEN Bare ELSE Grown(g[i - 1], lines[i])]
    <2> HIDE DEF g
    <2>6. DOMAIN w = 0..m /\ w = [i \in 0..m |-> w[i]]
      OBVIOUS
    <2>7. ASSUME NEW i \in 0..m PROVE g[i] = w[i]
      <3>1. w[i] = IF i = 0 THEN Bare ELSE Grown(g[i - 1], lines[i])
        OBVIOUS
      <3>2. CASE i = 0
        <4>1. 0 \in 0..(m - 1)
          BY <2>1
        <4> QED BY <2>3, <2>4, <3>1, <3>2, <4>1
      <3>3. CASE i # 0 /\ i = m
        <4>1. m - 1 \in 0..(m - 1)
          BY <2>1
        <4> QED BY <2>4, <3>1, <3>3, <4>1
      <3>4. CASE i # 0 /\ i # m
        <4>1. i \in 0..(m - 1) /\ i - 1 \in 0..(m - 1)
          BY <1>3, <3>4
        <4> QED BY <2>3, <2>4, <3>1, <3>4, <4>1
      <3> QED BY <3>2, <3>3, <3>4
    <2> HIDE DEF w
    <2>8. g = w
      BY <2>4, <2>5, <2>6, <2>7
    <2>9. Fills(g, lines, m)
      BY <2>8 DEF Fills, w
    <2> QED BY <1>3, <2>9
  <1> QED BY <1>4, <1>5

LEMMA FilledIs ==
    ASSUME NEW lines \in Seq(Line), \A i \in 1..Len(lines) : lines[i].key # NULL
    PROVE  \E R : Filling(Filled(lines), R, lines, Len(lines))
  <1>1. PICK n \in Nat : n = Len(lines)
    OBVIOUS
  <1>2. PICK f : Fills(f, lines, n) /\ Filled(lines) = f[n]
    <2> DEFINE mem == CHOOSE f : Fills(f, lines, n)
    <2>1. Filled(lines) = mem[n]
      BY <1>1 DEF Filled, Fills, Bare
    <2>2. \E f : Fills(f, lines, n)
      BY FillsExists
    <2>3. Fills(mem, lines, n)
      BY <2>2
    <2> QED BY <2>1, <2>3
  <1>3. \A i \in 0..n : f[i] = IF i = 0 THEN Bare ELSE Grown(f[i - 1], lines[i])
    BY <1>2, FillsIs
  <1> DEFINE Bad == {i \in 0..n : ~\E R : Filling(f[i], R, lines, i)}
  <1>4. Bad = {}
    <2> SUFFICES ASSUME Bad # {} PROVE FALSE
      OBVIOUS
    <2>1. PICK m \in Bad : \A i \in Bad : m <= i
      <3>1. Bad \in SUBSET Nat
        OBVIOUS
      <3> HIDE DEF Bad
      <3> QED BY <3>1, LeastNat
    <2>2. m \in 0..n /\ ~\E R : Filling(f[m], R, lines, m)
      BY <2>1
    <2>3. CASE m = 0
      <3>1. f[m] = Bare
        BY <1>3, <2>2, <2>3
      <3>2. PICK e : e = <<>>
        OBVIOUS
      <3>3. PICK R : R = [k \in Keys |-> e]
        OBVIOUS
      <3>4. e \in Seq(Node) /\ Len(e) = 0 /\ \A D : e \in Seq(D)
        BY <3>2
      <3>5. R \in [Keys -> Seq(1..Len(e))] /\ \A k \in Keys : R[k] = e /\ Once(R[k]) /\ Turns(e, R[k])
        BY <3>3, <3>4 DEF Once, Turns
      <3>6. Filling(Bare, R, lines, 0)
        BY <3>2, <3>4, <3>5 DEF Filling, Bare
      <3> QED BY <2>2, <2>3, <3>1, <3>6
    <2>4. CASE m # 0
      <3>1. PICK p \in Nat : p + 1 = m /\ p \in 0..n /\ m - 1 = p /\ ~(m <= p)
        BY <2>2, <2>4
      <3>2. PICK R : Filling(f[p], R, lines, p)
        BY <2>1, <3>1
      <3>3. p + 1 <= Len(lines) /\ lines[p + 1].key # NULL
        BY <1>1, <2>2, <3>1
      <3>4. f[m] = Grown(f[p], lines[p + 1])
        BY <1>3, <2>2, <2>4, <3>1
      <3>5. \E S : Filling(Grown(f[p], lines[p + 1]), S, lines, p + 1)
        BY <3>2, <3>3, GrownIs
      <3> QED BY <2>2, <3>1, <3>4, <3>5
    <2> QED BY <2>3, <2>4
  <1>5. n \in 0..n
    OBVIOUS
  <1> QED BY <1>1, <1>2, <1>4, <1>5

\* The lists of a file, in a table where nothing is under way.
LEMMA FilledShape ==
    ASSUME NEW lines, NEW R, Filling(Filled(lines), R, lines, Len(lines)),
           node' = Filled(lines).node, list' = Filled(lines).list, lock' = [k \in Keys |-> NULL],
           \A c \in Clients : th'[c].pc = "idle"
    PROVE  Shape(R)' /\ Types'
  <1>1. PICK mem : mem = Filled(lines)
    OBVIOUS
  <1>2. PICK b \in Nat : b = Len(mem.node)
    BY <1>1 DEF Filling
  <1>3. mem.node \in Seq(Node) /\ DOMAIN node' = 1..b
    BY <1>1, <1>2 DEF Filling
  <1>4. node' = mem.node /\ \A i \in 1..b : node'[i] \in Node
    BY <1>1, <1>2, <1>3
  <1>5. node' \in [DOMAIN node' -> Node] /\ DOMAIN node' \subseteq Nat \ {Nil}
    BY <1>3, <1>4 DEF Nil
  <1>6. IsFiniteSet(DOMAIN node')
    <2>1. IsFiniteSet(1..b)
      BY FS_Interval
    <2> QED BY <1>3, <2>1
  <1>7. Rings(R)'
    BY <1>1, <1>2, <1>3, <1>4 DEF Filling, Rings
  <1>8. Headed(R)'
    <2>1. \A k \in Keys : lock'[k] = NULL /\ ~Late(k)'
      BY NullIs DEF Late
    <2>2. \A k \in Keys : Len(R[k]) \in Nat
      BY <1>1, <1>2 DEF Filling
    <2>3. \A k \in Keys : IF list'[k] = NULL THEN R[k] = <<>>
                          ELSE list'[k].head = HeadOf(R[k]) /\ list'[k].length = Len(R[k]) - 0
      BY <2>2 DEF Filling
    <2>4. ASSUME NEW k \in Keys
          PROVE  IF list'[k] = NULL THEN R[k] = <<>> /\ lock'[k] = NULL
                 ELSE /\ list'[k].head = HeadOf(R[k])
                      /\ list'[k].length = Len(R[k]) - IF Late(k)' THEN 1 ELSE 0
      BY <2>1, <2>3
    <2> QED BY <2>4 DEF Headed
  <1>9. Locked' /\ \A c \in Clients : Placed(R, c)'
    BY DEF Locked, Placed, Pushing
  <1>10. list' \in [Keys -> List \union {NULL}]
    BY DEF Filling
  <1> QED BY <1>5, <1>6, <1>7, <1>8, <1>9, <1>10 DEF Shape, Types

\* ... and in the beginning.
LEMMA FilledInit ==
    ASSUME NEW lines, NEW R, Filling(Filled(lines), R, lines, Len(lines)),
           node = Filled(lines).node, list = Filled(lines).list, lock = [k \in Keys |-> NULL],
           \A c \in Clients : th[c].pc = "idle"
    PROVE  Shape(R) /\ Types
  <1>1. PICK mem : mem = Filled(lines)
    OBVIOUS
  <1>2. PICK b \in Nat : b = Len(mem.node)
    BY <1>1 DEF Filling
  <1>3. mem.node \in Seq(Node) /\ DOMAIN node = 1..b
    BY <1>1, <1>2 DEF Filling
  <1>4. node = mem.node /\ \A i \in 1..b : node[i] \in Node
    BY <1>1, <1>2, <1>3
  <1>5. node \in [DOMAIN node -> Node] /\ DOMAIN node \subseteq Nat \ {Nil}
    BY <1>3, <1>4 DEF Nil
  <1>6. IsFiniteSet(DOMAIN node)
    <2>1. IsFiniteSet(1..b)
      BY FS_Interval
    <2> QED BY <1>3, <2>1
  <1>7. Rings(R)
    BY <1>1, <1>2, <1>3, <1>4 DEF Filling, Rings
  <1>8. Headed(R)
    <2>1. \A k \in Keys : lock[k] = NULL /\ ~Late(k)
      BY NullIs DEF Late
    <2>2. \A k \in Keys : Len(R[k]) \in Nat
      BY <1>1, <1>2 DEF Filling
    <2>3. \A k \in Keys : IF list[k] = NULL THEN R[k] = <<>>
                          ELSE list[k].head = HeadOf(R[k]) /\ list[k].length = Len(R[k]) - 0
      BY <2>2 DEF Filling
    <2>4. ASSUME NEW k \in Keys
          PROVE  IF list[k] = NULL THEN R[k] = <<>> /\ lock[k] = NULL
                 ELSE /\ list[k].head = HeadOf(R[k])
                      /\ list[k].length = Len(R[k]) - IF Late(k) THEN 1 ELSE 0
      BY <2>1, <2>3
    <2> QED BY <2>4 DEF Headed
  <1>9. Locked /\ \A c \in Clients : Placed(R, c)
    BY DEF Locked, Placed, Pushing
  <1>10. list \in [Keys -> List \union {NULL}]
    BY DEF Filling
  <1> QED BY <1>5, <1>6, <1>7, <1>8, <1>9, <1>10 DEF Shape, Types

LEMMA ReadableIs ==
    ASSUME file \in Seq(Line), file # <<>>, Damaged
    PROVE  /\ Readable(file) \in Seq(Line) /\ Len(Readable(file)) <= Len(file)
           /\ \A i \in 1..Len(Readable(file)) : Readable(file)[i].key # NULL /\ Readable(file)[i] = file[i]
  <1>1. PICK n \in Nat : n = Len(file) /\ n # 0
    OBVIOUS
  <1>2. Last(file) = file[n] /\ Front(file) = SubSeq(file, 1, n - 1)
    BY <1>1 DEF Last, Front
  <1>3. \A i \in 1..n : i # n => file[i].key # NULL
    BY <1>1 DEF Damaged
  <1>4. CASE file[n].key = NULL
    <2>1. Readable(file) = SubSeq(file, 1, n - 1)
      BY <1>2, <1>4 DEF Readable
    <2>2. \A i \in 1..(n - 1) : file[i] \in Line /\ i \in 1..n /\ i # n
      BY <1>1
    <2>3. /\ SubSeq(file, 1, n - 1) \in Seq(Line) /\ Len(SubSeq(file, 1, n - 1)) = n - 1
          /\ \A i \in 1..(n - 1) : SubSeq(file, 1, n - 1)[i] = file[i]
      BY <1>1, <2>2
    <2> QED BY <1>1, <1>3, <2>1, <2>2, <2>3
  <1>5. CASE file[n].key # NULL
    BY <1>1, <1>2, <1>3, <1>5 DEF Readable
  <1> QED BY <1>4, <1>5

LEMMA ReadInv ==
    ASSUME NEW R, Inv(R), Read
    PROVE  \E S : Inv(S)'
  <1>1. PICK lines : lines = Readable(file)
    OBVIOUS
  <1>2. /\ saver.pc = "idle" /\ file # <<>> /\ (\A c \in Clients : th[c].pc = "idle") /\ \A k \in Keys : list[k] = NULL
        /\ node' = Filled(lines).node /\ list' = Filled(lines).list
        /\ UNCHANGED <<lock, th, saver, file, whole, saves, crashes, since, moved>>
    BY <1>1 DEF Read
  <1>3. TypeOK /\ Damaged /\ file \in Seq(Line) /\ Shape(R)
    BY DEF Inv, TypeOK
  <1>4. lines \in Seq(Line) /\ \A i \in 1..Len(lines) : lines[i].key # NULL
    BY <1>1, <1>2, <1>3, ReadableIs
  <1>5. PICK S : Filling(Filled(lines), S, lines, Len(lines))
    BY <1>4, FilledIs
  <1>6. lock' = [k \in Keys |-> NULL]
    <2>1. \A k \in Keys : lock[k] = NULL
      BY <1>2, <1>3 DEF Shape, Headed
    <2>2. lock \in [Keys -> Clients \union {NULL}]
      BY <1>3 DEF TypeOK
    <2> QED BY <1>2, <2>1, <2>2
  <1>7. Shape(S)' /\ Types'
    BY <1>2, <1>5, <1>6, FilledShape
  <1>8. TypeOK'
    BY <1>2, <1>3, <1>7 DEF TypeOK, Types
  <1>9. Saver(S)'
    BY <1>2 DEF Saver
  <1>10. Damaged'
    BY <1>2, <1>3, DamagedKept
  <1> QED BY <1>7, <1>8, <1>9, <1>10 DEF Inv

-----------------------------------------------------------------------------
(* The theorems                                                            *)

\* The lines of the beginning, and of the file that is there.
LinesOf(V) == [i \in DOMAIN Order |-> [key |-> Order[i], val |-> V[Order[i]]]]

LEMMA LinesIs ==
    ASSUME NEW V, V \in [Keys -> Seq(Elements)]
    PROVE  /\ LinesOf(V) \in Seq(Line) /\ Len(LinesOf(V)) = Len(Order)
           /\ \A i \in 1..Len(LinesOf(V)) : /\ LinesOf(V)[i].key = Order[i] /\ LinesOf(V)[i].key # NULL
                                            /\ LinesOf(V)[i].val = V[Order[i]]
  <1>1. \A i \in 1..Len(Order) : Order[i] \in Keys /\ Order[i] # NULL
    BY OrderIs, NullIs
  <1>2. \A i \in 1..Len(Order) : [key |-> Order[i], val |-> V[Order[i]]] \in Line
    BY <1>1 DEF Line
  <1>3. DOMAIN Order = 1..Len(Order) /\ Len(Order) \in Nat
    BY OrderIs
  <1> QED BY <1>1, <1>2, <1>3 DEF LinesOf

LEMMA InitInv ==
    ASSUME Init
    PROVE  \E R : Inv(R)
  <1>1. PICK lines : lines = LinesOf(InitList)
    OBVIOUS
  <1>2. /\ node = Filled(lines).node /\ list = Filled(lines).list
        /\ lock = [k \in Keys |-> NULL]
        /\ th = [c \in Clients |-> [pc |-> "idle", cmd |-> NULL, n |-> 0, e |-> Nil, ans |-> Plain("none")]]
        /\ saver = [pc |-> "idle", n |-> 1, it |-> Nil, str |-> <<>>]
        /\ file = [i \in DOMAIN Order |-> [key |-> Order[i], val |-> Printed(InitSaved[Order[i]])]]
        /\ whole = TRUE /\ saves = 0 /\ crashes = 0
        /\ since = [k \in Keys |-> {InitSaved[k]}] /\ moved = {}
    BY <1>1 DEF Init, LinesOf
  <1>3. Seq(Vals) \subseteq Seq(Elements)
    BY SeqMonotonic DEF Elements
  <1>4. InitList \in [Keys -> Seq(Elements)] /\ InitSaved \in [Keys -> Seq(Elements)]
    BY <1>3, WorkAssumption, FileAssumption
  <1>5. lines \in Seq(Line) /\ \A i \in 1..Len(lines) : lines[i].key # NULL
    BY <1>1, <1>4, LinesIs
  <1>6. PICK R : Filling(Filled(lines), R, lines, Len(lines))
    BY <1>5, FilledIs
  <1>7. th \in [Clients -> Thread] /\ \A c \in Clients : th[c].pc = "idle"
    <2>1. PICK a : a = Plain("none")
      OBVIOUS
    <2>2. a \in [msg : {"none", "ok", "nokey", "empty", "blank", "data"}, val : Elements \union {NULL}]
      BY <2>1, PlainIs
    <2>3. [pc |-> "idle", cmd |-> NULL, n |-> 0, e |-> Nil, ans |-> a] \in Thread
      BY <2>2 DEF Thread, Nil
    <2> QED BY <1>2, <2>1, <2>3
  <1>8. Shape(R) /\ Types
    BY <1>2, <1>6, <1>7, FilledInit
  <1>9. file \in Seq(Line) /\ \A i \in 1..Len(file) : file[i].key # NULL
    <2>1. PICK V : V = [k \in Keys |-> Printed(InitSaved[k])]
      OBVIOUS
    <2>2. V \in [Keys -> Seq(Elements)]
      <3>1. <<EMPTY>> \in Seq(Elements)
        BY DEF Elements
      <3> QED BY <1>4, <2>1, <3>1 DEF Printed
    <2>3. file = LinesOf(V)
      <3>1. \A i \in DOMAIN Order : V[Order[i]] = Printed(InitSaved[Order[i]])
        BY <2>1, OrderIs
      <3> QED BY <1>2, <3>1 DEF LinesOf
    <2> QED BY <2>2, <2>3, LinesIs
  <1>10. TypeOK
    <2>1. saver \in Saving
      <3>1. 1 \in 1..(Len(Order) + 1) /\ <<>> \in Seq(Elements)
        BY OrderIs
      <3> QED BY <1>2, <3>1 DEF Saving, Nil
    <2>2. lock \in [Keys -> Clients \union {NULL}]
      BY <1>2
    <2>3. since \in [Keys -> SUBSET (Seq(Elements) \union {NULL})]
      BY <1>2, <1>4
    <2>4. saves \in 0..MaxSaves /\ crashes \in 0..MaxCrashes
      BY <1>2, FileAssumption
    <2> QED BY <1>2, <1>7, <1>8, <1>9, <2>1, <2>2, <2>3, <2>4 DEF TypeOK, Types
  <1>11. Saver(R) /\ Damaged
    BY <1>2, <1>9 DEF Saver, Damaged
  <1> QED BY <1>8, <1>10, <1>11 DEF Inv

LEMMA StutterInv ==
    ASSUME NEW R, Inv(R), UNCHANGED vars
    PROVE  Inv(R)'
  <1>1. Shape(R)'
    BY AloneShape DEF Inv, vars
  <1>2. TypeOK' /\ Saver(R)' /\ Damaged'
    BY DEF Inv, vars, TypeOK, Saver, Shrinking, Shrinks, Key, Cmd, Damaged
  <1> QED BY <1>1, <1>2 DEF Inv

LEMMA StepInv ==
    ASSUME NEW R, Inv(R), [Next]_vars
    PROVE  \E S : Inv(S)'
  <1>1. ASSUME NEW c \in Clients, Call(c) PROVE \E S : Inv(S)'
    BY <1>1, CallInv
  <1>2. ASSUME NEW c \in Clients, Run(c) PROVE \E S : Inv(S)'
    <2>1. CASE Check(c)
      BY <2>1, CheckInv
    <2>2. CASE Enter(c)
      BY <2>2, EnterInv
    <2>3. CASE Link(c)
      BY <2>3, LinkInv
    <2>4. CASE SetHead(c)
      BY <2>4, SetHeadInv
    <2>5. CASE Leave(c)
      BY <2>5, LeaveInv
    <2>6. CASE Drop(c)
      BY <2>6, DropInv
    <2> QED BY <1>2, <2>1, <2>2, <2>3, <2>4, <2>5, <2>6 DEF Run
  <1>3. ASSUME Save PROVE \E S : Inv(S)'
    <2>1. CASE Begin
      BY <2>1, BeginInv
    <2>2. CASE PrintFirst
      BY <2>2, PrintFirstInv
    <2>3. CASE PrintTest
      BY <2>3, PrintTestInv
    <2>4. CASE PrintNext
      BY <2>4, PrintNextInv
    <2>5. CASE Close
      BY <2>5, CloseInv
    <2> QED BY <1>3, <2>1, <2>2, <2>3, <2>4, <2>5 DEF Save
  <1>4. CASE Open
    BY <1>4, OpenInv
  <1>5. CASE Crash
    BY <1>5, CrashInv
  <1>6. CASE Read
    BY <1>6, ReadInv
  <1>7. CASE UNCHANGED vars
    BY <1>7, StutterInv
  <1>8. CASE Over
    BY <1>8, StutterInv DEF Over
  <1> QED BY <1>1, <1>2, <1>3, <1>4, <1>5, <1>6, <1>7, <1>8 DEF Next

\* There are sequences of nodes that the pointers follow.
Followed == \E R : Inv(R)

THEOREM AlwaysFollowed == Spec => []Followed
  <1>1. Init => Followed
    BY InitInv DEF Followed
  <1>2. Followed /\ [Next]_vars => Followed'
    <2> SUFFICES ASSUME Followed, [Next]_vars PROVE Followed'
      OBVIOUS
    <2>1. PICK R : Inv(R)
      BY DEF Followed
    <2> QED BY <2>1, StepInv DEF Followed
  <1> QED BY <1>1, <1>2, PTL DEF Spec

\* The pointers, counters, threads, lines and the place of print keep their types, whatever
\* clients, saves, crashes and reads do beside each other.
THEOREM TypeCorrect == Spec => []TypeOK
  <1>1. Followed => TypeOK
    BY DEF Followed, Inv
  <1> QED BY <1>1, AlwaysFollowed, PTL

LEMMA FreeRing ==
    ASSUME NEW R, Inv(R), NEW k \in Keys, lock[k] = NULL, list[k] # NULL
    PROVE  /\ Ring(k) = R[k] /\ Len(R[k]) = list[k].length
           /\ \A i \in DOMAIN R[k] : node[node[R[k][i]].next].prev = R[k][i]
  <1>1. Shape(R) /\ Types /\ R[k] \in Seq(DOMAIN node) /\ Turns(node, R[k])
    BY DEF Inv, TypeOK, Types, Shape, Rings
  <1>2. Ring(k) = R[k]
    BY <1>1, RingIs
  <1>3. PICK n \in Nat : n = Len(R[k]) /\ DOMAIN R[k] = 1..n
    BY <1>1
  <1>4. list[k].length = n
    <2>1. ~Late(k)
      BY NullIs DEF Late
    <2>2. list[k].length = Len(R[k]) - 0
      BY <1>1, <2>1 DEF Shape, Headed
    <2> QED BY <1>3, <2>2
  <1>5. ASSUME NEW i \in 1..n PROVE node[node[R[k][i]].next].prev = R[k][i]
    <2>1. node[R[k][i]].next = R[k][IF i = n THEN 1 ELSE i + 1]
      BY <1>1, <1>3 DEF Turns
    <2>2. PICK j \in 1..n : j = IF i = n THEN 1 ELSE i + 1
      OBVIOUS
    <2>3. node[R[k][j]].prev = R[k][IF j = 1 THEN n ELSE j - 1]
      BY <1>1, <1>3 DEF Turns
    <2>4. (IF j = 1 THEN n ELSE j - 1) = i
      BY <2>2
    <2> QED BY <2>1, <2>2, <2>3, <2>4
  <1> QED BY <1>2, <1>3, <1>4, <1>5

\* Whatever push_front, push_back, pop_front, pop_back and del have done beside each other,
\* the list of a key whose mutex is free goes around both ways, is as long as its counter
\* says and shares no node with another.
THEOREM RingsCorrect == Spec => []RingsOK
  <1>1. Followed => RingsOK
    <2> SUFFICES ASSUME Followed PROVE RingsOK
      OBVIOUS
    <2>1. PICK R : Inv(R)
      BY DEF Followed
    <2>2. ASSUME NEW k \in Keys, lock[k] = NULL, list[k] # NULL
          PROVE  /\ Len(Ring(k)) = list[k].length
                 /\ \A i \in DOMAIN Ring(k) : node[node[Ring(k)[i]].next].prev = Ring(k)[i]
      BY <2>1, <2>2, FreeRing
    <2>3. ASSUME NEW k \in Keys, list[k] # NULL, NEW j \in Keys \ {k}, list[j] # NULL
          PROVE  Range(Ring(k)) \cap Range(Ring(j)) = {}
      <3>1. Shape(R) /\ Types
        BY <2>1 DEF Inv, TypeOK, Types
      <3>2. Ring(k) = R[k] /\ Ring(j) = R[j]
        BY <2>3, <3>1, RingIs
      <3>3. R[k] \in Seq(DOMAIN node) /\ R[j] \in Seq(DOMAIN node)
        BY <3>1 DEF Shape, Rings
      <3>4. DOMAIN R[k] = 1..Len(R[k]) /\ DOMAIN R[j] = 1..Len(R[j])
        BY <3>3
      <3>5. \A x \in DOMAIN R[k], y \in DOMAIN R[j] : R[k][x] # R[j][y]
        BY <2>3, <3>1, <3>4 DEF Shape, Rings
      <3> QED BY <3>2, <3>5 DEF Range
    <2> QED BY <2>2, <2>3 DEF RingsOK
  <1> QED BY <1>1, AlwaysFollowed, PTL

=============================================================================
