--------------------------- MODULE ReplicasProofs ---------------------------
(***************************************************************************)
(* Theorems about Replicas, for any number of servers, clients and writes. *)
(* The invariant IInv says how far the builder is and what each server     *)
(* has in replica_sock, on which connections the texts are that are under  *)
(* way, and that of a write that was sent when all replicas had accepted   *)
(* there is at most one trace for each server: the thread that will send   *)
(* it there, the text on the stream, the thread that executes it there, or *)
(* its place among what the server has done.                               *)
(***************************************************************************)
EXTENDS Replicas, SequenceTheorems, FiniteSetTheorems, TLAPS

-----------------------------------------------------------------------------
(* The builder                                                             *)

\* Server i has been told the number of replicas.
Heard(i) == i < tell[1] \/ (i = tell[1] /\ tell[2] # 0)

\* The number of servers before the one that message x is about, without i.
Before(i, x) == IF i < x - 1 THEN x - 2 ELSE x - 1

\* replica_sock of i has the others in their order, up to where the builder is.
Socks(i) ==
    IF Heard(i)
    THEN /\ socks[i] \in Seq(Members)
         /\ Len(socks[i]) = IF i < tell[1] THEN size - 1
                            ELSE IF tell[3] THEN Before(i, tell[2]) + 1 ELSE Before(i, tell[2])
         /\ \A x \in 1..Len(socks[i]) :
              /\ socks[i][x] # i
              /\ i = tell[1] => \/ socks[i][x] < tell[2] - 1
                                \/ tell[3] /\ socks[i][x] = tell[2] - 1
         /\ \A x, y \in 1..Len(socks[i]) : x < y => socks[i][x] < socks[i][y]
    ELSE socks[i] = NULL

Progress ==
    /\ tell[1] \in 0..size /\ tell[2] \in 0..size /\ tell[2] # tell[1] + 1
    /\ tell[2] = 0 => ~tell[3]
    /\ tell[1] = size => tell[2] = 0
    /\ \A i \in Nodes : Socks(i)

-----------------------------------------------------------------------------
(* Texts under way                                                         *)

Items(s) == {s[x] : x \in 1..Len(s)}

MemberPairs == {p \in Members \X Members : p[1] # p[2]}

\* A text that a client has sent, or that came over the socket between two servers.
Traveled(t) ==
    /\ t.cmd.of <= Len(calls)
    /\ t.cmd.op \in {"make", "del", "refused"} => t.cmd.of >= 1
    /\ t.route # <<>>
    /\ FromClient(t.route) =>
         /\ t.cmd.of \in DOMAIN calls /\ t.cmd.op # "replicaaccept"
         /\ At(t.route) = Home[calls[t.cmd.of].by]
    /\ ~FromClient(t.route) => Via(t.route) \in MemberPairs

Sender(s) ==
    /\ Traveled(s.text) /\ s.text.cmd.of >= 1
    /\ Heard(At(s.text.route)) /\ s.x <= size - 1

Logged(l) ==
    /\ l.route # <<>> /\ At(l.route) \in Nodes
    /\ FromClient(l.route) => l.line.cmd.of \in DOMAIN calls

OnWire(t, p) == Traveled(t) /\ ~FromClient(t.route) /\ Via(t.route) = p

Underway ==
    /\ \A t \in work : Traveled(t)
    /\ \A s \in sends : Sender(s)
    /\ \A p \in Pairs : \A t \in Items(out[p]) : OnWire(t, p)
    /\ \A l \in logging : Logged(l)
    /\ \A i \in Nodes : \A l \in Items(done[i]) : l.cmd.of <= Len(calls)

-----------------------------------------------------------------------------
(* The traces of a write n for server j                                    *)

From(n) == Home[calls[n].by]
Positions(s, n) == {x \in 1..Len(s) : s[x].cmd.of = n}
SendsTo(n, j) == {s \in sends : s.text.cmd.of = n /\ socks[From(n)][s.x] = j}
FliesTo(n, j) == IF j = From(n) THEN {} ELSE Positions(out[<<From(n), j>>], n)
WorksAt(n, j) == {t \in work : t.cmd.of = n /\ At(t.route) = j}
DoneAt(n, j) == Positions(done[j], n)

AtMostOne(S) == \A a, b \in S : a = b

OneOf(A, B, C, D) ==
    /\ AtMostOne(A) /\ AtMostOne(B) /\ AtMostOne(C) /\ AtMostOne(D)
    /\ A # {} => B = {} /\ C = {} /\ D = {}
    /\ B # {} => C = {} /\ D = {}
    /\ C # {} => D = {}

Once(n, j) == OneOf(SendsTo(n, j), FliesTo(n, j), WorksAt(n, j), DoneAt(n, j))

\* It is sent by the server of its client, and before that thread has executed it there is
\* nothing else of it.
Waits(n) == \E t \in work : t.cmd.of = n /\ FromClient(t.route)
Starts(n) ==
    /\ \A s \in sends : s.text.cmd.of = n => At(s.text.route) = From(n)
    /\ \A p \in Pairs : \A t \in Items(out[p]) : t.cmd.of = n => p[1] = From(n)
    /\ Waits(n) =>
         \A j \in Nodes : /\ SendsTo(n, j) = {} /\ FliesTo(n, j) = {} /\ DoneAt(n, j) = {}
                          /\ \A t \in WorksAt(n, j) : FromClient(t.route)

Single(n) == Starts(n) /\ \A j \in Nodes : Once(n, j)

Memory ==
    /\ closed \subseteq Nodes /\ fault # "freed"
    /\ fault = "socket" => Early # {}

Base == TypeOK /\ Progress /\ Underway /\ Memory

IInv ==
    /\ Base
    /\ \A n \in DOMAIN calls : calls[n].safe => Ready /\ Single(n)

-----------------------------------------------------------------------------
(* The steps of the builder                                                *)

LEMMA Sizing ==
    ASSUME TypeOK
    PROVE  /\ size \in Nat \ {0} /\ size <= N /\ N \in Nat
           /\ Members \subseteq Nodes /\ Members \subseteq Int
           /\ \A c \in Clients : Home[c] \in Members
           /\ \A i \in Nodes : i \in Int /\ 0 <= i
  BY SizeAssumption, ClientsAssumption DEF TypeOK, Members, Nodes

Upcoming == Following(tell)

LEMMA Triple ==
    ASSUME NEW S, NEW a \in S, NEW b \in S, NEW c \in BOOLEAN, NEW t, t = <<a, b, c>>
    PROVE  t \in S \X S \X BOOLEAN
  BY Zenon

\* What follows a message: the next one to the same server, or the first to the next.
LEMMA Follows ==
    ASSUME TypeOK, Progress, ~Built
    PROVE  \/ /\ Upcoming[1] = tell[1] /\ Upcoming[3] = FALSE /\ Upcoming \in (0..N) \X (0..N) \X BOOLEAN
              /\ Upcoming[2] \in 1..size /\ Upcoming[2] # tell[1] + 1
              /\ Before(tell[1], Upcoming[2])
                   = IF tell[2] = 0 THEN 0 ELSE Before(tell[1], tell[2]) + 1
              /\ tell[2] < Upcoming[2]
           \/ /\ Upcoming = <<tell[1] + 1, 0, FALSE>> /\ Upcoming \in (0..N) \X (0..N) \X BOOLEAN
              /\ Upcoming[1] = tell[1] + 1 /\ Upcoming[2] = 0 /\ Upcoming[3] = FALSE
              /\ size - 1 = IF tell[2] = 0 THEN 0 ELSE Before(tell[1], tell[2]) + 1
  <1>1. /\ size \in Nat \ {0} /\ size <= N /\ N \in Nat
        /\ tell[1] \in 0..(size - 1) /\ tell[2] \in 0..size /\ tell[2] # tell[1] + 1
    BY Sizing DEF Progress, Built
  <1> DEFINE x == IF tell[2] = tell[1] THEN tell[2] + 2 ELSE tell[2] + 1
  <1>2. x \in Nat /\ x # tell[1] + 1 /\ tell[2] < x
    BY <1>1
  <1>3. CASE x <= size
    <2>1. Upcoming = <<tell[1], x, FALSE>>
      BY <1>3 DEF Upcoming, Following
    <2>2. Before(tell[1], x) = IF tell[2] = 0 THEN 0 ELSE Before(tell[1], tell[2]) + 1
      BY <1>1 DEF Before
    <2> HIDE DEF x
    <2>3. Upcoming[1] = tell[1] /\ Upcoming[2] = x /\ Upcoming[3] = FALSE
      BY <2>1
    <2>4. Upcoming \in (0..N) \X (0..N) \X BOOLEAN
      <3>1. tell[1] \in 0..N /\ x \in 0..N
        BY <1>1, <1>2, <1>3
      <3> QED BY <2>1, <3>1, Triple
    <2>5. /\ Upcoming[2] \in 1..size /\ Upcoming[2] # tell[1] + 1 /\ tell[2] < Upcoming[2]
          /\ Before(tell[1], Upcoming[2]) = IF tell[2] = 0 THEN 0 ELSE Before(tell[1], tell[2]) + 1
      BY <1>1, <1>2, <1>3, <2>2, <2>3
    <2> QED BY <2>3, <2>4, <2>5, Zenon
  <1>4. CASE ~(x <= size)
    <2>1. Upcoming = <<tell[1] + 1, 0, FALSE>>
      BY <1>4 DEF Upcoming, Following
    <2>2. size - 1 = IF tell[2] = 0 THEN 0 ELSE Before(tell[1], tell[2]) + 1
      BY <1>1, <1>4 DEF Before
    <2>3. Upcoming[1] = tell[1] + 1 /\ Upcoming[2] = 0 /\ Upcoming[3] = FALSE
      BY <2>1
    <2>4. Upcoming \in (0..N) \X (0..N) \X BOOLEAN
      <3>1. tell[1] + 1 \in 0..N /\ 0 \in 0..N
        BY <1>1
      <3> QED BY <2>1, <3>1, Triple
    <2> QED BY <2>1, <2>2, <2>3, <2>4
  <1> QED BY <1>3, <1>4

LEMMA SetNumberProgress ==
    ASSUME TypeOK, Progress, SetNumber
    PROVE  Progress' /\ (\A i \in Nodes : Heard(i) => Heard(i)')
  <1>0. /\ size \in Nat \ {0} /\ size <= N /\ N \in Nat /\ \A i \in Nodes : i \in Int
        /\ tell[1] \in 0..(size - 1) /\ tell[1] \in Nodes
    BY Sizing DEF SetNumber, Progress, Built, Nodes
  <1>1. /\ ~Built /\ tell[2] = 0 /\ ~tell[3] /\ tell' = Upcoming /\ size' = size
        /\ socks' = [socks EXCEPT ![tell[1]] = <<>>]
        /\ socks \in [Nodes -> Seq(Nodes) \union {NULL}]
    BY DEF SetNumber, Proceed, Upcoming, Progress, TypeOK
  <1>2. \/ /\ Upcoming[1] = tell[1] /\ Upcoming[3] = FALSE /\ Upcoming[2] \in 1..size /\ Upcoming[2] # tell[1] + 1
           /\ Before(tell[1], Upcoming[2]) = 0
        \/ Upcoming[1] = tell[1] + 1 /\ Upcoming[2] = 0 /\ Upcoming[3] = FALSE /\ size - 1 = 0
    BY <1>1, Follows
  <1>3. ASSUME NEW i \in Nodes PROVE Socks(i)' /\ (Heard(i) => Heard(i)')
    <2>1. CASE i = tell[1]
      <3>1. socks'[i] = <<>> /\ <<>> \in Seq(Members) /\ Heard(i)'
        BY <1>0, <1>1, <1>2, <2>1 DEF Heard
      <3> QED BY <3>1, <1>0, <1>1, <1>2, <2>1 DEF Socks, Heard, Members, Before
    <2>2. CASE i # tell[1]
      <3>1. socks'[i] = socks[i] /\ Heard(i)' = Heard(i) /\ Members' = Members
        BY <1>0, <1>1, <1>2, <2>2 DEF Heard, Members
      <3>2. Heard(i) <=> i < tell[1]
        BY <2>2 DEF Heard
      <3>3. i < tell[1] => i < tell'[1]
        BY <1>0, <1>1, <1>2
      <3>4. Socks(i)
        BY DEF Progress
      <3>5. Heard(i) => i # tell'[1] /\ i < tell'[1]
        BY <1>0, <3>2, <3>3
      <3> QED BY <3>1, <3>2, <3>4, <3>5, <1>1, <2>2 DEF Socks
    <2> QED BY <2>1, <2>2
  <1> QED BY <1>0, <1>1, <1>2, <1>3 DEF Progress

LEMMA AddReplicaProgress ==
    ASSUME TypeOK, Progress, AddReplica
    PROVE  Progress' /\ (\A i \in Nodes : Heard(i) => Heard(i)')
  <1>0. /\ size \in Nat \ {0} /\ size <= N /\ N \in Nat /\ \A i \in Nodes : i \in Int
        /\ tell[1] \in 0..(size - 1) /\ tell[1] \in Nodes /\ tell[2] \in 1..size
        /\ tell[2] - 1 \in Members /\ tell[2] - 1 # tell[1]
    BY Sizing DEF AddReplica, Progress, Built, Nodes, Members
  <1>1. /\ ~tell[3] /\ size' = size
        /\ socks' = [socks EXCEPT ![tell[1]] = Append(@, tell[2] - 1)]
        /\ socks \in [Nodes -> Seq(Nodes) \union {NULL}]
    BY DEF AddReplica, TypeOK
  <1>2. tell'[1] = tell[1] /\ tell'[2] = tell[2] /\ tell'[3]
    BY DEF AddReplica, TypeOK
  <1>3. ASSUME NEW i \in Nodes PROVE Socks(i)' /\ Heard(i)' = Heard(i)
    <2>0. Heard(i)' = Heard(i) /\ Members' = Members /\ Socks(i)
      BY <1>1, <1>2 DEF Heard, Members, Progress
    <2>1. CASE i = tell[1]
      <3>1. socks'[i] = Append(socks[i], tell[2] - 1) /\ Heard(i)
        BY <1>0, <1>1, <2>1 DEF Heard
      <3>2. socks[i] \in Seq(Members)
        BY <3>1, <2>0 DEF Socks
      <3>3. /\ socks'[i] \in Seq(Members) /\ Len(socks'[i]) = Len(socks[i]) + 1
            /\ socks'[i][Len(socks[i]) + 1] = tell[2] - 1
            /\ \A x \in 1..Len(socks[i]) : socks'[i][x] = socks[i][x]
        BY <3>1, <3>2, <1>0
      <3>4. Len(socks'[i]) = Before(i, tell[2]) + 1
        BY <3>1, <3>3, <2>0, <2>1, <1>0, <1>1 DEF Socks
      <3>6. \A x \in 1..Len(socks[i]) : socks[i][x] \in Int /\ socks[i][x] < tell[2] - 1
        BY <3>1, <3>2, <2>0, <2>1, <1>0, <1>1 DEF Socks, Members
      <3>7. \A x, y \in 1..Len(socks'[i]) : x < y => socks'[i][x] < socks'[i][y]
        <4> SUFFICES ASSUME NEW x \in 1..Len(socks'[i]), NEW y \in 1..Len(socks'[i]), x < y
                     PROVE  socks'[i][x] < socks'[i][y]
          OBVIOUS
        <4>1. x \in 1..Len(socks[i]) /\ socks'[i][x] = socks[i][x]
          BY <3>2, <3>3
        <4>2. CASE y \in 1..Len(socks[i])
          BY <4>1, <4>2, <3>1, <3>3, <2>0 DEF Socks
        <4>3. CASE y = Len(socks[i]) + 1
          BY <4>1, <4>3, <3>3, <3>6
        <4> QED BY <4>2, <4>3, <3>2, <3>3
      <3>5. \A x \in 1..Len(socks'[i]) :
              socks'[i][x] # i /\ (socks'[i][x] < tell[2] - 1 \/ socks'[i][x] = tell[2] - 1)
        <4> SUFFICES ASSUME NEW x \in 1..Len(socks'[i])
                     PROVE  /\ socks'[i][x] # i
                            /\ socks'[i][x] < tell[2] - 1 \/ socks'[i][x] = tell[2] - 1
          OBVIOUS
        <4>1. CASE x \in 1..Len(socks[i])
          BY <4>1, <3>1, <3>3, <3>6, <2>0 DEF Socks
        <4>2. CASE x = Len(socks[i]) + 1
          BY <4>2, <3>3, <2>1, <1>0
        <4> QED BY <4>1, <4>2, <3>2, <3>3
      <3>8. \A x \in 1..Len(socks'[i]) : socks'[i][x] \in Int
        BY <3>3, <1>0 DEF Members
      <3>9. i = tell'[1] /\ ~(i < tell'[1]) /\ Heard(i)'
        BY <3>1, <2>0, <2>1, <1>0, <1>2
      <3>10. /\ socks'[i] \in Seq(Members') /\ Len(socks'[i]) = Before(i, tell'[2]) + 1
             /\ \A x \in 1..Len(socks'[i]) :
                  socks'[i][x] # i /\ (socks'[i][x] < tell'[2] - 1 \/ socks'[i][x] = tell'[2] - 1)
        BY <3>3, <3>4, <3>5, <2>0, <1>2
      <3> QED BY <3>7, <3>9, <3>10, <2>0, <1>2, Zenon DEF Socks
    <2>2. CASE i # tell[1]
      <3>1. socks'[i] = socks[i]
        BY <1>1, <2>2
      <3>2. Heard(i) => i < tell[1]
        BY <2>2 DEF Heard
      <3> QED BY <3>1, <3>2, <2>0, <2>2, <1>1, <1>2 DEF Socks
    <2> QED BY <2>0, <2>1, <2>2
  <1> QED BY <1>0, <1>1, <1>2, <1>3 DEF Progress

LEMMA GreetProgress ==
    ASSUME TypeOK, Progress, Greet
    PROVE  Progress' /\ (\A i \in Nodes : Heard(i) => Heard(i)')
  <1>0. /\ size \in Nat \ {0} /\ size <= N /\ N \in Nat /\ \A i \in Nodes : i \in Int
        /\ tell[1] \in 0..(size - 1) /\ tell[1] \in Nodes /\ tell[2] \in 1..size
    BY Sizing DEF Greet, Progress, Built, Nodes
  <1>1. ~Built /\ tell[3] /\ tell' = Upcoming /\ size' = size /\ socks' = socks /\ Members' = Members
    BY DEF Greet, Proceed, Upcoming, Members
  <1>2. \/ /\ Upcoming[1] = tell[1] /\ Upcoming[3] = FALSE /\ Upcoming[2] \in 1..size /\ Upcoming[2] # tell[1] + 1
           /\ Before(tell[1], Upcoming[2]) = Before(tell[1], tell[2]) + 1
           /\ tell[2] < Upcoming[2]
        \/ /\ Upcoming[1] = tell[1] + 1 /\ Upcoming[2] = 0 /\ Upcoming[3] = FALSE
           /\ size - 1 = Before(tell[1], tell[2]) + 1
    <2>1. tell[2] # 0
      BY <1>0
    <2> QED BY <2>1, <1>1, Follows
  <1>3. ASSUME NEW i \in Nodes PROVE Socks(i)' /\ Heard(i)' = Heard(i)
    <2>0. Socks(i) /\ Heard(i)' = Heard(i)
      BY <1>0, <1>1, <1>2 DEF Heard, Progress
    <2>1. CASE i = tell[1]
      <3>1. Heard(i) /\ Heard(i)'
        BY <1>0, <2>0, <2>1 DEF Heard
      <3>2. /\ socks[i] \in Seq(Members) /\ Len(socks[i]) = Before(i, tell[2]) + 1
            /\ \A x \in 1..Len(socks[i]) :
                 socks[i][x] # i /\ (socks[i][x] < tell[2] - 1 \/ socks[i][x] = tell[2] - 1)
            /\ \A x, y \in 1..Len(socks[i]) : x < y => socks[i][x] < socks[i][y]
        BY <3>1, <2>0, <2>1, <1>0, <1>1 DEF Socks
      <3>3. \A x \in 1..Len(socks[i]) : socks[i][x] \in Int
        BY <3>2, <1>0 DEF Members
      <3>4. CASE Upcoming[1] = tell[1]
        <4>1. /\ i = tell'[1] /\ ~(i < tell'[1]) /\ ~tell'[3]
              /\ Len(socks'[i]) = Before(i, tell'[2])
          BY <3>2, <3>4, <2>1, <1>0, <1>1, <1>2
        <4>2. \A x \in 1..Len(socks'[i]) : socks'[i][x] < tell'[2] - 1
          <5>1. tell'[2] \in Int /\ tell[2] \in Int /\ tell[2] < tell'[2] /\ socks' = socks
            BY <3>4, <1>0, <1>1, <1>2
          <5> QED BY <5>1, <3>2, <3>3
        <4> QED BY <3>1, <3>2, <4>1, <4>2, <1>1, Zenon DEF Socks
      <3>5. CASE Upcoming[1] = tell[1] + 1
        <4>1. i < tell'[1] /\ i # tell'[1] /\ Len(socks'[i]) = size' - 1
          BY <3>2, <3>5, <2>1, <1>0, <1>1, <1>2
        <4> QED BY <3>1, <3>2, <4>1, <1>1, Zenon DEF Socks
      <3> QED BY <3>4, <3>5, <1>2
    <2>2. CASE i # tell[1]
      <3>1. Heard(i) => i < tell[1] /\ i < tell'[1] /\ i # tell'[1]
        BY <2>2, <1>0, <1>1, <1>2 DEF Heard
      <3> QED BY <3>1, <2>0, <1>1 DEF Socks
    <2> QED BY <2>0, <2>1, <2>2
  <1> QED BY <1>0, <1>1, <1>2, <1>3 DEF Progress

-----------------------------------------------------------------------------
(* Sequences and texts                                                     *)

LEMMA ItemsAppend ==
    ASSUME NEW S, NEW s \in Seq(S), NEW e \in S
    PROVE  Items(Append(s, e)) = Items(s) \union {e}
  <1> DEFINE r == Append(s, e)
  <1>1. /\ Len(s) \in Nat /\ Len(r) = Len(s) + 1
        /\ \A x \in 1..Len(s) : r[x] = s[x]
        /\ r[Len(s) + 1] = e
    OBVIOUS
  <1>2. Items(r) = {r[x] : x \in 1..Len(r)} /\ Items(s) = {s[x] : x \in 1..Len(s)}
    BY DEF Items
  <1> HIDE DEF r
  <1>3. ASSUME NEW u \in Items(r) PROVE u \in Items(s) \union {e}
    <2>1. PICK x \in 1..Len(r) : u = r[x]
      BY <1>2, <1>3
    <2> QED BY <1>1, <1>2, <2>1
  <1>4. ASSUME NEW u \in Items(s) PROVE u \in Items(r)
    <2>1. PICK x \in 1..Len(s) : u = s[x]
      BY <1>2, <1>4
    <2>2. x \in 1..Len(r) /\ u = r[x]
      BY <1>1, <2>1
    <2> QED BY <1>2, <2>2
  <1>5. e \in Items(r)
    <2>1. Len(s) + 1 \in 1..Len(r)
      BY <1>1
    <2> QED BY <1>1, <1>2, <2>1
  <1>6. Items(r) = Items(s) \union {e}
    BY <1>3, <1>4, <1>5
  <1> QED BY <1>6 DEF r

LEMMA ItemsRest ==
    ASSUME NEW S, NEW s \in Seq(S), NEW k \in 1..Len(s)
    PROVE  /\ SubSeq(s, k + 1, Len(s)) \in Seq(S)
           /\ Len(SubSeq(s, k + 1, Len(s))) = Len(s) - k
           /\ \A x \in 1..(Len(s) - k) : SubSeq(s, k + 1, Len(s))[x] = s[x + k]
           /\ Items(SubSeq(s, k + 1, Len(s))) \subseteq Items(s)
  <1> DEFINE r == SubSeq(s, k + 1, Len(s))
  <1>1. /\ r \in Seq(S) /\ Len(r) = Len(s) - k
        /\ \A x \in 1..(Len(s) - k) : r[x] = s[x + k]
    BY SubSeqProperties
  <1>2. \A x \in 1..(Len(s) - k) : x + k \in 1..Len(s)
    OBVIOUS
  <1> QED BY <1>1, <1>2 DEF Items

LEMMA ItemsFirst ==
    ASSUME NEW S, NEW s \in Seq(S), NEW k \in 1..Len(s)
    PROVE  /\ SubSeq(s, 1, k) \in Seq(S) /\ SubSeq(s, 1, k) # <<>>
           /\ Head(SubSeq(s, 1, k)) = s[1] /\ s[1] \in Items(s)
  <1>1. SubSeq(s, 1, k) \in Seq(S) /\ Len(SubSeq(s, 1, k)) = k /\ SubSeq(s, 1, k)[1] = s[1]
    BY SubSeqProperties
  <1> QED BY <1>1 DEF Items

\* What recv makes of several texts is one that could have come alone (server_task).
LEMMA MergedText ==
    ASSUME NEW texts \in Seq(Text), texts # <<>>
    PROVE  /\ Merged(texts) \in Text
           /\ Merged(texts).route = Head(texts).route
           /\ Merged(texts).cmd.of = Head(texts).cmd.of
           /\ Merged(texts).cmd.op \in {"make", "del", "refused"}
                => Head(texts).cmd.op \in {"make", "del", "refused"}
  <1> DEFINE first == Head(texts)
  <1>1. first \in Text
    OBVIOUS
  <1>2. CASE Len(texts) = 1
    BY <1>1, <1>2 DEF Merged
  <1>3. CASE Len(texts) # 1
    <2>1. PICK o \in {"refused", "garbled"} :
            /\ Merged(texts) = [first EXCEPT !.cmd.op = o]
            /\ o = "refused" => first.cmd.op \in {"make", "del"}
      BY <1>3 DEF Merged
    <2>2. [first EXCEPT !.cmd.op = o] \in Text
      BY <1>1 DEF Text, Command, Forms
    <2>3. /\ [first EXCEPT !.cmd.op = o].route = first.route
          /\ [first EXCEPT !.cmd.op = o].cmd.of = first.cmd.of
          /\ [first EXCEPT !.cmd.op = o].cmd.op = o
      BY <1>1 DEF Text, Command
    <2> QED BY <2>1, <2>2, <2>3
  <1> QED BY <1>2, <1>3

LEMMA ExecuteType ==
    ASSUME NEW t \in [Keys -> Entry \union {NULL}], NEW cmd \in Command, NEW auth \in Nat
    PROVE  Execute(t, cmd, auth) \in [Keys -> Entry \union {NULL}]
  <1>1. [val |-> cmd.of, r |-> cmd.r, w |-> auth] \in Entry
    BY DEF Command, Entry
  <1>2. Admits(t, cmd, auth) => cmd.op = "make" \/ cmd.op = "del"
    BY DEF Admits
  <1>3. \/ Execute(t, cmd, auth) = t
        \/ Execute(t, cmd, auth)
             = [t EXCEPT ![cmd.key] = [val |-> cmd.of, r |-> cmd.r, w |-> auth]]
        \/ Execute(t, cmd, auth) = [t EXCEPT ![cmd.key] = NULL]
    BY <1>2 DEF Execute
  <1> QED BY <1>1, <1>3

LEMMA RouteEnds ==
    ASSUME TypeOK, NEW t \in Text, Traveled(t)
    PROVE  /\ t.route \in Seq(Nodes) /\ Len(t.route) \in Nat /\ Len(t.route) >= 1
           /\ At(t.route) \in Members /\ At(t.route) \in Nodes /\ t.cmd.of \in Nat
           /\ FromClient(t.route) =>
                t.cmd.of \in 1..Len(calls) /\ calls[t.cmd.of].by \in Clients
           /\ ~FromClient(t.route) =>
                Via(t.route) \in Pairs /\ Via(t.route)[2] = At(t.route)
  <1>1. t.route \in Seq(Nodes) /\ Len(t.route) \in Nat /\ Len(t.route) >= 1 /\ t.cmd.of \in Nat
    BY DEF Text, Command, Traveled
  <1>2. CASE FromClient(t.route)
    <2>1. t.cmd.of \in 1..Len(calls)
      BY <1>2 DEF Traveled, TypeOK
    <2>2. calls[t.cmd.of] \in Issued
      BY <2>1 DEF TypeOK
    <2>3. calls[t.cmd.of].by \in Clients
      BY <2>2 DEF Issued
    <2> QED BY <1>1, <1>2, <2>1, <2>3, Sizing DEF Traveled
  <1>3. CASE ~FromClient(t.route)
    <2>1. Via(t.route) \in MemberPairs /\ Via(t.route)[2] = At(t.route)
      BY <1>3 DEF Traveled, Via, At
    <2>2. MemberPairs \subseteq Pairs /\ \A p \in MemberPairs : p[2] \in Members
      BY Sizing DEF MemberPairs, Pairs
    <2> QED BY <1>1, <1>3, <2>1, <2>2, Sizing
  <1> QED BY <1>2, <1>3

LEMMA AuthType ==
    ASSUME TypeOK, NEW t \in Text, Traveled(t)
    PROVE  AuthOf(t) \in Nat
  BY RouteEnds, ClientsAssumption DEF AuthOf

-----------------------------------------------------------------------------
(* What a step leaves as it was                                            *)

\* Commands are only added to the history, and the configuration stays.
Kept ==
    /\ size' = size
    /\ calls' \in Seq(Issued) /\ Len(calls) <= Len(calls')
    /\ \A n \in 1..Len(calls) : calls'[n] = calls[n]
    /\ \A i \in Nodes : Heard(i) => Heard(i)'

LEMMA TraveledStays ==
    ASSUME TypeOK, Kept
    PROVE  \A t \in Text : Traveled(t) => Traveled(t)'
  <1> SUFFICES ASSUME NEW t \in Text, Traveled(t) PROVE Traveled(t)'
    OBVIOUS
  <1>1. /\ t.cmd.of \in Nat /\ Len(calls) \in Nat /\ Len(calls') \in Nat
        /\ DOMAIN calls = 1..Len(calls) /\ DOMAIN calls' = 1..Len(calls')
        /\ MemberPairs' = MemberPairs
    BY DEF Text, Command, TypeOK, Kept, MemberPairs, Members
  <1> QED BY <1>1 DEF Traveled, Kept

LEMMA SenderStays ==
    ASSUME TypeOK, Kept, NEW s \in sends, Sender(s)
    PROVE  Sender(s)'
  <1>1. s.text \in Text
    BY DEF TypeOK
  <1>2. At(s.text.route) \in Nodes
    BY <1>1, RouteEnds DEF Sender
  <1> QED BY <1>1, <1>2, TraveledStays DEF Sender, Kept

\* It is enough to look at what is new.
LEMMA UnderwayStays ==
    ASSUME TypeOK, Underway, Kept,
           \A t \in work' : t \in work \/ Traveled(t)',
           \A s \in sends' : s \in sends \/ Sender(s)',
           \A p \in Pairs : \A t \in Items(out'[p]) : t \in Items(out[p]) \/ OnWire(t, p)',
           \A l \in logging' : l \in logging \/ Logged(l)',
           \A i \in Nodes : \A l \in Items(done'[i]) :
             l \in Items(done[i]) \/ l.cmd.of <= Len(calls')
    PROVE  Underway'
  <1>0. /\ \A p \in Pairs : out[p] \in Seq(Text) /\ Items(out[p]) \subseteq Text
        /\ \A i \in Nodes : Items(done[i]) \subseteq Line
        /\ work \subseteq Text /\ Len(calls) \in Nat /\ Len(calls') \in Nat
        /\ DOMAIN calls = 1..Len(calls) /\ DOMAIN calls' = 1..Len(calls')
    BY DEF TypeOK, Items, Kept
  <1>1. \A t \in work' : Traveled(t)'
    BY <1>0, TraveledStays DEF Underway
  <1>2. \A s \in sends' : Sender(s)'
    BY SenderStays DEF Underway
  <1>3. \A p \in Pairs : \A t \in Items(out'[p]) : OnWire(t, p)'
    BY <1>0, TraveledStays DEF Underway, OnWire
  <1>4. \A l \in logging' : Logged(l)'
    BY <1>0 DEF Underway, Logged, Kept
  <1>5. \A i \in Nodes : \A l \in Items(done'[i]) : l.cmd.of <= Len(calls')
    <2> SUFFICES ASSUME NEW i \in Nodes, NEW l \in Items(done[i]) PROVE l.cmd.of <= Len(calls')
      OBVIOUS
    <2>1. l.cmd.of \in Nat /\ l.cmd.of <= Len(calls)
      BY <1>0 DEF Underway, Line, Command
    <2> QED BY <2>1, <1>0 DEF Kept
  <1> QED BY <1>1, <1>2, <1>3, <1>4, <1>5 DEF Underway

LEMMA ProgressStays ==
    ASSUME Progress, UNCHANGED <<size, tell, socks>>
    PROVE  Progress' /\ (\A i \in Nodes : Heard(i) => Heard(i)') /\ Members' = Members
  <1>1. Members' = Members /\ \A i \in Nodes : Heard(i)' = Heard(i)
    BY DEF Members, Heard
  <1>2. \A i \in Nodes : Socks(i)'
    BY <1>1 DEF Progress, Socks
  <1> QED BY <1>1, <1>2 DEF Progress

LEMMA KeptCalls ==
    ASSUME TypeOK, UNCHANGED <<size, calls>>, \A i \in Nodes : Heard(i) => Heard(i)'
    PROVE  Kept
  BY DEF TypeOK, Kept

LEMMA EarlyStays ==
    ASSUME TypeOK, Kept
    PROVE  Early \subseteq Early'
  <1>1. /\ DOMAIN calls = 1..Len(calls) /\ DOMAIN calls' = 1..Len(calls')
        /\ Len(calls) \in Nat /\ Len(calls') \in Nat
    BY DEF TypeOK, Kept
  <1>2. ASSUME NEW n \in DOMAIN calls, ~calls[n].safe PROVE n \in Early'
    BY <1>1, <1>2 DEF Kept, Early
  <1> QED BY <1>2 DEF Early

LEMMA MemoryStays ==
    ASSUME TypeOK, Memory, Kept, UNCHANGED <<closed, fault>>
    PROVE  Memory'
  BY EarlyStays DEF Memory

-----------------------------------------------------------------------------
(* Types, the builder, texts under way and memory, step by step            *)

LEMMA SetNumberBase ==
    ASSUME Base, SetNumber
    PROVE  Base' /\ Kept
  <1>0. TypeOK /\ Progress /\ Underway /\ Memory
    BY DEF Base
  <1>1. Progress' /\ (\A i \in Nodes : Heard(i) => Heard(i)')
    BY <1>0, SetNumberProgress
  <1>2. /\ UNCHANGED <<size, quiet, th, calls, mixed, out, work, sends, logging, log, tab, fault, done>>
        /\ tell' = Following(tell) /\ ~Built /\ socks' = [socks EXCEPT ![tell[1]] = <<>>]
        /\ closed' = closed \/ closed' = closed \union {tell[1]}
    BY DEF SetNumber, Proceed
  <1>3. Kept
    BY <1>0, <1>1, <1>2, KeptCalls
  <1>4. tell' \in (0..N) \X (0..N) \X BOOLEAN
    BY <1>0, <1>2, Follows DEF Upcoming
  <1>5. socks' \in [Nodes -> Seq(Nodes) \union {NULL}]
    <2>1. <<>> \in Seq(Nodes) /\ socks \in [Nodes -> Seq(Nodes) \union {NULL}]
      BY <1>0 DEF TypeOK
    <2> QED BY <1>2, <2>1
  <1>6. tell[1] \in Nodes
    BY <1>0, <1>2, Sizing DEF Progress, Built, Nodes
  <1>7. closed' \subseteq Nodes
    BY <1>0, <1>2, <1>6 DEF Memory
  <1>8. TypeOK'
    BY <1>0, <1>2, <1>4, <1>5, <1>7 DEF TypeOK
  <1>9. Underway'
    BY <1>0, <1>2, <1>3, UnderwayStays
  <1>10. Memory'
    BY <1>0, <1>2, <1>3, <1>7, EarlyStays DEF Memory
  <1> QED BY <1>1, <1>3, <1>8, <1>9, <1>10 DEF Base

LEMMA AddReplicaBase ==
    ASSUME Base, AddReplica
    PROVE  Base' /\ Kept
  <1>0. TypeOK /\ Progress /\ Underway /\ Memory
    BY DEF Base
  <1>1. Progress' /\ (\A i \in Nodes : Heard(i) => Heard(i)')
    BY <1>0, AddReplicaProgress
  <1>2. /\ UNCHANGED <<size, quiet, th, calls, mixed, out, work, sends, logging, log, tab, closed,
                       fault, done>>
        /\ tell' = <<tell[1], tell[2], TRUE>> /\ ~Built /\ tell[2] # 0
        /\ socks' = [socks EXCEPT ![tell[1]] = Append(@, tell[2] - 1)]
    BY DEF AddReplica
  <1>3. Kept
    BY <1>0, <1>1, <1>2, KeptCalls
  <1>4. tell' \in (0..N) \X (0..N) \X BOOLEAN
    <2>1. tell' = <<tell[1], tell[2], TRUE>> /\ tell[1] \in 0..N /\ tell[2] \in 0..N
      BY <1>0, <1>2 DEF TypeOK
    <2> QED BY <2>1, Triple
  <1>5. socks' \in [Nodes -> Seq(Nodes) \union {NULL}]
    <2>1. tell[1] \in Nodes /\ tell[2] - 1 \in Nodes /\ Heard(tell[1])
      BY <1>0, <1>2, Sizing DEF Progress, Built, Nodes, Heard
    <2>2. socks[tell[1]] \in Seq(Members)
      BY <1>0, <2>1 DEF Progress, Socks
    <2>3. Append(socks[tell[1]], tell[2] - 1) \in Seq(Nodes)
      BY <1>0, <2>1, <2>2, Sizing
    <2> QED BY <1>0, <1>2, <2>1, <2>3 DEF TypeOK
  <1>6. TypeOK'
    BY <1>0, <1>2, <1>4, <1>5 DEF TypeOK
  <1>7. Underway'
    BY <1>0, <1>2, <1>3, UnderwayStays
  <1> QED BY <1>0, <1>1, <1>2, <1>3, <1>6, <1>7, MemoryStays DEF Base

LEMMA GreetBase ==
    ASSUME Base, Greet
    PROVE  Base' /\ Kept
  <1>0. TypeOK /\ Progress /\ Underway /\ Memory
    BY DEF Base
  <1>1. Progress' /\ (\A i \in Nodes : Heard(i) => Heard(i)')
    BY <1>0, GreetProgress
  <1>2. /\ UNCHANGED <<size, socks, quiet, th, calls, mixed, work, sends, logging, log, tab, fault, done>>
        /\ tell' = Following(tell) /\ ~Built /\ tell[3]
        /\ closed' = closed \/ closed' = closed \union {tell[1]}
    BY DEF Greet, Proceed
  <1>3. Kept
    BY <1>0, <1>1, <1>2, KeptCalls
  <1>4. tell' \in (0..N) \X (0..N) \X BOOLEAN
    BY <1>0, <1>2, Follows DEF Upcoming
  <1>5. /\ tell[1] \in Members /\ tell[2] - 1 \in Members /\ tell[1] # tell[2] - 1
        /\ tell[1] \in Nodes
    BY <1>0, <1>2, Sizing DEF Progress, Built, Nodes, Members
  <1>6. PICK p \in MemberPairs : p = <<tell[1], tell[2] - 1>>
    BY <1>5 DEF MemberPairs
  <1> DEFINE t == [cmd |-> Accept, route |-> p]
  <1>7. p \in Pairs /\ p \in Seq(Nodes) /\ Len(p) = 2 /\ p # <<>>
    BY <1>0, <1>6, Sizing DEF MemberPairs, Pairs
  <1>8. t \in Text
    BY <1>7 DEF Text, Command, Accept, Forms
  <1>9. OnWire(t, p)'
    <2>1. ~FromClient(t.route) /\ Via(t.route) = p
      BY <1>6, <1>7 DEF FromClient, Via
    <2>2. t.cmd.of = 0 /\ t.cmd.op = "replicaaccept"
      BY DEF Accept
    <2>3. Len(calls') \in Nat /\ MemberPairs' = MemberPairs
      BY <1>0, <1>2 DEF TypeOK, MemberPairs, Members
    <2>4. t.route # <<>>
      BY <1>7
    <2> HIDE DEF t
    <2> QED BY <2>1, <2>2, <2>3, <2>4 DEF OnWire, Traveled
  <1>10. out' = [out EXCEPT ![p] = Append(@, t)]
    BY <1>6 DEF Greet
  <1> HIDE DEF t
  <1>11. out \in [Pairs -> Seq(Text)]
    BY <1>0 DEF TypeOK
  <1>12. /\ out' \in [Pairs -> Seq(Text)]
         /\ Items(out'[p]) = Items(out[p]) \union {t}
         /\ \A q \in Pairs : q # p => out'[q] = out[q]
    BY <1>7, <1>8, <1>10, <1>11, ItemsAppend
  <1>13. closed' \subseteq Nodes
    BY <1>0, <1>2, <1>5 DEF Memory
  <1>14. TypeOK'
    BY <1>0, <1>2, <1>4, <1>12, <1>13 DEF TypeOK
  <1>15. Underway'
    <2>1. \A q \in Pairs : \A u \in Items(out'[q]) : u \in Items(out[q]) \/ OnWire(u, q)'
      BY <1>9, <1>12
    <2> QED BY <1>0, <1>2, <1>3, <2>1, UnderwayStays
  <1>16. Memory'
    BY <1>0, <1>2, <1>3, <1>13, EarlyStays DEF Memory
  <1> QED BY <1>1, <1>3, <1>14, <1>15, <1>16 DEF Base

LEMMA CallBase ==
    ASSUME Base, NEW c \in Clients, Call(c)
    PROVE  /\ Base' /\ Kept
           /\ \E t \in Text :
                /\ work' = work \union {t} /\ t.route = <<Home[c]>>
                /\ t.cmd.of = Len(calls) + 1 /\ t.cmd.op \in {"make", "del"}
                /\ calls' = Append(calls, [by |-> c, cmd |-> t.cmd, safe |-> Ready])
  <1>0. TypeOK /\ Progress /\ Underway /\ Memory
    BY DEF Base
  <1>1. /\ UNCHANGED <<size, tell, socks, quiet, out, sends, logging, log, tab, closed, fault, done>>
        /\ th' = [th EXCEPT ![c] = "wait"] /\ mixed' = (mixed \/ ~Ready \/ UnderWay)
    BY DEF Call
  <1>2. PICK m \in Writes[c] :
          LET cmd == [of |-> Len(calls) + 1, op |-> m.op, key |-> m.key, r |-> m.r] IN
          /\ work' = work \union {[cmd |-> cmd, route |-> <<Home[c]>>]}
          /\ calls' = Append(calls, [by |-> c, cmd |-> cmd, safe |-> Ready])
    BY DEF Call
  <1> DEFINE cmd == [of |-> Len(calls) + 1, op |-> m.op, key |-> m.key, r |-> m.r]
             text == [cmd |-> cmd, route |-> <<Home[c]>>]
             call == [by |-> c, cmd |-> cmd, safe |-> Ready]
  <1>3. m \in [op : {"make", "del"}, key : Keys, r : Nat] /\ Home[c] \in Nodes /\ calls \in Seq(Issued)
    BY <1>0, ClientsAssumption DEF TypeOK
  <1>4. cmd \in Command /\ cmd.of = Len(calls) + 1 /\ cmd.op \in {"make", "del"}
    BY <1>3 DEF Command, Forms
  <1> HIDE DEF cmd
  <1>5. PICK t \in Text : t = text /\ t.cmd = cmd /\ t.route = <<Home[c]>>
    <2>1. <<Home[c]>> \in Seq(Nodes)
      BY <1>3
    <2>2. text \in Text /\ text.cmd = cmd /\ text.route = <<Home[c]>>
      BY <1>4, <2>1 DEF Text
    <2> QED BY <2>2
  <1>6. call \in Issued /\ call.by = c
    <2>1. Ready \in BOOLEAN
      BY DEF Ready, Built
    <2> QED BY <1>4, <2>1 DEF Issued
  <1>7. work' = work \union {t} /\ calls' = Append(calls, call)
    BY <1>2, <1>5 DEF cmd
  <1> HIDE DEF call, text
  <1>8. /\ calls' \in Seq(Issued) /\ Len(calls') = Len(calls) + 1 /\ Len(calls) \in Nat
        /\ calls'[Len(calls) + 1] = call /\ \A n \in 1..Len(calls) : calls'[n] = calls[n]
        /\ DOMAIN calls' = 1..(Len(calls) + 1)
    BY <1>3, <1>6, <1>7
  <1>9. Progress' /\ \A i \in Nodes : Heard(i) => Heard(i)'
    BY <1>0, <1>1, ProgressStays
  <1>10. Kept
    BY <1>1, <1>8, <1>9 DEF Kept
  <1>11. TypeOK'
    <2>1. th' \in [Clients -> {"idle", "wait", "gone"}]
      BY <1>0, <1>1 DEF TypeOK
    <2>2. mixed' \in BOOLEAN
      BY <1>0, <1>1 DEF TypeOK, Ready, Built, UnderWay
    <2>3. work' \subseteq Text
      BY <1>0, <1>5, <1>7 DEF TypeOK
    <2> QED BY <1>0, <1>1, <1>8, <2>1, <2>2, <2>3 DEF TypeOK
  <1>12. Traveled(t)'
    <2>1. FromClient(t.route) /\ At(t.route) = Home[c] /\ t.route # <<>>
      BY <1>5 DEF FromClient, At
    <2>2. calls'[t.cmd.of].by = c
      BY <1>4, <1>5, <1>6, <1>8
    <2> QED BY <2>1, <2>2, <1>4, <1>5, <1>8 DEF Traveled
  <1>13. Underway'
    BY <1>0, <1>1, <1>7, <1>10, <1>12, UnderwayStays
  <1>14. Memory'
    BY <1>0, <1>1, <1>10, MemoryStays
  <1>15. calls' = Append(calls, [by |-> c, cmd |-> t.cmd, safe |-> Ready])
    BY <1>5, <1>7 DEF call
  <1> QED BY <1>4, <1>5, <1>7, <1>9, <1>10, <1>11, <1>13, <1>14, <1>15 DEF Base

LEMMA LeaveBase ==
    ASSUME Base, NEW c \in Clients, Leave(c)
    PROVE  Base' /\ Kept
  <1>0. TypeOK /\ Progress /\ Underway /\ Memory
    BY DEF Base
  <1>1. /\ UNCHANGED <<size, tell, socks, quiet, calls, mixed, out, work, sends, logging, log, tab,
                       closed, fault, done>>
        /\ th' = [th EXCEPT ![c] = "gone"]
    BY DEF Leave
  <1>2. Progress' /\ Kept
    BY <1>0, <1>1, ProgressStays, KeptCalls
  <1>3. TypeOK'
    BY <1>0, <1>1 DEF TypeOK
  <1> QED BY <1>0, <1>1, <1>2, <1>3, UnderwayStays, MemoryStays DEF Base

LEMMA ReceiveBase ==
    ASSUME Base, NEW p \in Pairs, Receive(p)
    PROVE  /\ Base' /\ Kept
           /\ UNCHANGED <<size, tell, socks, quiet, calls, sends, done>>
           /\ \E k \in 1..Len(out[p]), t \in Text :
                /\ work' = work \union {t} /\ t.cmd.of = out[p][1].cmd.of
                /\ OnWire(t, p) /\ out[p][1] \in Items(out[p])
                /\ out'[p] = SubSeq(out[p], k + 1, Len(out[p]))
                /\ \A q \in Pairs : q # p => out'[q] = out[q]
  <1>0. TypeOK /\ Progress /\ Underway /\ Memory
    BY DEF Base
  <1>1. UNCHANGED <<size, tell, socks, quiet, th, calls, mixed, sends, logging, log, tab, closed,
                    fault, done>>
    BY DEF Receive
  <1>2. PICK k \in 1..Len(out[p]) :
          /\ work' = work \union {Merged(SubSeq(out[p], 1, k))}
          /\ out' = [out EXCEPT ![p] = SubSeq(@, k + 1, Len(@))]
    BY DEF Receive
  <1>3. out \in [Pairs -> Seq(Text)] /\ out[p] \in Seq(Text)
    BY <1>0 DEF TypeOK
  <1>4. PICK first \in Text : first = out[p][1]
    BY <1>2, <1>3
  <1>5. /\ SubSeq(out[p], 1, k) \in Seq(Text) /\ SubSeq(out[p], 1, k) # <<>>
        /\ Head(SubSeq(out[p], 1, k)) = first /\ first \in Items(out[p])
    BY <1>2, <1>3, <1>4, ItemsFirst
  <1>6. PICK t \in Text :
          /\ t = Merged(SubSeq(out[p], 1, k)) /\ t.route = first.route /\ t.cmd.of = first.cmd.of
          /\ t.cmd.op \in {"make", "del", "refused"} => first.cmd.op \in {"make", "del", "refused"}
    BY <1>5, MergedText
  <1>7. OnWire(first, p)
    BY <1>0, <1>5 DEF Underway
  <1>8. OnWire(t, p)
    BY <1>6, <1>7 DEF OnWire, Traveled
  <1>9. /\ out' \in [Pairs -> Seq(Text)]
        /\ out'[p] = SubSeq(out[p], k + 1, Len(out[p])) /\ Items(out'[p]) \subseteq Items(out[p])
        /\ \A q \in Pairs : q # p => out'[q] = out[q]
    <2>1. /\ SubSeq(out[p], k + 1, Len(out[p])) \in Seq(Text)
          /\ Items(SubSeq(out[p], k + 1, Len(out[p]))) \subseteq Items(out[p])
      BY <1>2, <1>3, ItemsRest
    <2> QED BY <1>2, <1>3, <2>1
  <1>10. Progress' /\ Kept
    BY <1>0, <1>1, ProgressStays, KeptCalls
  <1>11. TypeOK'
    <2>1. work' \subseteq Text
      BY <1>0, <1>2, <1>6 DEF TypeOK
    <2> QED BY <1>0, <1>1, <1>9, <2>1 DEF TypeOK
  <1>12. Underway'
    <2>1. Traveled(t)'
      BY <1>0, <1>8, <1>10, TraveledStays DEF OnWire
    <2>2. \A q \in Pairs : Items(out'[q]) \subseteq Items(out[q])
      BY <1>9
    <2>3. \A u \in work' : u \in work \/ Traveled(u)'
      BY <1>2, <1>6, <2>1
    <2> QED BY <1>0, <1>1, <1>10, <2>2, <2>3, UnderwayStays
  <1>13. Memory'
    BY <1>0, <1>1, <1>10, MemoryStays
  <1> QED BY <1>1, <1>2, <1>4, <1>5, <1>6, <1>8, <1>9, <1>10, <1>11, <1>12, <1>13 DEF Base

LEMMA ObeyBase ==
    ASSUME Base, NEW t \in work, Obey(t)
    PROVE  Base' /\ Kept
  <1>0. TypeOK /\ Progress /\ Underway /\ Memory
    BY DEF Base
  <1>1. /\ UNCHANGED <<size, tell, socks, th, calls, mixed, out, sends, logging, log, tab, closed,
                       fault, done>>
        /\ quiet' = quiet \union {Via(t.route)} /\ work' = work \ {t}
        /\ t.cmd.op = "replicaaccept"
    BY DEF Obey
  <1>2. Progress' /\ Kept
    BY <1>0, <1>1, ProgressStays, KeptCalls
  <1>3. Via(t.route) \in Pairs
    <2>1. Traveled(t) /\ t \in Text
      BY <1>0 DEF Underway, TypeOK
    <2>2. ~FromClient(t.route)
      BY <1>1, <2>1 DEF Traveled
    <2> QED BY <1>0, <2>1, <2>2, RouteEnds
  <1>4. TypeOK'
    BY <1>0, <1>1, <1>3 DEF TypeOK
  <1>5. Underway'
    BY <1>0, <1>1, <1>2, UnderwayStays
  <1> QED BY <1>0, <1>1, <1>2, <1>4, <1>5, MemoryStays DEF Base

\* Everything that a thread leaves behind when it has executed its text.
LEMMA ServeBase ==
    ASSUME Base, NEW t \in work, Serve(t)
    PROVE  /\ Base' /\ Kept
           /\ UNCHANGED <<size, tell, socks, quiet, calls, out, log>>
           /\ t \in Text /\ Traveled(t) /\ work' = work \ {t}
           /\ \E line \in Line :
                /\ line.cmd.of = t.cmd.of
                /\ \/ done' = [done EXCEPT ![At(t.route)] = Append(@, line)]
                      /\ sends' = sends \union SendersOf(t)
                   \/ UNCHANGED <<done, sends>>
  <1>0. TypeOK /\ Progress /\ Underway /\ Memory
    BY DEF Base
  <1>1. t \in Text /\ Traveled(t)
    BY <1>0 DEF TypeOK, Underway
  <1> DEFINE i == At(t.route)
             line == [cmd |-> t.cmd, auth |-> AuthOf(t)]
  <1>2. i \in Nodes /\ AuthOf(t) \in Nat /\ t.cmd \in Command /\ t.route \in Seq(Nodes)
    BY <1>0, <1>1, RouteEnds, AuthType DEF Text
  <1>3. /\ UNCHANGED <<size, tell, socks, quiet, calls, mixed, out, log, closed, fault>>
        /\ t.cmd.op # "replicaaccept" /\ work' = work \ {t}
        /\ tab' = [tab EXCEPT ![i] = Execute(@, t.cmd, AuthOf(t))]
        /\ th' = IF FromClient(t.route) THEN [th EXCEPT ![calls[t.cmd.of].by] = "idle"] ELSE th
        /\ \/ /\ done' = [done EXCEPT ![i] = Append(@, line)] /\ t.cmd.op # "garbled"
              /\ logging' = logging \union {[line |-> line, route |-> t.route, nth |-> Len(done[i]) + 1]}
              /\ sends' = sends \union SendersOf(t)
           \/ UNCHANGED <<done, logging, sends>>
    BY DEF Serve, IsWrite
  <1>4. PICK l \in Line : l = line /\ l.cmd.of = t.cmd.of
    <2>1. line \in Line /\ line.cmd = t.cmd
      BY <1>2 DEF Line
    <2> QED BY <2>1
  <1>5. PICK entry : entry = [line |-> l, route |-> t.route, nth |-> Len(done[i]) + 1]
    OBVIOUS
  <1>6. Progress' /\ Kept
    BY <1>0, <1>3, ProgressStays, KeptCalls
  <1>7. ASSUME NEW s \in SendersOf(t)
        PROVE  /\ s \in [text : Text, x : 1..(N - 1)] /\ s.text = t /\ s.x \in 1..(size - 1)
               /\ socks[i] # NULL
    <2>1. PICK x \in 1..(size - 1) : s = [text |-> t, x |-> x] /\ SendsOn(t.route)
      BY DEF SendersOf
    <2>2. x \in 1..(N - 1)
      BY <1>0, Sizing
    <2> QED BY <1>1, <2>1, <2>2 DEF SendsOn
  <1>8. /\ tab' \in [Nodes -> [Keys -> Entry \union {NULL}]]
        /\ th' \in [Clients -> {"idle", "wait", "gone"}]
    <2>1. Execute(tab[i], t.cmd, AuthOf(t)) \in [Keys -> Entry \union {NULL}]
      BY <1>0, <1>2, ExecuteType DEF TypeOK
    <2>2. tab' \in [Nodes -> [Keys -> Entry \union {NULL}]]
      BY <1>0, <1>2, <1>3, <2>1 DEF TypeOK
    <2>3. th' \in [Clients -> {"idle", "wait", "gone"}]
      BY <1>0, <1>3 DEF TypeOK
    <2> QED BY <2>2, <2>3
  <1> HIDE DEF i, line
  <1>9. /\ done' \in [Nodes -> Seq(Line)]
        /\ \A j \in Nodes : \A x \in Items(done'[j]) : x \in Items(done[j]) \/ x = l
    <2>1. done \in [Nodes -> Seq(Line)] /\ Items(Append(done[i], l)) = Items(done[i]) \union {l}
      BY <1>0, <1>2, ItemsAppend DEF TypeOK
    <2>2. CASE done' = [done EXCEPT ![i] = Append(@, l)]
      <3>1. done' \in [Nodes -> Seq(Line)] /\ done'[i] = Append(done[i], l)
        BY <1>2, <2>1, <2>2
      <3>2. \A j \in Nodes : j # i => done'[j] = done[j]
        BY <2>1, <2>2
      <3> QED BY <2>1, <3>1, <3>2
    <2> QED BY <2>1, <2>2, <1>3, <1>4
  <1>10. /\ logging' \subseteq [line : Line, route : Seq(Nodes), nth : Nat]
         /\ \A x \in logging' : x \in logging \/ x = entry
    <2>1. entry \in [line : Line, route : Seq(Nodes), nth : Nat]
      BY <1>0, <1>2, <1>5 DEF TypeOK
    <2> QED BY <1>0, <1>3, <1>4, <1>5, <2>1 DEF TypeOK
  <1>11. sends' \subseteq [text : Text, x : 1..(N - 1)]
    BY <1>0, <1>3, <1>7 DEF TypeOK
  <1>12. TypeOK'
    BY <1>0, <1>3, <1>8, <1>9, <1>10, <1>11 DEF TypeOK
  <1>13. Underway'
    <2>1. Logged(entry)'
      BY <1>1, <1>2, <1>3, <1>4, <1>5 DEF Logged, Traveled, i
    <2>2. ASSUME NEW s \in sends', s \notin sends PROVE Sender(s)'
      <3>1. s \in SendersOf(t) /\ t.cmd.op # "garbled"
        BY <1>3, <2>2
      <3>2. s.text = t /\ s.x <= size - 1 /\ Heard(i)
        BY <1>0, <1>2, <1>7, <3>1, Sizing DEF Progress, Socks
      <3>3. t.cmd.of >= 1
        BY <1>1, <1>2, <1>3, <3>1 DEF Traveled, Command, Forms
      <3>4. Traveled(t)'
        BY <1>0, <1>1, <1>6, TraveledStays
      <3> QED BY <1>2, <1>3, <1>6, <3>2, <3>3, <3>4 DEF Sender, Kept, i
    <2>3. l.cmd.of <= Len(calls')
      BY <1>1, <1>3, <1>4 DEF Traveled
    <2> QED BY <1>0, <1>3, <1>6, <1>9, <1>10, <2>1, <2>2, <2>3, UnderwayStays
  <1>14. Memory'
    BY <1>0, <1>3, <1>6, MemoryStays
  <1>15. \/ done' = [done EXCEPT ![At(t.route)] = Append(@, l)] /\ sends' = sends \union SendersOf(t)
         \/ UNCHANGED <<done, sends>>
    BY <1>3, <1>4 DEF i
  <1> QED BY <1>1, <1>3, <1>4, <1>6, <1>12, <1>13, <1>14, <1>15 DEF Base

\* A thread that sends has a socket, unless its write came early (auto_send_each).
LEMMA SendBase ==
    ASSUME IInv, NEW s \in sends, Send(s)
    PROVE  /\ Base' /\ Kept
           /\ UNCHANGED <<size, tell, socks, quiet, calls, work, done>>
           /\ s.text \in Text /\ s.text.cmd.of \in 1..Len(calls)
           /\ At(s.text.route) \in Nodes /\ sends' = sends \ {s}
           /\ \/ UNCHANGED out /\ s.x > Len(socks[At(s.text.route)])
              \/ \E p \in Pairs, t \in Text :
                   /\ p[1] = At(s.text.route) /\ p[2] = socks[p[1]][s.x]
                   /\ t.cmd = s.text.cmd
                   /\ out' = [out EXCEPT ![p] = Append(@, t)]
  <1>0. TypeOK /\ Progress /\ Underway /\ Memory
    BY DEF IInv, Base
  <1> DEFINE i == At(s.text.route)
             n == s.text.cmd.of
  <1>1. /\ UNCHANGED <<size, tell, socks, quiet, th, calls, mixed, work, logging, log, tab, closed, done>>
        /\ sends' = sends \ {s}
    BY DEF Send
  <1>2. s.text \in Text /\ s.x \in 1..(N - 1) /\ Sender(s)
    BY <1>0 DEF TypeOK, Underway
  <1>3. i \in Members /\ i \in Nodes /\ n \in 1..Len(calls) /\ Heard(i) /\ s.x \in 1..(size - 1)
    <2>1. Traveled(s.text) /\ n >= 1 /\ Heard(i) /\ s.x <= size - 1
      BY <1>2 DEF Sender
    <2>2. n \in Nat /\ n <= Len(calls) /\ i \in Members /\ i \in Nodes
      BY <1>0, <1>2, <2>1, RouteEnds DEF Traveled
    <2> QED BY <1>0, <1>2, <2>1, <2>2, Sizing DEF TypeOK
  <1>4. /\ socks[i] \in Seq(Members) /\ \A x \in 1..Len(socks[i]) : socks[i][x] # i
        /\ Len(socks[i]) \in Nat /\ s.x \in Nat /\ s.x >= 1
    BY <1>0, <1>3, Sizing DEF Progress, Socks
  <1>5. Progress' /\ Kept
    BY <1>0, <1>1, ProgressStays, KeptCalls
  <1>6. CASE s.x <= Len(socks[i])
    <2>0. s.x \in 1..Len(socks[i]) /\ socks[i][s.x] \in Members /\ socks[i][s.x] # i
      BY <1>4, <1>6
    <2>1. PICK p \in MemberPairs : p = <<i, socks[i][s.x]>>
      BY <1>3, <2>0 DEF MemberPairs
    <2>2. p \in Pairs /\ p[1] = i /\ p[2] = socks[i][s.x] /\ p[2] \in Nodes
      BY <1>0, <2>1, Sizing DEF MemberPairs, Pairs
    <2>3. PICK t : t = [s.text EXCEPT !.route = Append(@, p[2])]
      OBVIOUS
    <2>4. /\ t \in Text /\ t.cmd = s.text.cmd /\ t.route = Append(s.text.route, p[2])
          /\ s.text.route \in Seq(Nodes) /\ s.text.route # <<>>
      <3>1. s.text.route \in Seq(Nodes) /\ s.text.route # <<>>
        BY <1>2 DEF Text, Sender, Traveled
      <3>2. Append(s.text.route, p[2]) \in Seq(Nodes)
        BY <2>2, <3>1
      <3> QED BY <1>2, <2>3, <3>1, <3>2 DEF Text
    <2>5. out' = [out EXCEPT ![p] = Append(@, t)] /\ UNCHANGED fault
      <3>1. ~(s.x > Len(socks[i]))
        BY <1>4, <1>6
      <3> QED BY <2>1, <2>2, <2>3, <3>1 DEF Send
    <2>6. OnWire(t, p)
      <3>1. /\ Len(t.route) = Len(s.text.route) + 1 /\ Len(s.text.route) \in Nat
            /\ Len(s.text.route) >= 1 /\ t.route # <<>>
            /\ t.route[Len(t.route)] = p[2]
            /\ t.route[Len(t.route) - 1] = s.text.route[Len(s.text.route)]
        BY <2>2, <2>4
      <3>2. ~FromClient(t.route)
        BY <3>1 DEF FromClient
      <3>3. Via(t.route) = p
        BY <2>1, <2>2, <3>1 DEF Via, At
      <3> QED BY <1>2, <2>1, <2>4, <3>1, <3>2, <3>3 DEF OnWire, Traveled, Sender
    <2>7. /\ out' \in [Pairs -> Seq(Text)] /\ Items(out'[p]) = Items(out[p]) \union {t}
          /\ \A q \in Pairs : q # p => out'[q] = out[q]
      <3>1. out \in [Pairs -> Seq(Text)]
        BY <1>0 DEF TypeOK
      <3> QED BY <2>2, <2>4, <2>5, <3>1, ItemsAppend
    <2>8. TypeOK'
      BY <1>0, <1>1, <2>5, <2>7 DEF TypeOK
    <2>9. Underway'
      <3>1. OnWire(t, p)'
        BY <1>0, <1>5, <2>4, <2>6, TraveledStays DEF OnWire
      <3>2. \A q \in Pairs : \A u \in Items(out'[q]) : u \in Items(out[q]) \/ OnWire(u, q)'
        BY <2>7, <3>1
      <3> QED BY <1>0, <1>1, <1>5, <3>2, UnderwayStays
    <2>10. Memory'
      BY <1>0, <1>1, <1>5, <2>5, MemoryStays
    <2> QED BY <1>1, <1>2, <1>3, <1>5, <2>2, <2>4, <2>5, <2>8, <2>9, <2>10 DEF Base
  <1>7. CASE s.x > Len(socks[i])
    <2>1. fault' = "socket" /\ UNCHANGED out
      <3>1. ~(s.x <= Len(socks[i]))
        BY <1>4, <1>7
      <3> QED BY <3>1 DEF Send
    <2>2. n \in Early
      <3>1. SUFFICES ASSUME calls[n].safe PROVE FALSE
        BY <1>3 DEF Early
      <3>2. tell[1] = size /\ i < tell[1]
        BY <1>0, <1>3, <3>1, Sizing DEF IInv, Ready, Built, Members
      <3>3. Len(socks[i]) = size - 1
        BY <1>0, <1>3, <3>2 DEF Progress, Socks
      <3> QED BY <1>0, <1>3, <1>7, <3>3, Sizing
    <2>3. Memory'
      BY <1>0, <1>1, <1>5, <2>1, <2>2, EarlyStays DEF Memory
    <2>4. TypeOK'
      BY <1>0, <1>1, <2>1 DEF TypeOK
    <2>5. Underway'
      BY <1>0, <1>1, <1>5, <2>1, UnderwayStays
    <2>6. UNCHANGED out /\ s.x > Len(socks[At(s.text.route)])
      BY <1>7, <2>1
    <2> QED BY <1>1, <1>2, <1>3, <1>5, <2>3, <2>4, <2>5, <2>6 DEF Base
  <1> QED BY <1>0, <1>2, <1>3, <1>4, <1>6, <1>7

LEMMA LogAppendBase ==
    ASSUME Base, NEW l \in logging, LogAppend(l)
    PROVE  /\ Base' /\ Kept
           /\ UNCHANGED <<size, tell, socks, quiet, calls, out, work, sends, done>>
  <1>0. TypeOK /\ Progress /\ Underway /\ Memory
    BY DEF Base
  <1>1. /\ UNCHANGED <<size, tell, socks, quiet, th, calls, mixed, out, work, sends, tab, closed, done>>
        /\ logging' = logging \ {l}
    BY DEF LogAppend
  <1>2. l \in [line : Line, route : Seq(Nodes), nth : Nat] /\ Logged(l)
    BY <1>0 DEF TypeOK, Underway
  <1>3. ~(FromClient(l.route) /\ calls[l.line.cmd.of].by \in closed)
    <2>1. SUFFICES ASSUME FromClient(l.route) PROVE calls[l.line.cmd.of].by \notin closed
      OBVIOUS
    <2>2. l.line.cmd.of \in DOMAIN calls
      BY <1>2, <2>1 DEF Logged
    <2>3. calls[l.line.cmd.of] \in Issued
      BY <1>0, <2>2 DEF TypeOK
    <2>4. calls[l.line.cmd.of].by \in Clients
      BY <2>3 DEF Issued
    <2> QED BY <1>0, <2>4, ClientsAssumption DEF Memory
  <1>4. log' = [log EXCEPT ![At(l.route)] = Append(@, l.line)] /\ UNCHANGED fault
    BY <1>3 DEF LogAppend
  <1>5. Progress' /\ Kept
    BY <1>0, <1>1, ProgressStays, KeptCalls
  <1>6. log' \in [Nodes -> Seq(Line)]
    <2>1. log \in [Nodes -> Seq(Line)] /\ At(l.route) \in Nodes /\ l.line \in Line
      BY <1>0, <1>2 DEF TypeOK, Logged
    <2> QED BY <1>4, <2>1
  <1>7. TypeOK'
    BY <1>0, <1>1, <1>4, <1>6 DEF TypeOK
  <1>8. Underway'
    BY <1>0, <1>1, <1>5, UnderwayStays
  <1> QED BY <1>0, <1>1, <1>4, <1>5, <1>7, <1>8, MemoryStays DEF Base

-----------------------------------------------------------------------------
(* Traces                                                                  *)

\* Traces may disappear.
Below(A, B) == (AtMostOne(B) => AtMostOne(A)) /\ (B = {} => A = {})

LEMMA SubsetBelow ==
    ASSUME NEW A, NEW B, A \subseteq B
    PROVE  Below(A, B)
  BY DEF Below, AtMostOne

LEMMA OneOfBelow ==
    ASSUME NEW A, NEW B, NEW C, NEW D, NEW a, NEW b, NEW c, NEW d, OneOf(a, b, c, d),
           Below(A, a), Below(B, b), Below(C, c), Below(D, d)
    PROVE  OneOf(A, B, C, D)
  BY DEF Below, OneOf

LEMMA PositionsRest ==
    ASSUME NEW S, NEW s \in Seq(S), NEW k \in 1..Len(s), NEW n
    PROVE  /\ Below(Positions(SubSeq(s, k + 1, Len(s)), n), Positions(s, n))
           /\ s[1].cmd.of = n => /\ 1 \in Positions(s, n)
                                 /\ AtMostOne(Positions(s, n))
                                      => Positions(SubSeq(s, k + 1, Len(s)), n) = {}
  <1> DEFINE r == SubSeq(s, k + 1, Len(s))
  <1>1. Len(r) = Len(s) - k /\ \A x \in 1..(Len(s) - k) : r[x] = s[x + k]
    BY ItemsRest
  <1> HIDE DEF r
  <1>2. \A x \in Positions(r, n) : x + k \in Positions(s, n) /\ x \in Nat /\ x >= 1
    BY <1>1 DEF Positions
  <1>3. AtMostOne(Positions(s, n)) => AtMostOne(Positions(r, n))
    BY <1>2 DEF AtMostOne
  <1>4. s[1].cmd.of = n => 1 \in Positions(s, n)
    BY DEF Positions
  <1>5. ASSUME s[1].cmd.of = n, AtMostOne(Positions(s, n)), NEW x \in Positions(r, n) PROVE FALSE
    BY <1>2, <1>4, <1>5 DEF AtMostOne
  <1> QED BY <1>2, <1>3, <1>4, <1>5 DEF Below, r

\* What is known of a write that was sent when all replicas had accepted.
LEMMA SafeFacts ==
    ASSUME IInv, NEW n \in 1..Len(calls), calls[n].safe
    PROVE  /\ Ready /\ Built /\ Single(n) /\ Base /\ TypeOK
           /\ From(n) \in Members /\ From(n) \in Nodes
           /\ socks[From(n)] \in Seq(Members) /\ Len(socks[From(n)]) = size - 1
           /\ \A x \in 1..(size - 1) : socks[From(n)][x] # From(n)
           /\ \A x, y \in 1..(size - 1) : socks[From(n)][x] = socks[From(n)][y] => x = y
  <1>1. TypeOK /\ Progress /\ Base /\ n \in DOMAIN calls
    BY DEF IInv, Base, TypeOK
  <1>2. Ready /\ Single(n)
    BY <1>1 DEF IInv
  <1>3. From(n) \in Members /\ From(n) \in Nodes
    <2>1. calls[n] \in Issued
      BY <1>1 DEF TypeOK
    <2>2. calls[n].by \in Clients
      BY <2>1 DEF Issued
    <2> QED BY <1>1, <2>2, Sizing DEF From
  <1> DEFINE h == From(n)
  <1>4. Heard(h) /\ h < tell[1]
    BY <1>1, <1>2, <1>3, Sizing DEF Ready, Built, Members, Heard
  <1>5. /\ socks[h] \in Seq(Members) /\ Len(socks[h]) = size - 1
        /\ \A x \in 1..(size - 1) : socks[h][x] # h
        /\ \A x, y \in 1..(size - 1) : x < y => socks[h][x] < socks[h][y]
    BY <1>1, <1>3, <1>4 DEF Progress, Socks
  <1>6. \A x \in 1..(size - 1) : socks[h][x] \in Int
    BY <1>1, <1>5, Sizing
  <1>7. ASSUME NEW x \in 1..(size - 1), NEW y \in 1..(size - 1), socks[h][x] = socks[h][y] PROVE x = y
    <2>1. ~(x < y) /\ ~(y < x)
      BY <1>5, <1>6, <1>7
    <2> QED BY <1>1, <2>1, Sizing
  <1> QED BY <1>1, <1>2, <1>3, <1>5, <1>7 DEF Ready

LEMMA ReadyStays ==
    ASSUME Ready, UNCHANGED <<size, tell>>, quiet \subseteq quiet'
    PROVE  Ready'
  BY DEF Ready, Built, Members

\* The stream from the server of n to server j.
LEMMA FliesIs ==
    ASSUME NEW n \in 1..Len(calls), From(n) \in Nodes, NEW p \in Pairs, p[1] = From(n)
    PROVE  FliesTo(n, p[2]) = Positions(out[p], n) /\ p = <<From(n), p[2]>>
  BY DEF Pairs, FliesTo

\* The step adds no trace of n.
LEMMA SingleStays ==
    ASSUME TypeOK, Kept, NEW n \in 1..Len(calls), Single(n), From(n) \in Nodes, UNCHANGED socks,
           \A s \in sends' : s.text.cmd.of = n => s \in sends,
           \A t \in work' : t.cmd.of = n => t \in work,
           \A p \in Pairs : /\ Below(Positions(out'[p], n), Positions(out[p], n))
                            /\ \A t \in Items(out'[p]) : t.cmd.of = n => t \in Items(out[p]),
           \A j \in Nodes : Positions(done'[j], n) = Positions(done[j], n)
    PROVE  Single(n)'
  <1>1. From(n)' = From(n)
    BY DEF From, Kept
  <1>2. ASSUME NEW j \in Nodes
        PROVE  /\ SendsTo(n, j)' \subseteq SendsTo(n, j) /\ WorksAt(n, j)' \subseteq WorksAt(n, j)
               /\ DoneAt(n, j)' = DoneAt(n, j) /\ Below(FliesTo(n, j)', FliesTo(n, j))
    <2>1. SendsTo(n, j)' \subseteq SendsTo(n, j) /\ WorksAt(n, j)' \subseteq WorksAt(n, j)
      BY <1>1 DEF SendsTo, WorksAt
    <2>2. CASE j = From(n)
      BY <1>1, <2>1, <2>2, SubsetBelow DEF FliesTo, DoneAt
    <2>3. CASE j # From(n)
      <3>1. PICK p \in Pairs : p = <<From(n), j>>
        BY <2>3 DEF Pairs
      <3>2. FliesTo(n, j)' = Positions(out'[p], n) /\ FliesTo(n, j) = Positions(out[p], n)
        BY <1>1, <2>3, <3>1 DEF FliesTo
      <3> QED BY <2>1, <3>2 DEF DoneAt
    <2> QED BY <2>2, <2>3
  <1>3. ASSUME NEW j \in Nodes PROVE Once(n, j)'
    <2>1. Once(n, j)
      BY DEF Single
    <2> QED BY <1>2, <2>1, OneOfBelow, SubsetBelow DEF Once
  <1>4. Starts(n)'
    <2>1. Starts(n)
      BY DEF Single
    <2>2. Waits(n)' => Waits(n)
      BY DEF Waits
    <2>3. Waits(n)' =>
            \A j \in Nodes : /\ SendsTo(n, j)' = {} /\ FliesTo(n, j)' = {} /\ DoneAt(n, j)' = {}
                             /\ \A t \in WorksAt(n, j)' : FromClient(t.route)
      BY <1>2, <2>1, <2>2 DEF Starts, Below
    <2> QED BY <1>1, <2>1, <2>3 DEF Starts
  <1> QED BY <1>3, <1>4 DEF Single

-----------------------------------------------------------------------------
(* At most one trace, step by step                                         *)

LEMMA NothingNew ==
    ASSUME IInv, NEW n \in 1..Len(calls), calls[n].safe, Kept,
           UNCHANGED <<socks, out, done>>, sends' \subseteq sends, work' \subseteq work
    PROVE  Single(n)'
  <1>1. \A p \in Pairs : Below(Positions(out'[p], n), Positions(out[p], n))
    BY SubsetBelow
  <1> QED BY <1>1, SafeFacts, SingleStays

\* A write that was sent before keeps to what it had ...
LEMMA CallSingle ==
    ASSUME IInv, NEW c \in Clients, Call(c), NEW n \in 1..Len(calls), calls[n].safe
    PROVE  Single(n)'
  <1>1. Kept
    BY CallBase DEF IInv
  <1>2. PICK t \in Text : work' = work \union {t} /\ t.cmd.of = Len(calls) + 1
    BY CallBase DEF IInv
  <1>3. UNCHANGED <<socks, out, done, sends>>
    BY DEF Call
  <1>4. Len(calls) \in Nat
    BY SafeFacts DEF TypeOK
  <1>5. \A u \in work' : u.cmd.of = n => u \in work
    BY <1>2, <1>4
  <1>6. \A p \in Pairs : Below(Positions(out'[p], n), Positions(out[p], n))
    BY <1>3, SubsetBelow
  <1> QED BY <1>1, <1>3, <1>5, <1>6, SafeFacts, SingleStays

\* ... and a new one has the thread that is to execute it.
LEMMA CallNew ==
    ASSUME IInv, NEW c \in Clients, Call(c), NEW n, n = Len(calls) + 1
    PROVE  Single(n)'
  <1>1. Base /\ TypeOK /\ Progress /\ Underway
    BY DEF IInv, Base
  <1>2. PICK t \in Text :
          /\ work' = work \union {t} /\ t.cmd.of = n /\ t.route = <<Home[c]>>
          /\ calls' = Append(calls, [by |-> c, cmd |-> t.cmd, safe |-> Ready])
    BY <1>1, CallBase
  <1>3. UNCHANGED <<socks, out, done, sends>>
    BY DEF Call
  <1>4. /\ Len(calls) \in Nat /\ calls \in Seq(Issued)
        /\ From(n)' = Home[c] /\ FromClient(t.route) /\ At(t.route) = Home[c]
    <2>1. calls \in Seq(Issued)
      BY <1>1 DEF TypeOK
    <2>2. calls'[n].by = c
      BY <1>2, <2>1
    <2>3. FromClient(t.route) /\ At(t.route) = Home[c]
      BY <1>2 DEF FromClient, At
    <2> QED BY <2>1, <2>2, <2>3 DEF From
  <1>5. \A u \in work : u.cmd.of # n
    BY <1>1, <1>4 DEF Underway, Traveled
  <1>6. \A s \in sends : s.text.cmd.of # n
    BY <1>1, <1>4 DEF Underway, Sender, Traveled
  <1>7. \A p \in Pairs : Positions(out[p], n) = {} /\ \A u \in Items(out[p]) : u.cmd.of # n
    <2> SUFFICES ASSUME NEW p \in Pairs
                 PROVE  Positions(out[p], n) = {} /\ \A u \in Items(out[p]) : u.cmd.of # n
      OBVIOUS
    <2>1. \A u \in Items(out[p]) : u.cmd.of # n
      BY <1>1, <1>4 DEF Underway, OnWire, Traveled
    <2> QED BY <2>1 DEF Positions, Items
  <1>8. \A j \in Nodes : Positions(done[j], n) = {}
    <2> SUFFICES ASSUME NEW j \in Nodes PROVE Positions(done[j], n) = {}
      OBVIOUS
    <2>1. \A l \in Items(done[j]) : l.cmd.of # n
      BY <1>1, <1>4 DEF Underway
    <2> QED BY <2>1 DEF Positions, Items
  <1>9. ASSUME NEW j \in Nodes
        PROVE  /\ SendsTo(n, j)' = {} /\ FliesTo(n, j)' = {} /\ DoneAt(n, j)' = {}
               /\ WorksAt(n, j)' \subseteq {t}
    <2>1. SendsTo(n, j)' = {} /\ WorksAt(n, j)' \subseteq {t} /\ DoneAt(n, j)' = {}
      BY <1>2, <1>3, <1>5, <1>6, <1>8 DEF SendsTo, WorksAt, DoneAt
    <2>2. CASE j = Home[c]
      BY <1>4, <2>1, <2>2 DEF FliesTo
    <2>3. CASE j # Home[c]
      <3>1. PICK p \in Pairs : p = <<Home[c], j>>
        BY <2>3, ClientsAssumption DEF Pairs
      <3>2. FliesTo(n, j)' = Positions(out'[p], n)
        BY <1>4, <2>3, <3>1 DEF FliesTo
      <3> QED BY <1>3, <1>7, <2>1, <3>2
    <2> QED BY <2>2, <2>3
  <1>10. \A j \in Nodes : Once(n, j)'
    BY <1>9 DEF Once, OneOf, AtMostOne
  <1>11. Starts(n)'
    <2>1. \A s \in sends' : s.text.cmd.of = n => At(s.text.route) = From(n)'
      BY <1>3, <1>6
    <2>2. \A p \in Pairs : \A u \in Items(out'[p]) : u.cmd.of = n => p[1] = From(n)'
      BY <1>3, <1>7
    <2> QED BY <2>1, <2>2, <1>4, <1>9 DEF Starts
  <1> QED BY <1>10, <1>11 DEF Single

\* From the stream to the thread (server_task).
LEMMA ReceiveSingle ==
    ASSUME IInv, NEW p \in Pairs, Receive(p), NEW n \in 1..Len(calls), calls[n].safe
    PROVE  Single(n)'
  <1> DEFINE h == From(n)
  <1>0. TypeOK /\ Single(n) /\ h \in Nodes /\ Base
    BY SafeFacts
  <1>1. Kept /\ UNCHANGED <<size, tell, socks, quiet, calls, sends, done>>
    BY <1>0, ReceiveBase
  <1>2. PICK k \in 1..Len(out[p]), t \in Text :
          /\ work' = work \union {t} /\ t.cmd.of = out[p][1].cmd.of
          /\ OnWire(t, p) /\ out[p][1] \in Items(out[p])
          /\ out'[p] = SubSeq(out[p], k + 1, Len(out[p]))
          /\ \A q \in Pairs : q # p => out'[q] = out[q]
    BY <1>0, ReceiveBase
  <1>3. out[p] \in Seq(Text)
    BY <1>0 DEF TypeOK
  <1>4. /\ Below(Positions(out'[p], n), Positions(out[p], n))
        /\ Items(out'[p]) \subseteq Items(out[p])
        /\ t.cmd.of = n => /\ 1 \in Positions(out[p], n)
                           /\ AtMostOne(Positions(out[p], n)) => Positions(out'[p], n) = {}
    <2> DEFINE rest == SubSeq(out[p], k + 1, Len(out[p]))
    <2>1. /\ Below(Positions(rest, n), Positions(out[p], n))
          /\ out[p][1].cmd.of = n => /\ 1 \in Positions(out[p], n)
                                     /\ AtMostOne(Positions(out[p], n)) => Positions(rest, n) = {}
      BY <1>3, PositionsRest
    <2>2. Items(rest) \subseteq Items(out[p])
      BY <1>3, ItemsRest
    <2> QED BY <1>2, <2>1, <2>2
  <1>5. \A q \in Pairs : /\ Below(Positions(out'[q], n), Positions(out[q], n))
                         /\ Items(out'[q]) \subseteq Items(out[q])
    BY <1>2, <1>4, SubsetBelow
  <1>6. CASE t.cmd.of # n
    <2>1. \A u \in work' : u.cmd.of = n => u \in work
      BY <1>2, <1>6
    <2> QED BY <1>0, <1>1, <1>5, <2>1, SingleStays
  <1>7. CASE t.cmd.of = n
    <2> DEFINE to == p[2]
    <2>1. Starts(n) /\ \A j \in Nodes : Once(n, j)
      BY <1>0 DEF Single
    <2>2. p[1] = h /\ to \in Nodes /\ to # h
      BY <1>2, <1>7, <2>1 DEF Starts, Pairs
    <2>3. FliesTo(n, to) = Positions(out[p], n) /\ p = <<h, to>>
      BY <1>0, <2>2, FliesIs
    <2>4. FliesTo(n, to) # {} /\ ~Waits(n)
      BY <1>4, <1>7, <2>1, <2>2, <2>3 DEF Starts
    <2>5. From(n)' = From(n)
      BY <1>1 DEF From
    <2>6. ~FromClient(t.route) /\ At(t.route) = to
      BY <1>0, <1>2, RouteEnds DEF OnWire
    <2>7. \A j \in Nodes : SendsTo(n, j)' = SendsTo(n, j) /\ DoneAt(n, j)' = DoneAt(n, j)
      BY <1>1, <2>5 DEF SendsTo, DoneAt
    <2>8. Once(n, to)'
      <3>1. SendsTo(n, to) = {} /\ WorksAt(n, to) = {} /\ DoneAt(n, to) = {}
            /\ AtMostOne(FliesTo(n, to))
        BY <2>1, <2>2, <2>4 DEF Once, OneOf
      <3>2. FliesTo(n, to)' = {}
        <4>1. FliesTo(n, to)' = Positions(out'[p], n)
          BY <2>2, <2>3, <2>5 DEF FliesTo
        <4> QED BY <1>4, <1>7, <2>3, <3>1, <4>1
      <3>3. WorksAt(n, to)' \subseteq {t}
        BY <1>2, <3>1 DEF WorksAt
      <3> QED BY <2>2, <2>7, <3>1, <3>2, <3>3 DEF Once, OneOf, AtMostOne
    <2>9. ASSUME NEW j \in Nodes, j # to PROVE Once(n, j)'
      <3>1. WorksAt(n, j)' = WorksAt(n, j)
        BY <1>2, <2>6, <2>9 DEF WorksAt
      <3>2. FliesTo(n, j)' = FliesTo(n, j)
        <4>1. CASE j = h
          BY <2>5, <4>1 DEF FliesTo
        <4>2. CASE j # h
          <5>1. PICK q \in Pairs : q = <<h, j>>
            BY <1>0, <4>2 DEF Pairs
          <5>2. q # p
            BY <2>3, <2>9, <5>1
          <5>3. FliesTo(n, j)' = Positions(out'[q], n) /\ FliesTo(n, j) = Positions(out[q], n)
            BY <2>5, <4>2, <5>1 DEF FliesTo
          <5> QED BY <1>2, <5>2, <5>3
        <4> QED BY <4>1, <4>2
      <3> QED BY <2>1, <2>7, <3>1, <3>2 DEF Once
    <2>10. Starts(n)'
      <3>1. ~Waits(n)'
        BY <1>2, <2>4, <2>6 DEF Waits
      <3> QED BY <1>1, <1>5, <2>1, <2>5, <3>1 DEF Starts
    <2> QED BY <2>8, <2>9, <2>10 DEF Single
  <1> QED BY <1>6, <1>7

\* From the thread to what the server has done, and to the threads that send (scan_and_send).
LEMMA ServeSingle ==
    ASSUME IInv, NEW t \in work, Serve(t), NEW n \in 1..Len(calls), calls[n].safe
    PROVE  Single(n)'
  <1> DEFINE h == From(n)
             i == At(t.route)
  <1>0. /\ TypeOK /\ Single(n) /\ h \in Nodes /\ Base /\ Ready
        /\ Starts(n) /\ \A j \in Nodes : Once(n, j)
    BY SafeFacts DEF Single
  <1>1. /\ Kept /\ UNCHANGED <<size, tell, socks, quiet, calls, out>>
        /\ t \in Text /\ Traveled(t) /\ work' = work \ {t}
    BY <1>0, ServeBase
  <1>2. PICK line \in Line :
          /\ line.cmd.of = t.cmd.of
          /\ \/ done' = [done EXCEPT ![i] = Append(@, line)] /\ sends' = sends \union SendersOf(t)
             \/ UNCHANGED <<done, sends>>
    BY <1>0, ServeBase
  <1>3. i \in Nodes /\ done \in [Nodes -> Seq(Line)]
    BY <1>0, <1>1, RouteEnds DEF TypeOK
  <1>4. \A j \in Nodes :
          /\ j # i => Positions(done'[j], n) = Positions(done[j], n)
          /\ t.cmd.of # n => Positions(done'[j], n) = Positions(done[j], n)
          /\ Positions(done'[i], n) \subseteq Positions(done[i], n) \union {Len(done[i]) + 1}
    <2>1. CASE done' = [done EXCEPT ![i] = Append(@, line)]
      <3>1. done'[i] = Append(done[i], line) /\ \A j \in Nodes : j # i => done'[j] = done[j]
        BY <1>3, <2>1
      <3>2. done[i] \in Seq(Line) /\ line \in Line
        BY <1>2, <1>3
      <3>3. Positions(Append(done[i], line), n)
              = IF line.cmd.of = n THEN Positions(done[i], n) \union {Len(done[i]) + 1}
                ELSE Positions(done[i], n)
        <4>1. /\ line.cmd.of = n => Positions(Append(done[i], line), n)
                                      = Positions(done[i], n) \union {Len(done[i]) + 1}
              /\ line.cmd.of # n => Positions(Append(done[i], line), n) = Positions(done[i], n)
          BY <3>2 DEF Positions
        <4> QED BY <4>1
      <3> QED BY <1>2, <3>1, <3>3
    <2>2. CASE UNCHANGED done
      BY <2>2
    <2> QED BY <1>2, <2>1, <2>2
  <1>5. \A s \in SendersOf(t) : s.text = t /\ s.x \in 1..(size - 1) /\ s = [text |-> t, x |-> s.x]
    BY DEF SendersOf
  <1>6. From(n)' = From(n)
    BY <1>1 DEF From
  <1>7. \A j \in Nodes : FliesTo(n, j)' = FliesTo(n, j) /\ WorksAt(n, j)' = WorksAt(n, j) \ {t}
    BY <1>1, <1>6 DEF FliesTo, WorksAt
  <1>8. CASE t.cmd.of # n
    <2>1. \A s \in sends' : s.text.cmd.of = n => s \in sends
      BY <1>2, <1>5, <1>8
    <2>2. \A p \in Pairs : Below(Positions(out'[p], n), Positions(out[p], n))
      BY <1>1, SubsetBelow
    <2> QED BY <1>0, <1>1, <1>4, <1>8, <2>1, <2>2, SingleStays
  <1>9. CASE t.cmd.of = n /\ FromClient(t.route)
    <2>1. Waits(n) /\ i = h
      BY <1>1, <1>9 DEF Waits, Traveled, From
    <2>2. \A j \in Nodes : /\ SendsTo(n, j) = {} /\ FliesTo(n, j) = {} /\ DoneAt(n, j) = {}
                           /\ \A u \in WorksAt(n, j) : FromClient(u.route)
      BY <1>0, <2>1 DEF Starts
    <2>3. \A u \in work : u.cmd.of = n /\ FromClient(u.route) => At(u.route) = h
      BY <1>0 DEF Base, Underway, Traveled, From
    <2>4. ASSUME NEW j \in Nodes PROVE WorksAt(n, j)' = {}
      <3>1. AtMostOne(WorksAt(n, h)) /\ t \in WorksAt(n, h)
        BY <1>0, <1>9, <2>1 DEF Once, OneOf, WorksAt
      <3>2. j # h => WorksAt(n, j) = {}
        BY <2>2, <2>3 DEF WorksAt
      <3> QED BY <1>7, <3>1, <3>2 DEF AtMostOne
    <2>5. \A j \in Nodes : FliesTo(n, j)' = {}
      BY <1>7, <2>2
    <2>6. ASSUME NEW j \in Nodes PROVE AtMostOne(SendsTo(n, j)') /\ (j = h => SendsTo(n, j)' = {})
      <3>1. \A s \in SendsTo(n, j)' : s \in SendersOf(t) /\ socks[h][s.x] = j
        <4>1. \A s \in SendsTo(n, j)' : s \notin sends /\ socks[h][s.x] = j
          BY <1>1, <1>6, <2>2 DEF SendsTo
        <4>2. SendsTo(n, j)' \subseteq sends'
          BY DEF SendsTo
        <4> QED BY <1>2, <4>1, <4>2
      <3>2. /\ \A x \in 1..(size - 1) : socks[h][x] # h
            /\ \A x, y \in 1..(size - 1) : socks[h][x] = socks[h][y] => x = y
        BY SafeFacts
      <3> QED BY <1>5, <3>1, <3>2 DEF AtMostOne
    <2>7. \A j \in Nodes : j # h => DoneAt(n, j)' = {}
      BY <1>4, <2>1, <2>2 DEF DoneAt
    <2>8. ASSUME NEW j \in Nodes, j = h PROVE AtMostOne(DoneAt(n, j)')
      <3>1. Positions(done'[j], n) \subseteq {Len(done[j]) + 1}
        BY <1>4, <2>1, <2>2, <2>8 DEF DoneAt
      <3> QED BY <3>1 DEF DoneAt, AtMostOne
    <2>9. ASSUME NEW j \in Nodes PROVE Once(n, j)'
      <3>1. WorksAt(n, j)' = {} /\ FliesTo(n, j)' = {} /\ AtMostOne(SendsTo(n, j)')
        BY <2>4, <2>5, <2>6
      <3>2. AtMostOne(DoneAt(n, j)') /\ (SendsTo(n, j)' = {} \/ DoneAt(n, j)' = {})
        <4>1. CASE j = h
          BY <2>6, <2>8, <4>1
        <4>2. CASE j # h
          BY <2>7, <4>2 DEF AtMostOne
        <4> QED BY <4>1, <4>2
      <3> QED BY <3>1, <3>2 DEF Once, OneOf, AtMostOne
    <2>10. Starts(n)'
      <3>1. ~Waits(n)'
        <4> SUFFICES ASSUME NEW u \in work', u.cmd.of = n, FromClient(u.route) PROVE FALSE
          BY DEF Waits
        <4>1. PICK g \in Nodes : g = h
          BY <1>0
        <4>2. u \in work /\ u \in WorksAt(n, g)'
          BY <1>1, <2>3, <4>1 DEF WorksAt
        <4> QED BY <2>4, <4>2
      <3>2. \A s \in sends' : s.text.cmd.of = n => At(s.text.route) = h
        BY <1>0, <1>2, <1>5, <2>1 DEF Starts
      <3> QED BY <1>0, <1>1, <1>6, <3>1, <3>2 DEF Starts
    <2> QED BY <2>9, <2>10 DEF Single
  <1>10. CASE t.cmd.of = n /\ ~FromClient(t.route)
    <2>1. SendersOf(t) = {}
      <3>1. Via(t.route) \in quiet
        BY <1>0, <1>1, <1>10, RouteEnds DEF Traveled, MemberPairs, Ready
      <3> QED BY <1>10, <3>1 DEF SendersOf, SendsOn
    <2>2. sends' = sends
      BY <1>2, <2>1
    <2>3. t \in WorksAt(n, i) /\ ~Waits(n)
      BY <1>0, <1>3, <1>10 DEF WorksAt, Starts
    <2>4. Once(n, i)'
      <3>1. /\ AtMostOne(WorksAt(n, i)) /\ SendsTo(n, i) = {} /\ FliesTo(n, i) = {} /\ DoneAt(n, i) = {}
        BY <1>0, <1>3, <2>3 DEF Once, OneOf
      <3>2. WorksAt(n, i)' = {}
        BY <1>3, <1>7, <2>3, <3>1 DEF AtMostOne
      <3>3. SendsTo(n, i)' = {} /\ FliesTo(n, i)' = {} /\ AtMostOne(DoneAt(n, i)')
        BY <1>1, <1>3, <1>4, <1>6, <1>7, <2>2, <3>1 DEF SendsTo, DoneAt, AtMostOne
      <3> QED BY <3>2, <3>3 DEF Once, OneOf, AtMostOne
    <2>5. ASSUME NEW j \in Nodes, j # i PROVE Once(n, j)'
      <3>1. SendsTo(n, j)' = SendsTo(n, j) /\ DoneAt(n, j)' = DoneAt(n, j)
        BY <1>1, <1>4, <1>6, <2>2, <2>5 DEF SendsTo, DoneAt
      <3>2. FliesTo(n, j)' = FliesTo(n, j) /\ WorksAt(n, j)' \subseteq WorksAt(n, j)
        BY <1>7
      <3> QED BY <1>0, <3>1, <3>2, OneOfBelow, SubsetBelow DEF Once
    <2>6. Starts(n)'
      <3>1. ~Waits(n)'
        BY <1>1, <2>3 DEF Waits
      <3> QED BY <1>0, <1>1, <1>6, <2>2, <3>1 DEF Starts
    <2> QED BY <2>4, <2>5, <2>6 DEF Single
  <1> QED BY <1>8, <1>9, <1>10

\* From the thread that sends to the stream (auto_send_each).
LEMMA SendSingle ==
    ASSUME IInv, NEW s \in sends, Send(s), NEW n \in 1..Len(calls), calls[n].safe
    PROVE  Single(n)'
  <1> DEFINE h == From(n)
  <1>0. /\ TypeOK /\ Single(n) /\ h \in Nodes /\ Base
        /\ Starts(n) /\ \A j \in Nodes : Once(n, j)
    BY SafeFacts DEF Single
  <1>1. /\ Kept /\ UNCHANGED <<size, tell, socks, quiet, calls, work, done>>
        /\ s.text \in Text /\ sends' = sends \ {s}
    BY SendBase
  <1>2. CASE UNCHANGED out
    BY <1>1, <1>2, NothingNew
  <1>3. CASE ~UNCHANGED out
    <2>1. PICK p \in Pairs, t \in Text :
            /\ p[1] = At(s.text.route) /\ p[2] = socks[p[1]][s.x] /\ t.cmd.of = s.text.cmd.of
            /\ out' = [out EXCEPT ![p] = Append(@, t)]
      BY <1>3, SendBase
    <2>2. /\ out \in [Pairs -> Seq(Text)] /\ out'[p] = Append(out[p], t)
          /\ \A q \in Pairs : q # p => out'[q] = out[q]
      BY <1>0, <2>1 DEF TypeOK
    <2>3. /\ Items(out'[p]) = Items(out[p]) \union {t}
          /\ t.cmd.of # n => Positions(out'[p], n) = Positions(out[p], n)
          /\ t.cmd.of = n => Positions(out'[p], n) = Positions(out[p], n) \union {Len(out[p]) + 1}
      <3>1. out[p] \in Seq(Text) /\ t \in Text
        BY <2>1, <2>2
      <3>2. Items(Append(out[p], t)) = Items(out[p]) \union {t}
        BY <3>1, ItemsAppend
      <3>3. /\ t.cmd.of # n => Positions(Append(out[p], t), n) = Positions(out[p], n)
            /\ t.cmd.of = n => Positions(Append(out[p], t), n)
                                 = Positions(out[p], n) \union {Len(out[p]) + 1}
        BY <3>1 DEF Positions
      <3> QED BY <2>2, <3>2, <3>3
    <2>4. CASE t.cmd.of # n
      <3>1. \A q \in Pairs : /\ Below(Positions(out'[q], n), Positions(out[q], n))
                             /\ \A u \in Items(out'[q]) : u.cmd.of = n => u \in Items(out[q])
        BY <2>2, <2>3, <2>4, SubsetBelow
      <3> QED BY <1>0, <1>1, <3>1, SingleStays
    <2>5. CASE t.cmd.of = n
      <3> DEFINE to == p[2]
      <3>1. p[1] = h /\ to \in Nodes /\ to # h
        BY <1>0, <2>1, <2>5 DEF Starts, Pairs
      <3>2. FliesTo(n, to) = Positions(out[p], n) /\ p = <<h, to>>
        BY <1>0, <3>1, FliesIs
      <3>3. s \in SendsTo(n, to) /\ ~Waits(n)
        BY <1>0, <2>1, <2>5, <3>1 DEF SendsTo, Starts
      <3>4. From(n)' = From(n)
        BY <1>1 DEF From
      <3>5. \A j \in Nodes : /\ SendsTo(n, j)' = SendsTo(n, j) \ {s} /\ DoneAt(n, j)' = DoneAt(n, j)
                             /\ WorksAt(n, j)' = WorksAt(n, j)
        BY <1>1, <3>4 DEF SendsTo, DoneAt, WorksAt
      <3>6. Once(n, to)'
        <4>1. /\ AtMostOne(SendsTo(n, to))
              /\ FliesTo(n, to) = {} /\ WorksAt(n, to) = {} /\ DoneAt(n, to) = {}
          BY <1>0, <3>1, <3>3 DEF Once, OneOf
        <4>2. SendsTo(n, to)' = {} /\ WorksAt(n, to)' = {} /\ DoneAt(n, to)' = {}
          BY <3>1, <3>3, <3>5, <4>1 DEF AtMostOne
        <4>3. FliesTo(n, to)' = Positions(out'[p], n)
          BY <3>1, <3>2, <3>4 DEF FliesTo
        <4>4. AtMostOne(FliesTo(n, to)')
          BY <2>3, <2>5, <3>2, <4>1, <4>3 DEF AtMostOne
        <4> QED BY <4>2, <4>4 DEF Once, OneOf, AtMostOne
      <3>7. ASSUME NEW j \in Nodes, j # to PROVE Once(n, j)'
        <4>1. FliesTo(n, j)' = FliesTo(n, j)
          <5>1. CASE j = h
            BY <3>4, <5>1 DEF FliesTo
          <5>2. CASE j # h
            <6>1. PICK q \in Pairs : q = <<h, j>>
              BY <1>0, <5>2 DEF Pairs
            <6>2. q # p
              BY <3>2, <3>7, <6>1
            <6>3. FliesTo(n, j)' = Positions(out'[q], n) /\ FliesTo(n, j) = Positions(out[q], n)
              BY <3>4, <5>2, <6>1 DEF FliesTo
            <6> QED BY <2>2, <6>2, <6>3
          <5> QED BY <5>1, <5>2
        <4>2. SendsTo(n, j)' \subseteq SendsTo(n, j)
          BY <3>5
        <4> QED BY <1>0, <3>5, <4>1, <4>2, OneOfBelow, SubsetBelow DEF Once
      <3>8. Starts(n)'
        <4>1. ~Waits(n)'
          BY <1>1, <3>3 DEF Waits
        <4>2. \A q \in Pairs : \A u \in Items(out'[q]) : u.cmd.of = n => q[1] = h
          BY <1>0, <2>2, <2>3, <3>1 DEF Starts
        <4> QED BY <1>0, <1>1, <3>4, <4>1, <4>2 DEF Starts
      <3> QED BY <3>6, <3>7, <3>8 DEF Single
    <2> QED BY <2>4, <2>5
  <1> QED BY <1>2, <1>3

-----------------------------------------------------------------------------
(* The invariant                                                           *)

\* A step that sends no command keeps the invariant, if it keeps what there is of each
\* command that was sent when the replicas had accepted.
LEMMA StepInv ==
    ASSUME IInv, Base', UNCHANGED <<size, tell, calls>>, quiet \subseteq quiet',
           \A n \in 1..Len(calls) : calls[n].safe => Single(n)'
    PROVE  IInv'
  <1>1. calls \in Seq(Issued)
    BY DEF IInv, Base, TypeOK
  <1>2. DOMAIN calls' = 1..Len(calls) /\ calls' = calls
    BY <1>1
  <1>3. ASSUME NEW n \in DOMAIN calls', calls'[n].safe PROVE Ready' /\ Single(n)'
    <2>1. n \in 1..Len(calls) /\ n \in DOMAIN calls /\ calls[n].safe
      BY <1>1, <1>2, <1>3
    <2>2. Ready
      BY <2>1 DEF IInv
    <2> QED BY <2>1, <2>2, ReadyStays
  <1> QED BY <1>3 DEF IInv

LEMMA BuildInv ==
    ASSUME IInv, SetNumber \/ AddReplica \/ Greet
    PROVE  IInv'
  <1>1. Base /\ ~Built /\ calls \in Seq(Issued)
    BY DEF IInv, Base, TypeOK, SetNumber, AddReplica, Greet
  <1>2. Base'
    BY <1>1, SetNumberBase, AddReplicaBase, GreetBase
  <1>3. calls' = calls
    BY DEF SetNumber, AddReplica, Greet
  <1>4. \A n \in DOMAIN calls : ~calls[n].safe
    BY <1>1 DEF IInv, Ready
  <1> QED BY <1>2, <1>3, <1>4 DEF IInv

LEMMA CallInv ==
    ASSUME IInv, NEW c \in Clients, Call(c)
    PROVE  IInv'
  <1>1. Base /\ calls \in Seq(Issued)
    BY DEF IInv, Base, TypeOK
  <1>2. Base' /\ Kept
    BY <1>1, CallBase
  <1>3. UNCHANGED <<size, tell, quiet>>
    BY DEF Call
  <1>4. PICK t \in Text : calls' = Append(calls, [by |-> c, cmd |-> t.cmd, safe |-> Ready])
    BY <1>1, CallBase
  <1>5. /\ Len(calls') = Len(calls) + 1 /\ DOMAIN calls' = 1..Len(calls')
        /\ \A n \in 1..Len(calls) : calls'[n] = calls[n]
        /\ Len(calls) \in Nat
    BY <1>1, <1>2, <1>4 DEF Kept
  <1>6. ASSUME NEW n \in DOMAIN calls', calls'[n].safe PROVE Ready' /\ Single(n)'
    <2>1. CASE n \in 1..Len(calls)
      <3>1. calls[n].safe /\ Ready
        BY <1>5, <1>6, <2>1, SafeFacts
      <3> QED BY <1>3, <2>1, <3>1, CallSingle, ReadyStays
    <2>2. CASE n = Len(calls) + 1
      <3>1. calls'[n].safe = Ready
        BY <1>1, <1>4, <2>2
      <3>2. Ready'
        BY <1>3, <1>6, <3>1, ReadyStays
      <3> QED BY <2>2, <3>2, CallNew
    <2> QED BY <1>5, <2>1, <2>2
  <1> QED BY <1>2, <1>6 DEF IInv

LEMMA ThreadsInv ==
    ASSUME IInv, NEW i \in Nodes, Threads(i)
    PROVE  IInv'
  <1>0. Base
    BY DEF IInv
  <1>1. ASSUME NEW t \in work, Obey(t) PROVE IInv'
    <2>1. /\ UNCHANGED <<size, tell, calls, socks, out, done>> /\ sends' \subseteq sends
          /\ work' \subseteq work /\ quiet \subseteq quiet'
      BY <1>1 DEF Obey
    <2>2. Base' /\ Kept
      BY <1>0, <1>1, ObeyBase
    <2> QED BY <2>1, <2>2, NothingNew, StepInv
  <1>2. ASSUME NEW t \in work, Serve(t) PROVE IInv'
    <2>1. Base' /\ UNCHANGED <<size, tell, calls, quiet>>
      BY <1>0, <1>2, ServeBase
    <2> QED BY <1>2, <2>1, ServeSingle, StepInv
  <1>3. ASSUME NEW s \in sends, Send(s) PROVE IInv'
    <2>1. Base' /\ UNCHANGED <<size, tell, calls, quiet>>
      BY <1>3, SendBase
    <2> QED BY <1>3, <2>1, SendSingle, StepInv
  <1>4. ASSUME NEW l \in logging, LogAppend(l) PROVE IInv'
    <2>1. Base' /\ Kept /\ UNCHANGED <<size, tell, quiet, calls, socks, out, work, sends, done>>
      BY <1>0, <1>4, LogAppendBase
    <2> QED BY <2>1, NothingNew, StepInv
  <1> QED BY <1>1, <1>2, <1>3, <1>4 DEF Threads

LEMMA NextInv == IInv /\ [Next]_vars => IInv'
  <1> SUFFICES ASSUME IInv, [Next]_vars PROVE IInv'
    OBVIOUS
  <1>0. Base
    BY DEF IInv
  <1>1. CASE Build
    BY <1>1, BuildInv DEF Build
  <1>2. ASSUME NEW c \in Clients, Client(c) PROVE IInv'
    <2>1. CASE Call(c)
      BY <2>1, CallInv
    <2>2. CASE Leave(c)
      <3>1. UNCHANGED <<size, tell, quiet, calls, socks, out, work, sends, done>>
        BY <2>2 DEF Leave
      <3>2. Base' /\ Kept
        BY <1>0, <2>2, LeaveBase
      <3> QED BY <3>1, <3>2, NothingNew, StepInv
    <2> QED BY <1>2, <2>1, <2>2 DEF Client
  <1>3. ASSUME NEW p \in Pairs, Socket(p) PROVE IInv'
    <2>1. Receive(p)
      BY <1>3 DEF Socket
    <2>2. Base' /\ UNCHANGED <<size, tell, calls, quiet>>
      BY <1>0, <2>1, ReceiveBase
    <2> QED BY <2>1, <2>2, ReceiveSingle, StepInv
  <1>4. ASSUME NEW i \in Nodes, Threads(i) PROVE IInv'
    BY <1>4, ThreadsInv
  <1>5. CASE UNCHANGED vars
    <2>1. UNCHANGED <<size, tell, quiet, calls, socks, out, work, sends, done>>
      BY <1>5 DEF vars
    <2>2. Kept
      BY <1>0, <2>1, KeptCalls DEF Heard, Base
    <2>3. Base'
      <3>1. TypeOK'
        BY <1>0, <1>5 DEF Base, TypeOK, vars
      <3>2. Progress' /\ Memory' /\ Underway'
        BY <1>0, <1>5, <2>1, <2>2, ProgressStays, MemoryStays, UnderwayStays DEF Base, vars
      <3> QED BY <3>1, <3>2 DEF Base
    <2> QED BY <2>1, <2>2, <2>3, NothingNew, StepInv
  <1> QED BY <1>1, <1>2, <1>3, <1>4, <1>5 DEF Next, Over

LEMMA InitInv == Init => IInv
  <1> SUFFICES ASSUME Init PROVE IInv
    OBVIOUS
  <1>1. /\ size \in Nat \ {0} /\ size <= N /\ N \in Nat /\ calls = <<>> /\ DOMAIN calls = {}
        /\ work = {} /\ sends = {} /\ logging = {} /\ closed = {} /\ fault = "none"
    BY SizeAssumption DEF Init
  <1>2. TypeOK
    <2>1. tell \in (0..N) \X (0..N) \X BOOLEAN
      <3>1. 0 \in 0..N /\ tell = <<0, 0, FALSE>>
        BY <1>1 DEF Init
      <3> QED BY <3>1, Triple
    <2>2. /\ size \in Sizes /\ socks \in [Nodes -> Seq(Nodes) \union {NULL}] /\ quiet \subseteq Pairs
          /\ th \in [Clients -> {"idle", "wait", "gone"}]
          /\ calls \in Seq(Issued) /\ out \in [Pairs -> Seq(Text)]
          /\ log \in [Nodes -> Seq(Line)] /\ done \in [Nodes -> Seq(Line)]
      BY DEF Init
    <2>3. tab \in [Nodes -> [Keys -> Entry \union {NULL}]]
      BY DEF Init, EmptyTable
    <2>4. mixed \in BOOLEAN
      BY DEF Init
    <2> QED BY <1>1, <2>1, <2>2, <2>3, <2>4 DEF TypeOK
  <1>3. Progress
    <2>1. tell[1] = 0 /\ tell[2] = 0 /\ ~tell[3]
      BY DEF Init
    <2>2. ASSUME NEW i \in Nodes PROVE Socks(i)
      <3>1. ~Heard(i) /\ socks[i] = NULL
        BY <1>2, <2>1, Sizing DEF Heard, Init
      <3> QED BY <3>1 DEF Socks
    <2> QED BY <1>1, <2>1, <2>2 DEF Progress
  <1>4. Underway
    BY <1>1 DEF Underway, Items, Init
  <1>5. Memory
    BY <1>1 DEF Memory
  <1> QED BY <1>1, <1>2, <1>3, <1>4, <1>5 DEF IInv, Base

LEMMA Invariance == Spec => []IInv
  BY InitInv, NextInv, PTL DEF Spec

-----------------------------------------------------------------------------
(* Theorems                                                                *)

\* The variables keep their types: what recv makes of several texts at once is still a
\* command, and replica_sock only ever names servers (replica_add).
THEOREM ReplicaTypes == Spec => []TypeOK
  <1>1. IInv => TypeOK
    BY DEF IInv, Base
  <1> QED BY <1>1, Invariance, PTL

\* Once all replicas have accepted, no server serves a command twice, however the threads
\* of the servers and the texts on the streams interleave: auto_send_yes is false on the
\* connections between servers, and replica_sock has each other server once.
THEOREM ReplicaOnce == Spec => []ExecutedOnce
  <1>1. IInv => ExecutedOnce
    <2> SUFFICES ASSUME IInv, NEW i \in Members, NEW n \in DOMAIN calls \ Early
                 PROVE  Cardinality({x \in DOMAIN done[i] : done[i][x].cmd.of = n}) <= 1
      BY DEF ExecutedOnce
    <2> DEFINE D == {x \in DOMAIN done[i] : done[i][x].cmd.of = n}
    <2>1. TypeOK /\ calls[n].safe
      BY DEF IInv, Base, Early
    <2>2. i \in Nodes /\ Once(n, i)
      BY <2>1, Sizing DEF IInv, Single
    <2>3. DOMAIN done[i] = 1..Len(done[i])
      BY <2>1, <2>2 DEF TypeOK
    <2>4. D = DoneAt(n, i)
      BY <2>3 DEF DoneAt, Positions
    <2>5. \A a, b \in D : a = b
      BY <2>2, <2>4 DEF Once, OneOf, AtMostOne
    <2>6. CASE D = {}
      BY <2>6, FS_EmptySet
    <2>7. CASE D # {}
      <3>1. PICK a \in D : D = {a}
        BY <2>5, <2>7
      <3>2. Cardinality({a}) = 1
        BY FS_Singleton, Zenon
      <3> HIDE DEF D
      <3>3. Cardinality(D) <= 1
        BY <3>1, <3>2
      <3> QED BY <3>3 DEF D
    <2> QED BY <2>6, <2>7
  <1> QED BY <1>1, Invariance, PTL

\* No thread that logs uses the record of a connection that was freed (only the builder's
\* are, on quit), and replica_sock is never read where it has no socket yet, unless a
\* client spoke before all had accepted (auto_send, log_append, server_task).
THEOREM ReplicaMemory == Spec => []SoundMemory
  <1>1. IInv => SoundMemory
    BY DEF IInv, Base, Memory, SoundMemory
  <1> QED BY <1>1, Invariance, PTL

=============================================================================
