------------------------------ MODULE LogProofs ------------------------------
(***************************************************************************)
(* What the logs of the servers hold, and what their tables have in common *)
(* (Replicas), for any number of servers, clients and writes.  Each table  *)
(* is what its server's writes make of an empty one; each of these writes  *)
(* is in the log or has a thread that will append it; and as long as the   *)
(* writes come one by one, everything under way belongs to the last of     *)
(* them, of which each server has a trace until it has done it.            *)
(***************************************************************************)
EXTENDS ReplicasProofs, WellFoundedInduction

-----------------------------------------------------------------------------
(* Replaying a log                                                         *)

LEMMA LeastNat ==
    ASSUME NEW T \in SUBSET Nat, T # {}
    PROVE  \E m \in T : \A n \in T : m <= n
  <1> DEFINE R == OpToRel(<, Nat)
  <1>1. \A x, y \in Nat : <<x, y>> \in R <=> x < y
    BY DEF OpToRel
  <1>2. \E m \in T : \A n \in T : ~(<<n, m>> \in R)
    <2> HIDE DEF R
    <2>1. IsWellFoundedOn(R, Nat)
      BY NatLessThanWellFounded DEF R
    <2> QED BY <2>1, WFMin
  <1> HIDE DEF R
  <1>3. PICK m \in T : \A n \in T : ~(<<n, m>> \in R)
    BY <1>2
  <1>4. ASSUME NEW n \in T
        PROVE  m <= n
    <2>1. m \in Nat /\ n \in Nat /\ ~(n < m)
      BY <1>1, <1>3
    <2> QED BY <2>1
  <1> QED BY <1>4

\* The tables that the first lines make one after the other, of an empty one.
Run(t, lines, n) ==
    t = [k \in 0..n |-> IF k = 0 THEN EmptyTable
                        ELSE Execute(t[k - 1], lines[k].cmd, lines[k].auth)]

LEMMA RunIs ==
    ASSUME NEW t, NEW lines, NEW n \in Nat, Run(t, lines, n)
    PROVE  /\ DOMAIN t = 0..n
           /\ t[0] = EmptyTable
           /\ \A k \in 1..n : t[k] = Execute(t[k - 1], lines[k].cmd, lines[k].auth)
  <1> DEFINE f == [k \in 0..n |-> IF k = 0 THEN EmptyTable
                                  ELSE Execute(t[k - 1], lines[k].cmd, lines[k].auth)]
  <1>1. t = f
    BY DEF Run
  <1>2. DOMAIN f = 0..n /\ f[0] = EmptyTable
    OBVIOUS
  <1>3. \A k \in 1..n : f[k] = Execute(t[k - 1], lines[k].cmd, lines[k].auth)
    OBVIOUS
  <1> HIDE DEF f
  <1> QED BY <1>1, <1>2, <1>3

\* More lines do not change what the first ones make.
LEMMA RunSame ==
    ASSUME NEW t, NEW u, NEW lines, NEW more, NEW n \in Nat, NEW m \in Nat, n <= m,
           Run(t, lines, n), Run(u, more, m), \A k \in 1..n : more[k] = lines[k]
    PROVE  \A k \in 0..n : t[k] = u[k]
  <1> DEFINE S == {k \in 0..n : t[k] # u[k]}
  <1>1. SUFFICES ASSUME S # {} PROVE FALSE
    OBVIOUS
  <1>2. PICK k \in S : \A j \in S : k <= j
    <2>1. S \in SUBSET Nat
      OBVIOUS
    <2> HIDE DEF S
    <2> QED BY <1>1, <2>1, LeastNat
  <1>3. k \in 0..n /\ t[k] # u[k]
    BY <1>2
  <1>4. CASE k = 0
    BY <1>3, <1>4, RunIs
  <1>5. CASE k # 0
    <2>1. k \in 1..n /\ k \in 1..m /\ k - 1 \in 0..n /\ ~(k <= k - 1)
      BY <1>3, <1>5
    <2>2. t[k - 1] = u[k - 1]
      BY <1>2, <2>1
    <2>3. t[k] = Execute(t[k - 1], lines[k].cmd, lines[k].auth)
      BY <2>1, RunIs
    <2>4. u[k] = Execute(u[k - 1], more[k].cmd, more[k].auth)
      BY <2>1, RunIs
    <2> QED BY <1>3, <2>1, <2>2, <2>3, <2>4
  <1> QED BY <1>4, <1>5

\* One line more.
LEMMA RunMore ==
    ASSUME NEW t, NEW lines, NEW more, NEW n \in Nat, Run(t, lines, n),
           \A k \in 1..n : more[k] = lines[k]
    PROVE  \E u : /\ Run(u, more, n + 1)
                  /\ u[n + 1] = Execute(t[n], more[n + 1].cmd, more[n + 1].auth)
  <1> DEFINE u == [k \in 0..(n + 1) |-> IF k = n + 1
                                        THEN Execute(t[n], more[n + 1].cmd, more[n + 1].auth)
                                        ELSE t[k]]
  <1>1. /\ DOMAIN u = 0..(n + 1) /\ u[n + 1] = Execute(t[n], more[n + 1].cmd, more[n + 1].auth)
        /\ \A k \in 0..n : u[k] = t[k]
    OBVIOUS
  <1> DEFINE v == [k \in 0..(n + 1) |-> IF k = 0 THEN EmptyTable
                                        ELSE Execute(u[k - 1], more[k].cmd, more[k].auth)]
  <1> HIDE DEF u
  <1>2. ASSUME NEW k \in 0..(n + 1) PROVE u[k] = v[k]
    <2>1. CASE k = 0
      <3>1. 0 \in 0..n /\ v[0] = EmptyTable
        OBVIOUS
      <3> QED BY <1>1, <2>1, <3>1, RunIs
    <2>2. CASE k \in 1..n
      <3>1. k \in 0..n /\ k - 1 \in 0..n /\ v[k] = Execute(u[k - 1], more[k].cmd, more[k].auth)
        BY <2>2
      <3>2. t[k] = Execute(t[k - 1], lines[k].cmd, lines[k].auth)
        BY <2>2, RunIs
      <3> QED BY <1>1, <2>2, <3>1, <3>2
    <2>3. CASE k = n + 1
      <3>1. k - 1 = n /\ n \in 0..n /\ v[k] = Execute(u[k - 1], more[k].cmd, more[k].auth)
        BY <2>3
      <3> QED BY <1>1, <2>3, <3>1
    <2> QED BY <2>1, <2>2, <2>3
  <1>3. DOMAIN v = 0..(n + 1) /\ v = [k \in 0..(n + 1) |-> v[k]]
    OBVIOUS
  <1>4. u = [k \in 0..(n + 1) |-> u[k]]
    BY <1>1 DEF u
  <1> HIDE DEF v
  <1>5. u = v
    BY <1>2, <1>3, <1>4
  <1>6. Run(u, more, n + 1)
    BY <1>5 DEF Run, v
  <1> QED BY <1>1, <1>6

LEMMA RunExists ==
    ASSUME NEW lines, NEW n \in Nat
    PROVE  \E t : Run(t, lines, n)
  <1> DEFINE S == {m \in Nat : ~\E t : Run(t, lines, m)}
  <1>1. SUFFICES ASSUME S # {} PROVE FALSE
    OBVIOUS
  <1>2. PICK m \in S : \A k \in S : m <= k
    <2>1. S \in SUBSET Nat
      OBVIOUS
    <2> HIDE DEF S
    <2> QED BY <1>1, <2>1, LeastNat
  <1>3. m \in Nat /\ ~\E t : Run(t, lines, m)
    BY <1>2
  <1>4. CASE m = 0
    <2> DEFINE t == [k \in 0..0 |-> EmptyTable]
    <2>1. t = [k \in 0..0 |-> IF k = 0 THEN EmptyTable
                              ELSE Execute(t[k - 1], lines[k].cmd, lines[k].auth)]
      OBVIOUS
    <2> HIDE DEF t
    <2>2. Run(t, lines, 0)
      BY <2>1 DEF Run
    <2> QED BY <1>3, <1>4, <2>2
  <1>5. CASE m # 0
    <2>1. m - 1 \in Nat /\ (m - 1) + 1 = m /\ ~(m <= m - 1)
      BY <1>3, <1>5
    <2>2. PICK t : Run(t, lines, m - 1)
      BY <1>2, <2>1
    <2>3. \E u : Run(u, lines, (m - 1) + 1)
      BY <2>1, <2>2, RunMore
    <2> QED BY <1>3, <2>1, <2>3
  <1> QED BY <1>4, <1>5

\* Replay is the last one of these tables.
LEMMA ReplayIs ==
    ASSUME NEW lines, Len(lines) \in Nat, NEW t, Run(t, lines, Len(lines))
    PROVE  Replay(lines) = t[Len(lines)]
  <1> DEFINE u == CHOOSE f : Run(f, lines, Len(lines))
  <1>1. Run(u, lines, Len(lines))
    <2>1. \E f : Run(f, lines, Len(lines))
      OBVIOUS
    <2> QED BY <2>1
  <1>2. Replay(lines) = u[Len(lines)]
    BY DEF Replay, Run
  <1> HIDE DEF u
  <1>3. Len(lines) \in 0..Len(lines) /\ Len(lines) <= Len(lines)
    OBVIOUS
  <1> QED BY <1>1, <1>2, <1>3, RunSame

LEMMA ReplayNone == Replay(<<>>) = EmptyTable
  <1>1. PICK t : Run(t, <<>>, 0)
    BY RunExists
  <1>2. Len(<<>>) = 0 /\ 0 \in Nat
    OBVIOUS
  <1>3. t[0] = EmptyTable
    BY <1>1, RunIs
  <1>4. Replay(<<>>) = t[Len(<<>>)]
    BY <1>1, <1>2, ReplayIs
  <1> QED BY <1>2, <1>3, <1>4

LEMMA ReplayAppend ==
    ASSUME NEW S, NEW lines \in Seq(S), NEW l \in S
    PROVE  Replay(Append(lines, l)) = Execute(Replay(lines), l.cmd, l.auth)
  <1> DEFINE n == Len(lines)
             more == Append(lines, l)
  <1>1. n \in Nat /\ Len(more) = n + 1 /\ more[n + 1] = l /\ \A k \in 1..n : more[k] = lines[k]
    OBVIOUS
  <1> HIDE DEF n, more
  <1>2. PICK t : Run(t, lines, n)
    BY <1>1, RunExists
  <1>3. PICK u : Run(u, more, n + 1) /\ u[n + 1] = Execute(t[n], more[n + 1].cmd, more[n + 1].auth)
    BY <1>1, <1>2, RunMore
  <1>4. Replay(lines) = t[n]
    BY <1>1, <1>2, ReplayIs DEF n
  <1>5. Replay(more) = u[n + 1]
    <2>1. Len(more) \in Nat /\ Run(u, more, Len(more))
      BY <1>1, <1>3
    <2> QED BY <1>1, <2>1, ReplayIs
  <1> QED BY <1>1, <1>3, <1>4, <1>5 DEF more

-----------------------------------------------------------------------------
(* What is in a log or will be                                             *)

LEMMA OccursAppend ==
    ASSUME NEW S, NEW s \in Seq(S), NEW e \in S, NEW l
    PROVE  /\ Occurs(s, l) \in Nat
           /\ e = l => Occurs(Append(s, e), l) = Occurs(s, l) + 1
           /\ e # l => Occurs(Append(s, e), l) = Occurs(s, l)
  <1> DEFINE n == Len(s)
             P == {x \in 1..n : s[x] = l}
             r == Append(s, e)
             Q == {x \in 1..(n + 1) : r[x] = l}
  <1>1. /\ n \in Nat /\ DOMAIN s = 1..n /\ DOMAIN r = 1..(n + 1) /\ r[n + 1] = e
        /\ \A x \in 1..n : r[x] = s[x]
    OBVIOUS
  <1>2. Occurs(s, l) = Cardinality(P) /\ Occurs(r, l) = Cardinality(Q)
    BY <1>1 DEF Occurs
  <1> HIDE DEF r
  <1>3. IF e = l THEN Q = P \union {n + 1} /\ n + 1 \notin P ELSE Q = P
    <2>1. CASE e = l
      BY <1>1, <2>1
    <2>2. CASE e # l
      BY <1>1, <2>2
    <2> QED BY <2>1, <2>2
  <1>4. IsFiniteSet(P)
    <2>1. IsFiniteSet(1..n)
      BY <1>1, FS_Interval
    <2>2. P \subseteq 1..n
      OBVIOUS
    <2> HIDE DEF P
    <2> QED BY <2>1, <2>2, FS_Subset
  <1> HIDE DEF P, Q
  <1>5. Cardinality(P) \in Nat
    BY <1>4, FS_CardinalityType
  <1>6. n + 1 \notin P => Cardinality(P \union {n + 1}) = Cardinality(P) + 1
    BY <1>4, FS_AddElement
  <1>7. e = l => Cardinality(Q) = Cardinality(P) + 1
    BY <1>3, <1>5, <1>6
  <1>8. e # l => Cardinality(Q) = Cardinality(P)
    BY <1>3, <1>5
  <1> QED BY <1>2, <1>5, <1>7, <1>8 DEF r

\* The threads that will append line l to the log of server i.
LoggingAt(i) == {g \in logging : At(g.route) = i}
Pending(i, l) == {g \in LoggingAt(i) : g.line = l}

Counted ==
    /\ IsFiniteSet(logging)
    /\ \A i \in Nodes : \A g \in LoggingAt(i) : g.nth <= Len(done[i])
    /\ \A i \in Nodes, l \in Line : Occurs(done[i], l) = Occurs(log[i], l) + Cardinality(Pending(i, l))

Rebuilt == \A i \in Nodes : tab[i] = Replay(done[i])

\* What a thread does that executes a text.
LEMMA Serves ==
    ASSUME Base, NEW t \in work, Serve(t)
    PROVE  \E i \in Nodes, line \in Line :
             /\ i = At(t.route) /\ line = [cmd |-> t.cmd, auth |-> AuthOf(t)]
             /\ t.cmd.op # "replicaaccept" /\ UNCHANGED log /\ mixed' = mixed
             /\ \/ /\ t.cmd.op # "garbled"
                   /\ tab'[i] = Execute(tab[i], line.cmd, line.auth)
                   /\ \A j \in Nodes : j # i => tab'[j] = tab[j]
                   /\ done'[i] = Append(done[i], line)
                   /\ \A j \in Nodes : j # i => done'[j] = done[j]
                   /\ logging' = logging \union
                        {[line |-> line, route |-> t.route, nth |-> Len(done[i]) + 1]}
                   /\ sends' = sends \union SendersOf(t)
                \/ t.cmd.op = "garbled" /\ UNCHANGED <<tab, done, logging, sends>>
  <1>1. TypeOK /\ t \in Text /\ Traveled(t)
    BY ServeBase DEF Base
  <1>2. /\ At(t.route) \in Nodes /\ AuthOf(t) \in Nat /\ t.cmd \in Command
        /\ tab \in [Nodes -> [Keys -> Entry \union {NULL}]] /\ done \in [Nodes -> Seq(Line)]
    BY <1>1, RouteEnds, AuthType DEF Text, TypeOK
  <1>3. PICK line \in Line : line = [cmd |-> t.cmd, auth |-> AuthOf(t)]
    BY <1>2 DEF Line
  <1>4. PICK i \in Nodes : i = At(t.route)
    BY <1>2
  <1>5. line.cmd = t.cmd /\ line.auth = AuthOf(t)
    BY <1>3
  <1>6. /\ t.cmd.op # "replicaaccept" /\ UNCHANGED log /\ mixed' = mixed
        /\ tab' = [tab EXCEPT ![i] = Execute(@, line.cmd, line.auth)]
    BY <1>3, <1>4 DEF Serve
  <1>7. CASE t.cmd.op # "garbled"
    <2>1. /\ done' = [done EXCEPT ![i] = Append(@, line)]
          /\ logging' = logging \union
               {[line |-> line, route |-> t.route, nth |-> Len(done[i]) + 1]}
          /\ sends' = sends \union SendersOf(t)
      BY <1>3, <1>4, <1>7 DEF Serve, IsWrite
    <2>2. /\ done'[i] = Append(done[i], line) /\ \A j \in Nodes : j # i => done'[j] = done[j]
      BY <1>2, <2>1
    <2>3. /\ tab'[i] = Execute(tab[i], line.cmd, line.auth)
          /\ \A j \in Nodes : j # i => tab'[j] = tab[j]
      BY <1>2, <1>6
    <2> QED BY <1>3, <1>4, <1>6, <1>7, <2>1, <2>2, <2>3
  <1>8. CASE t.cmd.op = "garbled"
    <2>1. UNCHANGED <<done, logging, sends>>
      BY <1>8 DEF Serve, IsWrite
    <2>2. ~Admits(tab[i], line.cmd, line.auth)
      BY <1>5, <1>8 DEF Admits
    <2>3. Execute(tab[i], line.cmd, line.auth) = tab[i]
      BY <2>2 DEF Execute
    <2>4. tab' = tab
      BY <1>2, <1>6, <2>3
    <2> QED BY <1>3, <1>4, <1>6, <1>8, <2>1, <2>4
  <1> QED BY <1>7, <1>8

\* What a thread does that appends to the log: its client's record is not freed.
LEMMA Appends ==
    ASSUME Base, NEW g \in logging, LogAppend(g)
    PROVE  \E i \in Nodes :
             /\ i = At(g.route) /\ g.line \in Line /\ logging' = logging \ {g}
             /\ log'[i] = Append(log[i], g.line) /\ \A j \in Nodes : j # i => log'[j] = log[j]
             /\ UNCHANGED <<size, socks, calls, mixed, out, work, sends, tab, done>>
  <1>1. TypeOK /\ Underway /\ Memory
    BY DEF Base
  <1>2. g \in [line : Line, route : Seq(Nodes), nth : Nat] /\ Logged(g)
    BY <1>1 DEF TypeOK, Underway
  <1>3. PICK i \in Nodes : i = At(g.route)
    BY <1>2 DEF Logged
  <1>4. ~(FromClient(g.route) /\ calls[g.line.cmd.of].by \in closed)
    <2>1. SUFFICES ASSUME FromClient(g.route) PROVE calls[g.line.cmd.of].by \notin closed
      OBVIOUS
    <2>2. g.line.cmd.of \in DOMAIN calls
      BY <1>2, <2>1 DEF Logged
    <2>3. calls[g.line.cmd.of] \in Issued
      BY <1>1, <2>2 DEF TypeOK
    <2>4. calls[g.line.cmd.of].by \in Clients
      BY <2>3 DEF Issued
    <2> QED BY <1>1, <2>4, ClientsAssumption DEF Memory
  <1>5. log' = [log EXCEPT ![i] = Append(@, g.line)]
    BY <1>3, <1>4 DEF LogAppend
  <1>6. log \in [Nodes -> Seq(Line)]
    BY <1>1 DEF TypeOK
  <1>7. log'[i] = Append(log[i], g.line) /\ \A j \in Nodes : j # i => log'[j] = log[j]
    BY <1>5, <1>6
  <1>8. UNCHANGED <<size, socks, calls, mixed, out, work, sends, tab, done>> /\ logging' = logging \ {g}
    BY DEF LogAppend
  <1> QED BY <1>2, <1>3, <1>7, <1>8

-----------------------------------------------------------------------------
(* Tables and logs, step by step                                           *)

LEMMA ServeCounted ==
    ASSUME Base, Rebuilt, Counted, NEW t \in work, Serve(t)
    PROVE  Rebuilt' /\ Counted'
  <1>0. TypeOK
    BY DEF Base
  <1>1. /\ log \in [Nodes -> Seq(Line)] /\ done \in [Nodes -> Seq(Line)]
        /\ logging \subseteq [line : Line, route : Seq(Nodes), nth : Nat]
    BY <1>0 DEF TypeOK
  <1>2. PICK i \in Nodes, line \in Line :
             /\ i = At(t.route) /\ line = [cmd |-> t.cmd, auth |-> AuthOf(t)]
             /\ t.cmd.op # "replicaaccept" /\ UNCHANGED log /\ mixed' = mixed
             /\ \/ /\ t.cmd.op # "garbled"
                   /\ tab'[i] = Execute(tab[i], line.cmd, line.auth)
                   /\ \A j \in Nodes : j # i => tab'[j] = tab[j]
                   /\ done'[i] = Append(done[i], line)
                   /\ \A j \in Nodes : j # i => done'[j] = done[j]
                   /\ logging' = logging \union
                        {[line |-> line, route |-> t.route, nth |-> Len(done[i]) + 1]}
                   /\ sends' = sends \union SendersOf(t)
                \/ t.cmd.op = "garbled" /\ UNCHANGED <<tab, done, logging, sends>>
    BY Serves
  <1>3. CASE t.cmd.op = "garbled"
    <2>1. UNCHANGED <<tab, done, logging, log>>
      BY <1>2, <1>3
    <2> QED BY <2>1 DEF Rebuilt, Counted, LoggingAt, Pending
  <1>4. CASE t.cmd.op # "garbled"
    <2> DEFINE g == [line |-> line, route |-> t.route, nth |-> Len(done[i]) + 1]
    <2>1. /\ tab'[i] = Execute(tab[i], line.cmd, line.auth)
          /\ \A j \in Nodes : j # i => tab'[j] = tab[j]
          /\ done'[i] = Append(done[i], line)
          /\ \A j \in Nodes : j # i => done'[j] = done[j]
          /\ logging' = logging \union {g} /\ log' = log
      BY <1>2, <1>4
    <2>2. done[i] \in Seq(Line) /\ Len(done[i]) \in Nat /\ Len(done'[i]) = Len(done[i]) + 1
      BY <1>1, <2>1
    <2>3. g.line = line /\ At(g.route) = i /\ g.nth = Len(done[i]) + 1
      BY <1>2
    <2> HIDE DEF g
    <2>4. Rebuilt'
      <3>1. tab'[i] = Replay(done'[i])
        BY <2>1, <2>2, ReplayAppend DEF Rebuilt
      <3> QED BY <2>1, <3>1 DEF Rebuilt
    <2>5. g \notin logging
      <3>1. SUFFICES ASSUME g \in logging PROVE FALSE
        OBVIOUS
      <3>2. g.nth <= Len(done[i])
        BY <2>3, <3>1 DEF Counted, LoggingAt
      <3> QED BY <2>2, <2>3, <3>2
    <2>6. LoggingAt(i)' = LoggingAt(i) \union {g} /\ \A j \in Nodes : j # i => LoggingAt(j)' = LoggingAt(j)
      BY <2>1, <2>3 DEF LoggingAt
    <2>7. IsFiniteSet(logging')
      BY <2>1, FS_AddElement DEF Counted
    <2>8. ASSUME NEW j \in Nodes PROVE \A x \in LoggingAt(j)' : x.nth <= Len(done'[j])
      <3>1. CASE j = i
        <4>1. \A x \in LoggingAt(i) : x.nth \in Nat /\ x.nth <= Len(done[i])
          BY <1>1 DEF Counted, LoggingAt
        <4> QED BY <2>2, <2>3, <2>6, <3>1, <4>1
      <3>2. CASE j # i
        BY <2>1, <2>6, <3>2 DEF Counted
      <3> QED BY <3>1, <3>2
    <2>9. ASSUME NEW j \in Nodes, NEW l \in Line
          PROVE  Occurs(done'[j], l) = Occurs(log'[j], l) + Cardinality(Pending(j, l)')
      <3>0. Occurs(done[j], l) = Occurs(log[j], l) + Cardinality(Pending(j, l))
        BY DEF Counted
      <3>1. CASE j # i
        <4>1. Pending(j, l)' = Pending(j, l)
          BY <2>6, <3>1 DEF Pending
        <4> QED BY <2>1, <3>0, <3>1, <4>1
      <3>2. CASE j = i /\ l # line
        <4>1. Pending(j, l)' = Pending(j, l)
          BY <2>3, <2>6, <3>2 DEF Pending
        <4>2. Occurs(Append(done[i], line), l) = Occurs(done[i], l)
          BY <2>2, <3>2, OccursAppend
        <4>3. Occurs(done'[j], l) = Occurs(done[j], l)
          BY <2>1, <3>2, <4>2
        <4> QED BY <2>1, <3>0, <4>1, <4>3
      <3>3. CASE j = i /\ l = line
        <4>1. Pending(j, l)' = Pending(j, l) \union {g}
          BY <2>3, <2>6, <3>3 DEF Pending
        <4>2. g \notin Pending(j, l) /\ Pending(j, l) \subseteq logging
          BY <2>5 DEF Pending, LoggingAt
        <4>3. IsFiniteSet(Pending(j, l))
          BY <4>2, FS_Subset DEF Counted
        <4>4. Cardinality(Pending(j, l)') = Cardinality(Pending(j, l)) + 1
          BY <4>1, <4>2, <4>3, FS_AddElement
        <4>5. Occurs(done'[j], l) = Occurs(done[j], l) + 1 /\ Occurs(done[j], l) \in Nat
          <5>1. /\ Occurs(Append(done[i], line), l) = Occurs(done[i], l) + 1
                /\ Occurs(done[i], l) \in Nat
            BY <2>2, <3>3, OccursAppend
          <5> QED BY <2>1, <3>3, <5>1
        <4>6. Occurs(log[j], l) \in Nat /\ log'[j] = log[j]
          BY <1>1, <2>1, OccursAppend
        <4>7. Cardinality(Pending(j, l)) \in Nat
          BY <4>3, FS_CardinalityType
        <4> QED BY <3>0, <4>4, <4>5, <4>6, <4>7
      <3> QED BY <3>1, <3>2, <3>3
    <2> QED BY <2>4, <2>7, <2>8, <2>9 DEF Counted
  <1> QED BY <1>3, <1>4

LEMMA AppendCounted ==
    ASSUME Base, Rebuilt, Counted, NEW g \in logging, LogAppend(g)
    PROVE  Rebuilt' /\ Counted'
  <1>1. log \in [Nodes -> Seq(Line)] /\ done \in [Nodes -> Seq(Line)]
    BY DEF Base, TypeOK
  <1>2. PICK i \in Nodes :
          /\ i = At(g.route) /\ g.line \in Line /\ logging' = logging \ {g}
          /\ log'[i] = Append(log[i], g.line) /\ \A j \in Nodes : j # i => log'[j] = log[j]
          /\ UNCHANGED <<size, socks, calls, mixed, out, work, sends, tab, done>>
    BY Appends
  <1>3. Rebuilt'
    BY <1>2 DEF Rebuilt
  <1>4. IsFiniteSet(logging')
    BY <1>2, FS_Subset DEF Counted
  <1>5. \A j \in Nodes : LoggingAt(j)' = LoggingAt(j) \ {g}
    BY <1>2 DEF LoggingAt
  <1>6. \A j \in Nodes : \A x \in LoggingAt(j)' : x.nth <= Len(done'[j])
    BY <1>2, <1>5 DEF Counted
  <1>7. ASSUME NEW j \in Nodes, NEW l \in Line
        PROVE  Occurs(done'[j], l) = Occurs(log'[j], l) + Cardinality(Pending(j, l)')
    <2>0. Occurs(done[j], l) = Occurs(log[j], l) + Cardinality(Pending(j, l)) /\ done' = done
      BY <1>2 DEF Counted
    <2>1. Pending(j, l)' = Pending(j, l) \ {g} /\ (g \in Pending(j, l) <=> j = i /\ l = g.line)
      BY <1>2, <1>5 DEF Pending, LoggingAt
    <2>2. IsFiniteSet(Pending(j, l))
      <3>1. Pending(j, l) \subseteq logging
        BY DEF Pending, LoggingAt
      <3> QED BY <3>1, FS_Subset DEF Counted
    <2>3. CASE ~(j = i /\ l = g.line)
      <3>1. Pending(j, l)' = Pending(j, l)
        BY <2>1, <2>3
      <3>2. Occurs(log'[j], l) = Occurs(log[j], l)
        <4>1. CASE j = i
          <5>1. Occurs(Append(log[i], g.line), l) = Occurs(log[i], l)
            BY <1>1, <1>2, <2>3, <4>1, OccursAppend
          <5> QED BY <1>2, <4>1, <5>1
        <4>2. CASE j # i
          BY <1>2, <4>2
        <4> QED BY <4>1, <4>2
      <3> QED BY <2>0, <3>1, <3>2
    <2>4. CASE j = i /\ l = g.line
      <3>1. g \in Pending(j, l) /\ Pending(j, l)' = Pending(j, l) \ {g}
        BY <2>1, <2>4
      <3>2. Cardinality(Pending(j, l)') = Cardinality(Pending(j, l)) - 1
        BY <2>2, <3>1, FS_RemoveElement
      <3>3. Occurs(log'[j], l) = Occurs(log[j], l) + 1 /\ Occurs(log[j], l) \in Nat
        <4>1. /\ Occurs(Append(log[i], g.line), l) = Occurs(log[i], l) + 1
              /\ Occurs(log[i], l) \in Nat
          BY <1>1, <1>2, <2>4, OccursAppend
        <4> QED BY <1>2, <2>4, <4>1
      <3>4. Cardinality(Pending(j, l)) \in Nat
        BY <2>2, FS_CardinalityType
      <3> QED BY <2>0, <3>2, <3>3, <3>4
    <2> QED BY <2>3, <2>4
  <1> QED BY <1>3, <1>4, <1>6, <1>7 DEF Counted

\* All other steps leave tables, logs and their threads alone.
LEMMA Leaves ==
    ASSUME Next
    PROVE  \/ UNCHANGED <<tab, done, log, logging>>
           \/ \E t \in work : Serve(t)
           \/ \E g \in logging : LogAppend(g)
  <1>1. CASE Build
    BY <1>1 DEF Build, SetNumber, AddReplica, Greet
  <1>2. ASSUME NEW c \in Clients, Client(c) PROVE UNCHANGED <<tab, done, log, logging>>
    BY <1>2 DEF Client, Call, Leave
  <1>3. ASSUME NEW p \in Pairs, Socket(p) PROVE UNCHANGED <<tab, done, log, logging>>
    BY <1>3 DEF Socket, Receive
  <1>4. ASSUME NEW i \in Nodes, Threads(i)
        PROVE  \/ UNCHANGED <<tab, done, log, logging>>
               \/ \E t \in work : Serve(t)
               \/ \E g \in logging : LogAppend(g)
    <2>1. ASSUME NEW t \in work, Obey(t) PROVE UNCHANGED <<tab, done, log, logging>>
      BY <2>1 DEF Obey
    <2>2. ASSUME NEW s \in sends, Send(s) PROVE UNCHANGED <<tab, done, log, logging>>
      BY <2>2 DEF Send
    <2> QED BY <1>4, <2>1, <2>2 DEF Threads
  <1>5. CASE Over
    BY <1>5 DEF Over, vars
  <1> QED BY <1>1, <1>2, <1>3, <1>4, <1>5 DEF Next

LEMMA NextCounted == Base /\ Rebuilt /\ Counted /\ [Next]_vars => Rebuilt' /\ Counted'
  <1> SUFFICES ASSUME Base, Rebuilt, Counted, [Next]_vars PROVE Rebuilt' /\ Counted'
    OBVIOUS
  <1>1. CASE UNCHANGED <<tab, done, log, logging>>
    BY <1>1 DEF Rebuilt, Counted, LoggingAt, Pending
  <1>2. vars' = vars => UNCHANGED <<tab, done, log, logging>>
    BY DEF vars
  <1> QED BY <1>1, <1>2, Leaves, ServeCounted, AppendCounted

LEMMA InitCounted == Init => Rebuilt /\ Counted
  <1> SUFFICES ASSUME Init PROVE Rebuilt /\ Counted
    OBVIOUS
  <1>1. \A i \in Nodes : done[i] = <<>> /\ log[i] = <<>> /\ tab[i] = EmptyTable
    BY DEF Init
  <1>2. logging = {} /\ \A i : LoggingAt(i) = {}
    BY DEF Init, LoggingAt
  <1>3. Rebuilt
    BY <1>1, ReplayNone DEF Rebuilt
  <1>4. Cardinality({}) = 0 /\ IsFiniteSet({})
    BY FS_EmptySet
  <1>5. \A i, l : Pending(i, l) = {}
    BY <1>2 DEF Pending
  <1>6. ASSUME NEW i \in Nodes, NEW l \in Line
        PROVE  Occurs(done[i], l) = Occurs(log[i], l) + Cardinality(Pending(i, l))
    <2>1. done[i] = log[i] /\ {x \in DOMAIN done[i] : done[i][x] = l} = {}
      BY <1>1
    <2>2. Occurs(done[i], l) = 0 /\ Occurs(log[i], l) = 0
      BY <1>4, <2>1 DEF Occurs
    <2> QED BY <1>4, <1>5, <2>2
  <1>7. Counted
    BY <1>1, <1>2, <1>4, <1>5, <1>6 DEF Counted
  <1> QED BY <1>3, <1>7

-----------------------------------------------------------------------------
(* As long as the writes come one by one                                   *)

\* What server i executes of write n, and of the first m of them.
LineOf(i, n) == [cmd |-> calls[n].cmd, auth |-> IF From(n) = i THEN Level[calls[n].by] ELSE 0]
Seen(i, m) == [n \in 1..m |-> LineOf(i, n)]

Numbered == \A n \in 1..Len(calls) : calls[n].cmd.of = n /\ calls[n].cmd.op \in {"make", "del"}

\* Whatever is under way belongs to the last write, as its client sent it ...
Current(cmd) == cmd.of = Len(calls) /\ (calls # <<>> => cmd = calls[Len(calls)].cmd)

\* ... and a replica has it from the server of that client.
Direct(t) ==
    /\ Current(t.cmd)
    /\ calls # <<>> /\ ~FromClient(t.route) => Via(t.route)[1] = From(Len(calls))

\* The log lacks at most the line that the one thread of its server is about to append.
Lone(i) ==
    \/ LoggingAt(i) = {} /\ log[i] = done[i]
    \/ \E g \in logging : /\ LoggingAt(i) = {g} /\ g.line.cmd.of = Len(calls)
                          /\ done[i] = Append(log[i], g.line)

\* The server has done all writes, or all but the last ...
Caught(i) ==
    \/ done[i] = Seen(i, Len(calls))
    \/ calls # <<>> /\ DoneAt(Len(calls), i) = {} /\ done[i] = Seen(i, Len(calls) - 1)

\* ... of which there is a trace for it.
Reached(n, j) == SendsTo(n, j) # {} \/ FliesTo(n, j) # {} \/ WorksAt(n, j) # {} \/ DoneAt(n, j) # {}
Reaching(n) == Waits(n) \/ \A j \in Members : Reached(n, j)

Tidy ==
    /\ \A n \in 1..Len(calls) : calls[n].safe
    /\ \A t \in work : Direct(t)
    /\ \A s \in sends : Current(s.text.cmd)
    /\ \A p \in Pairs : \A t \in Items(out[p]) : Current(t.cmd)
    /\ \A i \in Nodes : Lone(i)
    /\ \A i \in Members : Caught(i)
    /\ calls # <<>> => Reaching(Len(calls))

LEMMA LastIs ==
    ASSUME IInv, Numbered, Tidy, calls # <<>>, NEW n, n = Len(calls)
    PROVE  /\ n \in 1..Len(calls) /\ n \in Nat /\ n >= 1 /\ calls[n].safe /\ Ready /\ Built /\ Single(n)
           /\ calls[n].cmd.of = n /\ calls[n].cmd.op \in {"make", "del"} /\ Reaching(n)
           /\ From(n) \in Members /\ From(n) \in Nodes
           /\ \A cmd : Current(cmd) => cmd = calls[n].cmd
  <1>1. calls \in Seq(Issued)
    BY DEF IInv, Base, TypeOK
  <1>2. n \in Nat /\ n # 0 /\ n \in 1..Len(calls)
    BY <1>1
  <1>3. calls[n].safe /\ calls[n].cmd.of = n /\ calls[n].cmd.op \in {"make", "del"} /\ Reaching(n)
    BY <1>2 DEF Tidy, Numbered
  <1>4. \A cmd : Current(cmd) => cmd = calls[n].cmd
    BY DEF Current
  <1> QED BY <1>2, <1>3, <1>4, SafeFacts

\* replica_sock of a server has each other one.
LEMMA SocksAll ==
    ASSUME IInv, NEW n \in 1..Len(calls), calls[n].safe, NEW j \in Members, j # From(n)
    PROVE  \E x \in 1..(size - 1) : socks[From(n)][x] = j
  <1> DEFINE h == From(n)
             S == 1..(size - 1)
             T == (Members \ {h}) \ {j}
             f == [x \in S |-> socks[h][x]]
  <1>1. /\ TypeOK /\ h \in Members /\ socks[h] \in Seq(Members) /\ Len(socks[h]) = size - 1
        /\ \A x \in S : socks[h][x] # h
        /\ \A x, y \in S : socks[h][x] = socks[h][y] => x = y
    BY SafeFacts
  <1>2. size \in Nat \ {0}
    BY <1>1, Sizing
  <1>3. SUFFICES ASSUME \A x \in S : socks[h][x] # j PROVE FALSE
    OBVIOUS
  <1>4. f \in [S -> T]
    BY <1>1, <1>3
  <1>5. IsFiniteSet(Members) /\ Cardinality(Members) = size
    <2>1. 0 \in Int /\ size - 1 \in Int /\ 0 <= size - 1 + 1 /\ (size - 1) - 0 + 1 = size
      BY <1>2
    <2>2. ~(0 > size - 1)
      BY <1>2
    <2>3. /\ IsFiniteSet(0..(size - 1))
          /\ Cardinality(0..(size - 1)) = IF 0 > size - 1 THEN 0 ELSE (size - 1) - 0 + 1
      BY <2>1, FS_Interval
    <2> QED BY <2>1, <2>2, <2>3 DEF Members
  <1>6. IsFiniteSet(S) /\ Cardinality(S) = size - 1
    <2>1. 1 \in Int /\ size - 1 \in Int
      BY <1>2
    <2>2. IsFiniteSet(S) /\ Cardinality(S) = IF 1 > size - 1 THEN 0 ELSE (size - 1) - 1 + 1
      BY <2>1, FS_Interval
    <2> QED BY <1>2, <2>2
  <1>7. IsFiniteSet(Members \ {h}) /\ Cardinality(Members \ {h}) = size - 1
    BY <1>1, <1>5, FS_RemoveElement
  <1>8. IsFiniteSet(T) /\ Cardinality(T) = (size - 1) - 1
    <2>1. j \in Members \ {h}
      OBVIOUS
    <2> QED BY <1>7, <2>1, FS_RemoveElement
  <1>9. Cardinality(T) < Cardinality(S)
    BY <1>2, <1>6, <1>8
  <1>10. \A x \in S : f[x] = socks[h][x]
    OBVIOUS
  <1> HIDE DEF S, T, f
  <1>11. \E x, y \in S : x # y /\ f[x] = f[y]
    BY <1>4, <1>6, <1>8, <1>9, FS_PigeonHole
  <1> QED BY <1>1, <1>10, <1>11

\* No new write.
LEMMA SameWrites ==
    ASSUME UNCHANGED calls
    PROVE  /\ \A cmd : Current(cmd)' = Current(cmd)
           /\ \A t : Direct(t)' = Direct(t)
           /\ \A i, m : Seen(i, m)' = Seen(i, m)
           /\ UNCHANGED done => \A i : Caught(i)' = Caught(i)
           /\ UNCHANGED <<logging, log, done>> => \A i : Lone(i)' = Lone(i)
  <1>1. \A cmd : Current(cmd)' = Current(cmd)
    BY DEF Current
  <1>2. \A t : Direct(t)' = Direct(t)
    BY <1>1 DEF Direct, From
  <1>3. \A i, m : Seen(i, m)' = Seen(i, m)
    BY DEF Seen, LineOf, From
  <1>4. UNCHANGED done => \A i : Caught(i)' = Caught(i)
    BY <1>3 DEF Caught, DoneAt
  <1>5. UNCHANGED <<logging, log, done>> => \A i : Lone(i)' = Lone(i)
    BY DEF Lone, LoggingAt
  <1> QED BY <1>1, <1>2, <1>3, <1>4, <1>5

\* It is enough to look at what is new.
LEMMA TidyStep ==
    ASSUME Tidy, UNCHANGED <<size, calls>>,
           \A t \in work' : t \in work \/ Direct(t),
           \A s \in sends' : s \in sends \/ Current(s.text.cmd),
           \A p \in Pairs : \A t \in Items(out'[p]) : t \in Items(out[p]) \/ Current(t.cmd),
           \A i \in Nodes : Lone(i)', \A i \in Members : Caught(i)',
           calls # <<>> => Reaching(Len(calls))'
    PROVE  Tidy'
  <1>1. Members' = Members
    BY DEF Members
  <1>2. \A t \in work' : Direct(t)'
    BY SameWrites DEF Tidy
  <1>3. /\ \A s \in sends' : Current(s.text.cmd)'
        /\ \A p \in Pairs : \A t \in Items(out'[p]) : Current(t.cmd)'
    BY SameWrites DEF Tidy
  <1> QED BY <1>1, <1>2, <1>3 DEF Tidy

\* The builder goes on: nobody has sent a command yet.
LEMMA BuildTidy ==
    ASSUME IInv, Numbered, Tidy, SetNumber \/ AddReplica \/ Greet
    PROVE  Tidy'
  <1>1. ~Built /\ UNCHANGED <<size, calls, work, sends, logging, log, done>>
    BY DEF SetNumber, AddReplica, Greet
  <1>2. calls = <<>>
    BY <1>1, LastIs
  <1>3. \A i \in Nodes : Lone(i)'
    BY <1>1, SameWrites DEF Tidy
  <1>4. \A i \in Members : Caught(i)'
    BY <1>1, SameWrites DEF Tidy
  <1>5. \A p \in Pairs : \A t \in Items(out'[p]) : t \in Items(out[p]) \/ Current(t.cmd)
    <2>1. CASE UNCHANGED out
      BY <2>1
    <2>2. CASE Greet
      <3>1. TypeOK /\ Progress
        BY DEF IInv, Base
      <3>2. /\ tell[1] \in Members /\ tell[2] - 1 \in Members /\ tell[1] # tell[2] - 1
        BY <1>1, <2>2, <3>1, Sizing DEF Progress, Built, Nodes, Members, Greet
      <3>3. PICK p \in MemberPairs : p = <<tell[1], tell[2] - 1>>
        BY <3>2 DEF MemberPairs
      <3>4. p \in Pairs /\ p \in Seq(Nodes)
        BY <3>1, <3>3, Sizing DEF MemberPairs, Pairs
      <3>5. PICK t : t = [cmd |-> Accept, route |-> p]
        OBVIOUS
      <3>6. t \in Text /\ t.cmd = Accept
        BY <3>4, <3>5 DEF Text, Command, Accept, Forms
      <3>7. out' = [out EXCEPT ![p] = Append(@, t)]
        BY <2>2, <3>3, <3>5 DEF Greet
      <3>8. out \in [Pairs -> Seq(Text)]
        BY <3>1 DEF TypeOK
      <3>9. Items(out'[p]) = Items(out[p]) \union {t} /\ \A q \in Pairs : q # p => out'[q] = out[q]
        BY <3>4, <3>6, <3>7, <3>8, ItemsAppend
      <3>10. Current(t.cmd)
        BY <1>2, <3>6 DEF Current, Accept
      <3> QED BY <3>9, <3>10
    <2>3. CASE SetNumber \/ AddReplica
      BY <2>3 DEF SetNumber, AddReplica
    <2> QED BY <2>2, <2>3
  <1> QED BY <1>1, <1>2, <1>3, <1>4, <1>5, TidyStep

\* A replica accepts: nobody has sent a command yet.
LEMMA ObeyTidy ==
    ASSUME IInv, Numbered, Tidy, NEW t \in work, Obey(t)
    PROVE  Tidy'
  <1>1. /\ UNCHANGED <<size, calls, sends, out, logging, log, done>> /\ work' \subseteq work
        /\ t.cmd.op = "replicaaccept"
    BY DEF Obey
  <1>2. calls = <<>>
    <2>1. Current(t.cmd)
      BY DEF Tidy, Direct
    <2> QED BY <1>1, <2>1, LastIs
  <1>3. \A i \in Nodes : Lone(i)'
    BY <1>1, SameWrites DEF Tidy
  <1>4. \A i \in Members : Caught(i)'
    BY <1>1, SameWrites DEF Tidy
  <1>5. \A p \in Pairs : Items(out'[p]) = Items(out[p])
    BY <1>1
  <1> QED BY <1>1, <1>2, <1>3, <1>4, <1>5, TidyStep

\* What a sequence that has one item makes of itself.
LEMMA OnlyOne ==
    ASSUME NEW s \in Seq(Text), NEW k \in 1..Len(s), NEW n, AtMostOne(Positions(s, n)),
           \A t \in Items(s) : t.cmd.of = n
    PROVE  Len(s) = 1 /\ Merged(SubSeq(s, 1, k)) = s[1]
  <1>1. Len(s) \in Nat /\ Len(s) >= 1
    OBVIOUS
  <1>2. \A x \in 1..Len(s) : x \in Positions(s, n)
    BY DEF Positions, Items
  <1>3. Len(s) = 1 /\ k = 1
    <2>1. PICK m \in Nat : m = Len(s) /\ m \in 1..Len(s) /\ 1 \in 1..Len(s)
      BY <1>1
    <2>2. m \in Positions(s, n) /\ 1 \in Positions(s, n)
      BY <1>2, <2>1
    <2>3. m = 1
      BY <2>2 DEF AtMostOne
    <2> QED BY <2>1, <2>3
  <1>4. Len(SubSeq(s, 1, k)) = 1 /\ Head(SubSeq(s, 1, k)) = s[1]
    <2>1. Len(SubSeq(s, 1, k)) = k
      BY SubSeqProperties
    <2> QED BY <1>3, <2>1, ItemsFirst
  <1> QED BY <1>3, <1>4 DEF Merged

LEMMA ReachingSame ==
    ASSUME UNCHANGED <<size, calls, socks, work, sends, out, done>>, NEW n
    PROVE  Reaching(n)' = Reaching(n)
  <1>1. \A j : Reached(n, j)' = Reached(n, j)
    BY DEF Reached, SendsTo, FliesTo, WorksAt, DoneAt, From
  <1>2. Waits(n)' = Waits(n) /\ Members' = Members
    BY DEF Waits, Members
  <1> QED BY <1>1, <1>2 DEF Reaching

\* What a server reads is what was sent (server_task).
LEMMA ReceiveTidy ==
    ASSUME IInv, Numbered, Tidy, NEW p \in Pairs, Receive(p)
    PROVE  Tidy'
  <1>0. TypeOK /\ Base /\ Underway
    BY DEF IInv, Base
  <1>1. UNCHANGED <<size, socks, calls, sends, logging, log, done>>
    BY DEF Receive
  <1>2. PICK k \in 1..Len(out[p]) :
          /\ work' = work \union {Merged(SubSeq(out[p], 1, k))}
          /\ out' = [out EXCEPT ![p] = SubSeq(@, k + 1, Len(@))]
    BY DEF Receive
  <1>3. out \in [Pairs -> Seq(Text)] /\ out[p] \in Seq(Text)
    BY <1>0 DEF TypeOK
  <1>4. PICK t \in Text : t = out[p][1]
    BY <1>2, <1>3
  <1> DEFINE new == Merged(SubSeq(out[p], 1, k))
  <1>5. new.cmd.of = t.cmd.of /\ t \in Items(out[p])
    <2>1. /\ SubSeq(out[p], 1, k) \in Seq(Text) /\ SubSeq(out[p], 1, k) # <<>>
          /\ Head(SubSeq(out[p], 1, k)) = t /\ t \in Items(out[p])
      BY <1>2, <1>3, <1>4, ItemsFirst
    <2> QED BY <2>1, MergedText
  <1>6. /\ Items(out'[p]) \subseteq Items(out[p]) /\ \A q \in Pairs : q # p => out'[q] = out[q]
    <2>1. Items(SubSeq(out[p], k + 1, Len(out[p]))) \subseteq Items(out[p])
      BY <1>3, ItemsRest
    <2> QED BY <1>2, <1>3, <2>1
  <1>7. Current(t.cmd) /\ OnWire(t, p)
    BY <1>0, <1>5 DEF Tidy, Underway
  <1>8. /\ \A i \in Nodes : Lone(i)'
        /\ \A i \in Members : Caught(i)'
    BY <1>1, SameWrites DEF Tidy
  <1> HIDE DEF new
  <1>9. work' = work \union {new}
    BY <1>2 DEF new
  <1>10. CASE calls = <<>>
    <2>1. Direct(new)
      BY <1>5, <1>7, <1>10 DEF Direct, Current
    <2> QED BY <1>1, <1>6, <1>8, <1>9, <1>10, <2>1, TidyStep
  <1>11. CASE calls # <<>>
    <2>0. PICK n \in Nat : n = Len(calls)
      BY <1>11, LastIs
    <2> DEFINE h == From(n)
               to == p[2]
    <2>1. /\ n \in 1..Len(calls) /\ Single(n) /\ Reaching(n) /\ h \in Nodes /\ h \in Members
          /\ \A cmd : Current(cmd) => cmd.of = n
      BY <1>11, <2>0, LastIs
    <2>2. \A u \in Items(out[p]) : u.cmd.of = n
      BY <2>1 DEF Tidy
    <2>3. p[1] = h /\ to \in Nodes
      BY <1>5, <2>1, <2>2 DEF Single, Starts, Pairs
    <2>4. FliesTo(n, to) = Positions(out[p], n) /\ p = <<h, to>> /\ to # h
      BY <2>1, <2>3, FliesIs DEF Pairs
    <2>5. AtMostOne(Positions(out[p], n)) /\ FliesTo(n, to) # {}
      <3>1. Once(n, to)
        BY <2>1, <2>3 DEF Single
      <3>2. 1 \in Positions(out[p], n)
        BY <1>2, <1>3, <1>4, <1>5, <2>2 DEF Positions
      <3> QED BY <2>4, <3>1, <3>2 DEF Once, OneOf
    <2>6. new = t
      <3>1. Len(out[p]) = 1 /\ Merged(SubSeq(out[p], 1, k)) = out[p][1]
        BY <1>3, <2>2, <2>5, OnlyOne
      <3> QED BY <1>4, <3>1 DEF new
    <2>7. ~FromClient(t.route) /\ Via(t.route) = p /\ At(t.route) = to
      BY <1>0, <1>7, RouteEnds DEF OnWire
    <2>8. Direct(new)
      BY <1>7, <2>0, <2>3, <2>6, <2>7 DEF Direct
    <2>9. ~Waits(n)
      BY <2>1, <2>3, <2>5 DEF Single, Starts
    <2>10. ASSUME NEW j \in Members PROVE Reached(n, j)'
      <3>1. Reached(n, j)
        BY <2>1, <2>9 DEF Reaching
      <3>2. CASE j = to
        <4>1. t \in WorksAt(n, j)'
          BY <1>5, <1>9, <2>2, <2>6, <2>7, <3>2 DEF WorksAt
        <4> QED BY <4>1 DEF Reached
      <3>3. CASE j # to
        <4>1. WorksAt(n, j) \subseteq WorksAt(n, j)'
          BY <1>9 DEF WorksAt
        <4>2. SendsTo(n, j)' = SendsTo(n, j) /\ DoneAt(n, j)' = DoneAt(n, j) /\ From(n)' = From(n)
          BY <1>1 DEF SendsTo, DoneAt, From
        <4>3. FliesTo(n, j)' = FliesTo(n, j)
          <5>1. CASE j = h
            BY <4>2, <5>1 DEF FliesTo
          <5>2. CASE j # h
            <6>1. j \in Nodes
              BY <1>0, Sizing
            <6>2. PICK q \in Pairs : q = <<h, j>>
              BY <2>1, <5>2, <6>1 DEF Pairs
            <6>3. q # p
              BY <2>4, <3>3, <6>2
            <6>4. out'[q] = out[q]
              BY <1>6, <6>3
            <6> QED BY <4>2, <5>2, <6>2, <6>4 DEF FliesTo
          <5> QED BY <5>1, <5>2
        <4> QED BY <3>1, <4>1, <4>2, <4>3 DEF Reached
      <3> QED BY <3>2, <3>3
    <2>11. Reaching(n)'
      <3>1. Members' = Members
        BY <1>1 DEF Members
      <3> QED BY <2>10, <3>1 DEF Reaching
    <2>12. calls # <<>> => Reaching(Len(calls))'
      BY <1>1, <2>0, <2>11
    <2> QED BY <1>1, <1>6, <1>8, <1>9, <2>8, <2>12, TidyStep
  <1> QED BY <1>10, <1>11

\* What a server sends is what it was sent, and it has a socket for it (auto_send_each).
LEMMA SendTidy ==
    ASSUME IInv, Numbered, Tidy, NEW s \in sends, Send(s)
    PROVE  Tidy'
  <1>0. TypeOK /\ Base /\ Underway
    BY DEF IInv, Base
  <1>1. /\ UNCHANGED <<size, socks, calls, work, done>> /\ sends' = sends \ {s}
        /\ s.text.cmd.of \in 1..Len(calls)
    BY SendBase
  <1>2. UNCHANGED <<logging, log>>
    BY DEF Send
  <1>3. Current(s.text.cmd) /\ Sender(s) /\ s.x \in Nat /\ s.x >= 1
    BY <1>0 DEF Tidy, Underway, TypeOK
  <1>4. PICK n \in Nat : n = Len(calls) /\ calls # <<>> /\ n \in 1..Len(calls) /\ s.text.cmd.of = n
    BY <1>0, <1>1, <1>3 DEF Current, TypeOK
  <1> DEFINE h == From(n)
  <1>5. /\ Single(n) /\ Reaching(n) /\ h \in Nodes /\ h \in Members /\ calls[n].safe
        /\ \A cmd : Current(cmd) => cmd.of = n
    BY <1>4, LastIs
  <1>6. At(s.text.route) = h /\ s.x \in 1..(size - 1) /\ s.x <= Len(socks[h])
    <2>1. At(s.text.route) = h /\ s.x <= size - 1
      BY <1>3, <1>4, <1>5 DEF Single, Starts, Sender
    <2>2. Len(socks[h]) = size - 1 /\ size \in Nat \ {0}
      BY <1>4, <1>5, SafeFacts, Sizing
    <2> QED BY <1>3, <2>1, <2>2
  <1>7. PICK p \in Pairs, t \in Text :
          /\ p[1] = h /\ p[2] = socks[h][s.x] /\ t.cmd = s.text.cmd
          /\ out' = [out EXCEPT ![p] = Append(@, t)]
    <2>1. ~(s.x > Len(socks[h]))
      BY <1>3, <1>4, <1>5, <1>6, SafeFacts, Sizing
    <2> QED BY <1>6, <2>1, SendBase
  <1> DEFINE to == p[2]
  <1>8. /\ out'[p] = Append(out[p], t) /\ out[p] \in Seq(Text)
        /\ Items(out'[p]) = Items(out[p]) \union {t} /\ \A q \in Pairs : q # p => out'[q] = out[q]
    <2>1. out \in [Pairs -> Seq(Text)]
      BY <1>0 DEF TypeOK
    <2> QED BY <1>7, <2>1, ItemsAppend
  <1>9. p = <<h, to>> /\ to # h /\ to \in Nodes
    BY <1>7 DEF Pairs
  <1>10. /\ \A i \in Nodes : Lone(i)'
         /\ \A i \in Members : Caught(i)'
    BY <1>1, <1>2, SameWrites DEF Tidy
  <1>11. \A q \in Pairs : \A u \in Items(out'[q]) : u \in Items(out[q]) \/ Current(u.cmd)
    BY <1>3, <1>7, <1>8
  <1>12. s \in SendsTo(n, to) /\ ~Waits(n)
    BY <1>4, <1>5, <1>7, <1>9 DEF SendsTo, Single, Starts
  <1>13. ASSUME NEW j \in Members PROVE Reached(n, j)'
    <2>1. Reached(n, j)
      BY <1>5, <1>12 DEF Reaching
    <2>2. From(n)' = From(n) /\ WorksAt(n, j)' = WorksAt(n, j) /\ DoneAt(n, j)' = DoneAt(n, j)
      BY <1>1 DEF From, WorksAt, DoneAt
    <2>3. CASE j = to
      <3>1. Len(out[p]) + 1 \in Positions(out'[p], n)
        <4>1. /\ Len(out'[p]) = Len(out[p]) + 1 /\ out'[p][Len(out[p]) + 1] = t
              /\ Len(out[p]) + 1 \in 1..Len(out'[p])
          BY <1>8
        <4> QED BY <1>4, <1>7, <4>1 DEF Positions
      <3>2. FliesTo(n, j)' = Positions(out'[p], n)
        BY <1>9, <2>2, <2>3 DEF FliesTo
      <3> QED BY <3>1, <3>2 DEF Reached
    <2>4. CASE j # to
      <3>1. SendsTo(n, j) \subseteq SendsTo(n, j)'
        BY <1>1, <1>7, <2>2, <2>4 DEF SendsTo
      <3>2. FliesTo(n, j)' = FliesTo(n, j)
        <4>1. CASE j = h
          BY <2>2, <4>1 DEF FliesTo
        <4>2. CASE j # h
          <5>1. j \in Nodes
            BY <1>0, Sizing
          <5>2. PICK q \in Pairs : q = <<h, j>>
            BY <1>5, <4>2, <5>1 DEF Pairs
          <5>3. q # p
            BY <1>9, <2>4, <5>2
          <5>4. out'[q] = out[q]
            BY <1>8, <5>3
          <5> QED BY <2>2, <4>2, <5>2, <5>4 DEF FliesTo
        <4> QED BY <4>1, <4>2
      <3> QED BY <2>1, <2>2, <3>1, <3>2 DEF Reached
    <2> QED BY <2>3, <2>4
  <1>14. Reaching(Len(calls))'
    <2>1. Members' = Members
      BY <1>1 DEF Members
    <2>2. Reaching(n)'
      BY <1>13, <2>1 DEF Reaching
    <2> QED BY <1>1, <1>4, <2>2
  <1> QED BY <1>1, <1>10, <1>11, <1>14, TidyStep

\* Then the log has all that was done (log_append).
LEMMA AppendTidy ==
    ASSUME IInv, Numbered, Tidy, NEW g \in logging, LogAppend(g)
    PROVE  Tidy'
  <1>1. PICK i \in Nodes :
          /\ i = At(g.route) /\ g.line \in Line /\ logging' = logging \ {g}
          /\ log'[i] = Append(log[i], g.line) /\ \A j \in Nodes : j # i => log'[j] = log[j]
          /\ UNCHANGED <<size, socks, calls, mixed, out, work, sends, tab, done>>
    BY Appends DEF IInv
  <1>2. g \in LoggingAt(i)
    BY <1>1 DEF LoggingAt
  <1>3. ASSUME NEW j \in Nodes PROVE Lone(j)'
    <2>0. Lone(j)
      BY DEF Tidy
    <2>1. CASE j = i
      <3>1. LoggingAt(i) = {g} /\ done[i] = Append(log[i], g.line)
        BY <1>2, <2>0, <2>1 DEF Lone
      <3>2. LoggingAt(i)' = {}
        BY <1>1, <3>1 DEF LoggingAt
      <3> QED BY <1>1, <2>1, <3>1, <3>2 DEF Lone
    <2>2. CASE j # i
      <3>1. LoggingAt(j)' = LoggingAt(j)
        BY <1>1, <2>2 DEF LoggingAt
      <3>2. UNCHANGED <<calls, done>> /\ log'[j] = log[j]
        BY <1>1, <2>2
      <3>3. CASE LoggingAt(j) = {} /\ log[j] = done[j]
        BY <3>1, <3>2, <3>3 DEF Lone
      <3>4. CASE \E x \in logging : /\ LoggingAt(j) = {x} /\ x.line.cmd.of = Len(calls)
                                    /\ done[j] = Append(log[j], x.line)
        <4>1. PICK x \in logging : /\ LoggingAt(j) = {x} /\ x.line.cmd.of = Len(calls)
                                   /\ done[j] = Append(log[j], x.line)
          BY <3>4
        <4>2. x \in logging'
          BY <3>1, <4>1 DEF LoggingAt
        <4> QED BY <3>1, <3>2, <4>1, <4>2 DEF Lone
      <3> QED BY <2>0, <3>3, <3>4 DEF Lone
    <2> QED BY <2>1, <2>2
  <1>4. \A j \in Members : Caught(j)'
    BY <1>1, SameWrites DEF Tidy
  <1>5. calls # <<>> => Reaching(Len(calls))'
    <2>1. PICK n : n = Len(calls)
      OBVIOUS
    <2>2. Reaching(n)' = Reaching(n)
      BY <1>1, ReachingSame
    <2> QED BY <1>1, <2>1, <2>2 DEF Tidy
  <1>6. \A p \in Pairs : Items(out'[p]) = Items(out[p])
    BY <1>1
  <1> QED BY <1>1, <1>3, <1>4, <1>5, <1>6, TidyStep

LEMMA SeenAppend ==
    ASSUME NEW i, NEW n \in Nat, n >= 1, NEW s \in Seq(Line), s = Seen(i, n - 1), NEW line, line = LineOf(i, n)
    PROVE  Append(s, line) = Seen(i, n)
  <1>1. Len(s) = n - 1 /\ DOMAIN s = 1..(n - 1) /\ \A k \in 1..(n - 1) : s[k] = LineOf(i, k)
    <2>1. DOMAIN s = 1..(n - 1) /\ \A k \in 1..(n - 1) : s[k] = LineOf(i, k)
      BY DEF Seen
    <2>2. DOMAIN s = 1..Len(s) /\ Len(s) \in Nat
      OBVIOUS
    <2>3. Len(s) = n - 1
      BY <2>1, <2>2
    <2> QED BY <2>1, <2>3
  <1> DEFINE r == [k \in 1..(Len(s) + 1) |-> IF k = Len(s) + 1 THEN line ELSE s[k]]
  <1>2. Append(s, line) = r
    OBVIOUS
  <1>3. Len(s) + 1 = n
    BY <1>1
  <1>4. \A k \in 1..n : (IF k = n THEN line ELSE s[k]) = LineOf(i, k)
    BY <1>1
  <1>5. r = [k \in 1..n |-> LineOf(i, k)]
    BY <1>3, <1>4
  <1> QED BY <1>2, <1>5 DEF Seen

\* A server executes the last write, which it has not yet done, and starts the thread for
\* its log, and a client's server the threads for all others (scan_and_send, auto_send).
LEMMA ServeTidy ==
    ASSUME IInv, Numbered, Tidy, NEW t \in work, Serve(t)
    PROVE  Tidy'
  <1>0. TypeOK /\ Base /\ Underway
    BY DEF IInv, Base
  <1>1. /\ UNCHANGED <<size, socks, calls, out, log>>
        /\ t \in Text /\ Traveled(t) /\ work' = work \ {t}
    BY <1>0, ServeBase
  <1>2. PICK i \in Nodes, line \in Line :
             /\ i = At(t.route) /\ line = [cmd |-> t.cmd, auth |-> AuthOf(t)]
             /\ t.cmd.op # "replicaaccept" /\ UNCHANGED log /\ mixed' = mixed
             /\ \/ /\ t.cmd.op # "garbled"
                   /\ tab'[i] = Execute(tab[i], line.cmd, line.auth)
                   /\ \A j \in Nodes : j # i => tab'[j] = tab[j]
                   /\ done'[i] = Append(done[i], line)
                   /\ \A j \in Nodes : j # i => done'[j] = done[j]
                   /\ logging' = logging \union
                        {[line |-> line, route |-> t.route, nth |-> Len(done[i]) + 1]}
                   /\ sends' = sends \union SendersOf(t)
                \/ t.cmd.op = "garbled" /\ UNCHANGED <<tab, done, logging, sends>>
    BY <1>0, Serves
  <1>3. Direct(t) /\ Current(t.cmd)
    BY DEF Tidy, Direct
  <1>4. \A p \in Pairs : Items(out'[p]) = Items(out[p])
    BY <1>1
  <1>5. CASE t.cmd.op = "garbled"
    <2>1. UNCHANGED <<done, logging, sends>>
      BY <1>2, <1>5
    <2>2. calls = <<>>
      BY <1>3, <1>5, LastIs
    <2>3. /\ \A j \in Nodes : Lone(j)'
          /\ \A j \in Members : Caught(j)'
      BY <1>1, <2>1, SameWrites DEF Tidy
    <2> QED BY <1>1, <1>4, <2>1, <2>2, <2>3, TidyStep
  <1>6. CASE t.cmd.op # "garbled"
    <2> DEFINE g == [line |-> line, route |-> t.route, nth |-> Len(done[i]) + 1]
    <2>1. /\ done'[i] = Append(done[i], line) /\ \A j \in Nodes : j # i => done'[j] = done[j]
          /\ logging' = logging \union {g} /\ sends' = sends \union SendersOf(t)
          /\ line.cmd = t.cmd /\ line.auth = AuthOf(t)
      BY <1>2, <1>6
    <2>2. g.line = line /\ At(g.route) = i
      BY <1>2
    <2> HIDE DEF g
    <2>3. PICK n \in Nat : n = Len(calls) /\ calls # <<>> /\ n \in 1..Len(calls) /\ n >= 1
      <3>1. t.cmd.of \in Nat /\ t.cmd.op \in {"make", "del", "refused"}
        BY <1>1, <1>2, <1>6 DEF Text, Command, Forms
      <3>2. t.cmd.of >= 1 /\ t.cmd.of = Len(calls)
        BY <1>1, <1>3, <3>1 DEF Traveled, Current
      <3>3. calls # <<>>
        BY <3>2
      <3> QED BY <3>1, <3>2, <3>3
    <2> DEFINE h == From(n)
    <2>4. /\ Single(n) /\ Reaching(n) /\ Ready /\ h \in Nodes /\ h \in Members /\ calls[n].safe
          /\ calls[n].cmd.of = n /\ t.cmd = calls[n].cmd
      BY <1>3, <2>3, LastIs
    <2>5. i \in Members /\ Len(t.route) \in Nat
      BY <1>0, <1>1, <1>2, RouteEnds
    <2>6. done[i] \in Seq(Line) /\ Len(done[i]) \in Nat /\ Len(done'[i]) = Len(done[i]) + 1
      BY <1>0, <2>1 DEF TypeOK
    <2>7. t \in WorksAt(n, i) /\ DoneAt(n, i) = {}
      <3>1. t \in WorksAt(n, i)
        BY <1>2, <2>4 DEF WorksAt
      <3>2. Once(n, i)
        BY <2>4 DEF Single
      <3> QED BY <3>1, <3>2 DEF Once, OneOf
    <2>8. LoggingAt(i) = {} /\ log[i] = done[i]
      <3>1. SUFFICES ASSUME NEW x \in logging, x.line.cmd.of = Len(calls),
                            done[i] = Append(log[i], x.line)
                     PROVE  FALSE
        BY DEF Tidy, Lone
      <3>2. log[i] \in Seq(Line) /\ x.line \in Line
        BY <1>0 DEF TypeOK
      <3>3. Len(log[i]) + 1 \in 1..Len(done[i]) /\ done[i][Len(log[i]) + 1] = x.line
        BY <3>1, <3>2
      <3> QED BY <2>3, <2>7, <3>1, <3>3 DEF DoneAt, Positions
    <2>9. ASSUME NEW j \in Nodes PROVE Lone(j)'
      <3>1. CASE j = i
        <4>1. LoggingAt(i)' = {g} /\ g \in logging'
          BY <2>1, <2>2, <2>8 DEF LoggingAt
        <4>2. g.line.cmd.of = Len(calls')
          BY <1>1, <2>1, <2>2, <2>3, <2>4
        <4>3. done'[i] = Append(log'[i], g.line)
          BY <1>1, <2>1, <2>2, <2>8
        <4> QED BY <3>1, <4>1, <4>2, <4>3 DEF Lone
      <3>2. CASE j # i
        <4>1. LoggingAt(j)' = LoggingAt(j) /\ done'[j] = done[j] /\ log'[j] = log[j] /\ calls' = calls
          BY <1>1, <2>1, <2>2, <3>2 DEF LoggingAt
        <4>2. Lone(j)
          BY DEF Tidy
        <4> QED BY <2>1, <4>1, <4>2 DEF Lone
      <3> QED BY <3>1, <3>2
    <2>10. From(n)' = From(n) /\ Members' = Members
      BY <1>1 DEF From, Members
    <2>11. line = LineOf(i, n)
      <3>1. CASE FromClient(t.route)
        <4>1. At(t.route) = Home[calls[t.cmd.of].by] /\ t.cmd.of = n
          BY <1>1, <2>4, <3>1 DEF Traveled
        <4>2. i = h /\ AuthOf(t) = Level[calls[n].by]
          BY <1>2, <3>1, <4>1 DEF From, AuthOf
        <4> QED BY <1>2, <2>4, <4>2 DEF LineOf
      <3>2. CASE ~FromClient(t.route)
        <4>1. Via(t.route) \in MemberPairs /\ Via(t.route)[2] = i /\ Via(t.route)[1] = h
          BY <1>0, <1>1, <1>2, <1>3, <2>3, <3>2, RouteEnds DEF Traveled, Direct
        <4>2. i # h /\ AuthOf(t) = 0
          BY <3>2, <4>1 DEF MemberPairs, AuthOf
        <4> QED BY <1>2, <2>4, <4>2 DEF LineOf
      <3> QED BY <3>1, <3>2
    <2>12. ASSUME NEW j \in Members PROVE Caught(j)'
      <3>0. Caught(j) /\ j \in Nodes /\ \A m : Seen(j, m)' = Seen(j, m)
        BY <1>0, <1>1, <2>5, Sizing, SameWrites DEF Tidy
      <3>1. CASE j = i
        <4>1. done[i] = Seen(i, n - 1)
          <5>1. SUFFICES ASSUME done[i] = Seen(i, n) PROVE FALSE
            BY <2>3, <3>0, <3>1 DEF Caught
          <5>2. DOMAIN done[i] = 1..n /\ done[i][n] = LineOf(i, n)
            BY <2>3, <5>1 DEF Seen
          <5>3. n \in 1..Len(done[i]) /\ done[i][n].cmd.of = n
            BY <2>3, <2>4, <2>6, <5>2 DEF LineOf
          <5> QED BY <2>7, <5>3 DEF DoneAt, Positions
        <4>2. done'[i] = Seen(i, n)
          BY <2>1, <2>3, <2>6, <2>11, <4>1, SeenAppend
        <4>3. Seen(j, Len(calls))' = Seen(i, n)
          <5>1. Seen(j, n)' = Seen(j, n)
            BY <3>0
          <5>2. Len(calls') = n
            BY <1>1, <2>3
          <5> QED BY <3>1, <5>1, <5>2
        <4> QED BY <3>1, <4>2, <4>3 DEF Caught
      <3>2. CASE j # i
        <4>1. done'[j] = done[j]
          BY <2>1, <3>0, <3>2
        <4>2. /\ Seen(j, n)' = Seen(j, n) /\ Seen(j, n - 1)' = Seen(j, n - 1)
              /\ DoneAt(n, j)' = DoneAt(n, j)
          BY <3>0, <4>1 DEF DoneAt
        <4>3. Len(calls') = n /\ calls' = calls
          BY <1>1, <2>3
        <4> QED BY <2>3, <3>0, <4>1, <4>2, <4>3 DEF Caught
      <3> QED BY <3>1, <3>2
    <2>13. DoneAt(n, i)' # {}
      <3>1. Len(done[i]) + 1 \in 1..Len(done'[i]) /\ done'[i][Len(done[i]) + 1] = line
        BY <2>1, <2>6
      <3> QED BY <2>1, <2>4, <3>1 DEF DoneAt, Positions
    <2>14. ASSUME NEW j \in Members, j # i PROVE Reached(n, j)'
      <3>1. CASE FromClient(t.route)
        <4>1. At(t.route) = h
          BY <1>1, <2>4, <3>1 DEF Traveled, From
        <4>2. PICK x \in 1..(size - 1) : socks[h][x] = j
          BY <1>2, <2>3, <2>4, <2>14, <4>1, SocksAll
        <4>3. socks[h] # NULL
          <5>1. socks[h] \in Seq(Nodes)
            BY <1>0, <2>3, <2>4, SafeFacts, Sizing
          <5> QED BY <5>1, ClientsAssumption
        <4>4. [text |-> t, x |-> x] \in SendersOf(t)
          <5>1. SendsOn(t.route) /\ Len(t.route) < MaxRoute
            BY <3>1, <4>1, <4>3, SizeAssumption DEF SendsOn, FromClient
          <5> QED BY <5>1 DEF SendersOf
        <4>5. [text |-> t, x |-> x] \in SendsTo(n, j)'
          BY <1>1, <2>1, <2>4, <2>10, <4>2, <4>4 DEF SendsTo
        <4> QED BY <4>5 DEF Reached
      <3>2. CASE ~FromClient(t.route)
        <4>1. ~Waits(n)
          BY <2>4, <2>7, <3>2 DEF Single, Starts
        <4>2. Reached(n, j) /\ j \in Nodes
          BY <1>0, <2>4, <4>1, Sizing DEF Reaching
        <4>3. /\ SendsTo(n, j) \subseteq SendsTo(n, j)' /\ FliesTo(n, j)' = FliesTo(n, j)
              /\ DoneAt(n, j)' = DoneAt(n, j)
          BY <1>1, <2>1, <2>10, <2>14, <4>2 DEF SendsTo, FliesTo, DoneAt
        <4>4. WorksAt(n, j)' = WorksAt(n, j)
          BY <1>1, <1>2, <2>14 DEF WorksAt
        <4> QED BY <4>2, <4>3, <4>4 DEF Reached
      <3> QED BY <3>1, <3>2
    <2>15. calls # <<>> => Reaching(Len(calls))'
      <3>1. \A j \in Members : Reached(n, j)'
        BY <2>13, <2>14 DEF Reached
      <3>2. Reaching(n)'
        BY <2>10, <3>1 DEF Reaching
      <3> QED BY <1>1, <2>3, <3>2
    <2>16. \A s \in sends' : s \in sends \/ Current(s.text.cmd)
      BY <1>3, <2>1 DEF SendersOf
    <2> QED BY <1>1, <1>4, <2>9, <2>12, <2>15, <2>16, TidyStep
  <1> QED BY <1>5, <1>6

LEMMA Unmoved ==
    ASSUME Tidy, UNCHANGED <<size, socks, calls, out, work, sends, logging, log, done>>
    PROVE  Tidy'
  <1>1. \A p \in Pairs : Items(out'[p]) = Items(out[p])
    OBVIOUS
  <1>2. calls # <<>> => Reaching(Len(calls))'
    <2>1. PICK n : n = Len(calls)
      OBVIOUS
    <2>2. Reaching(n)' = Reaching(n)
      BY ReachingSame
    <2> QED BY <2>1, <2>2 DEF Tidy
  <1>3. /\ \A i \in Nodes : Lone(i)'
        /\ \A i \in Members : Caught(i)'
    BY SameWrites DEF Tidy
  <1> QED BY <1>1, <1>2, <1>3, TidyStep

\* Where nothing is under way, all writes are done.
LEMMA AllCaught ==
    ASSUME IInv, Numbered, Tidy, work = {}, sends = {}, \A p \in Pairs : out[p] = <<>>,
           NEW i \in Members
    PROVE  done[i] = Seen(i, Len(calls))
  <1> DEFINE n == Len(calls)
  <1>1. SUFFICES ASSUME calls # <<>>, DoneAt(n, i) = {} PROVE FALSE
    BY DEF Tidy, Caught
  <1>2. Reaching(n) /\ From(n) \in Nodes /\ i \in Nodes
    BY <1>1, LastIs, Sizing DEF IInv, Base
  <1>3. ~Waits(n) /\ SendsTo(n, i) = {} /\ WorksAt(n, i) = {}
    BY DEF Waits, SendsTo, WorksAt
  <1>4. FliesTo(n, i) = {}
    <2>1. CASE i = From(n)
      BY <2>1 DEF FliesTo
    <2>2. CASE i # From(n)
      <3>1. PICK p \in Pairs : p = <<From(n), i>>
        BY <1>2, <2>2 DEF Pairs
      <3>2. Len(out[p]) = 0
        OBVIOUS
      <3> QED BY <2>2, <3>1, <3>2 DEF FliesTo, Positions
    <2> QED BY <2>1, <2>2
  <1> QED BY <1>1, <1>2, <1>3, <1>4 DEF Reaching, Reached

\* A client speaks when all that was sent is done and logged everywhere.
LEMMA CallTidy ==
    ASSUME IInv, Numbered, ~mixed => Tidy, NEW c \in Clients, Call(c)
    PROVE  Numbered' /\ (~mixed' => Tidy')
  <1>0. TypeOK /\ Base /\ Underway /\ Progress
    BY DEF IInv, Base
  <1>1. /\ UNCHANGED <<size, socks, out, sends, logging, log, done>>
        /\ mixed' = (mixed \/ ~Ready \/ UnderWay)
    BY DEF Call
  <1>2. PICK t \in Text :
          /\ work' = work \union {t} /\ t.route = <<Home[c]>>
          /\ t.cmd.of = Len(calls) + 1 /\ t.cmd.op \in {"make", "del"}
          /\ calls' = Append(calls, [by |-> c, cmd |-> t.cmd, safe |-> Ready])
    BY <1>0, CallBase
  <1>3. PICK n \in Nat : n = Len(calls)
    BY <1>0 DEF TypeOK
  <1>4. /\ Len(calls') = n + 1 /\ calls' # <<>> /\ \A k \in 1..n : calls'[k] = calls[k]
        /\ calls'[n + 1].cmd = t.cmd /\ calls'[n + 1].safe = Ready
    <2>1. calls \in Seq(Issued)
      BY <1>0 DEF TypeOK
    <2> QED BY <1>2, <1>3, <2>1
  <1>5. Numbered'
    BY <1>2, <1>3, <1>4 DEF Numbered
  <1>6. ASSUME ~mixed' PROVE Tidy'
    <2>1. Tidy /\ Ready /\ Built /\ work = {} /\ sends = {} /\ logging = {} /\ \A p \in Pairs : out[p] = <<>>
      BY <1>1, <1>6 DEF UnderWay, Ready
    <2>2. \A i \in Members : done[i] = Seen(i, n)
      BY <1>3, <2>1, AllCaught
    <2>3. \A i : Seen(i, n)' = Seen(i, n)
      <3>1. ASSUME NEW i, NEW k \in 1..n PROVE LineOf(i, k)' = LineOf(i, k)
        BY <1>4 DEF LineOf, From
      <3> QED BY <3>1 DEF Seen
    <2>4. ASSUME NEW i \in Members PROVE Caught(i)'
      <3>1. DoneAt(n + 1, i)' = {}
        <4>1. i \in Nodes /\ \A l \in Items(done[i]) : l.cmd.of <= n
          BY <1>0, <1>3, Sizing DEF Underway
        <4>2. \A x \in 1..Len(done[i]) : done[i][x].cmd.of # n + 1
          BY <4>1 DEF Items
        <4> QED BY <1>1, <4>2 DEF DoneAt, Positions
      <3>2. done'[i] = Seen(i, n)'
        BY <1>1, <2>2, <2>3
      <3>3. Seen(i, Len(calls) - 1)' = Seen(i, n)'
        <4>1. Len(calls') - 1 = n
          BY <1>4
        <4> QED BY <4>1 DEF Seen
      <3> QED BY <1>4, <3>1, <3>2, <3>3 DEF Caught
    <2>5. ASSUME NEW i \in Nodes PROVE Lone(i)'
      <3>1. LoggingAt(i) = {} /\ LoggingAt(i)' = {}
        BY <1>1, <2>1 DEF LoggingAt
      <3>2. log[i] = done[i]
        BY <2>1, <3>1 DEF Tidy, Lone
      <3> QED BY <1>1, <3>1, <3>2 DEF Lone
    <2>6. ASSUME NEW k \in 1..Len(calls') PROVE calls'[k].safe
      <3>1. CASE k \in 1..n
        BY <1>3, <1>4, <2>1, <3>1 DEF Tidy
      <3>2. CASE k = n + 1
        BY <1>4, <2>1, <3>2, Zenon
      <3> QED BY <1>4, <3>1, <3>2
    <2>7. work' = {t} /\ FromClient(t.route)
      BY <1>2, <2>1 DEF FromClient
    <2>8. \A u \in work' : Direct(u)'
      BY <1>2, <1>3, <1>4, <2>7 DEF Direct, Current
    <2>9. Reaching(Len(calls))'
      <3>1. Waits(n + 1)'
        BY <1>2, <1>3, <2>7 DEF Waits
      <3>2. Reaching(n + 1)'
        BY <3>1 DEF Reaching
      <3> QED BY <1>4, <3>2
    <2>10. /\ sends' = {} /\ \A p \in Pairs : Items(out'[p]) = {}
      <3>1. \A p \in Pairs : Len(out[p]) = 0
        BY <2>1
      <3> QED BY <1>1, <2>1, <3>1 DEF Items
    <2>11. Members' = Members
      BY <1>1 DEF Members
    <2> QED BY <2>4, <2>5, <2>6, <2>8, <2>9, <2>10, <2>11 DEF Tidy
  <1> QED BY <1>5, <1>6

-----------------------------------------------------------------------------
(* The invariant                                                           *)

LogInv == IInv /\ Rebuilt /\ Counted /\ Numbered /\ (~mixed => Tidy)

LEMMA NextLog == LogInv /\ [Next]_vars => LogInv'
  <1> SUFFICES ASSUME LogInv, [Next]_vars PROVE LogInv'
    OBVIOUS
  <1>1. IInv' /\ Rebuilt' /\ Counted' /\ IInv /\ Base /\ TypeOK
    BY NextInv, NextCounted DEF LogInv, IInv, Base
  <1> DEFINE Good == Numbered' /\ (~mixed' => Tidy')
  <1>2. ASSUME UNCHANGED <<calls, mixed>>, ~mixed => Tidy' PROVE Good
    BY <1>2 DEF LogInv, Numbered
  <1> HIDE DEF Good
  <1>3. ASSUME Build PROVE Good
    <2>1. SetNumber \/ AddReplica \/ Greet
      BY <1>3 DEF Build
    <2>2. UNCHANGED <<calls, mixed>>
      BY <2>1 DEF SetNumber, AddReplica, Greet
    <2>3. ASSUME ~mixed PROVE Tidy'
      <3>1. IInv /\ Numbered /\ Tidy
        BY <2>3 DEF LogInv
      <3> QED BY <2>1, <3>1, BuildTidy
    <2> QED BY <1>2, <2>2, <2>3
  <1>4. ASSUME NEW c \in Clients, Client(c) PROVE Good
    <2>1. CASE Call(c)
      BY <2>1, CallTidy DEF LogInv, Good
    <2>2. CASE Leave(c)
      <3>1. UNCHANGED <<size, socks, calls, mixed, out, work, sends, logging, log, done>>
        BY <2>2 DEF Leave
      <3> QED BY <1>2, <3>1, Unmoved DEF LogInv
    <2> QED BY <1>4, <2>1, <2>2 DEF Client
  <1>5. ASSUME NEW p \in Pairs, Socket(p) PROVE Good
    <2>1. Receive(p) /\ UNCHANGED <<calls, mixed>>
      BY <1>5 DEF Socket, Receive
    <2> QED BY <1>2, <2>1, ReceiveTidy DEF LogInv
  <1>6. ASSUME NEW i \in Nodes, Threads(i) PROVE Good
    <2>1. ASSUME NEW t \in work, Obey(t) PROVE Good
      <3>1. UNCHANGED <<calls, mixed>>
        BY <2>1 DEF Obey
      <3> QED BY <1>2, <2>1, <3>1, ObeyTidy DEF LogInv
    <2>2. ASSUME NEW t \in work, Serve(t) PROVE Good
      <3>1. UNCHANGED <<calls, mixed>>
        BY <2>2 DEF Serve
      <3> QED BY <1>2, <2>2, <3>1, ServeTidy DEF LogInv
    <2>3. ASSUME NEW s \in sends, Send(s) PROVE Good
      <3>1. UNCHANGED <<calls, mixed>>
        BY <2>3 DEF Send
      <3> QED BY <1>2, <2>3, <3>1, SendTidy DEF LogInv
    <2>4. ASSUME NEW l \in logging, LogAppend(l) PROVE Good
      <3>1. UNCHANGED <<calls, mixed>>
        BY <2>4 DEF LogAppend
      <3> QED BY <1>2, <2>4, <3>1, AppendTidy DEF LogInv
    <2> QED BY <1>6, <2>1, <2>2, <2>3, <2>4 DEF Threads
  <1>7. ASSUME UNCHANGED vars PROVE Good
    <2>1. UNCHANGED <<size, socks, calls, out, work, sends, logging, log, done>>
      BY <1>7 DEF vars
    <2>2. UNCHANGED <<calls, mixed>>
      BY <1>7 DEF vars
    <2>3. ~mixed => Tidy'
      BY <2>1, Unmoved DEF LogInv
    <2> QED BY <1>2, <2>2, <2>3
  <1>8. Good
    BY <1>3, <1>4, <1>5, <1>6, <1>7 DEF Next, Over
  <1> QED BY <1>1, <1>8 DEF LogInv, Good

LEMMA InitLog == Init => LogInv
  <1> SUFFICES ASSUME Init PROVE LogInv
    OBVIOUS
  <1>1. IInv /\ Rebuilt /\ Counted /\ TypeOK
    BY InitInv, InitCounted DEF IInv, Base
  <1>2. /\ calls = <<>> /\ Len(calls) = 0 /\ work = {} /\ sends = {} /\ logging = {}
        /\ \A p \in Pairs : out[p] = <<>>
        /\ \A i \in Nodes : log[i] = <<>> /\ done[i] = <<>>
    BY DEF Init
  <1>3. Numbered
    BY <1>2 DEF Numbered
  <1>4. \A i \in Nodes : Lone(i)
    BY <1>2 DEF Lone, LoggingAt
  <1>5. ASSUME NEW i \in Members PROVE Caught(i)
    <2>1. i \in Nodes
      BY <1>1, Sizing
    <2>2. Seen(i, 0) = <<>>
      BY DEF Seen
    <2> QED BY <1>2, <2>1, <2>2 DEF Caught
  <1>6. \A p \in Pairs : Items(out[p]) = {}
    <2>1. \A p \in Pairs : Len(out[p]) = 0
      BY <1>2
    <2> QED BY <2>1 DEF Items
  <1>7. Tidy
    BY <1>2, <1>4, <1>5, <1>6 DEF Tidy
  <1> QED BY <1>1, <1>3, <1>7 DEF LogInv

LEMMA LogInvariance == Spec => []LogInv
  BY InitLog, NextLog, PTL DEF Spec

-----------------------------------------------------------------------------
(* Theorems                                                                *)

\* LogFollows: when no thread is left, each write that a server has served is in its log as
\* often as it was served and with the authority it had, whatever else went on (log_append);
\* and if the writes came one by one, the log rebuilds the table.
THEOREM LogsFollow == Spec => []LogFollows
  <1>1. LogInv => LogFollows
    <2> SUFFICES ASSUME LogInv, Settled, NEW i \in Members
                 PROVE  /\ \A l \in Range(log[i]) \union Range(done[i]) :
                             Occurs(log[i], l) = Occurs(done[i], l)
                        /\ ~mixed => Replay(log[i]) = tab[i]
      BY DEF LogFollows
    <2>1. TypeOK /\ logging = {} /\ Counted /\ Rebuilt
      BY DEF LogInv, IInv, Base, Settled, UnderWay
    <2>2. i \in Nodes /\ log[i] \in Seq(Line) /\ done[i] \in Seq(Line)
      BY <2>1, Sizing DEF TypeOK
    <2>3. LoggingAt(i) = {}
      BY <2>1 DEF LoggingAt
    <2>4. ASSUME NEW l \in Range(log[i]) \union Range(done[i])
          PROVE  Occurs(log[i], l) = Occurs(done[i], l)
      <3>1. l \in Line
        BY <2>2 DEF Range
      <3>2. Cardinality(Pending(i, l)) = 0
        <4>1. Pending(i, l) = {}
          BY <2>3 DEF Pending
        <4> QED BY <4>1, FS_EmptySet
      <3>3. Occurs(done[i], l) = Occurs(log[i], l) + Cardinality(Pending(i, l))
        BY <2>1, <2>2, <3>1 DEF Counted
      <3>4. Occurs(log[i], l) \in Nat
        BY <2>2, <3>1, OccursAppend
      <3> QED BY <3>2, <3>3, <3>4
    <2>5. ASSUME ~mixed PROVE Replay(log[i]) = tab[i]
      <3>1. log[i] = done[i]
        BY <2>2, <2>3, <2>5 DEF LogInv, Tidy, Lone
      <3> QED BY <2>1, <2>2, <3>1 DEF Rebuilt
    <2> QED BY <2>4, <2>5
  <1> QED BY <1>1, LogInvariance, PTL

\* Converged: if each write was sent when the one before had reached every server, then,
\* when nothing is under way, each server has executed all of them in the order in which
\* they were sent, once each: its table is what they make of an empty one (auto_send).
THEOREM Convergence == Spec => []Converged
  <1>1. LogInv => Converged
    <2> SUFFICES ASSUME LogInv, Settled, ~mixed, NEW i \in Members
                 PROVE  tab[i] = Replay(SeenBy(i))
      BY DEF Converged
    <2>1. TypeOK /\ Tidy /\ Rebuilt /\ IInv /\ Numbered
      BY DEF LogInv, IInv, Base
    <2>2. work = {} /\ sends = {} /\ \A p \in Pairs : out[p] = <<>>
      BY DEF Settled, UnderWay
    <2>3. done[i] = Seen(i, Len(calls))
      BY <2>1, <2>2, AllCaught
    <2>4. Seen(i, Len(calls)) = SeenBy(i)
      <3>1. DOMAIN calls = 1..Len(calls)
        BY <2>1 DEF TypeOK
      <3> QED BY <3>1 DEF Seen, SeenBy, LineOf, From
    <2>5. i \in Nodes
      BY <2>1, Sizing
    <2> QED BY <2>1, <2>3, <2>4, <2>5 DEF Rebuilt
  <1> QED BY <1>1, LogInvariance, PTL

=============================================================================
