--------------------------- MODULE ClusterProofs ---------------------------
(***************************************************************************)
(* Theorems about Cluster, for any number of servers, slots and clients.   *)
(* The invariant IInv says how far the builder has come: which entries     *)
(* each cluster_vec has and in which order, and that what is on a socket   *)
(* belongs to the server it leads to.                                      *)
(***************************************************************************)
EXTENDS Cluster, SequenceTheorems, TLAPS

-----------------------------------------------------------------------------
(* Arithmetic of the slot ranges                                           *)

LEMMA EachSlotNat == EachSlot \in Nat
  BY SizeAssumption DEF EachSlot

LEMMA MulMono ==
    ASSUME NEW e \in Nat, NEW a \in Int, NEW b \in Int, a <= b
    PROVE  e * a <= e * b
  <1>1. b - a \in Nat
    OBVIOUS
  <1>2. e * (b - a) \in Nat
    BY <1>1
  <1>3. e * b = e * a + e * (b - a)
    OBVIOUS
  <1> QED BY <1>2, <1>3

LEMMA RangeType ==
    ASSUME NEW k \in Int
    PROVE  Lo(k) \in Int /\ Hi(k) \in Int
  BY EachSlotNat, SizeAssumption DEF Lo, Hi

\* Lower servers end before the slots of higher ones begin.
LEMMA RangesApart ==
    ASSUME NEW i \in Nodes, NEW k \in Nodes, i < k
    PROVE  Hi(i) < Lo(k)
  <1>1. i \in Int /\ k \in Int /\ k <= N - 1 /\ i + 1 <= k
    BY SizeAssumption DEF Nodes
  <1>2. EachSlot * (i + 1) <= EachSlot * k
    BY <1>1, EachSlotNat, MulMono
  <1>3. EachSlot * (i + 1) \in Int /\ EachSlot * k \in Int
    BY <1>1, EachSlotNat
  <1>4. Hi(i) = EachSlot * (i + 1) - 1
    BY <1>1, SizeAssumption DEF Hi
  <1> QED BY <1>2, <1>3, <1>4 DEF Lo

\* The ranges of the builder cover every slot (cluster.cpp, distribute.cpp).
LEMMA SlotCovered ==
    ASSUME NEW s \in Slots
    PROVE  \E k \in Nodes : Owns(k, s)
  <1>0. s \in Nat /\ s <= Total - 1 /\ N - 1 \in Nodes /\ N \in Nat \ {0}
    BY SizeAssumption DEF Slots, Nodes
  <1>1. CASE EachSlot * (N - 1) <= s
    BY <1>0, <1>1 DEF Owns, Lo, Hi
  <1>2. CASE ~(EachSlot * (N - 1) <= s)
    <2> DEFINE k == s \div EachSlot
    <2>1. EachSlot \in Nat \ {0}
      BY <1>0, <1>2, EachSlotNat
    <2>2. k \in Nat /\ EachSlot * k <= s /\ s < EachSlot * (k + 1)
      BY <1>0, <2>1
    <2> HIDE DEF k
    <2>3. EachSlot * k \in Int /\ EachSlot * (N - 1) \in Int
      BY <1>0, <2>1, <2>2
    <2>4. ~(N - 1 <= k)
      <3>1. ASSUME N - 1 <= k PROVE FALSE
        <4>1. EachSlot * (N - 1) <= EachSlot * k
          BY <1>0, <2>1, <2>2, <3>1, MulMono
        <4> QED BY <4>1, <1>2, <2>2, <2>3, <1>0
      <3> QED BY <3>1
    <2>5. k \in Nodes /\ k # N - 1
      BY <1>0, <2>2, <2>4 DEF Nodes
    <2>6. Hi(k) = EachSlot * (k + 1) - 1
      BY <2>5 DEF Hi
    <2>7. EachSlot * (k + 1) \in Int
      BY <2>1, <2>2
    <2>8. Owns(k, s)
      BY <1>0, <2>2, <2>6, <2>7 DEF Owns, Lo
    <2> QED BY <2>5, <2>8
  <1> QED BY <1>1, <1>2

\* No slot has two owners.
LEMMA SlotOwnedOnce ==
    ASSUME NEW s \in Slots, NEW i \in Nodes, NEW k \in Nodes, Owns(i, s), Owns(k, s)
    PROVE  i = k
  <1>1. i \in Int /\ k \in Int /\ s \in Int
    BY SizeAssumption DEF Nodes, Slots
  <1>2. /\ Lo(i) \in Int /\ Hi(i) \in Int /\ Lo(k) \in Int /\ Hi(k) \in Int
    BY <1>1, RangeType
  <1>3. ~(i < k)
    BY <1>1, <1>2, RangesApart DEF Owns
  <1>4. ~(k < i)
    BY <1>1, <1>2, RangesApart DEF Owns
  <1> QED BY <1>1, <1>3, <1>4

-----------------------------------------------------------------------------
(* The inductive invariant                                                 *)

\* The entry of server j, and the server whose entry is number x at server i, which
\* leaves itself out.
Entry(j) == [to |-> j, lo |-> Lo(j), hi |-> Hi(j)]
At(i, x) == IF x <= i THEN x - 1 ELSE x

\* How many servers the builder has told server i about, itself included.
Told(i) == IF i < tell[1] THEN N ELSE IF i = tell[1] THEN tell[2] ELSE 0

Listed(i) ==
    /\ Len(peers[i]) = IF i < Told(i) THEN Told(i) - 1 ELSE Told(i)
    /\ \A x \in 1..Len(peers[i]) : peers[i][x] = Entry(At(i, x))

Ranged(i) ==
    /\ start[i] \in {0, Lo(i)} /\ end[i] \in {Total - 1, Hi(i)}
    /\ i < Told(i) => start[i] = Lo(i) /\ end[i] = Hi(i)

Progress ==
    /\ half => tell[1] \in Nodes /\ tell[2] = tell[1] /\ start[tell[1]] = Lo(tell[1])
    /\ \A i \in Nodes : Listed(i) /\ Ranged(i)

\* What is on its way to a server belongs to it.
Sent ==
    /\ \A x \in Sockets : \A k \in 1..Len(out[x]) : Owns(x[2], out[x][k].slot)
    /\ \A w \in work : Owns(w.via[2], w.cmd.slot)

Thread(c) ==
    /\ th[c].pc # "idle" => th[c].n \in 1..MaxCommands /\ th[c].slot \in Named
    /\ th[c].safe => Built
    /\ th[c].safe /\ th[c].pc = "route" => ~Mine(Home[c], th[c].slot)
    /\ th[c].pc = "wait" => Owns(th[c].to, th[c].slot)

IInv == TypeOK /\ Progress /\ Sent /\ (\A c \in Clients : Thread(c)) /\ OneHop

-----------------------------------------------------------------------------
(* What the invariant says of a server's tables                            *)

\* A server takes the commands for its own slots, told or not.
LEMMA OwnerTakes ==
    ASSUME IInv, NEW k \in Nodes, NEW s \in Slots, Owns(k, s)
    PROVE  Mine(k, s)
  <1>1. k \in Int /\ s \in Int /\ 0 <= s /\ s <= Total - 1
    BY SizeAssumption DEF Nodes, Slots
  <1>2. start[k] \in {0, Lo(k)} /\ end[k] \in {Total - 1, Hi(k)}
    BY DEF IInv, Progress, Ranged
  <1> QED BY <1>1, <1>2 DEF Owns, Mine

\* Entry x of server i stands for another server.
LEMMA AtNode ==
    ASSUME IInv, NEW i \in Nodes, NEW x \in 1..Len(peers[i])
    PROVE  At(i, x) \in Nodes \ {i}
  <1>1. i \in Nat /\ i <= N - 1 /\ N \in Nat \ {0}
    BY SizeAssumption DEF Nodes
  <1>2. tell[1] \in 0..N /\ tell[2] \in 0..(N - 1)
    BY DEF IInv, TypeOK, Nodes
  <1>3. Told(i) \in 0..N
    BY <1>1, <1>2 DEF Told
  <1>4. Len(peers[i]) = IF i < Told(i) THEN Told(i) - 1 ELSE Told(i)
    BY DEF IInv, Progress, Listed
  <1>5. CASE i < Told(i)
    <2>1. x \in 1..(N - 1)
      BY <1>1, <1>3, <1>4, <1>5
    <2> QED BY <1>1, <2>1 DEF At, Nodes
  <1>6. CASE ~(i < Told(i))
    <2>1. x \in 1..i
      BY <1>1, <1>3, <1>4, <1>6
    <2> QED BY <1>1, <2>1 DEF At, Nodes
  <1> QED BY <1>5, <1>6

\* The search in scan_and_send finds at most one entry, that of the owner.
LEMMA FoundOwner ==
    ASSUME IInv, NEW i \in Nodes, NEW s \in Slots, NEW x \in Entries(i, s)
    PROVE  /\ First(i, s) = x
           /\ peers[i][x].to = At(i, x)
           /\ At(i, x) \in Nodes \ {i}
           /\ Owns(At(i, x), s)
  <1>0. peers[i] \in Seq(Peers)
    BY DEF IInv, TypeOK
  <1>1. ASSUME NEW y \in Entries(i, s)
        PROVE  /\ y \in 1..Len(peers[i]) /\ peers[i][y].to = At(i, y)
               /\ At(i, y) \in Nodes \ {i} /\ Owns(At(i, y), s)
    <2>1. y \in 1..Len(peers[i]) /\ peers[i][y].lo <= s /\ s <= peers[i][y].hi
      BY <1>0, <1>1 DEF Entries
    <2>2. peers[i][y] = Entry(At(i, y))
      BY <2>1 DEF IInv, Progress, Listed
    <2> QED BY <2>1, <2>2, AtNode DEF Entry, Owns
  <1>2. ASSUME NEW y \in Entries(i, s) PROVE y = x
    <2>1. At(i, x) = At(i, y)
      BY <1>1, SlotOwnedOnce
    <2>2. x \in Nat \ {0} /\ y \in Nat \ {0} /\ i \in Nat
      BY <1>0, <1>1, SizeAssumption DEF Nodes
    <2> QED BY <2>1, <2>2 DEF At
  <1>3. x \in Nat
    BY <1>0, <1>1
  <1>4. First(i, s) = x
    <2>1. Entries(i, s) = {x}
      BY <1>2
    <2>2. x <= x
      BY <1>3
    <2>3. First(i, s) = CHOOSE z \in {x} : \A y \in {x} : z <= y
      BY <2>1 DEF First
    <2>4. \E z \in {x} : \A y \in {x} : z <= y
      BY <2>2
    <2>5. First(i, s) \in {x}
      BY <2>3, <2>4
    <2> QED BY <2>5
  <1> QED BY <1>1, <1>4

-----------------------------------------------------------------------------
(* The steps of the builder                                                *)

LEMMA TellType ==
    ASSUME TypeOK
    PROVE  /\ N \in Nat \ {0} /\ Total \in Nat \ {0}
           /\ tell[1] \in 0..N /\ tell[2] \in 0..(N - 1)
           /\ tell = <<tell[1], tell[2]>>
  BY SizeAssumption DEF TypeOK, Nodes

\* Server t has been told of one server more, the others of no more.
LEMMA ToldNext ==
    ASSUME TypeOK, ~Built, NextTell, NEW t \in Nodes, NEW j \in Nodes, tell[1] = t, tell[2] = j
    PROVE  /\ tell' \in (0..N) \X Nodes
           /\ Told(t)' = j + 1
           /\ \A i \in Nodes : i # t => Told(i)' = Told(i)
  <1>0. /\ N \in Nat \ {0} /\ tell[1] \in 0..N /\ tell[2] \in 0..(N - 1)
        /\ tell[1] # N
    BY TellType DEF Built
  <1>1. CASE tell[2] + 1 < N
    <2>1. tell' = <<tell[1], tell[2] + 1>>
      BY <1>1 DEF NextTell
    <2>2. tell'[1] = tell[1] /\ tell'[2] = tell[2] + 1
      BY <2>1
    <2> QED BY <1>0, <1>1, <2>1, <2>2 DEF Told, Nodes
  <1>2. CASE ~(tell[2] + 1 < N)
    <2>1. tell' = <<tell[1] + 1, 0>> /\ tell[2] + 1 = N
      BY <1>0, <1>2 DEF NextTell
    <2>2. tell'[1] = tell[1] + 1 /\ tell'[2] = 0
      BY <2>1
    <2> QED BY <1>0, <2>1, <2>2 DEF Told, Nodes
  <1> QED BY <1>1, <1>2

LEMMA SetStartStep ==
    ASSUME IInv, SetStart
    PROVE  IInv'
  <1> DEFINE t == tell[1]
  <1>0. /\ TypeOK /\ ~Built /\ tell[1] = tell[2] /\ half' = TRUE
        /\ start' = [start EXCEPT ![t] = Lo(t)]
        /\ UNCHANGED <<end, peers, tell, th, out, back, work, again, fault>>
    BY DEF IInv, SetStart
  <1>1. t \in Nodes /\ t \in Int /\ tell[2] = t
    BY <1>0, TellType DEF Nodes
  <1>2. /\ start' \in [Nodes -> Int]
        /\ start'[t] = Lo(t)
        /\ \A i \in Nodes : i # t => start'[i] = start[i]
    BY <1>0, <1>1, RangeType DEF TypeOK
  <1>3. TypeOK'
    BY <1>0, <1>2 DEF TypeOK
  <1>4. Progress'
    <2>1. ASSUME NEW i \in Nodes PROVE Listed(i)' /\ Ranged(i)'
      <3>1. Listed(i) /\ Ranged(i)
        BY DEF IInv, Progress
      <3>2. Listed(i)'
        BY <3>1, <1>0 DEF Listed, Told
      <3>3. start'[i] \in {start[i], Lo(i)}
        BY <1>2
      <3>4. Ranged(i)'
        BY <3>1, <3>3, <1>0 DEF Ranged, Told
      <3> QED BY <3>2, <3>4
    <2>2. tell'[1] \in Nodes /\ tell'[2] = tell'[1] /\ start'[tell'[1]] = Lo(tell'[1])
      BY <1>0, <1>1, <1>2
    <2> QED BY <2>1, <2>2 DEF Progress, Lo
  <1>5. Sent'
    BY <1>0 DEF IInv, Sent
  <1>6. ASSUME NEW c \in Clients PROVE Thread(c)'
    BY <1>0 DEF IInv, Thread, Built
  <1>7. OneHop'
    BY <1>0 DEF IInv, OneHop
  <1> QED BY <1>3, <1>4, <1>5, <1>6, <1>7 DEF IInv

LEMMA SetEndStep ==
    ASSUME IInv, SetEnd
    PROVE  IInv'
  <1>01. tell[1] \in Nodes
    BY DEF IInv, Progress, SetEnd
  <1>02. PICK t \in Nodes : tell[1] = t
    BY <1>01
  <1>0. /\ TypeOK /\ half /\ half' = FALSE /\ NextTell
        /\ end' = [end EXCEPT ![t] = Hi(t)]
        /\ UNCHANGED <<start, peers, th, out, back, work, again, fault>>
    BY <1>02 DEF IInv, SetEnd
  <1>1. tell[2] = t /\ start[t] = Lo(t)
    BY <1>0, <1>02 DEF IInv, Progress
  <1>2. N \in Nat \ {0} /\ t \in 0..(N - 1)
    BY <1>1, SizeAssumption DEF Nodes
  <1>3. ~Built
    BY <1>2, <1>02 DEF Built
  <1>4. /\ tell' \in (0..N) \X Nodes
        /\ Told(t)' = t + 1
        /\ \A i \in Nodes : i # t => Told(i)' = Told(i)
    BY <1>0, <1>02, <1>1, <1>3, ToldNext
  <1>5. /\ end' \in [Nodes -> Int]
        /\ end'[t] = Hi(t)
        /\ \A i \in Nodes : i # t => end'[i] = end[i]
    BY <1>0, <1>1, <1>2, RangeType DEF TypeOK
  <1>6. TypeOK'
    BY <1>0, <1>4, <1>5 DEF TypeOK
  <1>7. Progress'
    <2>1. ASSUME NEW i \in Nodes, i # t PROVE Listed(i)' /\ Ranged(i)'
      <3>1. Listed(i) /\ Ranged(i)
        BY DEF IInv, Progress
      <3> QED BY <3>1, <1>0, <1>4, <1>5, <2>1 DEF Listed, Ranged, Entry
    <2>2. Told(t) = t
      BY <1>02, <1>1, <1>2 DEF Told
    <2>3. Listed(t)'
      <3>1. Listed(t)
        BY <1>1 DEF IInv, Progress
      <3> QED BY <3>1, <2>2, <1>0, <1>2, <1>4 DEF Listed, Entry
    <2>4. Ranged(t)'
      BY <1>0, <1>1, <1>5 DEF Ranged
    <2> QED BY <2>1, <2>3, <2>4, <1>0 DEF Progress
  <1>8. Sent'
    BY <1>0 DEF IInv, Sent
  <1>9. ASSUME NEW c \in Clients PROVE Thread(c)'
    BY <1>0, <1>3 DEF IInv, Thread
  <1>10. OneHop'
    BY <1>0 DEF IInv, OneHop
  <1> QED BY <1>6, <1>7, <1>8, <1>9, <1>10 DEF IInv

LEMMA ConnectStep ==
    ASSUME IInv, Connect
    PROVE  IInv'
  <1>01. TypeOK /\ ~Built
    BY DEF IInv, Connect
  <1>02. tell[1] \in Nodes /\ tell[2] \in Nodes
    BY <1>01, TellType DEF Nodes, Built
  <1>03. PICK t \in Nodes, j \in Nodes : tell[1] = t /\ tell[2] = j
    BY <1>02
  <1>0. /\ TypeOK /\ ~Built /\ t # j /\ NextTell
        /\ peers' = [peers EXCEPT ![t] = Append(@, Entry(j))]
        /\ UNCHANGED <<start, end, half, th, out, back, work, again, fault>>
    BY <1>03 DEF IInv, Connect, Entry
  <1>1. N \in Nat \ {0} /\ t \in 0..(N - 1) /\ j \in 0..(N - 1)
    BY SizeAssumption DEF Nodes
  <1>2. /\ tell' \in (0..N) \X Nodes
        /\ Told(t)' = j + 1
        /\ \A i \in Nodes : i # t => Told(i)' = Told(i)
    BY <1>0, <1>03, ToldNext
  <1>3. Entry(j) \in Peers
    BY <1>1, RangeType DEF Entry, Peers
  <1>4. /\ peers' \in [Nodes -> Seq(Peers)]
        /\ peers'[t] = Append(peers[t], Entry(j))
        /\ \A i \in Nodes : i # t => peers'[i] = peers[i]
    BY <1>0, <1>1, <1>3 DEF TypeOK
  <1>5. TypeOK'
    BY <1>0, <1>2, <1>4 DEF TypeOK
  <1>6. Progress'
    <2>1. ASSUME NEW i \in Nodes, i # t PROVE Listed(i)' /\ Ranged(i)'
      <3>1. Listed(i) /\ Ranged(i)
        BY DEF IInv, Progress
      <3> QED BY <3>1, <1>0, <1>2, <1>4, <2>1 DEF Listed, Ranged, Entry
    <2>2. Told(t) = j
      BY <1>03, <1>1 DEF Told
    <2>3. Listed(t)'
      <3>1. Listed(t)
        BY <1>1 DEF IInv, Progress
      <3>2. peers[t] \in Seq(Peers)
        BY <1>1 DEF IInv, TypeOK
      <3>3. Len(peers'[t]) = Len(peers[t]) + 1
        BY <3>2, <1>4, <1>3
      <3>4. Len(peers'[t]) = IF t < j + 1 THEN j ELSE j + 1
        BY <3>1, <3>3, <2>2, <1>0, <1>1 DEF Listed
      <3>5. ASSUME NEW x \in 1..Len(peers'[t]) PROVE peers'[t][x] = Entry(At(t, x))
        <4>1. CASE x \in 1..Len(peers[t])
          BY <4>1, <3>1, <3>2, <1>3, <1>4 DEF Listed
        <4>2. CASE x = Len(peers[t]) + 1
          <5>1. peers'[t][x] = Entry(j)
            BY <4>2, <3>2, <1>3, <1>4
          <5>2. x = IF t < j THEN j ELSE j + 1
            BY <4>2, <3>1, <2>2, <1>1 DEF Listed
          <5>3. At(t, x) = j
            BY <5>2, <1>0, <1>1 DEF At
          <5> QED BY <5>1, <5>3
        <4> QED BY <4>1, <4>2, <3>2, <3>3
      <3> QED BY <3>4, <3>5, <1>1, <1>2 DEF Listed, Entry
    <2>4. Ranged(t)'
      <3>1. Ranged(t)
        BY <1>1 DEF IInv, Progress
      <3> QED BY <3>1, <2>2, <1>0, <1>1, <1>2 DEF Ranged
    <2>5. ~half
      BY <1>0, <1>03 DEF IInv, Progress
    <2> QED BY <2>1, <2>3, <2>4, <2>5, <1>0 DEF Progress
  <1>7. Sent'
    BY <1>0 DEF IInv, Sent
  <1>8. ASSUME NEW c \in Clients PROVE Thread(c)'
    BY <1>0 DEF IInv, Thread, Mine
  <1>9. OneHop'
    BY <1>0 DEF IInv, OneHop
  <1> QED BY <1>5, <1>6, <1>7, <1>8, <1>9 DEF IInv

-----------------------------------------------------------------------------
(* The steps of the threads                                                *)

\* The tables stay as they are.
LEMMA TablesStay ==
    ASSUME IInv, UNCHANGED <<start, end, peers, tell, half>>
    PROVE  /\ Progress'
           /\ Built' = Built
           /\ \A i, s : Mine(i, s)' = Mine(i, s)
  BY DEF IInv, Progress, Listed, Ranged, Told, Entry, Built, Mine

LEMMA CommandType ==
    ASSUME TypeOK, NEW c \in Clients, Thread(c), th[c].pc # "idle"
    PROVE  Command(c) \in Commands
  <1>1. th[c].n \in 1..MaxCommands /\ th[c].slot \in Named
    BY DEF Thread
  <1> QED BY <1>1 DEF Command, Commands

LEMMA CallStep ==
    ASSUME IInv, NEW c \in Clients, Call(c)
    PROVE  IInv'
  <1>0. /\ TypeOK /\ th[c].pc = "idle" /\ th[c].n < MaxCommands
        /\ UNCHANGED <<start, end, peers, tell, half, out, back, work, again, fault>>
    BY DEF IInv, Call
  <1>1. PICK s \in Named :
          th' = [th EXCEPT ![c].pc = "here", ![c].n = @ + 1, ![c].slot = s,
                           ![c].safe = Built, ![c].ans = <<>>]
    BY DEF Call
  <1>2. th[c] \in Threads /\ s \in Slots /\ MaxCommands \in Nat
    BY <1>0, <1>1, ClientsAssumption DEF TypeOK
  <1>3. th[c].n + 1 \in 1..MaxCommands /\ th[c].to \in Nodes
    BY <1>0, <1>2 DEF Threads
  <1>4. /\ th'[c] = [pc |-> "here", n |-> th[c].n + 1, slot |-> s, to |-> th[c].to,
                     safe |-> Built, ans |-> <<>>]
        /\ \A d \in Clients : d # c => th'[d] = th[d]
    BY <1>0, <1>1, <1>2 DEF TypeOK, Threads
  <1>5. th'[c] \in Threads
    BY <1>2, <1>3, <1>4 DEF Threads, Built
  <1>6. TypeOK'
    <2>1. th' \in [Clients -> Threads]
      BY <1>0, <1>1, <1>4, <1>5 DEF TypeOK
    <2> QED BY <2>1, <1>0 DEF TypeOK
  <1>7. /\ Progress' /\ Built' = Built
        /\ \A i, k : Mine(i, k)' = Mine(i, k)
    BY <1>0, TablesStay
  <1>8. Sent'
    BY <1>0 DEF IInv, Sent
  <1>9. ASSUME NEW d \in Clients PROVE Thread(d)'
    <2>1. CASE d = c
      BY <2>1, <1>1, <1>3, <1>4, <1>7 DEF Thread
    <2>2. CASE d # c
      BY <2>2, <1>4, <1>7 DEF IInv, Thread
    <2> QED BY <2>1, <2>2
  <1>10. OneHop'
    BY <1>0 DEF IInv, OneHop
  <1> QED BY <1>6, <1>7, <1>8, <1>9, <1>10 DEF IInv

LEMMA ExecuteStep ==
    ASSUME IInv, NEW c \in Clients, Execute(c)
    PROVE  IInv'
  <1>0. /\ TypeOK /\ th[c].pc = "here" /\ Thread(c)
        /\ UNCHANGED <<start, end, peers, tell, half, out, back, work, again, fault>>
    BY DEF IInv, Execute
  <1>1. th \in [Clients -> Threads] /\ th[c] \in Threads /\ Home[c] \in Nodes
    BY <1>0, ClientsAssumption DEF TypeOK
  <1>2. /\ Progress' /\ Built' = Built
        /\ \A i, k : Mine(i, k)' = Mine(i, k)
    BY <1>0, TablesStay
  <1>3. th' \in [Clients -> Threads] /\ \A d \in Clients : Thread(d)'
    <2>1. CASE Mine(Home[c], th[c].slot)
      <3>1. th[c].n \in 1..MaxCommands
        BY <1>0 DEF Thread
      <3>2. [of |-> <<c, th[c].n>>, by |-> Home[c]] \in Answers
        BY <3>1, <1>1 DEF Answers
      <3>3. <<[of |-> <<c, th[c].n>>, by |-> Home[c]]>> \in Seq(Answers)
        BY <3>2
      <3>4. PICK a \in Seq(Answers) :
              th' = [th EXCEPT ![c].pc = "idle", ![c].to = 0, ![c].ans = a]
        BY <2>1, <3>3 DEF Execute, Reply
      <3>5. /\ th' \in [Clients -> Threads]
            /\ th'[c].pc = "idle" /\ th'[c].safe = th[c].safe
            /\ \A d \in Clients : d # c => th'[d] = th[d]
        <4>1. th \in [Clients -> Threads] /\ th[c] \in Threads /\ 0 \in Nodes
          BY <1>0, SizeAssumption DEF TypeOK, Nodes
        <4>2. /\ th'[c] = [pc |-> "idle", n |-> th[c].n, slot |-> th[c].slot, to |-> 0,
                           safe |-> th[c].safe, ans |-> a]
              /\ \A d \in Clients : d # c => th'[d] = th[d]
          BY <4>1, <3>4 DEF Threads
        <4>3. th'[c] \in Threads
          BY <4>1, <4>2 DEF Threads
        <4> QED BY <4>1, <4>2, <4>3, <3>4
      <3>6. ASSUME NEW d \in Clients PROVE Thread(d)'
        <4>1. CASE d = c
          BY <4>1, <3>5, <1>0, <1>2 DEF Thread
        <4>2. CASE d # c
          BY <4>2, <3>5, <1>2 DEF IInv, Thread
        <4> QED BY <4>1, <4>2
      <3> QED BY <3>5, <3>6
    <2>2. CASE ~Mine(Home[c], th[c].slot)
      <3>1. th' = [th EXCEPT ![c].pc = "route"]
        BY <2>2 DEF Execute
      <3>2. /\ th' \in [Clients -> Threads]
            /\ th'[c] = [th[c] EXCEPT !.pc = "route"]
            /\ \A d \in Clients : d # c => th'[d] = th[d]
        BY <3>1, <1>1 DEF Threads
      <3>3. /\ th'[c].pc = "route" /\ th'[c].n = th[c].n /\ th'[c].slot = th[c].slot
            /\ th'[c].safe = th[c].safe
        BY <3>2, <1>1 DEF Threads
      <3>4. ASSUME NEW d \in Clients PROVE Thread(d)'
        <4>1. CASE d = c
          BY <4>1, <3>3, <2>2, <1>0, <1>2 DEF Thread
        <4>2. CASE d # c
          BY <4>2, <3>2, <1>2 DEF IInv, Thread
        <4> QED BY <4>1, <4>2
      <3> QED BY <3>2, <3>4
    <2> QED BY <2>1, <2>2
  <1>4. TypeOK'
    BY <1>0, <1>3 DEF TypeOK
  <1>5. Sent' /\ OneHop'
    BY <1>0 DEF IInv, Sent, OneHop
  <1> QED BY <1>2, <1>3, <1>4, <1>5 DEF IInv

LEMMA TakeStep ==
    ASSUME IInv, NEW c \in Clients, Take(c)
    PROVE  IInv'
  <1> DEFINE v == <<Home[c], th[c].to>>
  <1>0. /\ TypeOK /\ th[c].pc = "wait" /\ Thread(c)
        /\ UNCHANGED <<start, end, peers, tell, half, out, work, again, fault>>
    BY DEF IInv, Take
  <1>1. v \in Sockets /\ back[v] \in Seq(Answers)
    BY <1>0, ClientsAssumption DEF TypeOK, Threads, Sockets
  <1>2. PICK k \in 1..Len(back[v]) :
          /\ Reply(c, SubSeq(back[v], 1, k))
          /\ back' = [back EXCEPT ![v] = SubSeq(@, k + 1, Len(@))]
    BY DEF Take
  <1>3. /\ SubSeq(back[v], 1, k) \in Seq(Answers)
        /\ SubSeq(back[v], k + 1, Len(back[v])) \in Seq(Answers)
    BY <1>1
  <1>4. /\ th' \in [Clients -> Threads]
        /\ th'[c].pc = "idle" /\ th'[c].safe = th[c].safe
        /\ \A d \in Clients : d # c => th'[d] = th[d]
    <2>a. PICK a \in Seq(Answers) :
            th' = [th EXCEPT ![c].pc = "idle", ![c].to = 0, ![c].ans = a]
      BY <1>2, <1>3 DEF Reply
    <2>1. th \in [Clients -> Threads] /\ th[c] \in Threads /\ 0 \in Nodes
      BY <1>0, SizeAssumption DEF TypeOK, Nodes
    <2>2. /\ th'[c] = [pc |-> "idle", n |-> th[c].n, slot |-> th[c].slot, to |-> 0,
                       safe |-> th[c].safe, ans |-> a]
          /\ \A d \in Clients : d # c => th'[d] = th[d]
      BY <2>1, <2>a DEF Threads
    <2>3. th'[c] \in Threads
      BY <2>1, <2>2 DEF Threads
    <2> QED BY <2>1, <2>2, <2>3, <2>a
  <1>5. back' \in [Sockets -> Seq(Answers)]
    BY <1>0, <1>1, <1>2, <1>3 DEF TypeOK
  <1>6. /\ Progress' /\ Built' = Built
        /\ \A i, s : Mine(i, s)' = Mine(i, s)
    BY <1>0, TablesStay
  <1>7. TypeOK'
    BY <1>0, <1>4, <1>5 DEF TypeOK
  <1>8. ASSUME NEW d \in Clients PROVE Thread(d)'
    <2>1. CASE d = c
      BY <2>1, <1>0, <1>4, <1>6 DEF Thread
    <2>2. CASE d # c
      BY <2>2, <1>4, <1>6 DEF IInv, Thread
    <2> QED BY <2>1, <2>2
  <1>9. Sent' /\ OneHop'
    BY <1>0 DEF IInv, Sent, OneHop
  <1> QED BY <1>6, <1>7, <1>8, <1>9 DEF IInv

LEMMA RouteStep ==
    ASSUME IInv, NEW c \in Clients, Route(c)
    PROVE  IInv'
  <1>0. /\ TypeOK /\ th[c].pc = "route" /\ Thread(c)
        /\ UNCHANGED <<start, end, peers, tell, half, back, work, again>>
    BY DEF IInv, Route
  <1>1. PICK i \in Nodes, s \in Slots : Home[c] = i /\ th[c].slot = s
    BY <1>0, ClientsAssumption DEF TypeOK, Threads
  <1>2. /\ Progress' /\ Built' = Built
        /\ \A k, x : Mine(k, x)' = Mine(k, x)
    BY <1>0, TablesStay
  <1>3. OneHop'
    BY <1>0 DEF IInv, OneHop
  <1>4. CASE fault' = TRUE /\ UNCHANGED <<th, out>>
    <2>1. TypeOK'
      BY <1>0, <1>4 DEF TypeOK
    <2>2. Sent' /\ \A d \in Clients : Thread(d)'
      BY <1>0, <1>2, <1>4 DEF IInv, Sent, Thread
    <2> QED BY <1>2, <1>3, <2>1, <2>2 DEF IInv
  <1>5. CASE /\ Entries(i, s) # {}
             /\ out' = [out EXCEPT ![<<i, peers[i][First(i, s)].to>>] = Append(@, Command(c))]
             /\ th' = [th EXCEPT ![c].pc = "wait", ![c].to = peers[i][First(i, s)].to]
             /\ UNCHANGED fault
    <2>1. PICK e \in Entries(i, s) : TRUE
      BY <1>5
    <2>2. /\ peers[i][First(i, s)].to \in Nodes
          /\ Owns(peers[i][First(i, s)].to, s)
      BY <2>1, FoundOwner
    <2>3. PICK j \in Nodes : peers[i][First(i, s)].to = j /\ Owns(j, s)
      BY <2>2
    <2>4. Command(c) \in Commands /\ Command(c).slot = s
      BY <1>0, <1>1, CommandType DEF Command
    <2>5. PICK m \in Commands : Command(c) = m
      BY <2>4
    <2>6. <<i, j>> \in Sockets /\ out \in [Sockets -> Seq(Commands)]
      BY <1>0 DEF Sockets, TypeOK
    <2>7. /\ out' \in [Sockets -> Seq(Commands)]
          /\ out'[<<i, j>>] = Append(out[<<i, j>>], m)
          /\ \A x \in Sockets : x # <<i, j>> => out'[x] = out[x]
      BY <1>5, <2>3, <2>5, <2>6
    <2>8. th \in [Clients -> Threads] /\ th[c] \in Threads
      BY <1>0 DEF TypeOK
    <2>9. /\ th'[c] = [pc |-> "wait", n |-> th[c].n, slot |-> th[c].slot, to |-> j,
                       safe |-> th[c].safe, ans |-> th[c].ans]
          /\ \A d \in Clients : d # c => th'[d] = th[d]
      BY <1>5, <2>3, <2>8 DEF Threads
    <2>10. th' \in [Clients -> Threads]
      <3>1. th'[c] \in Threads
        BY <2>8, <2>9 DEF Threads
      <3> QED BY <3>1, <2>8, <2>9, <1>5
    <2>11. TypeOK'
      BY <1>0, <1>5, <2>7, <2>10 DEF TypeOK
    <2>12. Sent'
      <3>1. ASSUME NEW x \in Sockets, NEW k \in 1..Len(out'[x])
            PROVE  Owns(x[2], out'[x][k].slot)
        <4>1. CASE x # <<i, j>>
          BY <4>1, <2>7 DEF IInv, Sent
        <4>2. CASE x = <<i, j>> /\ k \in 1..Len(out[x])
          <5>1. out'[x][k] = out[x][k]
            BY <4>2, <2>6, <2>7
          <5> QED BY <4>2, <5>1 DEF IInv, Sent
        <4>3. CASE x = <<i, j>> /\ k = Len(out[x]) + 1
          <5>1. out'[x][k] = m
            BY <4>3, <2>6, <2>7
          <5> QED BY <4>3, <5>1, <2>3, <2>4, <2>5
        <4>4. x = <<i, j>> => k \in 1..(Len(out[x]) + 1)
          BY <2>6, <2>7
        <4>5. Len(out[x]) \in Nat
          BY <2>6
        <4> QED BY <4>1, <4>2, <4>3, <4>4, <4>5
      <3>2. \A w \in work' : Owns(w.via[2], w.cmd.slot)
        BY <1>0 DEF IInv, Sent
      <3> QED BY <3>1, <3>2 DEF Sent, Owns, Lo, Hi
    <2>13. ASSUME NEW d \in Clients PROVE Thread(d)'
      <3>1. CASE d = c
        BY <3>1, <1>0, <1>1, <1>2, <2>3, <2>9 DEF Thread, Owns, Lo, Hi
      <3>2. CASE d # c
        BY <3>2, <2>9, <1>2 DEF IInv, Thread, Owns, Lo, Hi
      <3> QED BY <3>1, <3>2
    <2> QED BY <1>2, <1>3, <2>11, <2>12, <2>13 DEF IInv
  <1> QED BY <1>1, <1>4, <1>5 DEF Route

-----------------------------------------------------------------------------
(* The steps at the other end of a socket                                  *)

LEMMA ReceiveStep ==
    ASSUME IInv, NEW i \in Nodes, NEW j \in Nodes, Receive(i, j)
    PROVE  IInv'
  <1>a. <<i, j>> \in Sockets
    BY DEF Sockets
  <1>b. PICK v \in Sockets : v = <<i, j>>
    BY <1>a
  <1>0. /\ TypeOK /\ UNCHANGED <<start, end, peers, tell, half, th, back, again, fault>>
    BY DEF IInv, Receive
  <1>1. out \in [Sockets -> Seq(Commands)]
    BY <1>0 DEF TypeOK
  <1>2. PICK k \in 1..Len(out[v]) :
          /\ work' = work \union {[cmd |-> Head(out[v]), via |-> v]}
          /\ out' = [out EXCEPT ![v] = SubSeq(@, k + 1, Len(@))]
    BY <1>b DEF Receive
  <1>3. out[v] # <<>> /\ Head(out[v]) \in Commands /\ Head(out[v]) = out[v][1] /\ 1 \in 1..Len(out[v])
    BY <1>1, <1>2
  <1>4. /\ out' \in [Sockets -> Seq(Commands)]
        /\ out'[v] = SubSeq(out[v], k + 1, Len(out[v]))
        /\ \A x \in Sockets : x # v => out'[x] = out[x]
    BY <1>1, <1>2
  <1>5. TypeOK'
    <2>1. work' \subseteq [cmd : Commands, via : Sockets]
      BY <1>0, <1>1, <1>2, <1>3 DEF TypeOK
    <2> QED BY <1>0, <1>4, <2>1 DEF TypeOK
  <1>6. /\ Progress' /\ Built' = Built
        /\ \A a, b : Mine(a, b)' = Mine(a, b)
    BY <1>0, TablesStay
  <1>7. Sent'
    <2>1. ASSUME NEW x \in Sockets, NEW y \in 1..Len(out'[x])
          PROVE  Owns(x[2], out'[x][y].slot)
      <3>1. CASE x # v
        BY <3>1, <1>4 DEF IInv, Sent
      <3>2. CASE x = v
        <4>1. y + k \in 1..Len(out[v]) /\ out'[x][y] = out[v][y + k]
          BY <3>2, <1>1, <1>2, <1>4
        <4> QED BY <4>1, <3>2, <1>1 DEF IInv, Sent
      <3> QED BY <3>1, <3>2
    <2>2. ASSUME NEW w \in work' PROVE Owns(w.via[2], w.cmd.slot)
      <3>1. CASE w \in work
        BY <3>1 DEF IInv, Sent
      <3>2. CASE w = [cmd |-> Head(out[v]), via |-> v]
        <4>1. Owns(v[2], out[v][1].slot)
          BY <1>1, <1>3 DEF IInv, Sent
        <4> QED BY <4>1, <3>2, <1>3
      <3> QED BY <3>1, <3>2, <1>2
    <2> QED BY <2>1, <2>2 DEF Sent, Owns, Lo, Hi
  <1>8. (\A d \in Clients : Thread(d)') /\ OneHop'
    BY <1>0, <1>6 DEF IInv, Thread, OneHop
  <1> QED BY <1>5, <1>6, <1>7, <1>8 DEF IInv

LEMMA ServeStep ==
    ASSUME IInv, NEW w \in work, Serve(w)
    PROVE  IInv'
  <1>0. /\ TypeOK /\ w \in [cmd : Commands, via : Sockets]
        /\ UNCHANGED <<start, end, peers, tell, half, th, out, fault>>
        /\ work' = work \ {w}
    BY DEF IInv, Serve, TypeOK
  <1>1. /\ w.via \in Sockets /\ w.via[2] \in Nodes
        /\ w.cmd.of \in Clients \X (1..MaxCommands) /\ w.cmd.slot \in Slots
    BY <1>0, ClientsAssumption DEF Commands, Sockets
  <1>2. Owns(w.via[2], w.cmd.slot)
    BY DEF IInv, Sent
  <1>3. Mine(w.via[2], w.cmd.slot)
    BY <1>1, <1>2, OwnerTakes
  <1>4. /\ back' = [back EXCEPT ![w.via] = Append(@, [of |-> w.cmd.of, by |-> w.via[2]])]
        /\ UNCHANGED again
    BY <1>3 DEF Serve
  <1>5. TypeOK'
    <2>1. [of |-> w.cmd.of, by |-> w.via[2]] \in Answers
      BY <1>1 DEF Answers
    <2>2. back' \in [Sockets -> Seq(Answers)]
      BY <2>1, <1>0, <1>1, <1>4 DEF TypeOK
    <2> QED BY <2>2, <1>0, <1>4 DEF TypeOK
  <1>6. /\ Progress' /\ Built' = Built
        /\ \A a, b : Mine(a, b)' = Mine(a, b)
    BY <1>0, TablesStay
  <1>7. Sent'
    BY <1>0 DEF IInv, Sent
  <1>8. (\A d \in Clients : Thread(d)') /\ OneHop'
    BY <1>0, <1>4, <1>6 DEF IInv, Thread, OneHop
  <1> QED BY <1>5, <1>6, <1>7, <1>8 DEF IInv

-----------------------------------------------------------------------------
(* The invariant holds                                                     *)

LEMMA InitInv == Init => IInv
  <1> SUFFICES ASSUME Init PROVE IInv
    OBVIOUS
  <1>0. N \in Nat \ {0} /\ Total \in Nat \ {0} /\ 0 \in Nodes /\ 0 \in Slots
    BY SizeAssumption DEF Nodes, Slots
  <1>1. /\ tell = <<0, 0>> /\ half = FALSE /\ work = {} /\ again = {} /\ fault = FALSE
        /\ start = [i \in Nodes |-> 0] /\ end = [i \in Nodes |-> Total - 1]
        /\ peers = [i \in Nodes |-> <<>>]
        /\ out = [x \in Sockets |-> <<>>] /\ back = [x \in Sockets |-> <<>>]
        /\ th = [c \in Clients |-> [pc |-> "idle", n |-> 0, slot |-> 0, to |-> 0,
                                    safe |-> FALSE, ans |-> <<>>]]
    BY DEF Init
  <1>2. TypeOK
    <2>1. th \in [Clients -> Threads]
      BY <1>0, <1>1, ClientsAssumption DEF Threads
    <2>2. start \in [Nodes -> Int] /\ end \in [Nodes -> Int] /\ peers \in [Nodes -> Seq(Peers)]
      BY <1>0, <1>1
    <2>3. out \in [Sockets -> Seq(Commands)] /\ back \in [Sockets -> Seq(Answers)]
      BY <1>1
    <2>4. tell \in (0..N) \X Nodes
      BY <1>0, <1>1
    <2> QED BY <2>1, <2>2, <2>3, <2>4, <1>1 DEF TypeOK
  <1>3. Progress
    <2>1. ASSUME NEW i \in Nodes PROVE Listed(i) /\ Ranged(i)
      <3>1. Told(i) = 0 /\ ~(i < 0)
        BY <1>0, <1>1 DEF Told, Nodes
      <3> QED BY <3>1, <1>1 DEF Listed, Ranged
    <2> QED BY <2>1, <1>1 DEF Progress
  <1>4. Sent /\ OneHop
    BY <1>1 DEF Sent, OneHop
  <1>5. ASSUME NEW c \in Clients PROVE Thread(c)
    BY <1>1 DEF Thread
  <1> QED BY <1>2, <1>3, <1>4, <1>5 DEF IInv

LEMMA NextInv == IInv /\ [Next]_vars => IInv'
  <1> SUFFICES ASSUME IInv, [Next]_vars PROVE IInv'
    OBVIOUS
  <1>1. CASE Build
    BY <1>1, SetStartStep, SetEndStep, ConnectStep DEF Build
  <1>2. ASSUME NEW c \in Clients, Call(c) PROVE IInv'
    BY <1>2, CallStep
  <1>3. ASSUME NEW c \in Clients, Run(c) PROVE IInv'
    <2>1. CASE Execute(c)
      BY <2>1, ExecuteStep
    <2>2. CASE Route(c)
      BY <2>2, RouteStep
    <2>3. CASE Take(c)
      BY <2>3, TakeStep
    <2> QED BY <1>3, <2>1, <2>2, <2>3 DEF Run
  <1>4. ASSUME NEW i \in Nodes, NEW j \in Nodes, Server(i, j) PROVE IInv'
    <2>1. CASE Receive(i, j)
      BY <2>1, ReceiveStep
    <2>2. ASSUME NEW w \in work, Serve(w) PROVE IInv'
      BY <2>2, ServeStep
    <2> QED BY <1>4, <2>1, <2>2 DEF Server
  <1>5. CASE UNCHANGED vars
    <2>1. UNCHANGED <<start, end, peers, tell, half, th, out, back, work, again, fault>>
      BY <1>5 DEF vars
    <2>2. Progress' /\ Built' = Built /\ \A i, s : Mine(i, s)' = Mine(i, s)
      BY <2>1, TablesStay
    <2>3. TypeOK' /\ Sent' /\ OneHop' /\ \A c \in Clients : Thread(c)'
      BY <2>1, <2>2 DEF IInv, TypeOK, Sent, OneHop, Thread, Owns, Lo, Hi
    <2> QED BY <2>2, <2>3 DEF IInv
  <1> QED BY <1>1, <1>2, <1>3, <1>4, <1>5 DEF Next, Over

LEMMA Invariance == Spec => []IInv
  <1> QED BY InitInv, NextInv, PTL DEF Spec

-----------------------------------------------------------------------------
(* The theorems                                                            *)

LEMMA BuiltPartitioned ==
    ASSUME IInv
    PROVE  Partitioned
  <1> SUFFICES ASSUME Built, NEW s \in Slots
               PROVE  \E k \in Nodes : \A i \in Nodes :
                        IF i = k THEN Mine(i, s)
                        ELSE ~Mine(i, s) /\ Entries(i, s) # {} /\ peers[i][First(i, s)].to = k
    BY DEF Partitioned
  <1>1. PICK k \in Nodes : Owns(k, s)
    BY SlotCovered
  <1>2. N \in Nat \ {0} /\ k \in 0..(N - 1)
    BY SizeAssumption DEF Nodes
  <1>3. ASSUME NEW i \in Nodes
        PROVE  /\ i \in 0..(N - 1)
               /\ Mine(i, s) <=> Owns(i, s)
               /\ Len(peers[i]) = N - 1
               /\ \A x \in 1..(N - 1) : peers[i][x] = Entry(At(i, x))
    <2>1. Listed(i) /\ Ranged(i)
      BY DEF IInv, Progress
    <2>2. i \in 0..(N - 1)
      BY SizeAssumption DEF Nodes
    <2>3. Told(i) = N
      BY <2>2, SizeAssumption DEF Told, Built
    <2> QED BY <2>1, <2>2, <2>3 DEF Listed, Ranged, Mine, Owns
  <1>4. Mine(k, s)
    BY <1>1, <1>3
  <1>5. ASSUME NEW i \in Nodes, i # k
        PROVE  ~Mine(i, s) /\ Entries(i, s) # {} /\ peers[i][First(i, s)].to = k
    <2>1. ~Mine(i, s)
      BY <1>1, <1>3, <1>5, SlotOwnedOnce
    <2> DEFINE x == IF k < i THEN k + 1 ELSE k
    <2>2. x \in 1..(N - 1) /\ At(i, x) = k
      BY <1>2, <1>3, <1>5 DEF At
    <2> HIDE DEF x
    <2>3. peers[i][x] = Entry(k)
      BY <1>3, <2>2
    <2>4. peers[i][x].lo = Lo(k) /\ peers[i][x].hi = Hi(k)
      BY <2>3 DEF Entry
    <2>5. x \in DOMAIN peers[i]
      <3>1. peers[i] \in Seq(Peers) /\ Len(peers[i]) = N - 1
        BY <1>3 DEF IInv, TypeOK
      <3> QED BY <3>1, <2>2
    <2>6. x \in Entries(i, s)
      BY <1>1, <2>4, <2>5 DEF Entries, Owns
    <2>7. peers[i][First(i, s)].to = k
      BY <2>2, <2>6, FoundOwner
    <2> QED BY <2>1, <2>6, <2>7
  <1> QED BY <1>4, <1>5

\* The state of the servers, the sockets and the threads keeps its types.
THEOREM ClusterTypes == Spec => []TypeOK
  <1>1. IInv => TypeOK
    BY DEF IInv
  <1> QED BY <1>1, Invariance, PTL

\* Whatever the numbers of servers and slots, the complete cluster gives every slot
\* to exactly one server, and the search in scan_and_send leads every other server
\* to that one.
THEOREM ClusterPartition == Spec => []Partitioned
  <1> QED BY BuiltPartitioned, Invariance, PTL

\* No command is sent on twice, at any time of the building.
THEOREM ClusterOneHop == Spec => []OneHop
  <1>1. IInv => OneHop
    BY DEF IInv
  <1> QED BY <1>1, Invariance, PTL

LEMMA ReachableStep ==
    ASSUME IInv, [Next]_vars
    PROVE  fault' = fault \/ \E c \in Clients : th[c].pc = "route" /\ ~th[c].safe
  <1>1. CASE Build
    BY <1>1 DEF Build, SetStart, SetEnd, Connect
  <1>2. ASSUME NEW c \in Clients, Call(c) PROVE fault' = fault
    BY <1>2 DEF Call
  <1>3. ASSUME NEW c \in Clients, Run(c), th[c].pc = "route" => th[c].safe
        PROVE  fault' = fault
    <2>1. CASE Execute(c)
      BY <2>1 DEF Execute
    <2>2. CASE Take(c)
      BY <2>2 DEF Take
    <2>3. CASE Route(c)
      <3>1. th[c].pc = "route" /\ th[c].safe /\ Thread(c) /\ TypeOK
        BY <1>3, <2>3 DEF Route, IInv
      <3>2. Built /\ ~Mine(Home[c], th[c].slot)
        BY <3>1 DEF Thread
      <3>3. Home[c] \in Nodes /\ th[c].slot \in Slots
        BY <3>1, ClientsAssumption DEF TypeOK, Threads
      <3>4. Entries(Home[c], th[c].slot) # {}
        BY <3>2, <3>3, BuiltPartitioned DEF Partitioned
      <3> QED BY <2>3, <3>2, <3>4 DEF Route, Filling
    <2> QED BY <1>3, <2>1, <2>2, <2>3 DEF Run
  <1>4. ASSUME NEW i \in Nodes, NEW j \in Nodes, Server(i, j) PROVE fault' = fault
    BY <1>4 DEF Server, Receive, Serve
  <1>5. CASE UNCHANGED vars
    BY <1>5 DEF vars
  <1> QED BY <1>1, <1>2, <1>3, <1>4, <1>5 DEF Next, Over

\* No command that comes to a complete cluster reads cluster_vec behind its end.
THEOREM ClusterReachable == Spec => Reachable
  <1>1. IInv /\ [Next]_vars =>
          [fault' = fault \/ \E c \in Clients : th[c].pc = "route" /\ ~th[c].safe]_vars
    BY ReachableStep
  <1> QED BY <1>1, Invariance, PTL DEF Spec, Reachable

-----------------------------------------------------------------------------
(* Answers, where no two clients share a server.  What is on a socket is   *)
(* then the command of the one thread that waits there, or its answer.     *)

WaitsOn(c, x) == th[c].pc = "wait" /\ Home[c] = x[1] /\ th[c].to = x[2]

Still(x) == \A w \in work : w.via # x

Asked(c, x) == out[x] = <<Command(c)>> /\ back[x] = <<>> /\ Still(x)
Served(c, x) == /\ out[x] = <<>> /\ back[x] = <<>>
                /\ \A w \in work : w.via = x => w.cmd = Command(c)
Said(c, x) == out[x] = <<>> /\ back[x] = <<[of |-> <<c, th[c].n>>, by |-> x[2]]>> /\ Still(x)

Quiet(x) == out[x] = <<>> /\ back[x] = <<>> /\ Still(x)

Flight(x) ==
    \/ Quiet(x)
    \/ \E c \in Clients : WaitsOn(c, x) /\ (Asked(c, x) \/ Served(c, x) \/ Said(c, x))

HasOwn(c) ==
    th[c].pc = "idle" /\ th[c].n > 0 =>
        \E k \in Nodes : /\ th[c].ans = <<[of |-> <<c, th[c].n>>, by |-> k]>>
                         /\ th[c].safe => Owns(k, th[c].slot)

AInv == (\A x \in Sockets : Flight(x)) /\ (\A c \in Clients : HasOwn(c))

\* What one thread does leaves the sockets of the others alone.
LEMMA OthersFlight ==
    ASSUME AInv, NEW c \in Clients, NEW x \in Sockets, ~WaitsOn(c, x),
           UNCHANGED work, out'[x] = out[x], back'[x] = back[x],
           \A d \in Clients : d # c => th'[d] = th[d]
    PROVE  Flight(x)'
  <1>1. CASE Quiet(x)
    BY <1>1 DEF Quiet, Still, Flight
  <1>2. CASE \E d \in Clients : WaitsOn(d, x) /\ (Asked(d, x) \/ Served(d, x) \/ Said(d, x))
    <2>1. PICK d \in Clients : WaitsOn(d, x) /\ (Asked(d, x) \/ Served(d, x) \/ Said(d, x))
      BY <1>2
    <2>2. th'[d] = th[d]
      BY <2>1
    <2>3. WaitsOn(d, x)'
      BY <2>1, <2>2 DEF WaitsOn
    <2>4. (Asked(d, x) \/ Served(d, x) \/ Said(d, x))'
      BY <2>1, <2>2 DEF Asked, Served, Said, Still, Command
    <2> QED BY <2>3, <2>4 DEF Flight
  <1> QED BY <1>1, <1>2 DEF AInv, Flight

LEMMA BuiltMine ==
    ASSUME IInv, Built, NEW i \in Nodes, NEW s \in Slots, Mine(i, s)
    PROVE  Owns(i, s)
  <1>1. i \in 0..(N - 1) /\ N \in Nat \ {0}
    BY SizeAssumption DEF Nodes
  <1>2. Told(i) = N
    BY <1>1 DEF Told, Built
  <1>3. Ranged(i)
    BY DEF IInv, Progress
  <1> QED BY <1>1, <1>2, <1>3 DEF Ranged, Mine, Owns

LEMMA CallAnswers ==
    ASSUME IInv, AInv, NEW c \in Clients, Call(c)
    PROVE  AInv'
  <1>0. /\ TypeOK /\ th[c].pc = "idle" /\ UNCHANGED <<out, back, work>>
    BY DEF IInv, Call
  <1>1. PICK s \in Named :
          th' = [th EXCEPT ![c].pc = "here", ![c].n = @ + 1, ![c].slot = s,
                           ![c].safe = Built, ![c].ans = <<>>]
    BY DEF Call
  <1>2. th'[c].pc = "here" /\ \A d \in Clients : d # c => th'[d] = th[d]
    BY <1>0, <1>1 DEF TypeOK, Threads
  <1>3. ASSUME NEW x \in Sockets PROVE Flight(x)'
    <2>1. ~WaitsOn(c, x)
      BY <1>0 DEF WaitsOn
    <2> QED BY <1>0, <1>2, <2>1, OthersFlight
  <1>4. ASSUME NEW d \in Clients PROVE HasOwn(d)'
    BY <1>2 DEF AInv, HasOwn, Owns, Lo, Hi
  <1> QED BY <1>3, <1>4 DEF AInv

LEMMA ExecuteAnswers ==
    ASSUME IInv, AInv, NEW c \in Clients, Execute(c)
    PROVE  AInv'
  <1>0. /\ TypeOK /\ Thread(c) /\ th[c].pc = "here" /\ UNCHANGED <<out, back, work>>
    BY DEF IInv, Execute
  <1>1. th \in [Clients -> Threads] /\ th[c] \in Threads /\ Home[c] \in Nodes /\ th[c].slot \in Slots
    BY <1>0, ClientsAssumption DEF TypeOK, Threads
  <1>2. /\ \A d \in Clients : d # c => th'[d] = th[d]
        /\ HasOwn(c)'
    <2>1. CASE Mine(Home[c], th[c].slot)
      <3>1. th' = [th EXCEPT ![c].pc = "idle", ![c].to = 0,
                             ![c].ans = <<[of |-> <<c, th[c].n>>, by |-> Home[c]]>>]
        BY <2>1 DEF Execute, Reply
      <3>2. /\ th'[c].n = th[c].n /\ th'[c].slot = th[c].slot /\ th'[c].safe = th[c].safe
            /\ th'[c].ans = <<[of |-> <<c, th[c].n>>, by |-> Home[c]]>>
            /\ \A d \in Clients : d # c => th'[d] = th[d]
        BY <3>1, <1>1 DEF Threads
      <3>3. th[c].safe => Owns(Home[c], th[c].slot)
        BY <1>0, <1>1, <2>1, BuiltMine DEF Thread
      <3> QED BY <1>1, <3>2, <3>3 DEF HasOwn, Owns, Lo, Hi
    <2>2. CASE ~Mine(Home[c], th[c].slot)
      <3>1. th' = [th EXCEPT ![c].pc = "route"]
        BY <2>2 DEF Execute
      <3>2. th'[c].pc = "route" /\ \A d \in Clients : d # c => th'[d] = th[d]
        BY <3>1, <1>1 DEF Threads
      <3> QED BY <3>2 DEF HasOwn
    <2> QED BY <2>1, <2>2
  <1>3. ASSUME NEW x \in Sockets PROVE Flight(x)'
    <2>1. ~WaitsOn(c, x)
      BY <1>0 DEF WaitsOn
    <2> QED BY <1>0, <1>2, <2>1, OthersFlight
  <1>4. ASSUME NEW d \in Clients PROVE HasOwn(d)'
    <2>1. CASE d # c
      BY <2>1, <1>2 DEF AInv, HasOwn, Owns, Lo, Hi
    <2> QED BY <2>1, <1>2
  <1> QED BY <1>3, <1>4 DEF AInv

\* No two clients are connected to one server.
OneEach == \A c, d \in Clients : Home[c] = Home[d] => c = d

LEMMA TakeTheOne ==
    ASSUME NEW S, NEW q \in Seq(S), Len(q) = 1, NEW k \in 1..Len(q)
    PROVE  SubSeq(q, 1, k) = q /\ SubSeq(q, k + 1, Len(q)) = <<>>
  <1>1. k = 1
    OBVIOUS
  <1>2. SubSeq(q, 1, Len(q)) = q
    BY SubSeqFull
  <1>3. SubSeq(q, 2, 1) = <<>>
    BY SubSeqEmpty
  <1> QED BY <1>1, <1>2, <1>3

LEMMA RouteAnswers ==
    ASSUME IInv, AInv, OneEach, NEW c \in Clients, Route(c)
    PROVE  AInv'
  <1>0. /\ TypeOK /\ Thread(c) /\ th[c].pc = "route" /\ UNCHANGED <<back, work>>
    BY DEF IInv, Route
  <1>1. PICK i \in Nodes, s \in Slots : Home[c] = i /\ th[c].slot = s
    BY <1>0, ClientsAssumption DEF TypeOK, Threads
  <1>2. ASSUME NEW x \in Sockets PROVE ~WaitsOn(c, x)
    BY <1>0 DEF WaitsOn
  <1>3. CASE UNCHANGED <<th, out>>
    <2>1. ASSUME NEW x \in Sockets PROVE Flight(x)'
      BY <1>0, <1>2, <1>3, OthersFlight
    <2>2. ASSUME NEW d \in Clients PROVE HasOwn(d)'
      BY <1>3 DEF AInv, HasOwn, Owns, Lo, Hi
    <2> QED BY <2>1, <2>2 DEF AInv
  <1>4. CASE /\ Entries(i, s) # {}
             /\ out' = [out EXCEPT ![<<i, peers[i][First(i, s)].to>>] = Append(@, Command(c))]
             /\ th' = [th EXCEPT ![c].pc = "wait", ![c].to = peers[i][First(i, s)].to]
    <2>1. PICK e \in Entries(i, s) : TRUE
      BY <1>4
    <2>2. peers[i][First(i, s)].to \in Nodes
      BY <2>1, FoundOwner
    <2>3. PICK j \in Nodes : peers[i][First(i, s)].to = j
      BY <2>2
    <2>4. PICK v \in Sockets : v = <<i, j>>
      BY DEF Sockets
    <2>5. /\ out' = [out EXCEPT ![v] = Append(@, Command(c))]
          /\ out \in [Sockets -> Seq(Commands)]
      BY <1>0, <1>4, <2>3, <2>4 DEF TypeOK
    <2>6. Quiet(v)
      <3>1. ASSUME NEW d \in Clients, WaitsOn(d, v) PROVE FALSE
        <4>1. Home[d] = Home[c]
          BY <3>1, <1>1, <2>4 DEF WaitsOn
        <4> QED BY <3>1, <4>1, <1>2 DEF OneEach
      <3> QED BY <3>1 DEF AInv, Flight
    <2>7. out'[v] = <<Command(c)>>
      BY <2>5, <2>6 DEF Quiet
    <2>8. /\ th'[c].pc = "wait" /\ th'[c].to = j /\ th'[c].n = th[c].n /\ th'[c].slot = th[c].slot
          /\ \A d \in Clients : d # c => th'[d] = th[d]
      BY <1>0, <1>4, <2>3 DEF TypeOK, Threads
    <2>9. Flight(v)'
      <3>1. WaitsOn(c, v)'
        BY <1>1, <2>4, <2>8 DEF WaitsOn
      <3>2. Asked(c, v)'
        BY <1>0, <2>6, <2>7, <2>8 DEF Asked, Quiet, Still, Command
      <3> QED BY <3>1, <3>2 DEF Flight
    <2>10. ASSUME NEW x \in Sockets, x # v PROVE Flight(x)'
      <3>1. out'[x] = out[x]
        BY <2>5, <2>10
      <3> QED BY <3>1, <1>0, <1>2, <2>8, OthersFlight
    <2>11. ASSUME NEW d \in Clients PROVE HasOwn(d)'
      BY <2>8 DEF AInv, HasOwn, Owns, Lo, Hi
    <2> QED BY <2>9, <2>10, <2>11 DEF AInv
  <1> QED BY <1>1, <1>3, <1>4 DEF Route

LEMMA TakeAnswers ==
    ASSUME IInv, AInv, OneEach, NEW c \in Clients, Take(c)
    PROVE  AInv'
  <1>0. /\ TypeOK /\ Thread(c) /\ th[c].pc = "wait" /\ UNCHANGED <<out, work>>
    BY DEF IInv, Take
  <1>1. PICK i \in Nodes, j \in Nodes : Home[c] = i /\ th[c].to = j
    BY <1>0, ClientsAssumption DEF TypeOK, Threads
  <1>2. PICK v \in Sockets : v = <<i, j>>
    BY DEF Sockets
  <1>3. back \in [Sockets -> Seq(Answers)] /\ th \in [Clients -> Threads] /\ th[c] \in Threads
    BY <1>0 DEF TypeOK
  <1>4. PICK k \in 1..Len(back[v]) :
          /\ th' = [th EXCEPT ![c].pc = "idle", ![c].to = 0, ![c].ans = SubSeq(back[v], 1, k)]
          /\ back' = [back EXCEPT ![v] = SubSeq(@, k + 1, Len(@))]
    BY <1>1, <1>2 DEF Take, Reply
  <1>5. back[v] # <<>>
    BY <1>3, <1>4
  <1>6. Said(c, v)
    <2>1. PICK d \in Clients : WaitsOn(d, v) /\ Said(d, v)
      BY <1>5 DEF AInv, Flight, Quiet, Asked, Served
    <2>2. d = c
      BY <2>1, <1>1, <1>2 DEF WaitsOn, OneEach
    <2> QED BY <2>1, <2>2
  <1>7. back[v] = <<[of |-> <<c, th[c].n>>, by |-> j]>> /\ out[v] = <<>> /\ Still(v)
    BY <1>6, <1>2 DEF Said
  <1>8. PICK a \in Answers : a = [of |-> <<c, th[c].n>>, by |-> j]
    <2>1. th[c].n \in 1..MaxCommands
      BY <1>0 DEF Thread
    <2> QED BY <2>1 DEF Answers
  <1>9. SubSeq(back[v], 1, k) = <<a>> /\ SubSeq(back[v], k + 1, Len(back[v])) = <<>>
    <2>1. back[v] = <<a>> /\ <<a>> \in Seq(Answers) /\ Len(<<a>>) = 1
      BY <1>7, <1>8
    <2>2. k \in 1..Len(<<a>>)
      BY <1>4, <2>1
    <2>3. SubSeq(<<a>>, 1, k) = <<a>> /\ SubSeq(<<a>>, k + 1, Len(<<a>>)) = <<>>
      BY <2>1, <2>2, TakeTheOne
    <2> QED BY <2>1, <2>3
  <1>10. /\ th'[c].n = th[c].n /\ th'[c].slot = th[c].slot /\ th'[c].safe = th[c].safe
         /\ th'[c].ans = <<a>>
         /\ \A d \in Clients : d # c => th'[d] = th[d]
    BY <1>3, <1>4, <1>9 DEF Threads
  <1>11. back'[v] = <<>> /\ \A x \in Sockets : x # v => back'[x] = back[x]
    BY <1>3, <1>4, <1>9
  <1>12. Flight(v)'
    BY <1>0, <1>7, <1>11 DEF Flight, Quiet, Still
  <1>13. ASSUME NEW x \in Sockets, x # v PROVE Flight(x)'
    <2>1. ~WaitsOn(c, x)
      BY <1>1, <1>2, <1>13 DEF WaitsOn, Sockets
    <2> QED BY <2>1, <1>0, <1>10, <1>11, <1>13, OthersFlight
  <1>14. ASSUME NEW d \in Clients PROVE HasOwn(d)'
    <2>1. CASE d = c
      <3>1. Owns(j, th[c].slot)
        BY <1>0, <1>1 DEF Thread
      <3> QED BY <2>1, <3>1, <1>8, <1>10 DEF HasOwn, Owns, Lo, Hi
    <2>2. CASE d # c
      BY <2>2, <1>10 DEF AInv, HasOwn, Owns, Lo, Hi
    <2> QED BY <2>1, <2>2
  <1> QED BY <1>12, <1>13, <1>14 DEF AInv

LEMMA ReceiveAnswers ==
    ASSUME IInv, AInv, NEW i \in Nodes, NEW j \in Nodes, Receive(i, j)
    PROVE  AInv'
  <1>0. TypeOK /\ UNCHANGED <<th, back>>
    BY DEF IInv, Receive
  <1>1. PICK v \in Sockets : v = <<i, j>>
    BY DEF Sockets
  <1>2. PICK k \in 1..Len(out[v]) :
          /\ work' = work \union {[cmd |-> Head(out[v]), via |-> v]}
          /\ out' = [out EXCEPT ![v] = SubSeq(@, k + 1, Len(@))]
    BY <1>1 DEF Receive
  <1>3. out[v] \in Seq(Commands) /\ out \in [Sockets -> Seq(Commands)]
    BY <1>0 DEF TypeOK
  <1>4. out[v] # <<>>
    BY <1>2, <1>3
  <1>5. PICK c \in Clients : WaitsOn(c, v) /\ Asked(c, v)
    BY <1>4 DEF AInv, Flight, Quiet, Served, Said
  <1>6. out[v] = <<Command(c)>> /\ back[v] = <<>> /\ Still(v)
    BY <1>5 DEF Asked
  <1>7. Head(out[v]) = Command(c) /\ SubSeq(out[v], k + 1, Len(out[v])) = <<>>
    <2>1. Len(out[v]) = 1 /\ Head(out[v]) = Command(c)
      BY <1>6
    <2> QED BY <2>1, <1>2, <1>3, TakeTheOne
  <1>8. /\ out'[v] = <<>> /\ \A x \in Sockets : x # v => out'[x] = out[x]
        /\ work' = work \union {[cmd |-> Command(c), via |-> v]}
    BY <1>2, <1>3, <1>7
  <1>9. Flight(v)'
    <2>1. Served(c, v)'
      <3>1. ASSUME NEW w \in work', w.via = v PROVE w.cmd = Command(c)
        BY <3>1, <1>6, <1>8 DEF Still
      <3> QED BY <3>1, <1>0, <1>6, <1>8 DEF Served, Command
    <2>2. WaitsOn(c, v)'
      BY <1>0, <1>5 DEF WaitsOn
    <2> QED BY <2>1, <2>2 DEF Flight
  <1>10. ASSUME NEW x \in Sockets, x # v PROVE Flight(x)'
    <2>1. out'[x] = out[x] /\ \A w \in work' : w.via = x => w \in work
      BY <1>8, <1>10
    <2>2. CASE Quiet(x)
      BY <2>1, <2>2, <1>0 DEF Quiet, Still, Flight
    <2>3. CASE \E d \in Clients : WaitsOn(d, x) /\ (Asked(d, x) \/ Served(d, x) \/ Said(d, x))
      <3>1. PICK d \in Clients : WaitsOn(d, x) /\ (Asked(d, x) \/ Served(d, x) \/ Said(d, x))
        BY <2>3
      <3>2. (Asked(d, x) \/ Served(d, x) \/ Said(d, x))'
        BY <3>1, <2>1, <1>0 DEF Asked, Served, Said, Still, Command
      <3>3. WaitsOn(d, x)'
        BY <3>1, <1>0 DEF WaitsOn
      <3> QED BY <3>2, <3>3 DEF Flight
    <2> QED BY <2>2, <2>3 DEF AInv, Flight
  <1>11. ASSUME NEW d \in Clients PROVE HasOwn(d)'
    BY <1>0 DEF AInv, HasOwn, Owns, Lo, Hi
  <1> QED BY <1>9, <1>10, <1>11 DEF AInv

LEMMA ServeAnswers ==
    ASSUME IInv, AInv, NEW w \in work, Serve(w)
    PROVE  AInv'
  <1>0. /\ TypeOK /\ w \in [cmd : Commands, via : Sockets]
        /\ UNCHANGED <<th, out>> /\ work' = work \ {w}
    BY DEF IInv, Serve, TypeOK
  <1>1. PICK v \in Sockets : w.via = v
    BY <1>0
  <1>2. v[2] \in Nodes /\ w.cmd.slot \in Slots
    BY <1>0, ClientsAssumption DEF Sockets, Commands
  <1>3. Mine(v[2], w.cmd.slot)
    <2>1. Owns(v[2], w.cmd.slot)
      BY <1>1 DEF IInv, Sent
    <2> QED BY <2>1, <1>2, OwnerTakes
  <1>4. /\ back' = [back EXCEPT ![v] = Append(@, [of |-> w.cmd.of, by |-> v[2]])]
        /\ back \in [Sockets -> Seq(Answers)]
    BY <1>0, <1>1, <1>3 DEF Serve, TypeOK
  <1>5. PICK c \in Clients : WaitsOn(c, v) /\ Served(c, v)
    BY <1>1 DEF AInv, Flight, Quiet, Asked, Said, Still
  <1>6. out[v] = <<>> /\ back[v] = <<>> /\ \A y \in work : y.via = v => y.cmd = Command(c)
    BY <1>5 DEF Served
  <1>7. w.cmd = Command(c) /\ w.cmd.of = <<c, th[c].n>>
    <2>1. w.cmd = Command(c)
      BY <1>1, <1>6
    <2> QED BY <2>1 DEF Command
  <1>8. /\ back'[v] = <<[of |-> <<c, th[c].n>>, by |-> v[2]]>>
        /\ \A x \in Sockets : x # v => back'[x] = back[x]
    <2>1. [of |-> w.cmd.of, by |-> v[2]] \in Answers
      BY <1>0, <1>2 DEF Commands, Answers
    <2>2. PICK a \in Answers : a = [of |-> w.cmd.of, by |-> v[2]]
      BY <2>1
    <2>3. back'[v] = Append(<<>>, a) /\ \A x \in Sockets : x # v => back'[x] = back[x]
      BY <1>4, <1>6, <2>2
    <2> QED BY <2>2, <2>3, <1>7
  <1>9. ASSUME NEW y \in work' PROVE y.via # v
    <2>1. y \in work /\ y # w /\ y \in [cmd : Commands, via : Sockets]
      BY <1>0, <1>9 DEF TypeOK
    <2>2. y.via = v => y.cmd = w.cmd
      BY <2>1, <1>6, <1>7
    <2> QED BY <2>1, <2>2, <1>0, <1>1
  <1>10. Flight(v)'
    <2>1. Said(c, v)'
      BY <1>0, <1>6, <1>8, <1>9 DEF Said, Still
    <2>2. WaitsOn(c, v)'
      BY <1>0, <1>5 DEF WaitsOn
    <2> QED BY <2>1, <2>2 DEF Flight
  <1>11. ASSUME NEW x \in Sockets, x # v PROVE Flight(x)'
    <2>1. back'[x] = back[x] /\ out'[x] = out[x] /\ \A y \in work' : y \in work
      BY <1>0, <1>8, <1>11
    <2>2. CASE Quiet(x)
      BY <2>1, <2>2 DEF Quiet, Still, Flight
    <2>3. CASE \E d \in Clients : WaitsOn(d, x) /\ (Asked(d, x) \/ Served(d, x) \/ Said(d, x))
      <3>1. PICK d \in Clients : WaitsOn(d, x) /\ (Asked(d, x) \/ Served(d, x) \/ Said(d, x))
        BY <2>3
      <3>2. (Asked(d, x) \/ Served(d, x) \/ Said(d, x))'
        BY <3>1, <2>1, <1>0 DEF Asked, Served, Said, Still, Command
      <3>3. WaitsOn(d, x)'
        BY <3>1, <1>0 DEF WaitsOn
      <3> QED BY <3>2, <3>3 DEF Flight
    <2> QED BY <2>2, <2>3 DEF AInv, Flight
  <1>12. ASSUME NEW d \in Clients PROVE HasOwn(d)'
    BY <1>0 DEF AInv, HasOwn, Owns, Lo, Hi
  <1> QED BY <1>10, <1>11, <1>12 DEF AInv

LEMMA QuietAnswers ==
    ASSUME AInv, UNCHANGED <<th, out, back, work>>
    PROVE  AInv'
  <1>1. ASSUME NEW x \in Sockets PROVE Flight(x)'
    <2>1. CASE Quiet(x)
      BY <2>1 DEF Quiet, Still, Flight
    <2>2. CASE \E d \in Clients : WaitsOn(d, x) /\ (Asked(d, x) \/ Served(d, x) \/ Said(d, x))
      <3>1. PICK d \in Clients : WaitsOn(d, x) /\ (Asked(d, x) \/ Served(d, x) \/ Said(d, x))
        BY <2>2
      <3>2. (Asked(d, x) \/ Served(d, x) \/ Said(d, x))' /\ WaitsOn(d, x)'
        BY <3>1 DEF Asked, Served, Said, Still, Command, WaitsOn
      <3> QED BY <3>2 DEF Flight
    <2> QED BY <2>1, <2>2 DEF AInv, Flight
  <1>2. ASSUME NEW d \in Clients PROVE HasOwn(d)'
    BY DEF AInv, HasOwn, Owns, Lo, Hi
  <1> QED BY <1>1, <1>2 DEF AInv

LEMMA NextAnswers ==
    ASSUME IInv, AInv, OneEach, [Next]_vars
    PROVE  AInv'
  <1>1. CASE Build
    BY <1>1, QuietAnswers DEF Build, SetStart, SetEnd, Connect
  <1>2. ASSUME NEW c \in Clients, Call(c) PROVE AInv'
    BY <1>2, CallAnswers
  <1>3. ASSUME NEW c \in Clients, Run(c) PROVE AInv'
    <2>1. CASE Execute(c)
      BY <2>1, ExecuteAnswers
    <2>2. CASE Route(c)
      BY <2>2, RouteAnswers
    <2>3. CASE Take(c)
      BY <2>3, TakeAnswers
    <2> QED BY <1>3, <2>1, <2>2, <2>3 DEF Run
  <1>4. ASSUME NEW i \in Nodes, NEW j \in Nodes, Server(i, j) PROVE AInv'
    <2>1. CASE Receive(i, j)
      BY <2>1, ReceiveAnswers
    <2>2. ASSUME NEW w \in work, Serve(w) PROVE AInv'
      BY <2>2, ServeAnswers
    <2> QED BY <1>4, <2>1, <2>2 DEF Server
  <1>5. CASE UNCHANGED vars
    BY <1>5, QuietAnswers DEF vars
  <1> QED BY <1>1, <1>2, <1>3, <1>4, <1>5 DEF Next, Over

\* A client that has a server for itself gets the answer of its own command, at any
\* time of the building, and that of the slot's owner when the cluster is complete.
THEOREM ClusterAnswers ==
    ASSUME OneEach
    PROVE  Spec => []OwnAnswer
  <1>1. Init => AInv
    <2> SUFFICES ASSUME Init PROVE AInv
      OBVIOUS
    <2>1. ASSUME NEW x \in Sockets PROVE Flight(x)
      BY DEF Init, Flight, Quiet, Still
    <2>2. ASSUME NEW c \in Clients PROVE HasOwn(c)
      BY DEF Init, HasOwn
    <2> QED BY <2>1, <2>2 DEF AInv
  <1>2. IInv /\ AInv /\ [Next]_vars => AInv'
    BY NextAnswers, OneEach
  <1>3. AInv => OwnAnswer
    BY DEF AInv, HasOwn, OwnAnswer
  <1> QED BY <1>1, <1>2, <1>3, Invariance, PTL DEF Spec

=============================================================================
