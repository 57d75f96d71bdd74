----------------------------- MODULE ListsProofs -----------------------------
(***************************************************************************)
(* What clients are told by the pointers of Persist.tla is what Lists.tla  *)
(* promises: every step of the one is a step of the other, or none.        *)
(*                                                                         *)
(* The file keeps what the lists were while it was written: Lines says     *)
(* what a save has put into it so far, Watched what the history knows of   *)
(* a list, and Copying where print stands in a list that grows meanwhile.  *)
(***************************************************************************)
EXTENDS PersistProofs

-----------------------------------------------------------------------------
(* Steps of Lists, as changes of what Persist shows of them                *)

\* The command of c that has not taken effect yet, and the answer that did.
Todo(c) == IF th[c].pc \in {"idle", "head", "leave"} THEN NULL ELSE Cmd(c)
Told(c) == IF th[c].pc \in {"head", "leave"} THEN Plain("ok") ELSE th[c].ans

Seen(k) == View(k)' = View(k)
Still(c) == th'[c].n = th[c].n /\ Todo(c)' = Todo(c) /\ Told(c)' = Told(c)

LEMMA Stutters ==
    ASSUME \A k \in Keys : Seen(k), \A c \in Clients : Still(c)
    PROVE  UNCHANGED Promise!listVars
  <1>1. [k \in Keys |-> View(k)'] = [k \in Keys |-> View(k)]
    BY DEF Seen
  <1>2. [c \in Clients |-> th'[c].n] = [c \in Clients |-> th[c].n]
    BY DEF Still
  <1>3. [c \in Clients |-> Todo(c)'] = [c \in Clients |-> Todo(c)]
    BY DEF Still
  <1>4. [c \in Clients |-> Told(c)'] = [c \in Clients |-> Told(c)]
    BY DEF Still
  <1> QED BY <1>1, <1>2, <1>3, <1>4 DEF Promise!listVars, Todo, Told, Cmd

\* The command of c takes effect: its key k gets the list v, and c the answer ans.
Effect(c, k, v, ans) ==
    /\ k = Key(c) /\ k \in Keys
    /\ \A l \in Keys : l # k => Seen(l)
    /\ \A d \in Clients : d # c => Still(d)
    /\ View(k)' = v
    /\ th'[c].n = th[c].n /\ Todo(c)' = NULL /\ Told(c)' = ans

LEMMA EffectIs ==
    ASSUME NEW c \in Clients, NEW k, NEW v, NEW ans, Effect(c, k, v, ans)
    PROVE  Promise!Tell(c, ans) /\ Promise!Put(k, v)
  <1>1. [l \in Keys |-> View(l)'] = [[l \in Keys |-> View(l)] EXCEPT ![k] = v]
    BY DEF Effect, Seen
  <1>2. [d \in Clients |-> th'[d].n] = [d \in Clients |-> th[d].n]
    BY DEF Effect, Still
  <1>3. [d \in Clients |-> Todo(d)'] = [[d \in Clients |-> Todo(d)] EXCEPT ![c] = NULL]
    BY DEF Effect, Still
  <1>4. [d \in Clients |-> Told(d)'] = [[d \in Clients |-> Told(d)] EXCEPT ![c] = ans]
    BY DEF Effect, Still
  <1> QED BY <1>1, <1>2, <1>3, <1>4 DEF Promise!Tell, Promise!Put, Todo, Told, Cmd

\* c's command m is under way, and s is the list of its key.
Due(c, m, k, s) ==
    c \in Clients /\ m = Cmd(c) /\ m # NULL /\ Todo(c) = m /\ k = m.key /\ k \in Keys /\ s = View(k)

LEMMA DueIs ==
    ASSUME NEW c, NEW m, NEW k, NEW s, Due(c, m, k, s)
    PROVE  /\ Promise!Act(c) <=>
                \/ s = NULL /\ Promise!Tell(c, Plain("nokey")) /\ UNCHANGED [l \in Keys |-> View(l)]
                \/ /\ s # NULL
                   /\ \/ Promise!Push(c, m, s)
                      \/ Promise!Pop(c, m, s)
                      \/ Promise!Erase(c, m, s)
                      \/ Promise!Nothing(c, m, s)
  <1>1. [d \in Clients |-> IF th[d].pc \in {"idle", "head", "leave"} THEN NULL ELSE Cmd(d)][c] = m
    BY DEF Due, Todo
  <1>2. [l \in Keys |-> View(l)][m.key] = s
    BY DEF Due
  <1> QED BY <1>1, <1>2 DEF Due, Promise!Act, Promise!Plain, Plain

LEMMA PushActs ==
    ASSUME NEW c, NEW m, NEW k, NEW s, Due(c, m, k, s), s # NULL, m.op \in Pushes,
           Effect(c, k, IF m.op = "lpush" THEN <<m.val>> \o s ELSE Append(s, m.val), Plain("ok"))
    PROVE  Promise!Act(c)
  <1>1. Promise!Push(c, m, s)
    BY EffectIs DEF Promise!Push, Promise!Pushes, Promise!Plain, Pushes, Plain, Due
  <1> QED BY <1>1, DueIs

LEMMA PopActs ==
    ASSUME NEW c, NEW m, NEW k, NEW s, Due(c, m, k, s), s # NULL, s # <<>>, m.op \in Pops,
           Effect(c, k, IF m.op = "lpop" THEN Tail(s) ELSE Front(s),
                  [msg |-> "data", val |-> IF m.op = "lpop" THEN Head(s) ELSE Last(s)])
    PROVE  Promise!Act(c)
  <1>1. Promise!Pop(c, m, s)
    BY EffectIs DEF Promise!Pop, Promise!Pops, Promise!Front, Promise!Last, Pops, Front, Last, Due
  <1> QED BY <1>1, DueIs

LEMMA EraseActs ==
    ASSUME NEW c, NEW m, NEW k, NEW s, Due(c, m, k, s), s # NULL, s # <<>>, m.op = "lerase",
           Effect(c, k, RemoveAt(s, Index(s, m.i)), Plain("ok"))
    PROVE  Promise!Act(c)
  <1>1. Promise!Erase(c, m, s)
    BY EffectIs DEF Promise!Erase, Promise!RemoveAt, Promise!Index, Promise!Plain, RemoveAt, Index, Plain, Due
  <1> QED BY <1>1, DueIs

\* The command of c takes effect without a change.
Answered(c, ans) ==
    /\ \A k \in Keys : Seen(k)
    /\ \A d \in Clients : d # c => Still(d)
    /\ th'[c].n = th[c].n /\ Todo(c)' = NULL /\ Told(c)' = ans

LEMMA AnsweredIs ==
    ASSUME NEW c \in Clients, NEW ans, Answered(c, ans)
    PROVE  Promise!Tell(c, ans) /\ UNCHANGED [l \in Keys |-> View(l)]
  <1>1. [l \in Keys |-> View(l)'] = [l \in Keys |-> View(l)]
    BY DEF Answered, Seen
  <1>2. [d \in Clients |-> th'[d].n] = [d \in Clients |-> th[d].n]
    BY DEF Answered, Still
  <1>3. [d \in Clients |-> Todo(d)'] = [[d \in Clients |-> Todo(d)] EXCEPT ![c] = NULL]
    BY DEF Answered, Still
  <1>4. [d \in Clients |-> Told(d)'] = [[d \in Clients |-> Told(d)] EXCEPT ![c] = ans]
    BY DEF Answered, Still
  <1> QED BY <1>1, <1>2, <1>3, <1>4 DEF Promise!Tell, Todo, Told, Cmd

LEMMA NoKeyActs ==
    ASSUME NEW c, NEW m, NEW k, NEW s, Due(c, m, k, s), s = NULL, Answered(c, Plain("nokey"))
    PROVE  Promise!Act(c)
  <1>1. Promise!Tell(c, Plain("nokey")) /\ UNCHANGED [l \in Keys |-> View(l)]
    BY AnsweredIs DEF Due
  <1> QED BY <1>1, DueIs

LEMMA NothingActs ==
    ASSUME NEW c, NEW m, NEW k, NEW s, Due(c, m, k, s), s # NULL, s = <<>>, m.op \notin Pushes,
           \/ Answered(c, Plain("empty"))
           \/ Answered(c, Plain(IF m.op = "lerase" THEN "ok" ELSE "blank"))
    PROVE  Promise!Act(c)
  <1>1. \/ Promise!Tell(c, Plain("empty"))
        \/ Promise!Tell(c, Plain(IF m.op = "lerase" THEN "ok" ELSE "blank"))
    BY AnsweredIs DEF Due
  <1>2. UNCHANGED [l \in Keys |-> View(l)]
    BY AnsweredIs DEF Due
  <1>3. Promise!Nothing(c, m, s)
    BY <1>1, <1>2 DEF Promise!Nothing, Promise!Pushes, Promise!Plain, Pushes, Plain
  <1> QED BY <1>3, DueIs

-----------------------------------------------------------------------------
(* What a step changes of a list                                           *)

LEMMA SameShown ==
    ASSUME NEW nd, NEW nd2, NEW r, NEW f, \A i \in DOMAIN r : nd2[r[i]].val = nd[r[i]].val
    PROVE  Shown(nd2, r, f) = Shown(nd, r, f)
  BY DEF Shown

LEMMA SameSeq ==
    ASSUME NEW X, NEW s \in Seq(X), NEW t \in Seq(X), Len(s) = Len(t), \A i \in 1..Len(s) : s[i] = t[i]
    PROVE  s = t
  OBVIOUS

LEMMA ShownTurned ==
    ASSUME NEW nd, nd \in [DOMAIN nd -> Node], NEW r \in Seq(DOMAIN nd), Len(r) >= 2
    PROVE  /\ Shown(nd, r, TRUE) \in Seq(Elements) /\ Len(Shown(nd, r, TRUE)) = Len(r)
           /\ Shown(nd, r, TRUE)[1] = nd[r[Len(r)]].val
           /\ \A i \in 1..(Len(r) - 1) : Shown(nd, r, TRUE)[i + 1] = nd[r[i]].val
  <1>1. TRUE \in BOOLEAN
    OBVIOUS
  <1>2. TRUE => Len(r) >= 2
    OBVIOUS
  <1> QED BY <1>1, <1>2, ShownIs, Zenon

LEMMA ShownPlain ==
    ASSUME NEW nd, nd \in [DOMAIN nd -> Node], NEW r \in Seq(DOMAIN nd)
    PROVE  /\ Shown(nd, r, FALSE) \in Seq(Elements) /\ Len(Shown(nd, r, FALSE)) = Len(r)
           /\ \A i \in 1..Len(r) : Shown(nd, r, FALSE)[i] = nd[r[i]].val
  <1>1. FALSE \in BOOLEAN /\ (FALSE => Len(r) >= 2)
    OBVIOUS
  <1> QED BY <1>1, ShownIs, Zenon

\* The nodes of a list, and what they hold, stay.
KeptAs(R, S, l) ==
    /\ Shape(R) /\ Types /\ Shape(S)' /\ Types' /\ l \in Keys
    /\ S[l] = R[l] /\ (list'[l] = NULL <=> list[l] = NULL)
    /\ \A i \in 1..Len(R[l]) : node'[R[l][i]].val = node[R[l][i]].val

LEMMA KeptIs ==
    ASSUME NEW R, NEW S, NEW l, KeptAs(R, S, l), Fronting(l)' = Fronting(l)
    PROVE  Seen(l)
  <1>1. R[l] \in Seq(DOMAIN node)
    BY DEF KeptAs, Shape, Rings
  <1>2. Shown(node', R[l], Fronting(l)) = Shown(node, R[l], Fronting(l))
    BY <1>1, SameShown DEF KeptAs
  <1>3. View(l) = IF list[l] = NULL THEN NULL ELSE Shown(node, R[l], Fronting(l))
    BY ViewIs DEF KeptAs
  <1>4. View(l)' = IF list'[l] = NULL THEN NULL ELSE Shown(node', S[l], Fronting(l)')
    BY ViewIsNext DEF KeptAs
  <1> QED BY <1>2, <1>3, <1>4 DEF Seen, KeptAs

\* What a step does to the lists that it is not about.
Same(R, S, l) == KeptAs(R, S, l) /\ Fronting(l)' = Fronting(l)

LEMMA SameSeen ==
    ASSUME NEW R, NEW S, NEW l, Same(R, S, l)
    PROVE  Seen(l)
  BY KeptIs DEF Same

\* A list whose head no push is about to move.
LEMMA PlainView ==
    ASSUME NEW R, Shape(R), Types, NEW k \in Keys, list[k] # NULL, ~Fronting(k)
    PROVE  /\ View(k) \in Seq(Elements) /\ Len(View(k)) = Len(R[k]) /\ Len(R[k]) \in Nat /\ View(k) # NULL
           /\ \A i \in 1..Len(R[k]) : View(k)[i] = node[R[k][i]].val
  <1>1. Fronting(k) \in BOOLEAN /\ R[k] \in Seq(DOMAIN node) /\ node \in [DOMAIN node -> Node]
    BY DEF Fronting, Shape, Rings, Types
  <1>2. View(k) = Shown(node, R[k], Fronting(k))
    BY ViewIs
  <1>3. NULL \notin Seq(Elements)
    BY NullIs
  <1> QED BY <1>1, <1>2, <1>3, ShownIs

-----------------------------------------------------------------------------
(* Which push is about to move a head                                      *)

LEMMA FrontingMine ==
    ASSUME NEW c \in Clients, NEW k
    PROVE  /\ lock[k] = NULL => ~Fronting(k)
           /\ lock[k] = c => (Fronting(k) <=> Cmd(c).op = "lpush" /\ th[c].pc = "head")
           /\ lock'[k] = NULL => ~Fronting(k)'
           /\ lock'[k] = c => (Fronting(k)' <=> th'[c].cmd.op = "lpush" /\ th'[c].pc = "head")
  <1>1. NULL \notin Clients
    BY NullIs
  <1> QED BY <1>1 DEF Fronting, Cmd

\* A step of c alone.
Alone(c) == \A d \in Clients : d # c => th'[d] = th[d]

LEMMA FrontingOthers ==
    ASSUME NEW R, Shape(R), NEW c \in Clients, Alone(c), NEW k, k = Key(c),
           NEW l \in Keys, l # k, lock'[l] = lock[l]
    PROVE  Fronting(l)' = Fronting(l)
  <1>1. lock[l] # c
    BY NullIs DEF Shape, Locked
  <1> QED BY <1>1 DEF Fronting, Cmd, Alone

LEMMA OthersStill ==
    ASSUME NEW c \in Clients, Alone(c)
    PROVE  \A d \in Clients : d # c => Still(d)
  BY DEF Alone, Still, Todo, Told, Cmd

\* Nothing but a thread changes, which is not about to move a head.
LEMMA CalmSeen ==
    ASSUME NEW c \in Clients, Alone(c), UNCHANGED <<list, node, lock>>, th[c].pc # "head", th'[c].pc # "head"
    PROVE  \A k \in Keys : Seen(k)
  <1>1. \A k \in Keys : Fronting(k)' = Fronting(k)
    BY DEF Fronting, Cmd, Alone
  <1> QED BY <1>1, ViewAsIs DEF Seen

Implements == Promise!NextLists \/ UNCHANGED Promise!listVars

LEMMA ActImplements ==
    ASSUME NEW c \in Clients, Promise!Act(c)
    PROVE  Implements
  BY DEF Implements, Promise!NextLists

\* The save does not touch what clients see.
LEMMA UnseenStep ==
    ASSUME UNCHANGED <<list, node, lock, th>>
    PROVE  Implements
  <1>1. \A k \in Keys : Fronting(k)' = Fronting(k)
    BY DEF Fronting, Cmd
  <1>2. \A k \in Keys : Seen(k)
    BY <1>1, ViewAsIs DEF Seen
  <1>3. \A c \in Clients : Still(c)
    BY DEF Still, Todo, Told, Cmd
  <1> QED BY <1>2, <1>3, Stutters DEF Implements

LEMMA CallStep ==
    ASSUME NEW R, Inv(R), NEW c \in Clients, Call(c)
    PROVE  Implements
  <1>1. /\ \A d \in Clients : d # c => th'[d] = th[d]
        /\ th[c].pc = "idle" /\ th'[c].pc = "check" /\ th'[c].cmd \in Work[c]
        /\ th'[c].n = th[c].n + 1 /\ th'[c].ans = Plain("none") /\ th[c].n < MaxCommands[c]
        /\ UNCHANGED <<list, node, lock>>
    BY CallIs
  <1>2. [k \in Keys |-> View(k)'] = [k \in Keys |-> View(k)]
    BY <1>1, CalmSeen DEF Alone, Seen
  <1>3. \A d \in Clients : d # c => Still(d)
    BY <1>1, OthersStill DEF Alone
  <1>4. [d \in Clients |-> th'[d].n] = [[d \in Clients |-> th[d].n] EXCEPT ![c] = th[c].n + 1]
    BY <1>1, <1>3 DEF Still
  <1>5. [d \in Clients |-> Todo(d)'] = [[d \in Clients |-> Todo(d)] EXCEPT ![c] = th'[c].cmd]
    <2>1. Todo(c)' = th'[c].cmd
      BY <1>1 DEF Todo, Cmd
    <2> QED BY <1>3, <2>1 DEF Still
  <1>6. [d \in Clients |-> Told(d)'] = [[d \in Clients |-> Told(d)] EXCEPT ![c] = Plain("none")]
    <2>1. Told(c)' = Plain("none")
      BY <1>1 DEF Told
    <2> QED BY <1>3, <2>1 DEF Still
  <1>7. Promise!CallList(c)
    BY <1>1, <1>2, <1>4, <1>5, <1>6 DEF Promise!CallList, Promise!Plain, Plain, Todo, Told, Cmd
  <1> QED BY <1>7 DEF Implements, Promise!NextLists

LEMMA DueNow ==
    ASSUME NEW R, Inv(R), NEW c \in Clients, th[c].pc \in {"check", "take", "link"}
    PROVE  /\ Due(c, Cmd(c), Key(c), View(Key(c)))
           /\ Cmd(c) \in Commands /\ Key(c) \in Keys /\ Shape(R) /\ Types
  <1>1. Shape(R) /\ Types /\ th[c].pc # "idle"
    BY DEF Inv, TypeOK, Types
  <1>2. Cmd(c) \in Commands /\ Key(c) \in Keys /\ Cmd(c) # NULL
    BY <1>1, KeyIs, NullIs
  <1> QED BY <1>1, <1>2 DEF Due, Todo, Key

\* A list that is there is empty when it has no head.
LEMMA EmptyView ==
    ASSUME NEW R, Shape(R), Types, NEW k \in Keys, list[k] # NULL
    PROVE  View(k) # NULL /\ (View(k) = <<>> <=> list[k].head = Nil)
  <1>1. R[k] \in Seq(DOMAIN node) /\ node \in [DOMAIN node -> Node] /\ list[k].head = HeadOf(R[k])
        /\ Nil \notin DOMAIN node
    BY DEF Shape, Rings, Types, Headed
  <1>2. Fronting(k) \in BOOLEAN /\ (Fronting(k) => Len(R[k]) >= 2)
    <2>1. Fronting(k) \in BOOLEAN
      BY DEF Fronting
    <2> QED BY <2>1, FrontingIs
  <1>3. View(k) = Shown(node, R[k], Fronting(k))
    BY ViewIs
  <1>4. View(k) \in Seq(Elements) /\ Len(View(k)) = Len(R[k])
    BY <1>1, <1>2, <1>3, ShownIs
  <1>5. list[k].head = Nil <=> R[k] = <<>>
    BY <1>1 DEF HeadOf
  <1> QED BY <1>1, <1>4, <1>5, NullIs

LEMMA CheckStep ==
    ASSUME NEW R, Inv(R), NEW c \in Clients, Check(c)
    PROVE  Implements
  <1>1. th \in [Clients -> Thread] /\ th[c].pc = "check" /\ UNCHANGED <<list, node, lock>>
    BY DEF Inv, TypeOK, Check
  <1>2. PICK m, k, s : m = Cmd(c) /\ k = Key(c) /\ s = View(k)
    OBVIOUS
  <1>3. Due(c, m, k, s) /\ k \in Keys /\ Shape(R) /\ Types
    BY <1>1, <1>2, DueNow
  <1>4. ASSUME NEW msg \in {"nokey", "empty"}, Plainly(c, msg)
        PROVE  Answered(c, Plain(msg))
    <2>1. Alone(c) /\ th'[c].pc = "idle" /\ th'[c].n = th[c].n /\ th'[c].ans = Plain(msg)
      BY <1>1, <1>4, FinishIs, PlainIs DEF Plainly, Alone
    <2>2. \A l \in Keys : Seen(l)
      BY <1>1, <2>1, CalmSeen
    <2>3. Todo(c)' = NULL /\ Told(c)' = Plain(msg)
      BY <2>1 DEF Todo, Told
    <2> QED BY <2>1, <2>2, <2>3, OthersStill DEF Answered
  <1>5. CASE list[k] = NULL /\ Plainly(c, "nokey")
    <2>1. s = NULL
      BY <1>2, <1>3, <1>5, ViewIs
    <2>2. Promise!Act(c)
      BY <1>3, <1>4, <1>5, <2>1, NoKeyActs
    <2> QED BY <2>2, ActImplements
  <1>6. CASE list[k] # NULL /\ Shrinks(m) /\ list[k].head = Nil /\ Plainly(c, "empty")
    <2>1. s # NULL /\ s = <<>> /\ m.op \notin Pushes
      BY <1>2, <1>3, <1>6, EmptyView DEF Shrinks
    <2>2. Answered(c, Plain("empty"))
      BY <1>4, <1>6
    <2>3. Promise!Act(c)
      BY <1>3, <2>1, <2>2, NothingActs
    <2> QED BY <2>3, ActImplements
  <1>7. CASE Goto(c, "take")
    <2>1. /\ Alone(c) /\ th'[c].pc = "take" /\ th'[c].cmd = th[c].cmd /\ th'[c].n = th[c].n
          /\ th'[c].ans = th[c].ans
      BY <1>1, <1>7, GotoIs DEF Alone
    <2>2. \A l \in Keys : Seen(l)
      BY <1>1, <2>1, CalmSeen
    <2>3. Still(c)
      BY <1>1, <2>1 DEF Still, Todo, Told, Cmd
    <2> QED BY <2>1, <2>2, <2>3, OthersStill, Stutters DEF Implements
  <1> QED BY <1>2, <1>5, <1>6, <1>7 DEF Check

-----------------------------------------------------------------------------
(* Pushes                                                                  *)

LEMMA EnterSame ==
    ASSUME NEW R, Inv(R), NEW c \in Clients, Enter(c)
    PROVE  Inv(R)' /\ \A l \in Keys : Same(R, R, l)
  <1>1. PICK k \in Keys : k = Key(c)
    BY EnterIs
  <1>2. /\ Alone(c) /\ th[c].pc = "check" /\ th'[c].pc = "link"
        /\ \A i \in DOMAIN node : node'[i] = node[i]
        /\ lock[k] = NULL /\ lock' = [lock EXCEPT ![k] = c] /\ UNCHANGED list
    BY <1>1, EnterIs, ZenonT(60) DEF Alone
  <1>3. Shape(R) /\ Types /\ Inv(R)' /\ lock \in [Keys -> Clients \union {NULL}]
    BY EnterInv DEF Inv, TypeOK, Types
  <1>4. Shape(R)' /\ Types'
    BY <1>3 DEF Inv, TypeOK, Types
  <1>5. lock'[k] = c /\ \A l \in Keys : l # k => lock'[l] = lock[l]
    BY <1>2, <1>3
  <1>6. ASSUME NEW l \in Keys PROVE Same(R, R, l)
    <2>1. Fronting(l)' = Fronting(l)
      <3>1. CASE l = k
        <4>1. Fronting(k) \in BOOLEAN /\ Fronting(k)' \in BOOLEAN
          BY DEF Fronting
        <4>2. ~Fronting(k) /\ ~Fronting(k)'
          BY <1>2, <1>5, FrontingMine
        <4> QED BY <3>1, <4>1, <4>2
      <3>2. CASE l # k
        BY <1>1, <1>2, <1>3, <1>5, <3>2, FrontingOthers
      <3> QED BY <3>1, <3>2
    <2>2. \A i \in 1..Len(R[l]) : R[l][i] \in DOMAIN node
      BY <1>3 DEF Shape, Rings
    <2>3. KeptAs(R, R, l)
      BY <1>2, <1>3, <1>4, <2>2 DEF KeptAs
    <2> QED BY <2>1, <2>3 DEF Same
  <1> QED BY <1>3, <1>6

LEMMA EnterStep ==
    ASSUME NEW R, Inv(R), NEW c \in Clients, Enter(c)
    PROVE  Implements
  <1>1. /\ Alone(c) /\ th[c].pc = "check" /\ th'[c].pc = "link" /\ th'[c].cmd = th[c].cmd
        /\ th'[c].n = th[c].n /\ th'[c].ans = th[c].ans
    BY EnterIs, ZenonT(60) DEF Alone
  <1>2. \A l \in Keys : Seen(l)
    BY EnterSame, SameSeen
  <1>3. Still(c)
    BY <1>1 DEF Still, Todo, Told, Cmd
  <1> QED BY <1>1, <1>2, <1>3, OthersStill, Stutters DEF Implements

LEMMA SetHeadSame ==
    ASSUME NEW R, Inv(R), NEW c \in Clients, SetHead(c), NEW S, Inv(S)', TurnedTo(R, S, c)
    PROVE  /\ \A l \in Keys : l # Key(c) => Same(R, S, l)
           /\ Seen(Key(c)) /\ Fronting(Key(c)) /\ \A k \in Keys : k = Key(c) => ~Fronting(k)'
  <1>1. th[c].pc = "head" /\ th[c].pc \in Pushing /\ Shape(R) /\ Types /\ th \in [Clients -> Thread]
        /\ list \in [Keys -> List \union {NULL}]
    BY DEF SetHead, Pushing, Inv, TypeOK, Types
  <1>2. PICK k \in Keys : k = Key(c)
    BY <1>1, HolderIs
  <1>3. lock[k] = c /\ list[k] # NULL /\ Cmd(c).op = "lpush"
    BY <1>1, <1>2, HolderIs DEF Shape, Placed
  <1>4. /\ list' = [list EXCEPT ![k].head = th[c].e] /\ UNCHANGED <<node, lock>>
        /\ Alone(c) /\ th'[c].pc = "leave" /\ th'[c].cmd = th[c].cmd /\ th'[c].n = th[c].n
    BY <1>1, <1>2, GotoIs DEF SetHead, Alone
  <1>5. TurnedTo(R, S, c)
    OBVIOUS
  <1>6. Shape(S)' /\ Types'
    BY DEF Inv, TypeOK, Types
  <1>7. list'[k] # NULL /\ \A l \in Keys : l # k => list'[l] = list[l]
    <2>1. Len(R[k]) >= 2 /\ Len(S[k]) = Len(R[k])
      BY <1>1, <1>2, <1>5 DEF Shape, Placed, TurnedTo
    <2>2. S[k] # <<>>
      BY <2>1
    <2>3. list'[k] # NULL
      BY <1>6, <2>2 DEF Shape, Headed
    <2> QED BY <1>1, <1>4, <2>3
  <1>8. ASSUME NEW l \in Keys, l # k PROVE Same(R, S, l)
    <2>1. Fronting(l)' = Fronting(l)
      BY <1>1, <1>2, <1>4, <1>8, FrontingOthers
    <2>2. KeptAs(R, S, l)
      BY <1>1, <1>2, <1>4, <1>5, <1>6, <1>7, <1>8 DEF KeptAs, TurnedTo
    <2> QED BY <2>1, <2>2 DEF Same
  <1>9. Seen(k) /\ Fronting(k) /\ ~Fronting(k)'
    <2>1. PICK n \in Nat : n = Len(R[k]) /\ n >= 2
      BY <1>1, <1>2 DEF Shape, Rings, Placed
    <2>2. R[k] \in Seq(DOMAIN node) /\ S[k] \in Seq(DOMAIN node) /\ node \in [DOMAIN node -> Node]
      BY <1>1, <1>4, <1>6 DEF Shape, Rings, Types
    <2>3. Len(S[k]) = n /\ S[k][1] = R[k][n] /\ \A i \in 1..(n - 1) : S[k][i + 1] = R[k][i]
      BY <1>2, <1>5, <2>1 DEF TurnedTo
    <2>4. (Fronting(k) <=> TRUE) /\ (Fronting(k)' <=> FALSE)
      BY <1>1, <1>3, <1>4, FrontingMine
    <2>5. View(k) = Shown(node, R[k], TRUE) /\ View(k)' = Shown(node, S[k], FALSE)
      <3>1. Fronting(k) \in BOOLEAN /\ Fronting(k)' \in BOOLEAN
        BY DEF Fronting
      <3>2. Fronting(k) = TRUE /\ Fronting(k)' = FALSE
        BY <2>4, <3>1
      <3>3. View(k) = Shown(node, R[k], Fronting(k))
        BY <1>1, <1>3, ViewIs
      <3>4. View(k)' = Shown(node', S[k], Fronting(k)')
        BY <1>6, <1>7, ViewIsNext
      <3> QED BY <1>4, <3>2, <3>3, <3>4
    <2>6. PICK v : v = View(k)
      OBVIOUS
    <2>7. PICK w : w = Shown(node, S[k], FALSE)
      OBVIOUS
    <2>8. /\ v \in Seq(Elements) /\ Len(v) = n /\ v[1] = node[R[k][n]].val
          /\ \A i \in 1..(n - 1) : v[i + 1] = node[R[k][i]].val
      <3>1. Len(R[k]) >= 2
        BY <2>1
      <3>2. /\ Shown(node, R[k], TRUE) \in Seq(Elements) /\ Len(Shown(node, R[k], TRUE)) = Len(R[k])
            /\ Shown(node, R[k], TRUE)[1] = node[R[k][Len(R[k])]].val
            /\ \A i \in 1..(Len(R[k]) - 1) : Shown(node, R[k], TRUE)[i + 1] = node[R[k][i]].val
        BY <2>2, <3>1, ShownTurned
      <3> QED BY <2>1, <2>5, <2>6, <3>2
    <2>9. w \in Seq(Elements) /\ Len(w) = n /\ \A i \in 1..n : w[i] = node[S[k][i]].val
      BY <2>2, <2>3, <2>7, ShownPlain
    <2>10. ASSUME NEW i \in 1..n PROVE v[i] = w[i]
      <3>1. CASE i = 1
        BY <2>3, <2>8, <2>9, <3>1
      <3>2. CASE i # 1
        <4>1. PICK j \in 1..(n - 1) : i = j + 1
          <5>1. i - 1 \in 1..(n - 1) /\ i = (i - 1) + 1
            BY <3>2
          <5> QED BY <5>1
        <4> QED BY <2>3, <2>8, <2>9, <4>1
      <3> QED BY <3>1, <3>2
    <2>11. v = w
      BY <2>8, <2>9, <2>10, SameSeq
    <2> QED BY <2>4, <2>5, <2>6, <2>7, <2>11 DEF Seen
  <1> QED BY <1>2, <1>8, <1>9, ZenonT(30)

LEMMA SetHeadStep ==
    ASSUME NEW R, Inv(R), NEW c \in Clients, SetHead(c)
    PROVE  Implements
  <1>1. PICK S : Inv(S)' /\ TurnedTo(R, S, c)
    BY SetHeadInv
  <1>2. \A l \in Keys : Seen(l)
    BY <1>1, SetHeadSame, SameSeen
  <1>3. th[c].pc = "head" /\ th \in [Clients -> Thread]
    BY DEF SetHead, Inv, TypeOK
  <1>4. Alone(c) /\ th'[c].pc = "leave" /\ th'[c].cmd = th[c].cmd /\ th'[c].n = th[c].n
    BY <1>3, GotoIs DEF SetHead, Alone
  <1>5. Still(c)
    BY <1>3, <1>4 DEF Still, Todo, Told
  <1> QED BY <1>2, <1>4, <1>5, OthersStill, Stutters DEF Implements

LEMMA LeaveSame ==
    ASSUME NEW R, Inv(R), NEW c \in Clients, Leave(c)
    PROVE  Inv(R)' /\ \A l \in Keys : Same(R, R, l)
  <1>1. th[c].pc = "leave" /\ th[c].pc \in Pushing /\ Shape(R) /\ Types /\ th \in [Clients -> Thread]
        /\ list \in [Keys -> List \union {NULL}] /\ lock \in [Keys -> Clients \union {NULL}]
    BY DEF Leave, Pushing, Inv, TypeOK, Types
  <1>2. PICK k \in Keys : k = Key(c)
    BY <1>1, HolderIs
  <1>3. lock[k] = c /\ list[k] # NULL
    BY <1>1, <1>2, HolderIs
  <1>4. Inv(R)' /\ Shape(R)' /\ Types'
    BY LeaveInv DEF Inv, TypeOK, Types
  <1>5. /\ list' = [list EXCEPT ![k].length = @ + 1] /\ UNCHANGED node /\ lock' = [lock EXCEPT ![k] = NULL]
        /\ Alone(c) /\ th'[c].pc = "idle" /\ th'[c].ans = Plain("ok") /\ th'[c].n = th[c].n
    <2>1. Finish(c, Plain("ok"))
      BY DEF Leave, Plainly
    <2> QED BY <1>1, <1>2, <2>1, FinishIs, PlainIs DEF Leave, Alone
  <1>6. lock'[k] = NULL /\ \A l \in Keys : l # k => lock'[l] = lock[l] /\ list'[l] = list[l]
    BY <1>1, <1>5
  <1>7. list'[k] # NULL
    <2>1. list[k] \in List
      BY <1>1, <1>3
    <2>2. [list[k] EXCEPT !.length = list[k].length + 1] \in List
      BY <2>1 DEF List
    <2> QED BY <1>1, <1>5, <2>2, NullIs
  <1>8. ASSUME NEW l \in Keys PROVE Same(R, R, l)
    <2>1. Fronting(l)' = Fronting(l)
      <3>1. CASE l = k
        <4>1. Fronting(k) \in BOOLEAN /\ Fronting(k)' \in BOOLEAN
          BY DEF Fronting
        <4>2. ~Fronting(k) /\ ~Fronting(k)'
          BY <1>1, <1>3, <1>6, FrontingMine
        <4> QED BY <3>1, <4>1, <4>2
      <3>2. CASE l # k
        BY <1>1, <1>2, <1>5, <1>6, <3>2, FrontingOthers
      <3> QED BY <3>1, <3>2
    <2>2. list'[l] = NULL <=> list[l] = NULL
      BY <1>3, <1>6, <1>7
    <2>3. KeptAs(R, R, l)
      BY <1>1, <1>4, <1>5, <2>2 DEF KeptAs
    <2> QED BY <2>1, <2>3 DEF Same
  <1> QED BY <1>4, <1>8

LEMMA LeaveStep ==
    ASSUME NEW R, Inv(R), NEW c \in Clients, Leave(c)
    PROVE  Implements
  <1>1. th[c].pc = "leave" /\ th \in [Clients -> Thread] /\ Finish(c, Plain("ok"))
    BY DEF Leave, Plainly, Inv, TypeOK
  <1>2. Alone(c) /\ th'[c].pc = "idle" /\ th'[c].ans = Plain("ok") /\ th'[c].n = th[c].n
    BY <1>1, FinishIs, PlainIs DEF Alone
  <1>3. \A l \in Keys : Seen(l)
    BY LeaveSame, SameSeen
  <1>4. Still(c)
    BY <1>1, <1>2 DEF Still, Todo, Told
  <1> QED BY <1>2, <1>3, <1>4, OthersStill, Stutters DEF Implements

\* A push puts its element to one end of what is shown.
Pushed(nd, nd2, r, e, x) ==
    /\ nd \in [DOMAIN nd -> Node] /\ nd2 \in [DOMAIN nd2 -> Node]
    /\ r \in Seq(DOMAIN nd) /\ e \in DOMAIN nd2 /\ Append(r, e) \in Seq(DOMAIN nd2)
    /\ nd2[e].val = x /\ \A i \in 1..Len(r) : nd2[r[i]].val = nd[r[i]].val

\* s has one node more than v has values, with the value x.
OneMore(nd2, s, x, v, n) ==
    /\ s \in Seq(DOMAIN nd2) /\ Len(s) = n + 1 /\ nd2[s[n + 1]].val = x
    /\ x \in Elements /\ n \in Nat /\ v \in Seq(Elements) /\ Len(v) = n
    /\ \A i \in 1..n : nd2[s[i]].val = v[i]

PutBehind(nd, nd2, r, e, x) == Shown(nd2, Append(r, e), FALSE) = Append(Shown(nd, r, FALSE), x)
PutBefore(nd, nd2, r, e, x) ==
    /\ r # <<>> => Shown(nd2, Append(r, e), TRUE) = <<x>> \o Shown(nd, r, FALSE)
    /\ r = <<>> => Shown(nd2, Append(r, e), FALSE) = <<x>> \o Shown(nd, r, FALSE)

LEMMA PushedIs ==
    ASSUME NEW nd, NEW nd2, NEW r, NEW e, NEW x, Pushed(nd, nd2, r, e, x)
    PROVE  OneMore(nd2, Append(r, e), x, Shown(nd, r, FALSE), Len(r))
  <1> USE DEF Pushed
  <1> DEFINE s == Append(r, e)
             v == Shown(nd, r, FALSE)
  <1>1. Len(s) = Len(r) + 1 /\ s[Len(r) + 1] = e /\ \A i \in 1..Len(r) : s[i] = r[i]
    OBVIOUS
  <1>2. v \in Seq(Elements) /\ Len(v) = Len(r) /\ \A i \in 1..Len(r) : v[i] = nd[r[i]].val
    BY ShownPlain
  <1>3. x \in Elements
    BY DEF Node
  <1>4. \A i \in 1..Len(r) : nd2[s[i]].val = v[i]
    BY <1>1, <1>2
  <1>5. s \in Seq(DOMAIN nd2) /\ Len(r) \in Nat
    OBVIOUS
  <1> HIDE DEF s, v
  <1>6. OneMore(nd2, s, x, v, Len(r))
    BY <1>1, <1>2, <1>3, <1>4, <1>5 DEF OneMore
  <1> QED BY <1>6 DEF s, v

LEMMA ShownBehind ==
    ASSUME NEW nd, NEW nd2, NEW r, NEW e, NEW x, Pushed(nd, nd2, r, e, x)
    PROVE  PutBehind(nd, nd2, r, e, x)
  <1>1. PICK s : s = Append(r, e)
    OBVIOUS
  <1>2. PICK v : v = Shown(nd, r, FALSE)
    OBVIOUS
  <1>3. PICK n : n = Len(r)
    OBVIOUS
  <1>4. /\ s \in Seq(DOMAIN nd2) /\ Len(s) = n + 1 /\ nd2[s[n + 1]].val = x
        /\ x \in Elements /\ n \in Nat /\ v \in Seq(Elements) /\ Len(v) = n
        /\ \A i \in 1..n : nd2[s[i]].val = v[i]
    <2>1. OneMore(nd2, s, x, v, n)
      BY <1>1, <1>2, <1>3, PushedIs
    <2> QED BY <2>1 DEF OneMore
  <1>5. PICK u : u = Append(v, x)
    OBVIOUS
  <1>6. u \in Seq(Elements) /\ Len(u) = n + 1 /\ u[n + 1] = x /\ \A i \in 1..n : u[i] = v[i]
    BY <1>4, <1>5
  <1>7. PICK w : w = Shown(nd2, s, FALSE)
    OBVIOUS
  <1>8. w \in Seq(Elements) /\ Len(w) = n + 1 /\ \A i \in 1..(n + 1) : w[i] = nd2[s[i]].val
    <2>1. nd2 \in [DOMAIN nd2 -> Node]
      BY DEF Pushed
    <2>2. /\ Shown(nd2, s, FALSE) \in Seq(Elements) /\ Len(Shown(nd2, s, FALSE)) = Len(s)
        /\ \A i \in 1..Len(s) : Shown(nd2, s, FALSE)[i] = nd2[s[i]].val
      BY <1>4, <2>1, ShownPlain
    <2> QED BY <1>4, <1>7, <2>2
  <1>9. ASSUME NEW i \in 1..(n + 1) PROVE w[i] = u[i]
    <2>1. i = n + 1 \/ i \in 1..n
      BY <1>4
    <2> QED BY <1>4, <1>6, <1>8, <2>1
  <1>10. w = u
    BY <1>6, <1>8, <1>9, SameSeq
  <1> QED BY <1>1, <1>2, <1>5, <1>7, <1>10 DEF PutBehind

\* s has x in front of v.
LEMMA InFront ==
    ASSUME NEW X, NEW v \in Seq(X), NEW x \in X, NEW w \in Seq(X), Len(w) = Len(v) + 1, w[1] = x,
           \A i \in 1..Len(v) : w[i + 1] = v[i]
    PROVE  w = <<x>> \o v
  <1>1. PICK n \in Nat : n = Len(v)
    OBVIOUS
  <1>2. PICK a \in Seq(X) : a = <<x>> /\ Len(a) = 1 /\ a[1] = x
    <2>1. <<x>> \in Seq(X) /\ Len(<<x>>) = 1 /\ <<x>>[1] = x
      OBVIOUS
    <2> QED BY <2>1, Zenon
  <1>3. PICK u : u = a \o v
    OBVIOUS
  <1>4. u \in Seq(X) /\ Len(u) = n + 1 /\ \A i \in 1..(n + 1) : u[i] = IF i <= 1 THEN a[i] ELSE v[i - 1]
    <2>1. Len(a) + Len(v) = n + 1 /\ Len(a) = 1
      BY <1>1, <1>2
    <2>2. /\ a \o v \in Seq(X) /\ Len(a \o v) = Len(a) + Len(v)
          /\ \A i \in 1..(Len(a) + Len(v)) : (a \o v)[i] = IF i <= Len(a) THEN a[i] ELSE v[i - Len(a)]
      BY ConcatProperties
    <2> QED BY <1>3, <2>1, <2>2
  <1>5. ASSUME NEW i \in 1..(n + 1) PROVE w[i] = u[i]
    <2>1. CASE i = 1
      BY <1>2, <1>4, <2>1
    <2>2. CASE i # 1
      <3>1. i - 1 \in 1..n /\ i = (i - 1) + 1 /\ ~(i <= 1)
        BY <2>2
      <3>2. w[(i - 1) + 1] = v[i - 1]
        BY <1>1, <3>1
      <3> QED BY <1>4, <3>1, <3>2
    <2> QED BY <2>1, <2>2
  <1>6. w = u
    BY <1>1, <1>4, <1>5, SameSeq
  <1> QED BY <1>2, <1>3, <1>6

LEMMA ShownBefore ==
    ASSUME NEW nd, NEW nd2, NEW r, NEW e, NEW x, Pushed(nd, nd2, r, e, x)
    PROVE  PutBefore(nd, nd2, r, e, x)
  <1>1. PICK s : s = Append(r, e)
    OBVIOUS
  <1>2. PICK v : v = Shown(nd, r, FALSE)
    OBVIOUS
  <1>3. PICK n : n = Len(r)
    OBVIOUS
  <1>4. /\ s \in Seq(DOMAIN nd2) /\ Len(s) = n + 1 /\ nd2[s[n + 1]].val = x
        /\ x \in Elements /\ n \in Nat /\ v \in Seq(Elements) /\ Len(v) = n
        /\ \A i \in 1..n : nd2[s[i]].val = v[i]
    <2>1. OneMore(nd2, s, x, v, n)
      BY <1>1, <1>2, <1>3, PushedIs
    <2> QED BY <2>1 DEF OneMore
  <1>5. r = <<>> <=> n = 0
    BY <1>3 DEF Pushed
  <1>6. ASSUME r # <<>> PROVE Shown(nd2, s, TRUE) = <<x>> \o v
    <2>1. Len(s) >= 2 /\ Len(s) - 1 = n
      BY <1>4, <1>5, <1>6
    <2>2. PICK w : w = Shown(nd2, s, TRUE)
      OBVIOUS
    <2>3. /\ w \in Seq(Elements) /\ Len(w) = Len(s) /\ w[1] = nd2[s[Len(s)]].val
          /\ \A i \in 1..(Len(s) - 1) : w[i + 1] = nd2[s[i]].val
      BY <1>4, <2>1, <2>2, ShownTurned DEF Pushed
    <2>4. Len(w) = Len(v) + 1 /\ w[1] = x
      BY <1>4, <2>1, <2>3
    <2>5. \A i \in 1..Len(v) : w[i + 1] = v[i]
      BY <1>4, <2>1, <2>3
    <2>6. w = <<x>> \o v
      BY <1>4, <2>3, <2>4, <2>5, InFront
    <2> QED BY <2>2, <2>6
  <1>7. ASSUME r = <<>> PROVE Shown(nd2, s, FALSE) = <<x>> \o v
    <2>1. n = 0
      BY <1>5, <1>7
    <2>2. PICK w : w = Shown(nd2, s, FALSE)
      OBVIOUS
    <2>3. w \in Seq(Elements) /\ Len(w) = n + 1 /\ \A i \in 1..(n + 1) : w[i] = nd2[s[i]].val
      <3>1. nd2 \in [DOMAIN nd2 -> Node]
        BY DEF Pushed
      <3>2. /\ Shown(nd2, s, FALSE) \in Seq(Elements) /\ Len(Shown(nd2, s, FALSE)) = Len(s)
          /\ \A i \in 1..Len(s) : Shown(nd2, s, FALSE)[i] = nd2[s[i]].val
        BY <1>4, <3>1, ShownPlain
      <3> QED BY <1>4, <2>2, <3>2
    <2>4. Len(w) = Len(v) + 1 /\ w[1] = x
      BY <1>4, <2>1, <2>3
    <2>5. \A i \in 1..Len(v) : w[i + 1] = v[i]
      BY <1>4, <2>1, <2>3
    <2>6. w = <<x>> \o v
      BY <1>4, <2>3, <2>4, <2>5, InFront
    <2> QED BY <2>2, <2>6
  <1> QED BY <1>1, <1>2, <1>6, <1>7 DEF PutBefore

LEMMA LinkSame ==
    ASSUME NEW R, Inv(R), NEW c \in Clients, Link(c), NEW S, Inv(S)', LinkedTo(R, S, c)
    PROVE  \A l \in Keys : l # Key(c) => Same(R, S, l)
  <1>1. th[c].pc = "link" /\ th[c].pc \in Pushing /\ Shape(R) /\ Types /\ Shape(S)' /\ Types'
    BY DEF Link, Pushing, Inv, TypeOK, Types
  <1>2. PICK k \in Keys : k = Key(c)
    BY <1>1, HolderIs
  <1>3. PICK r, e : r = R[k] /\ e = th[c].e
    OBVIOUS
  <1>4. /\ Alone(c) /\ lock' = lock /\ \A x \in DOMAIN node : node'[x].val = node[x].val
        /\ \A l \in Keys : l # k => list'[l] = list[l]
    <2>1. /\ \A d \in Clients : d # c => th'[d] = th[d]
          /\ lock' = lock /\ \A x \in DOMAIN node : node'[x].val = node[x].val
          /\ \A l \in Keys : l # k => list'[l] = list[l]
      BY <1>2, <1>3, LinkIs
    <2> QED BY <2>1 DEF Alone
  <1>5. \A l \in Keys : l # k => S[l] = R[l]
    BY <1>2 DEF LinkedTo
  <1>6. ASSUME NEW l \in Keys, l # k PROVE Same(R, S, l)
    <2>1. Fronting(l)' = Fronting(l)
      BY <1>1, <1>2, <1>4, <1>6, FrontingOthers
    <2>2. R[l] \in Seq(DOMAIN node)
      BY <1>1 DEF Shape, Rings
    <2>3. \A i \in 1..Len(R[l]) : R[l][i] \in DOMAIN node
      BY <2>2
    <2>4. KeptAs(R, S, l)
      BY <1>1, <1>4, <1>5, <1>6, <2>3 DEF KeptAs
    <2> QED BY <2>1, <2>4 DEF Same
  <1> QED BY <1>2, <1>6

LEMMA LinkStep ==
    ASSUME NEW R, Inv(R), NEW c \in Clients, Link(c)
    PROVE  Implements
  <1>1. th[c].pc = "link" /\ th[c].pc \in Pushing /\ Shape(R) /\ Types /\ th \in [Clients -> Thread]
    BY DEF Link, Pushing, Inv, TypeOK, Types
  <1>2. PICK k \in Keys : k = Key(c)
    BY <1>1, HolderIs
  <1>3. lock[k] = c /\ list[k] # NULL
    BY <1>1, <1>2, HolderIs
  <1>4. PICK r : r = R[k]
    OBVIOUS
  <1>5. PICK e : e = th[c].e
    OBVIOUS
  <1>6. PICK m : m = Cmd(c)
    OBVIOUS
  <1>7. /\ Alone(c) /\ th'[c].cmd = m /\ lock' = lock /\ DOMAIN node' = DOMAIN node
        /\ th'[c].pc = (IF r # <<>> /\ m.op = "lpush" THEN "head" ELSE "leave")
        /\ \A x \in DOMAIN node : node'[x].val = node[x].val
        /\ list'[k] # NULL /\ \A l \in Keys : l # k => list'[l] = list[l]
    <2>1. /\ \A d \in Clients : d # c => th'[d] = th[d]
          /\ th'[c].cmd = th[c].cmd /\ lock' = lock /\ DOMAIN node' = DOMAIN node
          /\ th'[c].pc = (IF r # <<>> /\ Cmd(c).op = "lpush" THEN "head" ELSE "leave")
          /\ \A x \in DOMAIN node : node'[x].val = node[x].val
          /\ list'[k] # NULL /\ \A l \in Keys : l # k => list'[l] = list[l]
      BY <1>2, <1>4, <1>5, LinkIs
    <2> QED BY <1>6, <2>1 DEF Alone, Cmd
  <1>8. th'[c].n = th[c].n
    <2>1. PICK p \in {"head", "leave"} : Goto(c, p)
      BY DEF Link
    <2> QED BY <1>1, <2>1, GotoIs
  <1>9. PICK S : Inv(S)' /\ LinkedTo(R, S, c)
    BY LinkInv
  <1>10. Shape(S)' /\ Types' /\ S[k] = Append(r, e) /\ \A l \in Keys : l # k => S[l] = R[l]
    BY <1>2, <1>4, <1>5, <1>9 DEF Inv, TypeOK, Types, LinkedTo
  <1>11. Due(c, m, k, View(k)) /\ m \in Commands /\ m.op \in Pushes
    BY <1>1, <1>2, <1>6, DueNow, HolderIs
  <1>12. \A l \in Keys : r \in Seq(DOMAIN node) /\ R[l] \in Seq(DOMAIN node)
    BY <1>1, <1>4 DEF Shape, Rings
  <1>13. ASSUME NEW l \in Keys, l # k PROVE Seen(l)
    BY <1>2, <1>9, <1>13, LinkSame, SameSeen
  <1>14. Pushed(node, node', r, e, m.val)
    <2>1. e \in DOMAIN node /\ node[e].val = m.val
      BY <1>1, <1>5, <1>6 DEF Shape, Placed, Linking
    <2>2. Append(r, e) \in Seq(DOMAIN node')
      <3>1. S[k] \in Seq(DOMAIN node')
        BY <1>10 DEF Shape, Rings
      <3> QED BY <1>10, <3>1
    <2>3. \A i \in 1..Len(r) : r[i] \in DOMAIN node
      BY <1>12
    <2>4. node \in [DOMAIN node -> Node] /\ node' \in [DOMAIN node' -> Node]
      BY <1>1, <1>10 DEF Types
    <2> QED BY <1>7, <1>12, <2>1, <2>2, <2>3, <2>4 DEF Pushed
  <1>15. View(k) = Shown(node, r, FALSE)
    <2>1. Fronting(k) \in BOOLEAN
      BY DEF Fronting
    <2>2. ~Fronting(k)
      BY <1>1, <1>3, FrontingMine
    <2>3. View(k) = Shown(node, R[k], Fronting(k))
      BY <1>1, <1>3, ViewIs
    <2> QED BY <1>4, <2>1, <2>2, <2>3
  <1>16. View(k)' = IF r # <<>> /\ m.op = "lpush" THEN Shown(node', Append(r, e), TRUE)
                    ELSE Shown(node', Append(r, e), FALSE)
    <2>1. Fronting(k)' \in BOOLEAN
      BY DEF Fronting
    <2>2. Fronting(k)' <=> r # <<>> /\ m.op = "lpush"
      BY <1>3, <1>7, FrontingMine
    <2>3. View(k)' = Shown(node', S[k], Fronting(k)')
      BY <1>7, <1>10, ViewIsNext
    <2>4. CASE r # <<>> /\ m.op = "lpush"
      <3>1. Fronting(k)' = TRUE
        BY <2>1, <2>2, <2>4
      <3> QED BY <1>10, <2>3, <2>4, <3>1
    <2>5. CASE ~(r # <<>> /\ m.op = "lpush")
      <3>1. Fronting(k)' = FALSE
        BY <2>1, <2>2, <2>5
      <3> QED BY <1>10, <2>3, <2>5, <3>1
    <2> QED BY <2>4, <2>5
  <1>17. View(k)' = IF m.op = "lpush" THEN <<m.val>> \o View(k) ELSE Append(View(k), m.val)
    <2>1. PICK x : x = m.val
      OBVIOUS
    <2>2. PICK nd2 : nd2 = node'
      OBVIOUS
    <2>3. Pushed(node, nd2, r, e, x)
      BY <1>14, <2>1, <2>2
    <2>4. PutBehind(node, nd2, r, e, x) /\ PutBefore(node, nd2, r, e, x)
      BY <2>3, ShownBehind, ShownBefore
    <2> QED BY <1>15, <1>16, <2>1, <2>2, <2>4 DEF PutBehind, PutBefore
  <1>18. Todo(c)' = NULL /\ Told(c)' = Plain("ok")
    BY <1>7 DEF Todo, Told
  <1>19. Effect(c, k, IF m.op = "lpush" THEN <<m.val>> \o View(k) ELSE Append(View(k), m.val), Plain("ok"))
    BY <1>2, <1>7, <1>8, <1>13, <1>17, <1>18, OthersStill DEF Effect
  <1>20. View(k) # NULL
    BY <1>1, <1>3, EmptyView
  <1>21. PICK s : s = View(k)
    OBVIOUS
  <1>22. Promise!Act(c)
    BY <1>11, <1>19, <1>20, <1>21, PushActs
  <1> QED BY <1>22, ActImplements

-----------------------------------------------------------------------------
(* Pops and erasures                                                       *)

\* w is v without its p-th element.
Shorter(X, v, w, p) ==
    /\ v \in Seq(X) /\ w \in Seq(X) /\ p \in 1..Len(v) /\ Len(w) = Len(v) - 1
    /\ \A j \in 1..Len(w) : w[j] = v[IF j < p THEN j ELSE j + 1]

Shortened(v, w, p) ==
    /\ p = 1 => w = Tail(v)
    /\ p = Len(v) => w = Front(v)
    /\ w = RemoveAt(v, p)
    /\ v # <<>> /\ Head(v) = v[1] /\ Last(v) = v[Len(v)]

LEMMA ShorterIs ==
    ASSUME NEW X, NEW v, NEW w, NEW p, Shorter(X, v, w, p)
    PROVE  Shortened(v, w, p)
  <1>1. PICK n \in Nat : n = Len(v)
    BY DEF Shorter
  <1>2. /\ v \in Seq(X) /\ w \in Seq(X) /\ p \in 1..n /\ Len(w) = n - 1 /\ v # <<>> /\ n - 1 \in Nat
        /\ \A j \in 1..(n - 1) : w[j] = v[IF j < p THEN j ELSE j + 1]
    BY <1>1 DEF Shorter
  <1>3. ASSUME p = 1 PROVE w = Tail(v)
    <2>1. PICK t : t = Tail(v)
      OBVIOUS
    <2>2. t \in Seq(X) /\ Len(t) = n - 1 /\ \A j \in 1..(n - 1) : t[j] = v[j + 1]
      <3>1. /\ Tail(v) \in Seq(X) /\ Len(Tail(v)) = Len(v) - 1
            /\ \A i \in 1..Len(Tail(v)) : Tail(v)[i] = v[i + 1]
        BY <1>2, HeadTailProperties
      <3> QED BY <1>1, <2>1, <3>1
    <2>3. \A j \in 1..(n - 1) : w[j] = t[j]
      <3>1. \A j \in 1..(n - 1) : ~(j < p)
        BY <1>3
      <3>2. \A j \in 1..(n - 1) : w[j] = v[j + 1]
        BY <1>2, <3>1
      <3> QED BY <2>2, <3>2
    <2> QED BY <1>2, <2>1, <2>2, <2>3, SameSeq
  <1>4. \A a, b \in Nat : b <= n => \A i \in (a + 1)..b : v[i] \in X
    BY <1>1, <1>2
  <1>5. ASSUME NEW a \in Nat, NEW b \in Nat, a <= b, b <= n
        PROVE  /\ SubSeq(v, a + 1, b) \in Seq(X) /\ Len(SubSeq(v, a + 1, b)) = b - a
               /\ \A i \in 1..(b - a) : SubSeq(v, a + 1, b)[i] = v[a + i]
    <2>1. \A i \in (a + 1)..b : v[i] \in X
      BY <1>4, <1>5
    <2>2. a + 1 \in Int /\ b \in Int /\ b - (a + 1) + 1 = b - a
      OBVIOUS
    <2>3. /\ SubSeq(v, a + 1, b) \in Seq(X)
          /\ Len(SubSeq(v, a + 1, b)) = IF a + 1 <= b THEN b - (a + 1) + 1 ELSE 0
          /\ \A i \in 1..(b - (a + 1) + 1) : SubSeq(v, a + 1, b)[i] = v[(a + 1) + i - 1]
      BY <2>1, <2>2, SubSeqProperties
    <2>4. (IF a + 1 <= b THEN b - (a + 1) + 1 ELSE 0) = b - a /\ \A i \in 1..(b - a) : (a + 1) + i - 1 = a + i
      BY <1>5
    <2> QED BY <2>2, <2>3, <2>4
  <1>6. ASSUME p = n PROVE w = Front(v)
    <2>1. PICK t : t = SubSeq(v, 0 + 1, n - 1)
      OBVIOUS
    <2>2. t \in Seq(X) /\ Len(t) = (n - 1) - 0 /\ \A i \in 1..((n - 1) - 0) : t[i] = v[0 + i]
      <3>1. 0 \in Nat /\ n - 1 \in Nat /\ 0 <= n - 1 /\ n - 1 <= n
        BY <1>2
      <3> QED BY <1>5, <2>1, <3>1
    <2>3. \A j \in 1..(n - 1) : w[j] = t[j]
      BY <1>2, <1>6, <2>2
    <2>4. w = t
      BY <1>2, <2>2, <2>3, SameSeq
    <2>5. 0 + 1 = 1
      OBVIOUS
    <2> QED BY <1>1, <2>1, <2>4, <2>5 DEF Front
  <1>7. w = RemoveAt(v, p)
    <2>1. PICK a : a = SubSeq(v, 0 + 1, p - 1)
      OBVIOUS
    <2>2. PICK b : b = SubSeq(v, p + 1, n)
      OBVIOUS
    <2>3. a \in Seq(X) /\ Len(a) = (p - 1) - 0 /\ \A i \in 1..((p - 1) - 0) : a[i] = v[0 + i]
      <3>1. 0 \in Nat /\ p - 1 \in Nat /\ 0 <= p - 1 /\ p - 1 <= n
        BY <1>2
      <3> QED BY <1>5, <2>1, <3>1
    <2>4. b \in Seq(X) /\ Len(b) = n - p /\ \A i \in 1..(n - p) : b[i] = v[p + i]
      <3>1. p \in Nat /\ n \in Nat /\ p <= n /\ n <= n
        BY <1>2
      <3> QED BY <1>5, <2>2, <3>1
    <2>5. PICK u : u = a \o b
      OBVIOUS
    <2>6. u \in Seq(X) /\ Len(u) = n - 1 /\ \A i \in 1..(n - 1) : u[i] = IF i <= p - 1 THEN a[i] ELSE b[i - (p - 1)]
      <3>1. /\ a \o b \in Seq(X) /\ Len(a \o b) = Len(a) + Len(b)
            /\ \A i \in 1..(Len(a) + Len(b)) : (a \o b)[i] = IF i <= Len(a) THEN a[i] ELSE b[i - Len(a)]
        BY <2>3, <2>4, ConcatProperties
      <3>2. Len(a) = p - 1 /\ Len(a) + Len(b) = n - 1
        BY <1>2, <2>3, <2>4
      <3> QED BY <2>5, <3>1, <3>2
    <2>7. ASSUME NEW j \in 1..(n - 1) PROVE w[j] = u[j]
      <3>1. CASE j < p
        <4>1. j <= p - 1 /\ j \in 1..((p - 1) - 0) /\ 0 + j = j
          BY <1>2, <3>1
        <4> QED BY <1>2, <2>3, <2>6, <3>1, <4>1
      <3>2. CASE ~(j < p)
        <4>1. ~(j <= p - 1) /\ j - (p - 1) \in 1..(n - p) /\ p + (j - (p - 1)) = j + 1
          BY <1>2, <3>2
        <4> QED BY <1>2, <2>4, <2>6, <3>2, <4>1
      <3> QED BY <3>1, <3>2
    <2>8. w = u
      BY <1>2, <2>6, <2>7, SameSeq
    <2>9. 0 + 1 = 1
      OBVIOUS
    <2> QED BY <1>1, <2>1, <2>2, <2>5, <2>8, <2>9 DEF RemoveAt
  <1>8. Head(v) = v[1]
    BY <1>2
  <1> QED BY <1>1, <1>2, <1>3, <1>6, <1>7, <1>8 DEF Shortened, Last

LEMMA DropSame ==
    ASSUME NEW R, Inv(R), NEW c \in Clients, Drop(c), NEW S, Inv(S)', TakenFrom(R, S, c)
    PROVE  /\ Key(c) \in Keys /\ ~Fronting(Key(c)) /\ (\A k \in Keys : k = Key(c) => ~Fronting(k)' /\ list'[k] # NULL)
           /\ \A l \in Keys : l # Key(c) => Same(R, S, l)
  <1>1. th[c].pc = "take" /\ Shape(R) /\ Types /\ Shape(S)' /\ Types' /\ th \in [Clients -> Thread]
    BY DEF Drop, Inv, TypeOK, Types
  <1>2. PICK k \in Keys : k = Key(c)
    BY <1>1, DueNow
  <1>3. lock[k] = NULL /\ UNCHANGED lock /\ list[k] # NULL
    BY <1>1, <1>2 DEF Drop, Key, Shape, Placed
  <1>4. ~Fronting(k) /\ ~Fronting(k)'
    BY <1>3, FrontingMine
  <1>5. /\ Alone(c) /\ list'[k] # NULL /\ \A x \in DOMAIN node' : node'[x].val = node[x].val
        /\ \A l \in Keys : l # k => list'[l] = list[l]
    <2>1. CASE list[k].head = Nil
      <3>1. PICK a \in {"ok", "blank"} : Plainly(c, a)
        BY <1>2, <2>1 DEF Drop, Key
      <3>2. UNCHANGED <<list, node>>
        BY <1>2, <2>1 DEF Drop, Key
      <3>3. Alone(c)
        BY <1>1, <3>1, FinishIs, PlainIs DEF Plainly, Alone
      <3> QED BY <1>3, <3>2, <3>3
    <2>2. CASE list[k].head # Nil
      <3>1. Dropping(c, Cmd(c), k, Target(Cmd(c)))
        BY <1>2, <2>2 DEF Dropping, Key
      <3>2. PICK m, t : Dropping(c, m, k, t)
        BY <3>1
      <3>3. Dropped(c, m, k, t)
        BY <3>2, DropIs
      <3> QED BY <3>3 DEF Dropped, Alone
    <2> QED BY <2>1, <2>2
  <1>6. \A l \in Keys : l # k => S[l] = R[l]
    BY <1>2 DEF TakenFrom
  <1>7. ASSUME NEW l \in Keys, l # k PROVE Same(R, S, l)
    <2>1. Fronting(l)' = Fronting(l)
      BY <1>1, <1>2, <1>3, <1>5, <1>7, FrontingOthers
    <2>2. S[l] \in Seq(DOMAIN node') /\ S[l] = R[l]
      BY <1>1, <1>6, <1>7 DEF Shape, Rings
    <2>3. \A i \in 1..Len(R[l]) : R[l][i] \in DOMAIN node'
      BY <2>2
    <2>4. KeptAs(R, S, l)
      BY <1>1, <1>5, <1>7, <2>2, <2>3 DEF KeptAs
    <2> QED BY <2>1, <2>4 DEF Same
  <1> QED BY <1>2, <1>4, <1>5, <1>7

LEMMA DropStep ==
    ASSUME NEW R, Inv(R), NEW c \in Clients, Drop(c)
    PROVE  Implements
  <1>1. th[c].pc = "take" /\ Shape(R) /\ Types /\ th \in [Clients -> Thread]
    BY DEF Drop, Inv, TypeOK, Types
  <1>2. PICK m : m = Cmd(c)
    OBVIOUS
  <1>3. PICK k : k = Key(c)
    OBVIOUS
  <1>4. PICK v : v = View(k)
    OBVIOUS
  <1>5. /\ Due(c, m, k, v) /\ m \in Commands /\ k \in Keys /\ k = m.key
        /\ Shrinks(m) /\ list[k] # NULL /\ lock[k] = NULL /\ UNCHANGED lock
    <2>1. Due(c, m, k, v) /\ m \in Commands /\ k \in Keys
      BY <1>1, <1>2, <1>3, <1>4, DueNow
    <2>2. Shrinks(m) /\ list[k] # NULL
      BY <1>1, <1>2, <1>3 DEF Shape, Placed
    <2>3. k = m.key /\ lock[k] = NULL /\ UNCHANGED lock
      BY <1>2, <1>3 DEF Drop, Key
    <2> QED BY <2>1, <2>2, <2>3
  <1>6. m.op \notin Pushes /\ m.op \in {"lpop", "rpop", "lerase"} /\ v # NULL
    BY <1>1, <1>4, <1>5, CommandIs, EmptyView DEF Shrinks, Pushes
  <1>7. CASE list[k].head = Nil
    <2>1. PICK msg \in {"ok", "blank"} : msg = IF m.op = "lerase" THEN "ok" ELSE "blank"
      OBVIOUS
    <2>2. Plainly(c, msg) /\ UNCHANGED <<list, node>>
      BY <1>2, <1>5, <1>7, <2>1 DEF Drop
    <2>3. Alone(c) /\ th'[c].pc = "idle" /\ th'[c].n = th[c].n /\ th'[c].ans = Plain(msg)
      BY <1>1, <2>2, FinishIs, PlainIs DEF Plainly, Alone
    <2>4. \A l \in Keys : Seen(l)
      BY <1>1, <1>5, <2>2, <2>3, CalmSeen
    <2>5. Answered(c, Plain(msg))
      BY <2>3, <2>4, OthersStill DEF Answered, Todo, Told
    <2>6. v = <<>>
      BY <1>1, <1>4, <1>5, <1>7, EmptyView
    <2>7. Promise!Act(c)
      BY <1>5, <1>6, <2>1, <2>5, <2>6, NothingActs
    <2> QED BY <2>7, ActImplements
  <1>8. CASE list[k].head # Nil
    <2>1. PICK S : Inv(S)' /\ TakenFrom(R, S, c)
      BY DropInv
    <2>2. PICK r, s : r = R[k] /\ s = S[k]
      OBVIOUS
    <2>3. PICK p \in 1..Len(r) : Without(r, s, m, p)
      BY <1>2, <1>3, <1>8, <2>1, <2>2 DEF TakenFrom
    <2>4. PICK t : t = Target(m)
      OBVIOUS
    <2>5. Dropped(c, m, k, t)
      <3>1. Dropping(c, m, k, t)
        BY <1>2, <1>5, <1>8, <2>4 DEF Dropping
      <3> QED BY <3>1, DropIs
    <2>6. /\ Alone(c) /\ th'[c].pc = "idle" /\ th'[c].n = th[c].n
          /\ th'[c].ans = IF m.op = "lerase" THEN Plain("ok") ELSE [msg |-> "data", val |-> node[t].val]
          /\ \A x \in DOMAIN node' : node'[x].val = node[x].val
          /\ list'[k] # NULL /\ \A l \in Keys : l # k => list'[l] = list[l]
      BY <2>5 DEF Dropped, Alone
    <2>7. Shape(S)' /\ Types' /\ \A l \in Keys : l # k => S[l] = R[l]
      BY <1>3, <2>1 DEF Inv, TypeOK, Types, TakenFrom
    <2>8. ASSUME NEW l \in Keys
          PROVE  /\ S[l] \in Seq(DOMAIN node') /\ R[l] \in Seq(DOMAIN node)
                 /\ \A i \in 1..Len(S[l]) : node'[S[l][i]].val = node[S[l][i]].val
      <3>1. S[l] \in Seq(DOMAIN node') /\ R[l] \in Seq(DOMAIN node)
        BY <1>1, <2>7 DEF Shape, Rings
      <3>2. \A i \in 1..Len(S[l]) : S[l][i] \in DOMAIN node'
        BY <3>1
      <3> QED BY <2>6, <3>1, <3>2
    <2>9. ASSUME NEW l \in Keys, l # k PROVE Seen(l)
      BY <1>3, <2>1, <2>9, DropSame, SameSeen
    <2>10. v = Shown(node, r, FALSE) /\ View(k)' = Shown(node', s, FALSE)
      <3>1. Fronting(k) \in BOOLEAN /\ Fronting(k)' \in BOOLEAN
        BY DEF Fronting
      <3>2. ~Fronting(k) /\ ~Fronting(k)'
        BY <1>5, FrontingMine
      <3>3. Fronting(k) = FALSE /\ Fronting(k)' = FALSE
        BY <3>1, <3>2
      <3>4. View(k) = Shown(node, R[k], Fronting(k))
        BY <1>1, <1>5, ViewIs
      <3>5. View(k)' = Shown(node', S[k], Fronting(k)')
        BY <1>5, <2>6, <2>7, ViewIsNext
      <3> QED BY <1>4, <2>2, <3>3, <3>4, <3>5
    <2>11. PICK w : w = Shown(node', s, FALSE)
      OBVIOUS
    <2>12. v \in Seq(Elements) /\ Len(v) = Len(r) /\ \A i \in 1..Len(r) : v[i] = node[r[i]].val
      <3>1. node \in [DOMAIN node -> Node] /\ r \in Seq(DOMAIN node)
        BY <1>1, <1>5, <2>2, <2>8 DEF Types
      <3> QED BY <2>10, <3>1, ShownPlain
    <2>13. w \in Seq(Elements) /\ Len(w) = Len(s) /\ \A i \in 1..Len(s) : w[i] = node[s[i]].val
      <3>1. node' \in [DOMAIN node' -> Node] /\ s \in Seq(DOMAIN node')
        BY <1>5, <2>2, <2>7, <2>8 DEF Types
      <3>2. w \in Seq(Elements) /\ Len(w) = Len(s) /\ \A i \in 1..Len(s) : w[i] = node'[s[i]].val
        BY <2>11, <3>1, ShownPlain
      <3> QED BY <1>5, <2>2, <2>8, <3>2
    <2>14. Shortened(v, w, p)
      <3>1. Len(r) \in Nat /\ Len(s) = Len(r) - 1 /\ \A j \in 1..Len(s) : s[j] = r[IF j < p THEN j ELSE j + 1]
        BY <1>5, <2>2, <2>3, <2>8 DEF Without
      <3>2. \A j \in 1..Len(s) : (IF j < p THEN j ELSE j + 1) \in 1..Len(r)
        BY <3>1
      <3>3. \A j \in 1..Len(s) : w[j] = v[IF j < p THEN j ELSE j + 1]
        BY <2>12, <2>13, <3>1, <3>2
      <3>4. Shorter(Elements, v, w, p)
        BY <2>12, <2>13, <3>1, <3>3 DEF Shorter
      <3> QED BY <3>4, ShorterIs
    <2>15. node[t].val = v[p] /\ (m.op = "lpop" => p = 1) /\ (m.op = "rpop" => p = Len(v))
           /\ (m.op = "lerase" => p = Index(v, m.i))
      BY <2>3, <2>4, <2>12 DEF Without, Index
    <2>16. PICK ans : ans = IF m.op = "lerase" THEN Plain("ok") ELSE [msg |-> "data", val |-> node[t].val]
      OBVIOUS
    <2>17. Effect(c, k, w, ans)
      <3>1. Todo(c)' = NULL /\ Told(c)' = ans
        BY <2>6, <2>16 DEF Todo, Told
      <3> QED BY <1>3, <1>5, <2>6, <2>9, <2>10, <2>11, <3>1, OthersStill DEF Effect
    <2>18. CASE m.op \in Pops
      <3>1. w = IF m.op = "lpop" THEN Tail(v) ELSE Front(v)
        BY <2>14, <2>15, <2>18 DEF Pops, Shortened
      <3>2. ans = [msg |-> "data", val |-> IF m.op = "lpop" THEN Head(v) ELSE Last(v)]
        BY <2>14, <2>15, <2>16, <2>18 DEF Pops, Shortened
      <3>3. v # <<>>
        BY <2>14 DEF Shortened
      <3>4. Promise!Act(c)
        BY <1>5, <1>6, <2>17, <2>18, <3>1, <3>2, <3>3, PopActs
      <3> QED BY <3>4, ActImplements
    <2>19. CASE m.op = "lerase"
      <3>1. w = RemoveAt(v, Index(v, m.i)) /\ ans = Plain("ok") /\ v # <<>>
        BY <2>14, <2>15, <2>16, <2>19 DEF Shortened
      <3>2. Promise!Act(c)
        BY <1>5, <1>6, <2>17, <2>19, <3>1, EraseActs
      <3> QED BY <3>2, ActImplements
    <2> QED BY <1>6, <2>18, <2>19 DEF Pops
  <1> QED BY <1>7, <1>8

-----------------------------------------------------------------------------
(* Crash, read and start                                                   *)

\* Without value objects there are no lists to see.
LEMMA NoList ==
    /\ \A k : list[k] = NULL => View(k) = NULL
    /\ \A k : list'[k] = NULL => View(k)' = NULL
  BY ViewAsIs DEF ViewAs

LEMMA CrashStep ==
    ASSUME NEW R, Inv(R), Crash
    PROVE  Implements
  <1>1. \A c \in Clients : th'[c].pc = "idle" /\ th'[c].n = th[c].n /\ th'[c].ans = Plain("none")
    BY CrashIs
  <1>2. [k \in Keys |-> View(k)'] = [k \in Keys |-> NULL]
    <2>1. \A k \in Keys : list'[k] = NULL
      BY DEF Crash
    <2> QED BY <2>1, NoList
  <1>3. [c \in Clients |-> th'[c].n] = [c \in Clients |-> th[c].n]
    BY <1>1
  <1>4. [c \in Clients |-> Todo(c)'] = [c \in Clients |-> NULL]
    BY <1>1 DEF Todo
  <1>5. [c \in Clients |-> Told(c)'] = [c \in Clients |-> Plain("none")]
    BY <1>1 DEF Told
  <1>6. Promise!Restart
    BY <1>2, <1>3, <1>4, <1>5 DEF Promise!Restart, Promise!Plain, Plain, Todo, Told, Cmd
  <1> QED BY <1>6 DEF Implements, Promise!NextLists

LEMMA ReadStep ==
    ASSUME Read
    PROVE  Implements
  <1>1. \A k \in Keys : View(k) = NULL
    BY NoList DEF Read
  <1>2. \A c \in Clients : th[c].pc = "idle"
    BY DEF Read
  <1>3. UNCHANGED th
    BY DEF Read
  <1>4. Promise!Load
    BY <1>1, <1>2, <1>3 DEF Promise!Load, Cmd
  <1> QED BY <1>4 DEF Implements, Promise!NextLists

\* The keys are there from the beginning, with their lists.
LEMMA InitStep ==
    ASSUME Init
    PROVE  Promise!InitLists
  <1>1. PICK lines : lines = LinesOf(InitList)
    OBVIOUS
  <1>2. /\ node = Filled(lines).node /\ list = Filled(lines).list
        /\ lock = [k \in Keys |-> NULL]
        /\ th = [c \in Clients |-> [pc |-> "idle", cmd |-> NULL, n |-> 0, e |-> Nil, ans |-> Plain("none")]]
    BY <1>1 DEF Init, LinesOf
  <1>3. InitList \in [Keys -> Seq(Elements)]
    <2>1. Seq(Vals) \subseteq Seq(Elements)
      BY SeqMonotonic DEF Elements
    <2> QED BY <2>1, WorkAssumption
  <1>4. /\ lines \in Seq(Line) /\ Len(lines) = Len(Order)
        /\ \A i \in 1..Len(lines) : /\ lines[i].key = Order[i] /\ lines[i].key # NULL
                                    /\ lines[i].val = InitList[Order[i]]
    BY <1>1, <1>3, LinesIs
  <1>5. PICK R : Filling(Filled(lines), R, lines, Len(lines))
    BY <1>4, FilledIs
  <1>6. \A c \in Clients : th[c].pc = "idle" /\ th[c].n = 0 /\ th[c].ans = Plain("none")
    BY <1>2
  <1>7. Shape(R) /\ Types
    BY <1>2, <1>5, <1>6, FilledInit
  <1>8. ASSUME NEW k \in Keys PROVE View(k) = InitList[k]
    <2>1. PICK i \in 1..Len(lines) : lines[i].key = k
      BY <1>4, OrderIs
    <2>2. list[k] # NULL
      <3>1. IF list[k] = NULL THEN R[k] = <<>> /\ \A x \in 1..Len(lines) : lines[x].key # k ELSE TRUE
        BY <1>2, <1>5 DEF Filling
      <3> QED BY <2>1, <3>1
    <2>3. Len(R[k]) = Len(InitList[k]) /\ \A j \in 1..Len(R[k]) : node[R[k][j]].val = InitList[k][j]
      <3>1. PICK x \in 1..Len(lines) : /\ lines[x].key = k /\ Len(R[k]) = Len(lines[x].val)
                                       /\ \A j \in 1..Len(R[k]) : node[R[k][j]].val = lines[x].val[j]
        BY <1>2, <1>5, <2>2 DEF Filling
      <3>2. lines[x].val = InitList[k]
        BY <1>4, <3>1
      <3> QED BY <3>1, <3>2
    <2>4. ~Fronting(k)
      BY <1>6 DEF Fronting
    <2>5. View(k) \in Seq(Elements) /\ Len(View(k)) = Len(R[k]) /\ \A j \in 1..Len(R[k]) : View(k)[j] = node[R[k][j]].val
      BY <1>7, <2>2, <2>4, PlainView
    <2>6. PICK v : v = View(k)
      OBVIOUS
    <2>7. PICK s : s = InitList[k]
      OBVIOUS
    <2>8. v \in Seq(Elements) /\ s \in Seq(Elements) /\ Len(v) = Len(s) /\ \A j \in 1..Len(v) : v[j] = s[j]
      BY <1>3, <2>3, <2>5, <2>6, <2>7
    <2>9. v = s
      BY <2>8, SameSeq
    <2> QED BY <2>6, <2>7, <2>9
  <1>9. [k \in Keys |-> View(k)] = InitList
    BY <1>3, <1>8
  <1> QED BY <1>6, <1>9 DEF Promise!InitLists, Promise!Plain, Plain

-----------------------------------------------------------------------------

LEMMA NextStep ==
    ASSUME NEW R, Inv(R), [Next]_vars
    PROVE  Implements
  <1>1. ASSUME NEW c \in Clients, Call(c) PROVE Implements
    BY <1>1, CallStep
  <1>2. ASSUME NEW c \in Clients, Run(c) PROVE Implements
    <2>1. CASE Check(c)
      BY <2>1, CheckStep
    <2>2. CASE Enter(c)
      BY <2>2, EnterStep
    <2>3. CASE Link(c)
      BY <2>3, LinkStep
    <2>4. CASE SetHead(c)
      BY <2>4, SetHeadStep
    <2>5. CASE Leave(c)
      BY <2>5, LeaveStep
    <2>6. CASE Drop(c)
      BY <2>6, DropStep
    <2> QED BY <1>2, <2>1, <2>2, <2>3, <2>4, <2>5, <2>6 DEF Run
  <1>3. CASE Save
    <2>1. UNCHANGED <<list, node, lock, th>>
      BY <1>3 DEF Save, Begin, PrintFirst, PrintTest, PrintNext, Close
    <2> QED BY <2>1, UnseenStep
  <1>4. CASE Open
    <2>1. UNCHANGED <<list, node, lock, th>>
      BY <1>4 DEF Open
    <2> QED BY <2>1, UnseenStep
  <1>5. CASE Crash
    BY <1>5, CrashStep
  <1>6. CASE Read
    BY <1>6, ReadStep
  <1>7. CASE UNCHANGED vars \/ Over
    <2>1. UNCHANGED <<list, node, lock, th>>
      BY <1>7 DEF Over, vars
    <2> QED BY <2>1, UnseenStep
  <1> QED BY <1>1, <1>2, <1>3, <1>4, <1>5, <1>6, <1>7 DEF Next

\* Commands of several clients, each a number of steps on pointers and none kept out by
\* another's but for the mutex, act on sequences, each at one moment between its call and
\* its answer, and answer what that sequence says (push_front, push_back, pop_front,
\* pop_back, del).
THEOREM ListsAtomic == Spec => Atomic
  <1>1. Init => Promise!InitLists
    BY InitStep
  <1>2. Followed /\ [Next]_vars => [Promise!NextLists]_(Promise!listVars)
    <2> SUFFICES ASSUME Followed, [Next]_vars PROVE Implements
      BY DEF Implements
    <2>1. PICK R : Inv(R)
      BY DEF Followed
    <2> QED BY <2>1, NextStep
  <1> QED BY <1>1, <1>2, AlwaysFollowed, PTL DEF Spec, Atomic, Promise!SpecLists

-----------------------------------------------------------------------------
(* What the file has of lists that change                                  *)

\* The keys before place n that are there have their lines in f, and honest ones.
Lines(f, n) ==
    /\ f \in Seq(Line) /\ n \in 1..(Len(Order) + 1)
    /\ \A i \in 1..Len(f) :
          /\ f[i].key \in Keys /\ Place(f[i].key) < n /\ NULL \notin since[f[i].key]
          /\ Honest(f[i].key, f[i].val)
    /\ \A i, j \in 1..Len(f) : i < j => Place(f[i].key) < Place(f[j].key)
    /\ \A k \in Keys : Place(k) < n /\ NULL \notin since[k] => \E i \in 1..Len(f) : f[i].key = k

\* The history has what is seen of k, and no time without it.
Watched(k) == Sights(k) \subseteq since[k] /\ (NULL \in since[k] => list[k] = NULL)

Saved ==
    /\ saver.pc # "idle" => ~whole /\ Lines(file, saver.n) /\ \A k \in Keys : Watched(k)
    /\ saver.pc = "idle" =>
          IF whole THEN Lines(file, Len(Order) + 1) ELSE \E f, n : Lines(f, n) /\ file \in Written(f)

\* print is at the p-th node of r, and has the first q behind it.
Stands(r, p, q) ==
    \/ saver.pc = "first" /\ p = 1 /\ q = 1
    \/ saver.pc = "next" /\ saver.it = r[p] /\ q = p
    \/ saver.pc = "test" /\ saver.it = r[p] /\ q = IF p = 1 THEN Len(r) ELSE p - 1

Among(s, x) == \E i \in 1..Len(s) : s[i] = x

\* Of a list that was there, all is in the text or among the nodes behind the q-th up to the m-th.
Covers(H, str, nd, r, q, m) ==
    \E s \in H : s # <<>> /\ \A j \in 1..Len(s) : Among(str, s[j]) \/ \E i \in (q + 1)..m : nd[r[i]].val = s[j]

\* A head that is not set yet need not be printed.
Settled(r, k) == IF Fronting(k) THEN Len(r) - 1 ELSE Len(r)

\* The text is a part of the list, as long as its head stays.
Copied(r, p, q) ==
    IF saver.pc = "test" /\ p = 1 THEN saver.str \in since[Order[saver.n]]
    ELSE Len(saver.str) = q /\ \A i \in 1..q : saver.str[i] = node[r[i]].val

Copying(r, k) ==
    /\ Fronting(k) => k \in moved
    /\ saver.str # <<>>
    /\ \A i \in 1..Len(saver.str) : \E s \in since[k] \ {NULL} : Among(s, saver.str[i])
    /\ \E p, q \in 1..Len(r) :
          /\ Stands(r, p, q)
          /\ Covers(since[k] \ {NULL}, saver.str, node, r, q, Settled(r, k))
          /\ k \notin moved => Copied(r, p, q)

Copies(R) == saver.pc \in {"first", "test", "next"} => Copying(R[Order[saver.n]], Order[saver.n])

-----------------------------------------------------------------------------
(* What is seen of a list                                                  *)

LEMMA PlaceIs ==
    /\ \A i \in 1..Len(Order) : Place(Order[i]) = i
    /\ \A k \in Keys : Place(k) \in 1..Len(Order) /\ Order[Place(k)] = k
  <1>1. ASSUME NEW k \in Keys PROVE Place(k) \in 1..Len(Order) /\ Order[Place(k)] = k
    <2>1. \E i \in DOMAIN Order : Order[i] = k
      BY OrderIs
    <2>2. Place(k) \in DOMAIN Order /\ Order[Place(k)] = k
      BY <2>1 DEF Place
    <2> QED BY <2>2, OrderIs
  <1>2. ASSUME NEW i \in 1..Len(Order) PROVE Place(Order[i]) = i
    <2>1. Order[i] \in Keys
      BY OrderIs
    <2> QED BY <1>1, <2>1, OrderIs
  <1> QED BY <1>1, <1>2

\* s is what the settled nodes hold, and v has what all of them do.
Glimpse(nd, r, v, s, m) ==
    /\ s \in Seq(Elements) /\ Len(s) = m /\ \A i \in 1..m : s[i] = nd[r[i]].val
    /\ v \in Seq(Elements) /\ Len(v) = Len(r) /\ \A i \in 1..Len(r) : Among(v, nd[r[i]].val)

LEMMA GlimpsePlain ==
    ASSUME NEW nd, nd \in [DOMAIN nd -> Node], NEW r \in Seq(DOMAIN nd)
    PROVE  Glimpse(nd, r, Shown(nd, r, FALSE), Shown(nd, r, FALSE), Len(r))
  <1>1. PICK v : v = Shown(nd, r, FALSE)
    OBVIOUS
  <1>2. v \in Seq(Elements) /\ Len(v) = Len(r) /\ \A i \in 1..Len(r) : v[i] = nd[r[i]].val
    BY <1>1, ShownPlain
  <1>3. \A i \in 1..Len(r) : Among(v, nd[r[i]].val)
    BY <1>2 DEF Among
  <1> QED BY <1>1, <1>2, <1>3 DEF Glimpse

LEMMA GlimpseTurned ==
    ASSUME NEW nd, nd \in [DOMAIN nd -> Node], NEW r \in Seq(DOMAIN nd), Len(r) >= 2
    PROVE  Glimpse(nd, r, Shown(nd, r, TRUE), Tail(Shown(nd, r, TRUE)), Len(r) - 1)
  <1>1. PICK v : v = Shown(nd, r, TRUE)
    OBVIOUS
  <1>2. PICK n \in Nat : n = Len(r) /\ n >= 2
    OBVIOUS
  <1>3. /\ v \in Seq(Elements) /\ Len(v) = n /\ v[1] = nd[r[n]].val
        /\ \A i \in 1..(n - 1) : v[i + 1] = nd[r[i]].val
    BY <1>1, <1>2, ShownTurned
  <1>4. PICK s : s = Tail(v)
    OBVIOUS
  <1>5. s \in Seq(Elements) /\ Len(s) = n - 1 /\ \A i \in 1..(n - 1) : s[i] = v[i + 1]
    <2>1. v # <<>>
      BY <1>2, <1>3
    <2>2. /\ Tail(v) \in Seq(Elements) /\ Len(Tail(v)) = Len(v) - 1
          /\ \A i \in 1..Len(Tail(v)) : Tail(v)[i] = v[i + 1]
      BY <1>3, <2>1, HeadTailProperties
    <2> QED BY <1>3, <1>4, <2>2
  <1>6. ASSUME NEW i \in 1..n PROVE Among(v, nd[r[i]].val)
    <2>1. CASE i = n
      <3>1. 1 \in 1..Len(v) /\ v[1] = nd[r[i]].val
        BY <1>2, <1>3, <2>1
      <3> QED BY <3>1 DEF Among
    <2>2. CASE i # n
      <3>1. i \in 1..(n - 1) /\ i + 1 \in 1..n
        BY <2>2
      <3> QED BY <1>3, <3>1 DEF Among
    <2> QED BY <2>1, <2>2
  <1>7. \A i \in 1..(n - 1) : s[i] = nd[r[i]].val
    BY <1>3, <1>5
  <1> QED BY <1>1, <1>2, <1>3, <1>4, <1>5, <1>6, <1>7 DEF Glimpse

LEMMA SightIs ==
    ASSUME NEW R, Shape(R), Types, NEW k \in Keys, list[k] # NULL
    PROVE  /\ View(k) \in Sights(k) /\ Sights(k) \subseteq Seq(Elements)
           /\ \E s \in Sights(k) : Glimpse(node, R[k], View(k), s, Settled(R[k], k))
  <1>1. R[k] \in Seq(DOMAIN node) /\ node \in [DOMAIN node -> Node]
    BY DEF Shape, Rings, Types
  <1>2. View(k) = Shown(node, R[k], Fronting(k)) /\ Fronting(k) \in BOOLEAN
    BY ViewIs DEF Fronting
  <1>3. CASE Fronting(k)
    <2>1. Len(R[k]) >= 2
      BY <1>3, FrontingIs
    <2>2. Fronting(k) = TRUE
      BY <1>2, <1>3
    <2>3. Glimpse(node, R[k], View(k), Tail(View(k)), Len(R[k]) - 1)
      BY <1>1, <1>2, <2>1, <2>2, GlimpseTurned
    <2>4. Sights(k) = {View(k), Tail(View(k))}
      BY <1>3 DEF Sights
    <2>5. Settled(R[k], k) = Len(R[k]) - 1
      BY <1>3 DEF Settled
    <2> QED BY <2>3, <2>4, <2>5 DEF Glimpse
  <1>4. CASE ~Fronting(k)
    <2>1. Fronting(k) = FALSE
      BY <1>2, <1>4
    <2>2. Glimpse(node, R[k], View(k), View(k), Len(R[k]))
      BY <1>1, <1>2, <2>1, GlimpsePlain
    <2>3. Sights(k) = {View(k)}
      BY <1>4 DEF Sights
    <2>4. Settled(R[k], k) = Len(R[k])
      BY <1>4 DEF Settled
    <2> QED BY <2>2, <2>3, <2>4 DEF Glimpse
  <1> QED BY <1>3, <1>4

LEMMA SightNext ==
    ASSUME NEW R, Shape(R)', Types', NEW k \in Keys, list'[k] # NULL
    PROVE  Sights(k)' \subseteq Seq(Elements)
  <1>1. R[k] \in Seq(DOMAIN node') /\ node' \in [DOMAIN node' -> Node]
    BY DEF Shape, Rings, Types
  <1>2. View(k)' = Shown(node', R[k], Fronting(k)') /\ Fronting(k)' \in BOOLEAN
    BY ViewIsNext DEF Fronting
  <1>3. CASE Fronting(k)'
    <2>1. Len(R[k]) >= 2
      BY <1>3, FrontingIsNext
    <2>2. Fronting(k)' = TRUE
      BY <1>2, <1>3
    <2>3. Glimpse(node', R[k], View(k)', Tail(View(k)'), Len(R[k]) - 1)
      BY <1>1, <1>2, <2>1, <2>2, GlimpseTurned
    <2>4. Sights(k)' = {View(k)', Tail(View(k)')}
      BY <1>3 DEF Sights
    <2> QED BY <2>3, <2>4 DEF Glimpse
  <1>4. CASE ~Fronting(k)'
    <2>1. Fronting(k)' = FALSE
      BY <1>2, <1>4
    <2>2. Glimpse(node', R[k], View(k)', View(k)', Len(R[k]))
      BY <1>1, <1>2, <2>1, GlimpsePlain
    <2>3. Sights(k)' = {View(k)'}
      BY <1>4 DEF Sights
    <2> QED BY <2>2, <2>3 DEF Glimpse
  <1> QED BY <1>3, <1>4

-----------------------------------------------------------------------------
(* Steps of clients beside the save                                        *)

\* The history gets longer, and no key comes or goes.
Grew == \A k \in Keys : since[k] \subseteq since'[k] /\ (NULL \in since'[k] => NULL \in since[k])

LEMMA HonestKept ==
    ASSUME NEW k, NEW val, Honest(k, val), since[k] \subseteq since'[k], k \in moved' <=> k \in moved
    PROVE  Honest(k, val)'
  <1>1. PICK had : had = {Printed(s) : s \in since[k] \ {NULL}}
    OBVIOUS
  <1>2. PICK had2 : had2 = {Printed(s) : s \in since'[k] \ {NULL}}
    OBVIOUS
  <1>3. had \subseteq had2
    BY <1>1, <1>2
  <1>4. IF k \notin moved THEN val \in had
        ELSE /\ Range(val) \subseteq UNION {Range(s) : s \in had}
             /\ \A x \in Elements : (\A s \in had : x \in Range(s)) => x \in Range(val)
    BY <1>1 DEF Honest
  <1>5. IF k \notin moved' THEN val \in had2
        ELSE /\ Range(val) \subseteq UNION {Range(s) : s \in had2}
             /\ \A x \in Elements : (\A s \in had2 : x \in Range(s)) => x \in Range(val)
    BY <1>3, <1>4
  <1> QED BY <1>2, <1>5 DEF Honest

LEMMA LinesKept ==
    ASSUME NEW f, NEW n, Lines(f, n), Grew, \A k \in Keys : Place(k) < n => (k \in moved' <=> k \in moved)
    PROVE  Lines(f, n)'
  <1>1. ASSUME NEW i \in 1..Len(f) PROVE Honest(f[i].key, f[i].val)' /\ NULL \notin since'[f[i].key]
    <2>1. f[i].key \in Keys /\ Place(f[i].key) < n /\ NULL \notin since[f[i].key] /\ Honest(f[i].key, f[i].val)
      BY DEF Lines
    <2> QED BY <2>1, HonestKept DEF Grew
  <1>2. \A k \in Keys : NULL \notin since'[k] => NULL \notin since[k]
    BY DEF Grew
  <1> QED BY <1>1, <1>2 DEF Lines, Place

LEMMA WatchedSame ==
    ASSUME NEW R, NEW S, NEW k \in Keys, Same(R, S, k), Watched(k), Grew
    PROVE  Watched(k)'
  <1>1. View(k)' = View(k) /\ Fronting(k)' = Fronting(k) /\ (list'[k] = NULL <=> list[k] = NULL)
    BY SameSeen DEF Seen, Same, KeptAs
  <1>2. Sights(k)' = Sights(k)
    BY <1>1 DEF Sights
  <1> QED BY <1>1, <1>2 DEF Watched, Grew

LEMMA SavedKept ==
    ASSUME Saved, UNCHANGED <<saver, file, whole>>, Grew,
           saver.pc = "idle" => UNCHANGED <<since, moved>>,
           \A k \in Keys : Place(k) < saver.n => (k \in moved' <=> k \in moved),
           saver.pc # "idle" => \A k \in Keys : Watched(k)'
    PROVE  Saved'
  <1>1. CASE saver.pc # "idle"
    <2>1. ~whole /\ Lines(file, saver.n)
      BY <1>1 DEF Saved
    <2>2. PICK f, n : f = file /\ n = saver.n
      OBVIOUS
    <2>3. Lines(f, n)'
      BY <2>1, <2>2, LinesKept
    <2> QED BY <1>1, <2>1, <2>2, <2>3 DEF Saved
  <1>2. CASE saver.pc = "idle"
    <2>1. ASSUME NEW f, NEW n, Lines(f, n) PROVE Lines(f, n)'
      BY <1>2, <2>1, LinesKept
    <2>2. CASE whole
      <3>1. PICK f : f = file
        OBVIOUS
      <3>2. Lines(f, Len(Order) + 1)'
        BY <1>2, <2>1, <2>2, <3>1 DEF Saved
      <3> QED BY <1>2, <2>2, <3>1, <3>2 DEF Saved
    <2>3. CASE ~whole
      <3>1. PICK f, n : Lines(f, n) /\ file \in Written(f)
        BY <1>2, <2>3 DEF Saved
      <3>2. file' \in Written(f)
        BY <3>1
      <3>3. Lines(f, n)'
        BY <2>1, <3>1
      <3> QED BY <1>2, <2>3, <3>2, <3>3 DEF Saved
    <2> QED BY <2>2, <2>3
  <1> QED BY <1>1, <1>2

\* Nodes that are passed before and after are still to come, or in the text.
LEMMA CoversKept ==
    ASSUME NEW H, NEW str, NEW nd, NEW r, NEW q, NEW m, Covers(H, str, nd, r, q, m),
           NEW H2, NEW str2, NEW nd2, NEW r2, NEW q2, NEW m2, H \subseteq H2,
           \A x : Among(str, x) => Among(str2, x),
           \A i \in (q + 1)..m : \/ Among(str2, nd[r[i]].val)
                                 \/ \E j \in (q2 + 1)..m2 : nd2[r2[j]].val = nd[r[i]].val
    PROVE  Covers(H2, str2, nd2, r2, q2, m2)
  <1>1. PICK s \in H : s # <<>> /\ \A j \in 1..Len(s) : \/ Among(str, s[j])
                                                       \/ \E i \in (q + 1)..m : nd[r[i]].val = s[j]
    BY DEF Covers
  <1>2. ASSUME NEW j \in 1..Len(s) PROVE Among(str2, s[j]) \/ \E i \in (q2 + 1)..m2 : nd2[r2[i]].val = s[j]
    BY <1>1
  <1> QED BY <1>1, <1>2 DEF Covers

LEMMA CopyingSame ==
    ASSUME NEW R, NEW S, NEW k, k = Order[saver.n], Same(R, S, k), UNCHANGED saver, since[k] \subseteq since'[k],
           k \in moved' <=> k \in moved, Copying(R[k], k)
    PROVE  Copying(S[k], k)'
  <1>1. PICK r : r = R[k]
    OBVIOUS
  <1>2. S[k] = r /\ Fronting(k)' = Fronting(k) /\ (\A i \in 1..Len(r) : node'[r[i]].val = node[r[i]].val)
        /\ r \in Seq(DOMAIN node)
    BY <1>1 DEF Same, KeptAs, Shape, Rings
  <1>3. Fronting(k)' => k \in moved'
    BY <1>1, <1>2 DEF Copying
  <1>4. \A i \in 1..Len(saver.str) : \E s \in since'[k] \ {NULL} : Among(s, saver.str[i])
    BY DEF Copying
  <1>5. PICK p, q \in 1..Len(r) : /\ Stands(r, p, q)
                                  /\ Covers(since[k] \ {NULL}, saver.str, node, r, q, Settled(r, k))
                                  /\ k \notin moved => Copied(r, p, q)
    BY <1>1 DEF Copying
  <1>6. Stands(r, p, q)'
    BY <1>5 DEF Stands
  <1>7. Covers(since'[k] \ {NULL}, saver.str, node', r, q, Settled(r, k))
    <2>1. since[k] \ {NULL} \subseteq since'[k] \ {NULL}
      OBVIOUS
    <2>2. \A i \in (q + 1)..Settled(r, k) : i \in 1..Len(r)
      BY <1>2 DEF Settled
    <2>3. \A i \in (q + 1)..Settled(r, k) : \E j \in (q + 1)..Settled(r, k) : node'[r[j]].val = node[r[i]].val
      BY <1>2, <2>2
    <2> QED BY <1>5, <2>1, <2>3, CoversKept
  <1>8. Settled(r, k)' = Settled(r, k)
    BY <1>2 DEF Settled
  <1>9. k \notin moved' => Copied(r, p, q)'
    BY <1>2, <1>5 DEF Copied
  <1>10. saver'.str = saver.str /\ saver'.str # <<>>
    BY DEF Copying
  <1>11. \E a, b \in 1..Len(r) : /\ Stands(r, a, b)'
                                 /\ Covers(since'[k] \ {NULL}, saver'.str, node', r, b, Settled(r, k)')
                                 /\ k \notin moved' => Copied(r, a, b)'
    BY <1>5, <1>6, <1>7, <1>8, <1>9, <1>10
  <1> QED BY <1>2, <1>3, <1>4, <1>10, <1>11 DEF Copying

\* What the file and its history have to do with the lists.
Filed(R) == Saved /\ Copies(R)

LEMMA CalmSame ==
    ASSUME NEW R, Inv(R), Inv(R)', NEW c \in Clients, Alone(c), UNCHANGED <<list, node, lock>>,
           th[c].pc # "head", th'[c].pc # "head"
    PROVE  \A l \in Keys : Same(R, R, l)
  <1>1. Shape(R) /\ Types /\ Shape(R)' /\ Types'
    BY DEF Inv, TypeOK, Types
  <1>2. ASSUME NEW l \in Keys PROVE Same(R, R, l)
    <2>1. Fronting(l)' = Fronting(l)
      BY DEF Fronting, Cmd, Alone
    <2>2. KeptAs(R, R, l)
      BY <1>1 DEF KeptAs
    <2> QED BY <2>1, <2>2 DEF Same
  <1> QED BY <1>2

LEMMA CalmFiled ==
    ASSUME NEW R, Inv(R), Filed(R), NEW S, \A l \in Keys : Same(R, S, l),
           UNCHANGED <<saver, file, whole, since, moved>>
    PROVE  Filed(S)'
  <1>1. Grew
    BY DEF Grew
  <1>2. saver.pc # "idle" => \A k \in Keys : Watched(k)'
    BY <1>1, WatchedSame DEF Filed, Saved
  <1>3. Saved'
    BY <1>1, <1>2, SavedKept DEF Filed
  <1>4. Copies(S)'
    <2> SUFFICES ASSUME saver.pc \in {"first", "test", "next"} PROVE Copying(S[Order[saver.n]], Order[saver.n])'
      BY DEF Copies
    <2>1. PICK k \in Keys : k = Order[saver.n]
      BY PrintedIs
    <2>2. Copying(S[k], k)'
      BY <2>1, CopyingSame DEF Filed, Copies
    <2> QED BY <2>1, <2>2
  <1> QED BY <1>3, <1>4 DEF Filed

LEMMA CallFiled ==
    ASSUME NEW R, Inv(R), Filed(R), NEW c \in Clients, Call(c)
    PROVE  Inv(R)' /\ Filed(R)'
  <1>1. Alone(c) /\ th[c].pc = "idle" /\ th'[c].pc = "check" /\ UNCHANGED <<list, node, lock>>
    BY CallIs DEF Alone
  <1>2. Inv(R)'
    BY CallInv
  <1>3. UNCHANGED <<saver, file, whole, since, moved>>
    BY DEF Call
  <1> QED BY <1>1, <1>2, <1>3, CalmSame, CalmFiled

LEMMA CheckFiled ==
    ASSUME NEW R, Inv(R), Filed(R), NEW c \in Clients, Check(c)
    PROVE  Inv(R)' /\ Filed(R)'
  <1>1. /\ th \in [Clients -> Thread] /\ th[c].pc = "check"
        /\ UNCHANGED <<list, node, lock>> /\ UNCHANGED <<saver, file, whole, since, moved>>
    BY DEF Check, Inv, TypeOK
  <1>2. Alone(c) /\ th'[c].pc # "head"
    <2>1. ASSUME NEW a \in {"nokey", "empty"}, Plainly(c, a) PROVE Alone(c) /\ th'[c].pc # "head"
      BY <1>1, <2>1, FinishIs, PlainIs DEF Plainly, Alone
    <2>2. ASSUME Goto(c, "take") PROVE Alone(c) /\ th'[c].pc # "head"
      BY <1>1, <2>2, GotoIs DEF Alone
    <2> QED BY <2>1, <2>2 DEF Check
  <1>3. Inv(R)'
    BY CheckInv
  <1> QED BY <1>1, <1>2, <1>3, CalmSame, CalmFiled

LEMMA EnterFiled ==
    ASSUME NEW R, Inv(R), Filed(R), NEW c \in Clients, Enter(c)
    PROVE  Inv(R)' /\ Filed(R)'
  <1>1. UNCHANGED <<saver, file, whole, since, moved>>
    BY DEF Enter
  <1> QED BY <1>1, EnterSame, CalmFiled

LEMMA LeaveFiled ==
    ASSUME NEW R, Inv(R), Filed(R), NEW c \in Clients, Leave(c)
    PROVE  Inv(R)' /\ Filed(R)'
  <1>1. UNCHANGED <<saver, file, whole, since, moved>>
    BY DEF Leave
  <1> QED BY <1>1, LeaveSame, CalmFiled

LEMMA RememberGrew ==
    ASSUME NEW S, Shape(S)', Types', NEW k \in Keys, Remember(k), list'[k] # NULL,
           since \in [Keys -> SUBSET (Seq(Elements) \union {NULL})]
    PROVE  /\ Grew /\ (saver.pc = "idle" => UNCHANGED since)
           /\ saver.pc # "idle" => Sights(k)' \subseteq since'[k]
  <1>1. PICK x : x = Sights(k)'
    OBVIOUS
  <1>2. x \subseteq Seq(Elements) /\ NULL \notin x
    BY <1>1, SightNext, NullIs
  <1>3. since' = IF saver.pc = "idle" THEN since ELSE [since EXCEPT ![k] = since[k] \union x]
    BY <1>1 DEF Remember
  <1>4. Grew
    BY <1>2, <1>3 DEF Grew
  <1> QED BY <1>1, <1>3, <1>4

\* A step changes the list of k, which print does not look at.
LEMMA AsideFiled ==
    ASSUME NEW R, Inv(R), Filed(R), NEW S, Inv(S)', NEW k \in Keys, \A l \in Keys : l # k => Same(R, S, l),
           list[k] # NULL, list'[k] # NULL, Remember(k), UNCHANGED <<saver, file, whole>>,
           saver.pc = "idle" => UNCHANGED moved,
           \A l \in Keys : l # k => (l \in moved' <=> l \in moved),
           Place(k) < saver.n => UNCHANGED moved,
           Printing(k) => Copying(S[k], k)'
    PROVE  Filed(S)'
  <1>1. Shape(S)' /\ Types' /\ since \in [Keys -> SUBSET (Seq(Elements) \union {NULL})]
    BY DEF Inv, TypeOK, Types
  <1>2. /\ Grew /\ (saver.pc = "idle" => UNCHANGED since)
        /\ saver.pc # "idle" => Sights(k)' \subseteq since'[k]
    BY <1>1, RememberGrew
  <1>3. ASSUME saver.pc # "idle", NEW l \in Keys PROVE Watched(l)'
    <2>1. Watched(l)
      BY <1>3 DEF Filed, Saved
    <2>2. CASE l # k
      BY <1>2, <2>1, <2>2, WatchedSame
    <2>3. CASE l = k
      <3>1. Sights(k)' \subseteq since'[k]
        BY <1>2, <1>3
      <3>2. NULL \notin since[k]
        BY <2>1, <2>3 DEF Watched
      <3>3. NULL \notin since'[k]
        BY <1>2, <3>2 DEF Grew
      <3> QED BY <2>3, <3>1, <3>3 DEF Watched
    <2> QED BY <2>2, <2>3
  <1>4. Saved'
    <2>1. \A l \in Keys : Place(l) < saver.n => (l \in moved' <=> l \in moved)
      OBVIOUS
    <2> QED BY <1>2, <1>3, <2>1, SavedKept DEF Filed
  <1>5. Copies(S)'
    <2> SUFFICES ASSUME saver.pc \in {"first", "test", "next"} PROVE Copying(S[Order[saver.n]], Order[saver.n])'
      BY DEF Copies
    <2>1. PICK l \in Keys : l = Order[saver.n]
      BY PrintedIs
    <2>2. CASE l = k
      BY <2>1, <2>2 DEF Printing
    <2>3. CASE l # k
      <3>1. Copying(R[l], l)
        BY <2>1 DEF Filed, Copies
      <3>2. Copying(S[l], l)'
        BY <1>2, <2>1, <2>3, <3>1, CopyingSame DEF Grew
      <3> QED BY <2>1, <3>2
    <2> QED BY <2>2, <2>3
  <1> QED BY <1>4, <1>5 DEF Filed

LEMMA DropFiled ==
    ASSUME NEW R, Inv(R), Filed(R), NEW c \in Clients, Drop(c)
    PROVE  \E S : Inv(S)' /\ Filed(S)'
  <1>1. PICK S : Inv(S)' /\ TakenFrom(R, S, c)
    BY DropInv
  <1>2. PICK k \in Keys : k = Key(c)
    BY <1>1, DropSame
  <1>3. list'[k] # NULL /\ \A l \in Keys : l # k => Same(R, S, l)
    BY <1>1, <1>2, DropSame
  <1>4. th[c].pc = "take" /\ list[k] # NULL /\ Shrinks(Cmd(c))
    BY <1>2 DEF Drop, Inv, Shape, Placed
  <1>5. ~Printing(k)
    <2>1. Shrinking(k)
      BY <1>2, <1>4 DEF Shrinking
    <2> QED BY <2>1, PrintingIs DEF Inv
  <1>6. Remember(k) /\ UNCHANGED <<saver, file, whole, moved>>
    BY <1>2 DEF Drop
  <1>7. Filed(S)'
    BY <1>1, <1>3, <1>4, <1>5, <1>6, AsideFiled
  <1> QED BY <1>1, <1>7

\* The head is set, and print keeps its node.
LEMMA CopyingTurned ==
    ASSUME NEW R, Inv(R), NEW c \in Clients, SetHead(c), NEW S, Inv(S)', TurnedTo(R, S, c),
           NEW k \in Keys, k = Key(c), Printing(k), Copying(R[k], k)
    PROVE  Copying(S[k], k)'
  <1>1. PICK r, s : r = R[k] /\ s = S[k]
    OBVIOUS
  <1>2. UNCHANGED <<saver, node, since, moved>>
    BY DEF SetHead
  <1>3. Fronting(k) /\ ~Fronting(k)' /\ k \in moved
    BY SetHeadSame DEF Copying
  <1>4. PICK n \in Nat : n = Len(r)
    <2>1. r \in Seq(DOMAIN node)
      BY <1>1 DEF Inv, Shape, Rings
    <2> QED BY <2>1
  <1>5. Len(s) = n /\ s[1] = r[n] /\ \A i \in 1..(n - 1) : s[i + 1] = r[i]
    BY <1>1, <1>4 DEF TurnedTo
  <1>6. PICK p, q \in 1..n : /\ Stands(r, p, q)
                             /\ Covers(since[k] \ {NULL}, saver.str, node, r, q, n - 1)
    BY <1>1, <1>3, <1>4 DEF Copying, Settled
  <1>7. PICK p2 \in 1..n : p2 = IF saver.pc = "first" \/ p = n THEN 1 ELSE p + 1
    OBVIOUS
  <1>8. PICK q2 \in 1..n : q2 = IF saver.pc # "test" THEN p2 ELSE IF p2 = 1 THEN n ELSE p2 - 1
    OBVIOUS
  <1>9. saver.pc # "first" => s[p2] = r[p]
    <2>1. CASE p = n
      BY <1>5, <1>7, <2>1
    <2>2. CASE p # n
      <3>1. p \in 1..(n - 1)
        BY <2>2
      <3> QED BY <1>5, <1>7, <2>2, <3>1
    <2> QED BY <2>1, <2>2
  <1>10. Stands(s, p2, q2)'
    BY <1>2, <1>5, <1>6, <1>7, <1>8, <1>9 DEF Stands
  <1>11. \A i \in (q + 1)..(n - 1) : i + 1 \in (q2 + 1)..n
    BY <1>4, <1>6, <1>7, <1>8 DEF Stands
  <1>12. Covers(since[k] \ {NULL}, saver.str, node, s, q2, n)
    <2>1. ASSUME NEW i \in (q + 1)..(n - 1) PROVE \E j \in (q2 + 1)..n : node[s[j]].val = node[r[i]].val
      <3>1. i \in 1..(n - 1)
        OBVIOUS
      <3> QED BY <1>5, <1>11, <3>1
    <2> QED BY <1>6, <2>1, CoversKept
  <1>13. Settled(s, k)' = n
    BY <1>3, <1>5 DEF Settled
  <1>14. saver.str # <<>> /\ \A i \in 1..Len(saver.str) : \E t \in since[k] \ {NULL} : Among(t, saver.str[i])
    BY DEF Copying
  <1> QED BY <1>1, <1>2, <1>3, <1>5, <1>10, <1>12, <1>13, <1>14 DEF Copying

LEMMA SetHeadFiled ==
    ASSUME NEW R, Inv(R), Filed(R), NEW c \in Clients, SetHead(c)
    PROVE  \E S : Inv(S)' /\ Filed(S)'
  <1>1. PICK S : Inv(S)' /\ TurnedTo(R, S, c)
    BY SetHeadInv
  <1>2. th[c].pc \in Pushing /\ Shape(R) /\ UNCHANGED <<saver, file, whole, since, moved>>
    BY DEF SetHead, Pushing, Inv
  <1>3. PICK k \in Keys : k = Key(c)
    BY <1>2, HolderIs
  <1>4. list[k] # NULL
    BY <1>2, <1>3, HolderIs
  <1>5. Seen(k) /\ Fronting(k) /\ ~Fronting(k)' /\ \A l \in Keys : l # k => Same(R, S, l)
    BY <1>1, <1>3, SetHeadSame
  <1>6. Grew
    BY <1>2 DEF Grew
  <1>7. ASSUME saver.pc # "idle", NEW l \in Keys PROVE Watched(l)'
    <2>1. Watched(l)
      BY <1>7 DEF Filed, Saved
    <2>2. CASE l # k
      BY <1>5, <1>6, <2>1, <2>2, WatchedSame
    <2>3. CASE l = k
      <3>1. Sights(k)' \subseteq Sights(k)
        BY <1>5 DEF Sights, Seen
      <3> QED BY <1>2, <1>4, <2>1, <2>3, <3>1 DEF Watched
    <2> QED BY <2>2, <2>3
  <1>8. Saved'
    BY <1>2, <1>6, <1>7, SavedKept DEF Filed
  <1>9. Copies(S)'
    <2> SUFFICES ASSUME saver.pc \in {"first", "test", "next"} PROVE Copying(S[Order[saver.n]], Order[saver.n])'
      BY <1>2 DEF Copies
    <2>1. PICK l \in Keys : l = Order[saver.n]
      BY PrintedIs
    <2>2. Copying(R[l], l)
      BY <2>1 DEF Filed, Copies
    <2>3. CASE l = k
      <3>1. Printing(k)
        BY <2>1, <2>3 DEF Printing
      <3>2. Copying(S[k], k)'
        BY <1>1, <1>3, <2>2, <2>3, <3>1, CopyingTurned
      <3> QED BY <1>2, <2>1, <2>3, <3>2
    <2>4. CASE l # k
      <3>1. Copying(S[l], l)'
        BY <1>2, <1>5, <2>1, <2>2, <2>4, CopyingSame
      <3> QED BY <1>2, <2>1, <3>1
    <2> QED BY <2>3, <2>4
  <1> QED BY <1>1, <1>8, <1>9 DEF Filed

\* A node is linked behind the others while they are printed.
LEMMA CopyingLinked ==
    ASSUME NEW R, Inv(R), NEW c \in Clients, Link(c), NEW S, Inv(S)', LinkedTo(R, S, c),
           NEW k \in Keys, k = Key(c), Printing(k), Copying(R[k], k), since[k] \subseteq since'[k]
    PROVE  Copying(S[k], k)'
  <1>1. PICK r, e : r = R[k] /\ e = th[c].e
    OBVIOUS
  <1>2. PICK s : s = S[k]
    OBVIOUS
  <1>3. /\ e \in DOMAIN node /\ \A x \in DOMAIN node : node'[x].val = node[x].val
        /\ th'[c].pc = (IF r # <<>> /\ Cmd(c).op = "lpush" THEN "head" ELSE "leave")
        /\ th'[c].cmd = th[c].cmd /\ UNCHANGED <<lock, saver>>
    BY <1>1, LinkIs
  <1>4. th[c].pc = "link" /\ th[c].pc \in Pushing /\ Shape(R)
    BY DEF Link, Pushing, Inv
  <1>5. lock[k] = c /\ list[k] # NULL
    BY <1>4, HolderIs
  <1>6. PICK n \in Nat : n = Len(r) /\ r \in Seq(DOMAIN node) /\ r # <<>>
    <2>1. r \in Seq(DOMAIN node)
      BY <1>1, <1>4 DEF Shape, Rings
    <2>2. r # <<>>
      BY <1>1, PrintingIs DEF Inv
    <2> QED BY <2>1, <2>2
  <1>7. s = Append(r, e)
    BY <1>1, <1>2 DEF LinkedTo
  <1>8. Len(s) = n + 1 /\ \A i \in 1..n : s[i] = r[i] /\ node'[s[i]].val = node[r[i]].val
    <2>1. Len(s) = n + 1 /\ \A i \in 1..n : s[i] = r[i] /\ r[i] \in DOMAIN node
      BY <1>3, <1>6, <1>7
    <2> QED BY <1>3, <2>1
  <1>9. ~Fronting(k) /\ (Fronting(k)' <=> Cmd(c).op = "lpush")
    <2>1. lock'[k] = c /\ th'[c].cmd.op = Cmd(c).op
      BY <1>3, <1>5 DEF Cmd
    <2>2. Fronting(k) <=> Cmd(c).op = "lpush" /\ th[c].pc = "head"
      BY <1>5, FrontingMine
    <2>3. Fronting(k)' <=> th'[c].cmd.op = "lpush" /\ th'[c].pc = "head"
      BY <2>1, FrontingMine
    <2>4. th'[c].pc = "head" <=> Cmd(c).op = "lpush"
      BY <1>3, <1>6
    <2> QED BY <1>4, <2>1, <2>2, <2>3, <2>4
  <1>10. list[k].head # Nil
    <2>1. list[k].head = r[1]
      BY <1>1, <1>4, <1>5, <1>6 DEF Shape, Headed, HeadOf
    <2>2. r[1] \in DOMAIN node
      BY <1>6
    <2> QED BY <2>1, <2>2 DEF Inv, TypeOK
  <1>11. moved' = IF Cmd(c).op = "lpush" THEN moved \union {k} ELSE moved
    BY <1>10 DEF Link
  <1>12. PICK p, q \in 1..n : /\ Stands(r, p, q)
                              /\ Covers(since[k] \ {NULL}, saver.str, node, r, q, n)
                              /\ k \notin moved => Copied(r, p, q)
    BY <1>1, <1>6, <1>9 DEF Copying, Settled
  <1>13. PICK q2 \in 1..(n + 1) : q2 = IF saver.pc = "test" /\ p = 1 THEN n + 1 ELSE q
    OBVIOUS
  <1>14. Stands(s, p, q2)'
    BY <1>3, <1>6, <1>8, <1>12, <1>13 DEF Stands
  <1>15. PICK m : m = Settled(s, k)'
    OBVIOUS
  <1>16. m \in Nat /\ m >= n
    BY <1>8, <1>15 DEF Settled
  <1>17. Covers(since'[k] \ {NULL}, saver.str, node', s, q2, m)
    <2>1. ASSUME NEW i \in (q + 1)..n PROVE \E j \in (q2 + 1)..m : node'[s[j]].val = node[r[i]].val
      <3>1. i \in 1..n /\ q2 = q
        BY <1>6, <1>12, <1>13 DEF Stands
      <3>2. i \in (q2 + 1)..m
        BY <1>16, <3>1
      <3> QED BY <1>8, <3>1, <3>2
    <2>2. since[k] \ {NULL} \subseteq since'[k] \ {NULL}
      OBVIOUS
    <2> QED BY <1>12, <2>1, <2>2, CoversKept
  <1>18. k \notin moved' => Copied(s, p, q2)'
    <2> SUFFICES ASSUME k \notin moved' PROVE Copied(s, p, q2)'
      OBVIOUS
    <2>1. Copied(r, p, q)
      BY <1>11, <1>12
    <2>2. k = Order[saver.n]
      BY DEF Printing
    <2>3. CASE saver.pc = "test" /\ p = 1
      BY <1>3, <2>1, <2>2, <2>3 DEF Copied
    <2>4. CASE ~(saver.pc = "test" /\ p = 1)
      <3>1. Len(saver.str) = q /\ q2 = q /\ \A i \in 1..q : saver.str[i] = node[r[i]].val
        BY <1>13, <2>1, <2>4 DEF Copied
      <3>2. \A i \in 1..q : node'[s[i]].val = node[r[i]].val
        BY <1>8
      <3> QED BY <1>3, <2>4, <3>1, <3>2 DEF Copied
    <2> QED BY <2>3, <2>4
  <1>19. Fronting(k)' => k \in moved'
    BY <1>9, <1>11
  <1>20. saver'.str # <<>> /\ \A i \in 1..Len(saver'.str) : \E t \in since'[k] \ {NULL} : Among(t, saver'.str[i])
    BY <1>3 DEF Copying
  <1>21. p \in 1..Len(s) /\ q2 \in 1..Len(s)
    BY <1>8
  <1> QED BY <1>2, <1>3, <1>14, <1>15, <1>17, <1>18, <1>19, <1>20, <1>21 DEF Copying

LEMMA LinkFiled ==
    ASSUME NEW R, Inv(R), Filed(R), NEW c \in Clients, Link(c)
    PROVE  \E S : Inv(S)' /\ Filed(S)'
  <1>1. PICK S : Inv(S)' /\ LinkedTo(R, S, c)
    BY LinkInv
  <1>2. th[c].pc \in Pushing /\ Shape(R)
    BY DEF Link, Pushing, Inv
  <1>3. PICK k \in Keys : k = Key(c)
    BY <1>2, HolderIs
  <1>4. list[k] # NULL /\ \A l \in Keys : l # k => Same(R, S, l)
    BY <1>1, <1>2, <1>3, HolderIs, LinkSame
  <1>5. list'[k] # NULL /\ Remember(k) /\ UNCHANGED <<saver, file, whole>>
    <2>1. PICK r, e : r = R[k] /\ e = th[c].e
      OBVIOUS
    <2> QED BY <1>3, <2>1, LinkIs
  <1>6. \/ moved' = moved
        \/ Printing(k) /\ moved' = moved \union {k}
    <2>1. \/ moved' = moved
          \/ Printing(Key(c)) /\ moved' = moved \union {Key(c)}
      BY Zenon DEF Link
    <2> QED BY <1>3, <2>1, Zenon
  <1>7. Printing(k) => saver.pc # "idle" /\ saver.n = Place(k)
    <2>1. ASSUME Printing(k) PROVE saver.n = Place(k)
      <3>1. saver.n \in 1..Len(Order) /\ k = Order[saver.n]
        BY <2>1, PrintedIs DEF Printing
      <3> QED BY <3>1, PlaceIs
    <2> QED BY <2>1 DEF Printing
  <1>8. ~(Place(k) < Place(k))
    BY PlaceIs
  <1>9. ASSUME Printing(k) PROVE Copying(S[k], k)'
    <2>1. Copying(R[k], k)
      BY <1>9 DEF Filed, Copies, Printing
    <2>2. since[k] \subseteq since'[k]
      <3>1. Shape(S)' /\ Types' /\ since \in [Keys -> SUBSET (Seq(Elements) \union {NULL})]
        BY <1>1 DEF Inv, TypeOK, Types
      <3>2. Grew
        BY <1>5, <3>1, RememberGrew
      <3> QED BY <3>2 DEF Grew
    <2> QED BY <1>1, <1>3, <1>9, <2>1, <2>2, CopyingLinked
  <1>10. Filed(S)'
    BY <1>1, <1>4, <1>5, <1>6, <1>7, <1>8, <1>9, AsideFiled
  <1> QED BY <1>1, <1>10

-----------------------------------------------------------------------------
(* Steps of the save                                                       *)

LEMMA LinePassed ==
    ASSUME NEW f, NEW n, Lines(f, n), n <= Len(Order), NULL \in since[Order[n]]
    PROVE  Lines(f, n + 1)
  <1>1. n \in 1..(Len(Order) + 1) /\ Len(Order) \in Nat
    BY OrderIs DEF Lines
  <1>2. \A k \in Keys : Place(k) \in Nat /\ Order[Place(k)] = k
    BY OrderIs, PlaceIs
  <1>3. \A k \in Keys : Place(k) < n + 1 /\ NULL \notin since[k] => Place(k) < n
    BY <1>1, <1>2
  <1>4. \A k \in Keys : Place(k) < n => Place(k) < n + 1
    BY <1>1, <1>2
  <1>5. n + 1 \in 1..(Len(Order) + 1)
    BY <1>1
  <1> QED BY <1>3, <1>4, <1>5 DEF Lines

LEMMA LineAdded ==
    ASSUME NEW f, NEW n, Lines(f, n), n <= Len(Order), NEW k, k = Order[n], NULL \notin since[k],
           NEW val \in Seq(Elements), Honest(k, val)
    PROVE  Lines(Append(f, [key |-> k, val |-> val]), n + 1)
  <1>1. n \in 1..(Len(Order) + 1) /\ Len(Order) \in Nat /\ n \in 1..Len(Order) /\ n + 1 \in 1..(Len(Order) + 1)
    BY OrderIs DEF Lines
  <1>2. k \in Keys /\ Place(k) = n
    BY <1>1, OrderIs, PlaceIs
  <1>3. \A l \in Keys : Place(l) \in Nat /\ Order[Place(l)] = l
    BY OrderIs, PlaceIs
  <1>4. PICK g : g = Append(f, [key |-> k, val |-> val])
    OBVIOUS
  <1>5. PICK x : x = [key |-> k, val |-> val]
    OBVIOUS
  <1>6. x \in Line /\ x.key = k /\ x.val = val
    BY <1>2, <1>5 DEF Line
  <1>7. PICK m \in Nat : m = Len(f)
    BY DEF Lines
  <1>8. g \in Seq(Line) /\ Len(g) = m + 1 /\ g[m + 1] = x /\ \A i \in 1..m : g[i] = f[i]
    BY <1>4, <1>5, <1>6, <1>7 DEF Lines
  <1>9. ASSUME NEW i \in 1..m
        PROVE  /\ g[i].key \in Keys /\ Place(g[i].key) < n /\ NULL \notin since[g[i].key]
               /\ Honest(g[i].key, g[i].val) /\ Place(g[i].key) < n + 1
    <2>1. /\ f[i].key \in Keys /\ Place(f[i].key) < n /\ NULL \notin since[f[i].key] /\ Honest(f[i].key, f[i].val)
      BY <1>7 DEF Lines
    <2>2. Place(f[i].key) < n + 1
      BY <1>1, <1>3, <2>1
    <2> QED BY <1>8, <2>1, <2>2
  <1>10. ASSUME NEW i \in 1..Len(g)
         PROVE  /\ g[i].key \in Keys /\ Place(g[i].key) < n + 1 /\ NULL \notin since[g[i].key]
                /\ Honest(g[i].key, g[i].val)
    <2>1. CASE i = m + 1
      <3>1. g[i].key = k /\ g[i].val = val /\ n < n + 1
        BY <1>1, <1>6, <1>8, <2>1
      <3> QED BY <1>2, <3>1
    <2>2. CASE i # m + 1
      <3>1. i \in 1..m
        BY <1>8, <2>2
      <3> QED BY <1>9, <3>1
    <2> QED BY <2>1, <2>2
  <1>11. ASSUME NEW i \in 1..Len(g), NEW j \in 1..Len(g), i < j PROVE Place(g[i].key) < Place(g[j].key)
    <2>1. i \in 1..m
      BY <1>8, <1>11
    <2>2. CASE j = m + 1
      <3>1. g[j].key = k
        BY <1>6, <1>8, <2>2
      <3> QED BY <1>2, <1>9, <2>1, <3>1
    <2>3. CASE j # m + 1
      <3>1. j \in 1..m
        BY <1>8, <2>3
      <3>2. Place(f[i].key) < Place(f[j].key)
        BY <1>7, <1>11, <2>1, <3>1 DEF Lines
      <3> QED BY <1>8, <2>1, <3>1, <3>2
    <2> QED BY <2>2, <2>3
  <1>12. ASSUME NEW l \in Keys, Place(l) < n + 1, NULL \notin since[l] PROVE \E i \in 1..Len(g) : g[i].key = l
    <2>1. CASE l = k
      <3>1. m + 1 \in 1..Len(g) /\ g[m + 1].key = l
        BY <1>6, <1>8, <2>1
      <3> QED BY <3>1
    <2>2. CASE l # k
      <3>1. Place(l) < n
        BY <1>1, <1>3, <1>12, <2>2
      <3>2. PICK i \in 1..m : f[i].key = l
        BY <1>7, <1>12, <3>1 DEF Lines
      <3>3. i \in 1..Len(g) /\ g[i].key = l
        BY <1>8, <3>2
      <3> QED BY <3>3
    <2> QED BY <2>1, <2>2
  <1> QED BY <1>1, <1>4, <1>8, <1>10, <1>11, <1>12 DEF Lines

LEMMA SightsStay ==
    ASSUME UNCHANGED <<list, node, lock, th>>, NEW k
    PROVE  Sights(k)' = Sights(k) /\ Fronting(k)' = Fronting(k)
  <1>1. Fronting(k)' = Fronting(k)
    BY DEF Fronting, Cmd
  <1>2. View(k)' = View(k)
    BY <1>1, ViewAsIs
  <1> QED BY <1>1, <1>2 DEF Sights

\* Nothing of what the save looks at changes.
Looking == UNCHANGED <<list, node, lock, th, whole, since>>

LEMMA SaveGoesOn ==
    ASSUME Saved, saver.pc # "idle", saver'.pc # "idle", Looking, Lines(file, saver.n)'
    PROVE  Saved'
  <1>1. \A k \in Keys : Watched(k)'
    BY SightsStay DEF Looking, Saved, Watched
  <1> QED BY <1>1 DEF Saved, Looking

\* The line of the key is complete.
LEMMA WriteSaved ==
    ASSUME Saved, saver.pc # "idle", saver.n <= Len(Order), Looking, UNCHANGED moved, NEW k, k = Order[saver.n],
           NULL \notin since[k], NEW val \in Seq(Elements), Honest(k, val), Write(k, val)
    PROVE  Saved' /\ saver'.pc = "key"
  <1>1. file' = Append(file, [key |-> k, val |-> val]) /\ saver'.pc = "key" /\ saver'.n = saver.n + 1
    BY DEF Write
  <1>2. Lines(Append(file, [key |-> k, val |-> val]), saver.n + 1)
    BY LineAdded DEF Saved
  <1>3. PICK f, n : f = Append(file, [key |-> k, val |-> val]) /\ n = saver.n + 1
    OBVIOUS
  <1>4. Lines(f, n)'
    <2>1. Lines(f, n) /\ Grew
      BY <1>2, <1>3 DEF Grew, Looking
    <2> QED BY <2>1, LinesKept
  <1>5. Lines(file, saver.n)'
    BY <1>1, <1>3, <1>4
  <1> QED BY <1>1, <1>5, SaveGoesOn

\* A step within the line of a key.
LEMMA PrintSaved ==
    ASSUME Saved, saver.pc # "idle", saver'.pc # "idle", saver'.n = saver.n, saver.n \in Nat, Looking, UNCHANGED file,
           moved' \in {moved, moved \union {Order[saver.n]}}, saver.n <= Len(Order)
    PROVE  Saved'
  <1>1. PICK f, n : f = file /\ n = saver.n
    OBVIOUS
  <1>2. Lines(f, n) /\ Grew
    BY <1>1 DEF Saved, Grew, Looking
  <1>3. n \in 1..Len(Order)
    BY <1>1, <1>2, OrderIs DEF Lines
  <1>4. \A k \in Keys : Place(k) < n => k # Order[n]
    BY <1>3, PlaceIs
  <1>5. Lines(f, n)'
    BY <1>1, <1>2, <1>4, LinesKept
  <1> QED BY <1>1, <1>5, SaveGoesOn

LEMMA OpenFiled ==
    ASSUME NEW R, Inv(R), Filed(R), Open
    PROVE  Inv(R)' /\ Filed(R)'
  <1>1. /\ UNCHANGED <<list, node, lock, th>> /\ file' = <<>> /\ whole' = FALSE
        /\ saver'.pc = "key" /\ saver'.n = 1 /\ since' = [k \in Keys |-> Sights(k)]
    BY DEF Open
  <1>2. ASSUME NEW k \in Keys PROVE Watched(k)'
    <2>1. NULL \in Sights(k) => list[k] = NULL
      BY SightIs, NullIs DEF Inv, TypeOK, Types
    <2> QED BY <1>1, <2>1, SightsStay DEF Watched
  <1>3. Lines(file, saver.n)'
    <2>1. \A k \in Keys : ~(Place(k) < 1)
      BY PlaceIs, OrderIs
    <2>2. 1 \in 1..(Len(Order) + 1)
      BY OrderIs
    <2>3. file' \in Seq(Line) /\ Len(file') = 0
      BY <1>1
    <2> QED BY <1>1, <2>1, <2>2, <2>3 DEF Lines, Place
  <1>4. Saved'
    BY <1>1, <1>2, <1>3 DEF Saved
  <1>5. Inv(R)'
    BY OpenInv
  <1> QED BY <1>1, <1>4, <1>5 DEF Filed, Copies

\* A list that was there is an honest line.
LEMMA HonestSight ==
    ASSUME NEW k, NEW s \in since[k] \ {NULL}
    PROVE  Honest(k, Printed(s))
  <1>1. PICK had : had = {Printed(t) : t \in since[k] \ {NULL}}
    OBVIOUS
  <1>2. Printed(s) \in had
    BY <1>1
  <1>3. /\ Range(Printed(s)) \subseteq UNION {Range(t) : t \in had}
        /\ \A x \in Elements : (\A t \in had : x \in Range(t)) => x \in Range(Printed(s))
    BY <1>2
  <1> QED BY <1>1, <1>2, <1>3 DEF Honest

LEMMA HeadCopied ==
    ASSUME NEW R, Inv(R), Saved, NEW k \in Keys, k = Order[saver.n], saver.pc # "idle", saver.n <= Len(Order),
           Looking, UNCHANGED file, PrintHead(k)
    PROVE  Copying(R[k], k)' /\ saver'.pc = "first" /\ saver'.n = saver.n /\ moved' \in {moved, moved \union {k}}
  <1>1. PICK r : r = R[k]
    OBVIOUS
  <1>2. list[k] # NULL /\ list[k].head # Nil /\ Shape(R) /\ Types /\ saver \in Saving
    BY DEF PrintHead, Inv, TypeOK, Types
  <1>3. r \in Seq(DOMAIN node) /\ r # <<>> /\ list[k].head = r[1]
    BY <1>1, <1>2 DEF Shape, Rings, Headed, HeadOf
  <1>4. PICK n \in Nat : n = Len(r) /\ n >= 1
    BY <1>3
  <1>5. PICK v, f : v = node[r[1]].val /\ f = Fronting(k)
    OBVIOUS
  <1>6. saver'.pc = "first" /\ saver'.n = saver.n /\ saver'.str = <<v>>
    BY <1>2, <1>3, <1>5 DEF PrintHead, Saving
  <1>7. Fronting(k)' = Fronting(k)
    BY SightsStay DEF Looking
  <1>8. (Fronting(k) => k \in moved') /\ moved' \in {moved, moved \union {k}}
    BY DEF PrintHead
  <1>9. PICK s \in Sights(k) : Glimpse(node, r, View(k), s, Settled(r, k))
    BY <1>1, <1>2, SightIs
  <1>10. s \in since[k] \ {NULL} /\ View(k) \in since[k] \ {NULL}
    <2>1. Sights(k) \subseteq since[k] /\ Sights(k) \subseteq Seq(Elements) /\ View(k) \in Sights(k)
      BY <1>2, SightIs DEF Saved, Watched
    <2> QED BY <1>9, <2>1, NullIs
  <1>11. PICK m : m = Settled(r, k)
    OBVIOUS
  <1>12. m \in 1..n
    <2>1. Fronting(k) => n >= 2
      BY <1>1, <1>2, <1>4, FrontingIs
    <2> QED BY <1>4, <1>11, <2>1 DEF Settled
  <1>13. Among(<<v>>, v)
    BY DEF Among
  <1>14. Covers(since[k] \ {NULL}, <<v>>, node, r, 1, m)
    <2>1. Len(s) = m /\ s # <<>> /\ \A i \in 1..m : s[i] = node[r[i]].val
      BY <1>9, <1>11, <1>12 DEF Glimpse
    <2>2. ASSUME NEW j \in 1..Len(s) PROVE Among(<<v>>, s[j]) \/ \E i \in (1 + 1)..m : node[r[i]].val = s[j]
      <3>1. CASE j = 1
        BY <1>5, <1>12, <1>13, <2>1, <3>1
      <3>2. CASE j # 1
        <4>1. j \in (1 + 1)..m /\ node[r[j]].val = s[j]
          BY <1>12, <2>1, <3>2
        <4> QED BY <4>1
      <3> QED BY <3>1, <3>2
    <2> QED BY <1>10, <2>1, <2>2 DEF Covers
  <1>15. Among(View(k), v)
    BY <1>4, <1>5, <1>9 DEF Glimpse
  <1>16. \A i \in 1..Len(<<v>>) : \E t \in since[k] \ {NULL} : Among(t, <<v>>[i])
    BY <1>10, <1>15
  <1>17. Stands(r, 1, 1)' /\ Copied(r, 1, 1)'
    <2>1. Len(<<v>>) = 1 /\ \A i \in 1..1 : <<v>>[i] = node[r[i]].val
      BY <1>5
    <2> QED BY <1>6, <2>1 DEF Stands, Copied, Looking
  <1>18. Settled(r, k)' = m
    BY <1>7, <1>11 DEF Settled
  <1>19. 1 \in 1..Len(r) /\ <<v>> # <<>>
    BY <1>4
  <1> QED BY <1>1, <1>6, <1>7, <1>8, <1>14, <1>16, <1>17, <1>18, <1>19 DEF Copying, Looking

LEMMA BeginFiled ==
    ASSUME NEW R, Inv(R), Filed(R), Begin
    PROVE  Inv(R)' /\ Filed(R)'
  <1>1. PICK k : k = Order[saver.n]
    OBVIOUS
  <1>2. /\ saver.pc = "key" /\ saver.n <= Len(Order)
        /\ NoNode(k) \/ PrintEmpty(k) \/ PrintHead(k)
        /\ Looking
    BY <1>1 DEF Begin, Looking
  <1>3. Saved /\ saver.n \in 1..Len(Order) /\ saver \in Saving /\ Shape(R) /\ Types
    BY <1>2, OrderIs DEF Filed, Inv, TypeOK, Saving, Types
  <1>4. k \in Keys /\ Watched(k)
    BY <1>1, <1>2, <1>3, OrderIs DEF Saved
  <1>5. Inv(R)'
    BY BeginInv
  <1>6. CASE NoNode(k)
    <2>1. list[k] = NULL /\ saver'.pc = "key" /\ saver'.n = saver.n + 1 /\ UNCHANGED <<file, moved>>
      BY <1>2, <1>3, <1>6 DEF NoNode, Saving
    <2>2. NULL \in since[k]
      BY <1>4, <2>1 DEF Watched, Sights, View
    <2>3. PICK f, n : f = file /\ n = saver.n + 1
      OBVIOUS
    <2>4. Lines(f, n) /\ Grew
      BY <1>1, <1>2, <1>3, <2>2, <2>3, LinePassed DEF Saved, Looking, Grew
    <2>5. Lines(f, n)'
      BY <2>1, <2>4, LinesKept
    <2>6. Saved'
      BY <1>2, <1>3, <2>1, <2>3, <2>5, SaveGoesOn
    <2> QED BY <1>5, <2>1, <2>6 DEF Filed, Copies
  <1>7. CASE PrintEmpty(k)
    <2>1. list[k] # NULL /\ list[k].head = Nil /\ Write(k, <<EMPTY>>) /\ UNCHANGED moved
      BY <1>7 DEF PrintEmpty
    <2>2. R[k] \in Seq(DOMAIN node) /\ list[k].head = HeadOf(R[k]) /\ Nil \notin DOMAIN node
      BY <1>3, <1>4, <2>1 DEF Shape, Rings, Headed, Types
    <2>3. Len(R[k]) = 0
      BY <2>1, <2>2 DEF HeadOf
    <2>4. ~Fronting(k)
      BY <1>3, <1>4, <2>3, FrontingIs
    <2>5. View(k) \in Seq(Elements) /\ Len(View(k)) = 0 /\ View(k) # NULL
      BY <1>3, <1>4, <2>1, <2>3, <2>4, PlainView
    <2>6. Printed(View(k)) = <<EMPTY>>
      BY <2>5 DEF Printed
    <2>7. View(k) \in since[k] \ {NULL} /\ NULL \notin since[k]
      BY <1>4, <2>1, <2>5 DEF Watched, Sights
    <2>8. Honest(k, <<EMPTY>>)
      BY <2>6, <2>7, HonestSight
    <2>9. <<EMPTY>> \in Seq(Elements)
      BY DEF Elements
    <2>10. Saved' /\ saver'.pc = "key"
      BY <1>1, <1>2, <1>3, <2>1, <2>7, <2>8, <2>9, WriteSaved
    <2> QED BY <1>5, <2>10 DEF Filed, Copies
  <1>8. CASE PrintHead(k)
    <2>1. UNCHANGED file
      BY <1>8 DEF PrintHead
    <2>2. Copying(R[k], k)' /\ saver'.pc = "first" /\ saver'.n = saver.n /\ moved' \in {moved, moved \union {k}}
      BY <1>1, <1>2, <1>3, <1>4, <1>8, <2>1, HeadCopied
    <2>3. Saved'
      BY <1>1, <1>2, <1>3, <2>1, <2>2, PrintSaved
    <2>4. Copies(R)'
      BY <1>1, <2>2 DEF Copies
    <2> QED BY <1>5, <2>3, <2>4 DEF Filed
  <1> QED BY <1>2, <1>6, <1>7, <1>8

\* print goes on to the next node.
LEMMA PrintGoesOn ==
    ASSUME NEW R, Inv(R), Saved, NEW k, k = Order[saver.n], saver.pc \in {"first", "test", "next"},
           Copying(R[k], k), PrintFirst \/ PrintNext
    PROVE  Copying(R[k], k)' /\ saver'.pc = "test" /\ saver'.n = saver.n
  <1>1. PICK r : r = R[k]
    OBVIOUS
  <1>2. /\ saver \in Saving /\ k \in Keys /\ r \in Seq(DOMAIN node) /\ r # <<>> /\ Turns(node, r)
        /\ list[k] # NULL /\ list[k].head = r[1]
    BY <1>1, PrintedIs
  <1>3. PICK n \in Nat : n = Len(r) /\ n >= 1
    BY <1>2
  <1>4. saver.pc # "idle" /\ Looking /\ UNCHANGED moved
    BY DEF PrintFirst, PrintNext, Looking
  <1>5. PICK p, q \in 1..n : /\ Stands(r, p, q)
                             /\ Covers(since[k] \ {NULL}, saver.str, node, r, q, Settled(r, k))
                             /\ k \notin moved => Copied(r, p, q)
    BY <1>1, <1>3 DEF Copying
  <1>6. PICK p2 \in 1..n : p2 = IF p = n THEN 1 ELSE p + 1
    OBVIOUS
  <1>7. node[r[p]].next = r[p2]
    BY <1>3, <1>2, <1>6 DEF Turns
  <1>8. q = p /\ saver.pc # "test"
    BY <1>5 DEF Stands, PrintFirst, PrintNext
  <1>9. saver'.pc = "test" /\ saver'.n = saver.n /\ saver'.str = saver.str /\ saver'.it = r[p2]
    <2>1. CASE PrintFirst
      <3>1. saver.pc = "first" /\ saver' = [saver EXCEPT !.pc = "test", !.it = node[list[k].head].next]
        BY <2>1 DEF PrintFirst
      <3>2. p = 1
        BY <1>5, <3>1 DEF Stands
      <3> QED BY <1>2, <1>7, <3>1, <3>2 DEF Saving
    <2>2. CASE PrintNext
      <3>1. saver.pc = "next" /\ saver' = [saver EXCEPT !.pc = "test", !.it = node[saver.it].next]
        BY <2>2 DEF PrintNext
      <3>2. saver.it = r[p]
        BY <1>5, <3>1 DEF Stands
      <3> QED BY <1>2, <1>7, <3>1, <3>2 DEF Saving
    <2> QED BY <2>1, <2>2
  <1>10. Stands(r, p2, q)'
    BY <1>3, <1>6, <1>8, <1>9 DEF Stands
  <1>11. Fronting(k)' = Fronting(k)
    BY <1>4, SightsStay DEF Looking
  <1>12. Settled(r, k)' = Settled(r, k)
    BY <1>11 DEF Settled
  <1>13. k \notin moved' => Copied(r, p2, q)'
    <2> SUFFICES ASSUME k \notin moved PROVE Copied(r, p2, q)'
      BY <1>4
    <2>1. Len(saver.str) = q /\ \A i \in 1..q : saver.str[i] = node[r[i]].val
      BY <1>5, <1>8 DEF Copied
    <2>2. CASE p2 = 1
      <3>1. q = n
        BY <1>6, <1>8, <2>2
      <3>2. ~Fronting(k)
        BY DEF Copying
      <3>3. Shape(R) /\ Types
        BY DEF Inv, TypeOK, Types
      <3>4. PICK v : v = View(k)
        OBVIOUS
      <3>5. v \in Seq(Elements) /\ Len(v) = n /\ \A i \in 1..n : v[i] = node[r[i]].val
        <4>1. View(k) \in Seq(Elements) /\ Len(View(k)) = Len(R[k]) /\ \A i \in 1..Len(R[k]) : View(k)[i] = node[R[k][i]].val
          BY <1>2, <3>2, <3>3, PlainView
        <4> QED BY <1>1, <1>3, <3>4, <4>1
      <3>6. saver.str \in Seq(Elements)
        BY <1>2 DEF Saving
      <3>7. saver.str = v
        BY <2>1, <3>1, <3>5, <3>6, SameSeq
      <3>8. v \in since[k]
        BY <1>2, <1>4, <3>4 DEF Saved, Watched, Sights
      <3> QED BY <1>4, <1>9, <2>2, <3>7, <3>8 DEF Copied, Looking
    <2>3. CASE p2 # 1
      BY <1>4, <1>9, <2>1, <2>3 DEF Copied, Looking
    <2> QED BY <2>2, <2>3
  <1>14. /\ Fronting(k) => k \in moved
         /\ saver.str # <<>> /\ \A i \in 1..Len(saver.str) : \E s \in since[k] \ {NULL} : Among(s, saver.str[i])
    BY DEF Copying
  <1>15. Covers(since'[k] \ {NULL}, saver'.str, node', r, q, Settled(r, k)')
    BY <1>4, <1>5, <1>9, <1>12 DEF Looking
  <1>16. \E a, b \in 1..Len(r) : /\ Stands(r, a, b)'
                                 /\ Covers(since'[k] \ {NULL}, saver'.str, node', r, b, Settled(r, k)')
                                 /\ k \notin moved' => Copied(r, a, b)'
    BY <1>3, <1>10, <1>13, <1>15
  <1>17. Copying(r, k)'
    <2>1. /\ Fronting(k)' => k \in moved'
          /\ saver'.str # <<>> /\ \A i \in 1..Len(saver'.str) : \E s \in since'[k] \ {NULL} : Among(s, saver'.str[i])
      BY <1>4, <1>9, <1>11, <1>14 DEF Looking
    <2> QED BY <1>16, <2>1 DEF Copying
  <1> QED BY <1>1, <1>9, <1>17

LEMMA PrintGoesOnFiled ==
    ASSUME NEW R, Inv(R), Filed(R), PrintFirst \/ PrintNext
    PROVE  Inv(R)' /\ Filed(R)'
  <1>1. saver.pc \in {"first", "test", "next"} /\ Looking /\ UNCHANGED <<file, moved>>
    BY DEF PrintFirst, PrintNext, Looking
  <1>2. PICK k : k = Order[saver.n]
    OBVIOUS
  <1>3. Copying(R[k], k)' /\ saver'.pc = "test" /\ saver'.n = saver.n
    BY <1>1, <1>2, PrintGoesOn DEF Filed, Copies
  <1>4. Saved'
    BY <1>1, <1>3, PrintSaved, PrintedIs, OrderIs DEF Filed
  <1>5. Copies(R)'
    BY <1>2, <1>3 DEF Copies
  <1>6. Inv(R)'
    BY PrintFirstInv, PrintNextInv
  <1> QED BY <1>4, <1>5, <1>6 DEF Filed

\* A node is printed.
LEMMA NodePrinted ==
    ASSUME NEW R, Inv(R), Saved, NEW k, k = Order[saver.n], saver.pc = "test", Copying(R[k], k), Looking,
           UNCHANGED <<file, moved>>, saver.it # list[k].head,
           saver' = [saver EXCEPT !.pc = "next", !.str = Append(@, node[saver.it].val)]
    PROVE  Copying(R[k], k)' /\ saver'.pc = "next" /\ saver'.n = saver.n
  <1>1. PICK r : r = R[k]
    OBVIOUS
  <1>2. /\ saver \in Saving /\ k \in Keys /\ r \in Seq(DOMAIN node) /\ r # <<>>
        /\ list[k] # NULL /\ list[k].head = r[1]
    BY <1>1, PrintedIs
  <1>3. PICK n \in Nat : n = Len(r) /\ n >= 1
    BY <1>2
  <1>4. PICK p, q \in 1..n : /\ Stands(r, p, q)
                             /\ Covers(since[k] \ {NULL}, saver.str, node, r, q, Settled(r, k))
                             /\ k \notin moved => Copied(r, p, q)
    BY <1>1, <1>3 DEF Copying
  <1>5. saver.it = r[p] /\ p # 1 /\ q = p - 1
    BY <1>2, <1>4 DEF Stands
  <1>6. PICK x, str : x = node[r[p]].val /\ str = Append(saver.str, x)
    OBVIOUS
  <1>7. saver'.pc = "next" /\ saver'.n = saver.n /\ saver'.str = str /\ saver'.it = r[p]
    BY <1>2, <1>5, <1>6 DEF Saving
  <1>8. PICK m \in Nat : m = Len(saver.str) /\ saver.str \in Seq(Elements)
    BY <1>2 DEF Saving
  <1>9. Len(str) = m + 1 /\ str[m + 1] = x /\ \A i \in 1..m : str[i] = saver.str[i]
    <2>1. \A t \in Seq(Elements) : /\ Len(Append(t, x)) = Len(t) + 1 /\ Append(t, x)[Len(t) + 1] = x
                                  /\ \A i \in 1..Len(t) : Append(t, x)[i] = t[i]
      OBVIOUS
    <2> QED BY <1>6, <1>8, <2>1
  <1>10. Stands(r, p, p)'
    BY <1>7 DEF Stands
  <1>11. Fronting(k)' = Fronting(k)
    BY SightsStay DEF Looking
  <1>12. Settled(r, k)' = Settled(r, k)
    BY <1>11 DEF Settled
  <1>13. Among(str, x) /\ \A y : Among(saver.str, y) => Among(str, y)
    <2>1. m + 1 \in 1..Len(str) /\ \A i \in 1..m : i \in 1..Len(str)
      BY <1>8, <1>9
    <2>2. Among(str, x)
      BY <1>9, <2>1 DEF Among
    <2>3. ASSUME NEW y, Among(saver.str, y) PROVE Among(str, y)
      <3>1. PICK i \in 1..m : saver.str[i] = y
        BY <1>8, <2>3 DEF Among
      <3>2. i \in 1..Len(str) /\ str[i] = y
        BY <1>9, <2>1, <3>1
      <3> QED BY <3>2 DEF Among
    <2> QED BY <2>2, <2>3
  <1>14. Covers(since[k] \ {NULL}, str, node, r, p, Settled(r, k))
    <2>1. ASSUME NEW i \in (q + 1)..Settled(r, k)
          PROVE  \/ Among(str, node[r[i]].val)
                 \/ \E j \in (p + 1)..Settled(r, k) : node[r[j]].val = node[r[i]].val
      <3>1. CASE i = p
        BY <1>6, <1>13, <3>1
      <3>2. CASE i # p
        <4>1. Settled(r, k) \in Int
          BY <1>3 DEF Settled
        <4>2. i \in (p + 1)..Settled(r, k)
          BY <1>5, <3>2, <4>1
        <4> QED BY <4>2
      <3> QED BY <3>1, <3>2
    <2> QED BY <1>4, <1>13, <2>1, CoversKept
  <1>15. k \notin moved' => Copied(r, p, p)'
    <2> SUFFICES ASSUME k \notin moved PROVE Copied(r, p, p)'
      OBVIOUS
    <2>1. m = q /\ \A i \in 1..q : saver.str[i] = node[r[i]].val
      BY <1>4, <1>5, <1>8 DEF Copied
    <2>2. Len(str) = p /\ \A i \in 1..p : str[i] = node[r[i]].val
      BY <1>5, <1>6, <1>9, <2>1
    <2> QED BY <1>7, <2>2 DEF Copied, Looking
  <1>16. \A i \in 1..Len(str) : \E s \in since[k] \ {NULL} : Among(s, str[i])
    <2>1. \A i \in 1..m : \E s \in since[k] \ {NULL} : Among(s, str[i])
      BY <1>8, <1>9 DEF Copying
    <2>2. \E s \in since[k] \ {NULL} : Among(s, x)
      <3>1. Shape(R) /\ Types
        BY DEF Inv, TypeOK, Types
      <3>2. PICK s \in Sights(k) : Glimpse(node, r, View(k), s, Settled(r, k))
        BY <1>1, <1>2, <3>1, SightIs
      <3>3. View(k) \in since[k] \ {NULL}
        BY <1>2, <3>1, SightIs, NullIs DEF Saved, Watched
      <3>4. Among(View(k), x)
        BY <1>3, <1>6, <3>2 DEF Glimpse
      <3> QED BY <3>3, <3>4
    <2> QED BY <1>8, <1>9, <2>1, <2>2
  <1>17. (Fronting(k) => k \in moved) /\ str # <<>>
    BY <1>8, <1>9 DEF Copying
  <1>18. Covers(since'[k] \ {NULL}, saver'.str, node', r, p, Settled(r, k)')
    BY <1>7, <1>12, <1>14 DEF Looking
  <1>19. \E a, b \in 1..Len(r) : /\ Stands(r, a, b)'
                                 /\ Covers(since'[k] \ {NULL}, saver'.str, node', r, b, Settled(r, k)')
                                 /\ k \notin moved' => Copied(r, a, b)'
    BY <1>3, <1>10, <1>15, <1>18
  <1>20. Copying(r, k)'
    <2>1. /\ Fronting(k)' => k \in moved'
          /\ saver'.str # <<>> /\ \A i \in 1..Len(saver'.str) : \E s \in since'[k] \ {NULL} : Among(s, saver'.str[i])
      BY <1>7, <1>11, <1>16, <1>17 DEF Looking
    <2> QED BY <1>19, <2>1 DEF Copying
  <1> QED BY <1>1, <1>7, <1>20

\* print is at the head again.
LEMMA TextHonest ==
    ASSUME NEW R, Inv(R), NEW k, k = Order[saver.n], saver.pc = "test", Copying(R[k], k),
           saver.it = list[k].head
    PROVE  Honest(k, saver.str)
  <1>1. PICK r : r = R[k]
    OBVIOUS
  <1>2. /\ saver \in Saving /\ k \in Keys /\ r \in Seq(DOMAIN node) /\ r # <<>>
        /\ list[k] # NULL /\ list[k].head = r[1] /\ Once(r)
    BY <1>1, PrintedIs DEF Inv, Shape, Rings
  <1>3. PICK n \in Nat : n = Len(r) /\ n >= 1
    BY <1>2
  <1>4. PICK p, q \in 1..n : /\ Stands(r, p, q)
                             /\ Covers(since[k] \ {NULL}, saver.str, node, r, q, Settled(r, k))
                             /\ k \notin moved => Copied(r, p, q)
    BY <1>1, <1>3 DEF Copying
  <1>5. r[p] = r[1]
    BY <1>2, <1>4 DEF Stands
  <1>6. p = 1 /\ q = n
    <2>1. p = 1
      BY <1>2, <1>3, <1>5 DEF Once
    <2> QED BY <1>3, <1>4, <2>1 DEF Stands
  <1>7. saver.str \in Seq(Elements) /\ saver.str # <<>>
    BY <1>2 DEF Saving, Copying
  <1>8. CASE k \notin moved
    <2>1. saver.str \in since[k] \ {NULL}
      BY <1>4, <1>6, <1>7, <1>8, NullIs DEF Copied
    <2>2. Printed(saver.str) = saver.str
      BY <1>7 DEF Printed
    <2> QED BY <2>1, <2>2, HonestSight
  <1>9. CASE k \in moved
    <2>1. PICK had : had = {Printed(s) : s \in since[k] \ {NULL}}
      OBVIOUS
    <2>2. ASSUME NEW s \in since[k] \ {NULL}, NEW x, Among(s, x) PROVE s \in had /\ x \in Range(s)
      <3>1. s \in Seq(Elements)
        BY <1>2 DEF Inv, TypeOK
      <3>2. s # <<>>
        BY <2>2 DEF Among
      <3>3. Printed(s) = s
        BY <3>2 DEF Printed
      <3>4. x \in Range(s)
        BY <2>2, <3>1 DEF Among, Range
      <3> QED BY <2>1, <3>3, <3>4
    <2>3. Range(saver.str) \subseteq UNION {Range(s) : s \in had}
      <3>1. ASSUME NEW i \in 1..Len(saver.str) PROVE \E s \in had : saver.str[i] \in Range(s)
        <4>1. PICK s \in since[k] \ {NULL} : Among(s, saver.str[i])
          BY DEF Copying
        <4> QED BY <2>2, <4>1
      <3>2. DOMAIN saver.str = 1..Len(saver.str)
        BY <1>7
      <3> QED BY <3>1, <3>2 DEF Range
    <2>4. ASSUME NEW x \in Elements, \A s \in had : x \in Range(s) PROVE x \in Range(saver.str)
      <3>1. PICK s \in since[k] \ {NULL} :
              /\ s # <<>>
              /\ \A j \in 1..Len(s) : Among(saver.str, s[j]) \/ \E i \in (n + 1)..Settled(r, k) : node[r[i]].val = s[j]
        BY <1>4, <1>6 DEF Covers
      <3>2. Settled(r, k) \in Int /\ Settled(r, k) <= n
        BY <1>3 DEF Settled
      <3>3. ~\E i \in (n + 1)..Settled(r, k) : TRUE
        BY <3>2
      <3>4. s \in Seq(Elements)
        BY <1>2 DEF Inv, TypeOK
      <3>5. Printed(s) = s
        BY <3>1 DEF Printed
      <3>6. x \in Range(s)
        BY <2>1, <2>4, <3>5
      <3>7. PICK j \in 1..Len(s) : s[j] = x
        BY <3>4, <3>6 DEF Range
      <3>8. Among(saver.str, x)
        BY <3>1, <3>3, <3>7
      <3> QED BY <1>7, <3>8 DEF Among, Range
    <2> QED BY <1>9, <2>1, <2>3, <2>4 DEF Honest
  <1> QED BY <1>8, <1>9

LEMMA PrintTestFiled ==
    ASSUME NEW R, Inv(R), Filed(R), PrintTest
    PROVE  Inv(R)' /\ Filed(R)'
  <1>1. PICK k : k = Order[saver.n]
    OBVIOUS
  <1>2. /\ saver.pc = "test" /\ Looking /\ UNCHANGED moved
        /\ IF saver.it = list[k].head THEN Write(k, saver.str)
           ELSE /\ saver' = [saver EXCEPT !.pc = "next", !.str = Append(@, node[saver.it].val)]
                /\ UNCHANGED file
    BY <1>1 DEF PrintTest, Looking
  <1>3. Copying(R[k], k) /\ Saved /\ saver.n \in Nat /\ saver.n <= Len(Order) /\ list[k] # NULL /\ k \in Keys
    BY <1>1, <1>2, PrintedIs, OrderIs DEF Filed, Copies
  <1>4. saver.str \in Seq(Elements)
    BY <1>2, PrintedIs DEF Saving
  <1>5. Inv(R)'
    BY PrintTestInv
  <1>6. CASE saver.it = list[k].head
    <2>1. Honest(k, saver.str)
      BY <1>1, <1>2, <1>3, <1>6, TextHonest
    <2>2. NULL \notin since[k]
      BY <1>2, <1>3 DEF Saved, Watched
    <2>3. PICK val \in Seq(Elements) : val = saver.str
      BY <1>4
    <2>4. Saved' /\ saver'.pc = "key"
      BY <1>1, <1>2, <1>3, <1>6, <2>1, <2>2, <2>3, WriteSaved
    <2> QED BY <1>5, <2>4 DEF Filed, Copies
  <1>7. CASE saver.it # list[k].head
    <2>1. Copying(R[k], k)' /\ saver'.pc = "next" /\ saver'.n = saver.n
      BY <1>1, <1>2, <1>3, <1>7, NodePrinted
    <2>2. Saved'
      BY <1>2, <1>3, <1>7, <2>1, PrintSaved
    <2>3. Copies(R)'
      BY <1>1, <2>1 DEF Copies
    <2> QED BY <1>5, <2>2, <2>3 DEF Filed
  <1> QED BY <1>6, <1>7

\* No save is under way then, and the file has the lines f, or some of them.
LEMMA IdleSaved ==
    ASSUME saver'.pc = "idle", UNCHANGED <<since, moved>>, NEW f, NEW n, Lines(f, n),
           IF whole' THEN f = file' /\ n = Len(Order) + 1 ELSE file' \in Written(f)
    PROVE  Saved'
  <1>1. Grew
    BY DEF Grew
  <1>2. Lines(f, n)'
    BY <1>1, LinesKept
  <1>3. CASE whole'
    <2>1. PICK g : g = file'
      OBVIOUS
    <2>2. Lines(g, Len(Order) + 1)'
      BY <1>2, <1>3, <2>1
    <2> QED BY <1>3, <2>1, <2>2 DEF Saved
  <1>4. CASE ~whole'
    <2>1. \E g, m : Lines(g, m)' /\ file' \in Written(g)
      BY <1>2, <1>4
    <2> QED BY <1>4, <2>1 DEF Saved
  <1> QED BY <1>3, <1>4

LEMMA CloseFiled ==
    ASSUME NEW R, Inv(R), Filed(R), Close
    PROVE  Inv(R)' /\ Filed(R)'
  <1>1. /\ saver.pc = "key" /\ saver.n > Len(Order) /\ saver' = [saver EXCEPT !.pc = "idle", !.n = 1]
        /\ whole' = TRUE /\ UNCHANGED <<file, since, moved>> /\ saver \in Saving
    BY DEF Close, Inv, TypeOK
  <1>2. saver'.pc = "idle" /\ saver.n = Len(Order) + 1
    BY <1>1, OrderIs DEF Saving
  <1>3. Lines(file, Len(Order) + 1)
    BY <1>1, <1>2 DEF Filed, Saved
  <1>4. PICK f : f = file
    OBVIOUS
  <1>5. Saved'
    BY <1>1, <1>2, <1>3, <1>4, IdleSaved
  <1>6. Inv(R)'
    BY CloseInv
  <1> QED BY <1>2, <1>5, <1>6 DEF Filed, Copies

LEMMA CrashFiled ==
    ASSUME NEW R, Inv(R), Filed(R), Crash
    PROVE  \E S : Inv(S)' /\ Filed(S)'
  <1>1. /\ saver' = [pc |-> "idle", n |-> 1, it |-> Nil, str |-> <<>>] /\ UNCHANGED <<whole, since, moved>>
        /\ IF saver.pc = "idle" THEN UNCHANGED file ELSE file' \in Written(file)
    BY DEF Crash
  <1>2. PICK f, n : Lines(f, n) /\ IF whole THEN f = file' /\ n = Len(Order) + 1 ELSE file' \in Written(f)
    <2>1. CASE saver.pc # "idle"
      BY <1>1, <2>1 DEF Filed, Saved
    <2>2. CASE saver.pc = "idle"
      <3>1. IF whole THEN Lines(file, Len(Order) + 1) ELSE \E f, n : Lines(f, n) /\ file \in Written(f)
        BY <2>2 DEF Filed, Saved
      <3> QED BY <1>1, <2>2, <3>1
    <2> QED BY <2>1, <2>2
  <1>3. Saved'
    BY <1>1, <1>2, IdleSaved
  <1>4. PICK S : Inv(S)'
    BY CrashInv
  <1> QED BY <1>1, <1>3, <1>4 DEF Filed, Copies

LEMMA ReadFiled ==
    ASSUME NEW R, Inv(R), Filed(R), Read
    PROVE  \E S : Inv(S)' /\ Filed(S)'
  <1>1. saver.pc = "idle" /\ UNCHANGED <<saver, file, whole, since, moved>>
    BY DEF Read
  <1>2. PICK f, n : Lines(f, n) /\ IF whole THEN f = file' /\ n = Len(Order) + 1 ELSE file' \in Written(f)
    BY <1>1 DEF Filed, Saved
  <1>3. Saved'
    BY <1>1, <1>2, IdleSaved
  <1>4. PICK S : Inv(S)'
    BY ReadInv
  <1> QED BY <1>1, <1>3, <1>4 DEF Filed, Copies

LEMMA StutterFiled ==
    ASSUME NEW R, Inv(R), Filed(R), UNCHANGED vars
    PROVE  Inv(R)' /\ Filed(R)'
  <1>1. Inv(R)'
    BY StutterInv
  <1>2. Shape(R) /\ Types /\ Shape(R)' /\ Types'
    BY <1>1 DEF Inv, TypeOK, Types
  <1>3. UNCHANGED <<list, node, lock, th>> /\ UNCHANGED <<saver, file, whole, since, moved>>
    BY DEF vars
  <1>4. \A l \in Keys : Same(R, R, l)
    BY <1>2, <1>3, SightsStay DEF Same, KeptAs
  <1> QED BY <1>1, <1>3, <1>4, CalmFiled

LEMMA FiledStep ==
    ASSUME NEW R, Inv(R), Filed(R), [Next]_vars
    PROVE  \E S : Inv(S)' /\ Filed(S)'
  <1>1. ASSUME NEW c \in Clients, Call(c) PROVE \E S : Inv(S)' /\ Filed(S)'
    BY <1>1, CallFiled
  <1>2. ASSUME NEW c \in Clients, Run(c) PROVE \E S : Inv(S)' /\ Filed(S)'
    <2>1. CASE Check(c)
      BY <2>1, CheckFiled
    <2>2. CASE Enter(c)
      BY <2>2, EnterFiled
    <2>3. CASE Link(c)
      BY <2>3, LinkFiled
    <2>4. CASE SetHead(c)
      BY <2>4, SetHeadFiled
    <2>5. CASE Leave(c)
      BY <2>5, LeaveFiled
    <2>6. CASE Drop(c)
      BY <2>6, DropFiled
    <2> QED BY <1>2, <2>1, <2>2, <2>3, <2>4, <2>5, <2>6 DEF Run
  <1>3. ASSUME Save PROVE \E S : Inv(S)' /\ Filed(S)'
    <2>1. CASE Begin
      BY <2>1, BeginFiled
    <2>2. CASE PrintFirst \/ PrintNext
      BY <2>2, PrintGoesOnFiled
    <2>3. CASE PrintTest
      BY <2>3, PrintTestFiled
    <2>4. CASE Close
      BY <2>4, CloseFiled
    <2> QED BY <1>3, <2>1, <2>2, <2>3, <2>4 DEF Save
  <1>4. CASE Open
    BY <1>4, OpenFiled
  <1>5. CASE Crash
    BY <1>5, CrashFiled
  <1>6. CASE Read
    BY <1>6, ReadFiled
  <1>7. CASE UNCHANGED vars \/ Over
    BY <1>7, StutterFiled DEF Over
  <1> QED BY <1>1, <1>2, <1>3, <1>4, <1>5, <1>6, <1>7 DEF Next

\* In the beginning the file has a line for every key.
LEMMA InitFiled ==
    ASSUME Init
    PROVE  \E R : Inv(R) /\ Filed(R)
  <1>1. PICK R : Inv(R)
    BY InitInv
  <1>2. /\ saver.pc = "idle" /\ whole = TRUE /\ since = [k \in Keys |-> {InitSaved[k]}] /\ moved = {}
        /\ file = [i \in DOMAIN Order |-> [key |-> Order[i], val |-> Printed(InitSaved[Order[i]])]]
    BY DEF Init
  <1>3. \A k \in Keys : InitSaved[k] \in Seq(Elements) /\ InitSaved[k] # NULL
    <2>1. Seq(Vals) \subseteq Seq(Elements)
      BY SeqMonotonic DEF Elements
    <2> QED BY <2>1, FileAssumption
  <1>4. PICK V : V = [k \in Keys |-> Printed(InitSaved[k])]
    OBVIOUS
  <1>5. V \in [Keys -> Seq(Elements)]
    <2>1. <<EMPTY>> \in Seq(Elements)
      BY DEF Elements
    <2> QED BY <1>3, <1>4, <2>1 DEF Printed
  <1>6. PICK f : f = LinesOf(V)
    OBVIOUS
  <1>7. f = file
    <2>1. \A i \in DOMAIN Order : V[Order[i]] = Printed(InitSaved[Order[i]])
      BY <1>4, OrderIs
    <2> QED BY <1>2, <1>6, <2>1 DEF LinesOf
  <1>8. PICK n \in Nat : n = Len(Order)
    BY OrderIs
  <1>9. f \in Seq(Line) /\ Len(f) = n /\ \A i \in 1..n : f[i].key = Order[i] /\ f[i].val = V[Order[i]]
    BY <1>5, <1>6, <1>8, LinesIs
  <1>10. ASSUME NEW i \in 1..n
         PROVE  /\ f[i].key \in Keys /\ Place(f[i].key) = i /\ NULL \notin since[f[i].key]
                /\ Honest(f[i].key, f[i].val)
    <2>1. PICK k \in Keys : k = Order[i] /\ Place(k) = i
      BY <1>8, OrderIs, PlaceIs
    <2>2. f[i].key = k /\ f[i].val = Printed(InitSaved[k]) /\ since[k] = {InitSaved[k]}
      BY <1>2, <1>4, <1>9, <2>1
    <2>3. NULL \notin since[k] /\ InitSaved[k] \in since[k] \ {NULL}
      BY <1>3, <2>2
    <2>4. Honest(k, Printed(InitSaved[k]))
      BY <2>3, HonestSight
    <2> QED BY <2>1, <2>2, <2>3, <2>4
  <1>11. \A k \in Keys : \E i \in 1..n : f[i].key = k
    BY <1>8, <1>9, OrderIs
  <1>12. Lines(f, n + 1)
    <2>1. \A i \in 1..n : i < n + 1
      OBVIOUS
    <2>2. n + 1 \in 1..(Len(Order) + 1)
      BY <1>8
    <2> QED BY <1>9, <1>10, <1>11, <2>1, <2>2 DEF Lines
  <1>13. Saved
    BY <1>2, <1>7, <1>8, <1>12 DEF Saved
  <1> QED BY <1>1, <1>2, <1>13 DEF Filed, Copies

LEMMA FiledHonest ==
    ASSUME Saved
    PROVE  LinesHonest
  <1>1. ASSUME NEW n, Lines(file, n) PROVE \A i \in DOMAIN file : Honest(file[i].key, file[i].val)
    BY <1>1 DEF Lines
  <1>2. ASSUME saver.pc # "idle" \/ whole PROVE \A i \in DOMAIN file : Honest(file[i].key, file[i].val)
    BY <1>1, <1>2 DEF Saved
  <1>3. ASSUME whole
        PROVE  /\ {file[i].key : i \in DOMAIN file} = {k \in Keys : NULL \notin since[k]}
               /\ \A i, j \in DOMAIN file : i < j => Place(file[i].key) < Place(file[j].key)
    <2>1. Lines(file, Len(Order) + 1)
      BY <1>3 DEF Saved
    <2>2. DOMAIN file = 1..Len(file)
      BY <2>1 DEF Lines
    <2>3. \A k \in Keys : Place(k) < Len(Order) + 1
      BY PlaceIs, OrderIs
    <2>4. \A k \in Keys : NULL \notin since[k] => \E i \in 1..Len(file) : file[i].key = k
      BY <2>1, <2>3 DEF Lines
    <2>5. \A i \in 1..Len(file) : file[i].key \in Keys /\ NULL \notin since[file[i].key]
      BY <2>1 DEF Lines
    <2> QED BY <2>1, <2>2, <2>4, <2>5 DEF Lines
  <1> QED BY <1>2, <1>3 DEF LinesHonest

\* The lists, the file and the place of print belong together.
FiledFollowed == \E R : Inv(R) /\ Filed(R)

THEOREM AlwaysFiled == Spec => []FiledFollowed
  <1>1. Init => FiledFollowed
    BY InitFiled DEF FiledFollowed
  <1>2. FiledFollowed /\ [Next]_vars => FiledFollowed'
    <2> SUFFICES ASSUME FiledFollowed, [Next]_vars PROVE FiledFollowed'
      OBVIOUS
    <2>1. PICK R : Inv(R) /\ Filed(R)
      BY DEF FiledFollowed
    <2> QED BY <2>1, FiledStep DEF FiledFollowed
  <1> QED BY <1>1, <1>2, PTL DEF Spec

\* A save writes a line for each key that was there all the time, in the order of the
\* buckets, and each line is a list that its key had while the save went on, or, where a
\* push moved the head under print, has only and all of what it should (Hash::save, print).
THEOREM LinesTrue == Spec => []LinesHonest
  <1>1. FiledFollowed => LinesHonest
    BY FiledHonest DEF FiledFollowed, Filed
  <1> QED BY <1>1, AlwaysFiled, PTL

-----------------------------------------------------------------------------
(* What a server that is started again reads                               *)

\* v has lost its end, and w may have a piece of the element at that place.
Started(v, w) == \E x \in 0..Len(v) : w = SubSeq(v, 1, x) \/ w = SubSeq(v, 1, x) \o <<PIECE>>

LEMMA StartedIs ==
    ASSUME NEW v \in Seq(Elements), NEW w, Started(v, w)
    PROVE  /\ w \in Seq(Elements)
           /\ \E x \in 0..Len(v) : (IF w # <<>> /\ Last(w) = PIECE THEN Front(w) ELSE w) = SubSeq(v, 1, x)
  <1>1. PICK x \in 0..Len(v) : w = SubSeq(v, 1, x) \/ w = SubSeq(v, 1, x) \o <<PIECE>>
    BY DEF Started
  <1>2. \A y \in 0..Len(v) : /\ SubSeq(v, 1, y) \in Seq(Elements) /\ Len(SubSeq(v, 1, y)) = y
                             /\ \A i \in 1..y : SubSeq(v, 1, y)[i] = v[i]
    OBVIOUS
  <1>3. PICK u \in Seq(Elements) : u = SubSeq(v, 1, x) /\ Len(u) = x /\ \A i \in 1..x : u[i] = v[i]
    BY <1>2
  <1>4. CASE w = u
    <2>1. CASE w # <<>> /\ Last(w) = PIECE
      <3>1. x - 1 \in 0..Len(v) /\ x \in Nat /\ Len(v) \in Nat
        BY <1>3, <1>4, <2>1
      <3>2. Front(w) = SubSeq(u, 1, x - 1)
        BY <1>3, <1>4 DEF Front
      <3>3. /\ SubSeq(u, 1, x - 1) \in Seq(Elements) /\ Len(SubSeq(u, 1, x - 1)) = x - 1
            /\ \A i \in 1..(x - 1) : SubSeq(u, 1, x - 1)[i] = u[i]
        BY <1>3, <3>1
      <3>4. \A i \in 1..(x - 1) : SubSeq(u, 1, x - 1)[i] = SubSeq(v, 1, x - 1)[i]
        BY <1>2, <1>3, <3>1, <3>3
      <3>5. SubSeq(u, 1, x - 1) = SubSeq(v, 1, x - 1)
        BY <1>2, <3>1, <3>3, <3>4, SameSeq
      <3> QED BY <1>4, <2>1, <3>1, <3>2, <3>5
    <2>2. CASE ~(w # <<>> /\ Last(w) = PIECE)
      BY <1>3, <1>4, <2>2
    <2> QED BY <1>3, <1>4, <2>1, <2>2
  <1>5. CASE w = u \o <<PIECE>>
    <2>1. <<PIECE>> \in Seq(Elements) /\ Len(<<PIECE>>) = 1 /\ x \in Nat
      BY <1>3 DEF Elements
    <2>2. /\ w \in Seq(Elements) /\ Len(w) = x + 1 /\ w[x + 1] = PIECE /\ \A i \in 1..x : w[i] = u[i]
      BY <1>3, <1>5, <2>1, ConcatProperties
    <2>3. w # <<>> /\ Last(w) = PIECE /\ Front(w) = SubSeq(w, 1, x)
      BY <2>1, <2>2 DEF Last, Front
    <2>4. /\ SubSeq(w, 1, x) \in Seq(Elements) /\ Len(SubSeq(w, 1, x)) = x
          /\ \A i \in 1..x : SubSeq(w, 1, x)[i] = w[i]
      BY <2>1, <2>2
    <2>5. SubSeq(w, 1, x) = u
      BY <1>3, <2>2, <2>4, SameSeq
    <2> QED BY <1>3, <2>2, <2>3, <2>5
  <1> QED BY <1>1, <1>3, <1>4, <1>5

LEMMA BegunIs ==
    ASSUME NEW k, NEW v \in Seq(Elements), Honest(k, v), NEW w, Started(v, w)
    PROVE  Begun(k, w)
  <1>1. PICK had : had = {Printed(s) : s \in since[k] \ {NULL}}
    OBVIOUS
  <1>2. PICK t : t = IF w # <<>> /\ Last(w) = PIECE THEN Front(w) ELSE w
    OBVIOUS
  <1>3. PICK x \in 0..Len(v) : t = SubSeq(v, 1, x)
    BY <1>2, StartedIs
  <1>4. t \in Seq(Elements) /\ Len(t) = x /\ x \in Nat /\ Len(v) \in Nat /\ \A i \in 1..x : t[i] = v[i]
    BY <1>3
  <1>5. CASE k \notin moved
    <2>1. v \in had
      BY <1>1, <1>5 DEF Honest
    <2>2. SubSeq(t, 1, Len(t)) = SubSeq(v, 1, Len(t))
      <3>1. /\ SubSeq(t, 1, x) \in Seq(Elements) /\ Len(SubSeq(t, 1, x)) = x
            /\ \A i \in 1..x : SubSeq(t, 1, x)[i] = t[i]
        BY <1>4
      <3>2. SubSeq(t, 1, x) = t
        BY <1>4, <3>1, SameSeq
      <3> QED BY <1>3, <1>4, <3>2
    <2>3. IsPrefix(t, v)
      BY <1>4, <2>2 DEF IsPrefix
    <2> QED BY <1>1, <1>2, <1>5, <2>1, <2>3 DEF Begun
  <1>6. CASE k \in moved
    <2>1. Range(v) \subseteq UNION {Range(s) : s \in had}
      BY <1>1, <1>6 DEF Honest
    <2>2. Range(t) \subseteq Range(v)
      <3>1. DOMAIN t = 1..x /\ DOMAIN v = 1..Len(v)
        BY <1>4
      <3>2. \A i \in 1..x : i \in 1..Len(v) /\ t[i] = v[i]
        BY <1>4
      <3> QED BY <3>1, <3>2 DEF Range
    <2> QED BY <1>1, <1>2, <1>6, <2>1, <2>2 DEF Begun
  <1> QED BY <1>5, <1>6

\* The first j of the lines f are left, and perhaps the beginning of the next.
Left(f, j, lines) ==
    /\ j \in 0..Len(f) /\ Len(lines) \in Nat /\ \A i \in 1..j : lines[i] = f[i]
    /\ \/ Len(lines) = j
       \/ /\ Len(lines) = j + 1 /\ j < Len(f)
          /\ lines[j + 1].key = f[j + 1].key /\ Started(f[j + 1].val, lines[j + 1].val)

LEMMA CutStarted ==
    ASSUME NEW l \in Line, NEW p \in Cut(l), p.key # NULL
    PROVE  p.key = l.key /\ Started(l.val, p.val)
  <1>1. l.val \in Seq(Elements) /\ Len(l.val) \in Nat /\ \A y : [l EXCEPT !.val = y].key = l.key /\ [l EXCEPT !.val = y].val = y
    BY DEF Line
  <1>2. \A x \in 0..(Len(l.val) - 1) : x \in 0..Len(l.val)
    BY <1>1
  <1>3. ASSUME NEW x \in 0..(Len(l.val) - 1), p = [l EXCEPT !.val = SubSeq(@, 1, x)]
        PROVE  p.key = l.key /\ Started(l.val, p.val)
    BY <1>1, <1>2, <1>3 DEF Started
  <1>4. ASSUME NEW x \in 0..(Len(l.val) - 1), p = [l EXCEPT !.val = SubSeq(@, 1, x) \o <<PIECE>>]
        PROVE  p.key = l.key /\ Started(l.val, p.val)
    BY <1>1, <1>2, <1>4 DEF Started
  <1>5. p # [key |-> NULL, val |-> <<>>]
    OBVIOUS
  <1> QED BY <1>3, <1>4, <1>5 DEF Cut

LEMMA WrittenLeft ==
    ASSUME NEW f \in Seq(Line), \A i \in 1..Len(f) : f[i].key # NULL, NEW g \in Written(f), g # <<>>
    PROVE  \E j \in 0..Len(f) : Left(f, j, Readable(g))
  <1>1. \A j \in 0..Len(f) : /\ SubSeq(f, 1, j) \in Seq(Line) /\ Len(SubSeq(f, 1, j)) = j
                             /\ \A i \in 1..j : SubSeq(f, 1, j)[i] = f[i]
    OBVIOUS
  <1>2. ASSUME NEW j \in 0..Len(f), NEW s, s = SubSeq(f, 1, j) PROVE Left(f, j, s)
    BY <1>1, <1>2 DEF Left
  <1>3. ASSUME NEW j \in 0..Len(f), g = SubSeq(f, 1, j) PROVE Left(f, j, Readable(g))
    <2>1. Len(g) = j /\ \A i \in 1..j : g[i] = f[i]
      BY <1>1, <1>3
    <2>2. j \in 1..Len(f) /\ j \in 1..j
      BY <1>1, <1>3, <2>1
    <2>3. Last(g).key # NULL
      BY <2>1, <2>2 DEF Last
    <2> QED BY <1>2, <1>3, <2>3 DEF Readable
  <1>4. ASSUME NEW j \in 1..Len(f), NEW p \in Cut(f[j]), g = SubSeq(f, 1, j - 1) \o <<p>>
        PROVE  Left(f, j - 1, Readable(g))
    <2>1. j - 1 \in 0..Len(f) /\ j - 1 \in Nat /\ j - 1 < Len(f) /\ (j - 1) + 1 = j /\ f[j] \in Line
      OBVIOUS
    <2>2. PICK s : s = SubSeq(f, 1, j - 1)
      OBVIOUS
    <2>3. s \in Seq(Line) /\ Len(s) = j - 1 /\ \A i \in 1..(j - 1) : s[i] = f[i]
      BY <1>1, <2>1, <2>2
    <2>4. p \in Line
      BY <2>1, CutIs
    <2>5. <<p>> \in Seq(Line) /\ Len(<<p>>) = 1
      BY <2>4
    <2>6. /\ g \in Seq(Line) /\ Len(g) = j /\ g[j] = p /\ \A i \in 1..(j - 1) : g[i] = s[i]
      BY <1>4, <2>1, <2>2, <2>3, <2>5, ConcatProperties
    <2>7. Last(g) = p /\ Front(g) = SubSeq(g, 1, j - 1)
      BY <2>6 DEF Last, Front
    <2>8. CASE p.key = NULL
      <3>1. /\ SubSeq(g, 1, j - 1) \in Seq(Line) /\ Len(SubSeq(g, 1, j - 1)) = j - 1
            /\ \A i \in 1..(j - 1) : SubSeq(g, 1, j - 1)[i] = g[i]
        BY <2>1, <2>6
      <3>2. SubSeq(g, 1, j - 1) = s
        BY <2>3, <2>6, <3>1, SameSeq
      <3> QED BY <1>2, <2>1, <2>2, <2>7, <2>8, <3>2 DEF Readable
    <2>9. CASE p.key # NULL
      <3>1. p.key = f[j].key /\ Started(f[j].val, p.val)
        BY <2>1, <2>9, CutStarted
      <3>2. Readable(g) = g
        BY <2>7, <2>9 DEF Readable
      <3> QED BY <2>1, <2>3, <2>6, <3>1, <3>2 DEF Left
    <2> QED BY <2>8, <2>9
  <1>5. \A j \in 1..Len(f) : j - 1 \in 0..Len(f)
    OBVIOUS
  <1> QED BY <1>3, <1>4, <1>5 DEF Written

\* The keys in front of this place have their lines among the first j.
Reached(f, n, j) == IF j = Len(f) THEN n - 1 ELSE Place(f[j + 1].key) - 1

LEMMA ReachedIs ==
    ASSUME NEW f, NEW n, Lines(f, n), NEW j \in 0..Len(f)
    PROVE  /\ Reached(f, n, j) \in 0..Len(Order)
           /\ \A i \in 1..j : Place(f[i].key) <= Reached(f, n, j)
           /\ \A k \in Keys : Place(k) <= Reached(f, n, j) /\ NULL \notin since[k] => \E i \in 1..j : f[i].key = k
           /\ j < Len(f) => Place(f[j + 1].key) = Reached(f, n, j) + 1
  <1>1. Len(f) \in Nat /\ n \in 1..(Len(Order) + 1) /\ Len(Order) \in Nat
    BY OrderIs DEF Lines
  <1>2. \A k \in Keys : Place(k) \in 1..Len(Order)
    BY PlaceIs
  <1>3. \A i \in 1..Len(f) : f[i].key \in Keys /\ Place(f[i].key) < n
    BY DEF Lines
  <1>4. \A a, b \in 1..Len(f) : a < b => Place(f[a].key) < Place(f[b].key)
    BY DEF Lines
  <1>5. PICK m : m = Reached(f, n, j)
    OBVIOUS
  <1>6. CASE j = Len(f)
    <2>1. m = n - 1
      BY <1>5, <1>6 DEF Reached
    <2>2. \A k \in Keys : Place(k) <= m => Place(k) < n
      BY <1>1, <1>2, <2>1
    <2>3. \A i \in 1..j : Place(f[i].key) <= m
      BY <1>1, <1>2, <1>3, <1>6, <2>1
    <2>4. \A k \in Keys : Place(k) <= m /\ NULL \notin since[k] => \E i \in 1..j : f[i].key = k
      BY <1>6, <2>2 DEF Lines
    <2> QED BY <1>1, <1>5, <1>6, <2>1, <2>3, <2>4
  <1>7. CASE j # Len(f)
    <2>1. j + 1 \in 1..Len(f) /\ j \in Nat
      BY <1>1, <1>7
    <2>2. PICK q \in 1..Len(Order) : q = Place(f[j + 1].key)
      BY <1>2, <1>3, <2>1
    <2>3. m = q - 1 /\ q < n
      BY <1>3, <1>5, <1>7, <2>1, <2>2 DEF Reached
    <2>4. ASSUME NEW i \in 1..j PROVE Place(f[i].key) <= m
      <3>1. i \in 1..Len(f) /\ i < j + 1
        BY <1>1, <2>1
      <3>2. Place(f[i].key) < q /\ Place(f[i].key) \in Nat
        BY <1>2, <1>3, <1>4, <2>1, <2>2, <3>1
      <3> QED BY <2>3, <3>2
    <2>5. ASSUME NEW k \in Keys, Place(k) <= m, NULL \notin since[k] PROVE \E i \in 1..j : f[i].key = k
      <3>1. Place(k) < q /\ Place(k) < n
        BY <1>1, <1>2, <2>3, <2>5
      <3>2. PICK i \in 1..Len(f) : f[i].key = k
        BY <2>5, <3>1 DEF Lines
      <3>3. i # j + 1
        BY <1>2, <2>2, <3>1, <3>2
      <3>4. ~(j + 1 < i)
        <4>1. ASSUME j + 1 < i PROVE FALSE
          <5>1. q < Place(k)
            BY <1>4, <2>1, <2>2, <3>2, <4>1
          <5> QED BY <1>2, <3>1, <5>1
        <4> QED BY <4>1
      <3>5. i \in 1..j
        BY <2>1, <3>3, <3>4
      <3> QED BY <3>2, <3>5
    <2> QED BY <1>1, <1>5, <2>1, <2>2, <2>3, <2>4, <2>5
  <1> QED BY <1>6, <1>7

\* What is there of the key k after the lines have been read.
Given(lines, k, v) ==
    IF v = NULL THEN \A i \in 1..Len(lines) : lines[i].key # k
    ELSE \E i \in 1..Len(lines) : lines[i].key = k /\ v = lines[i].val

LEMMA ReadGives ==
    ASSUME NEW R, Inv(R), Read, NEW k \in Keys
    PROVE  Given(Readable(file), k, View(k)')
  <1>1. PICK lines : lines = Readable(file)
    OBVIOUS
  <1>2. /\ file # <<>> /\ (\A c \in Clients : th[c].pc = "idle") /\ \A l \in Keys : list[l] = NULL
        /\ node' = Filled(lines).node /\ list' = Filled(lines).list /\ UNCHANGED <<lock, th>>
    BY <1>1 DEF Read
  <1>3. TypeOK /\ Damaged /\ file \in Seq(Line) /\ Shape(R)
    BY DEF Inv, TypeOK
  <1>4. lines \in Seq(Line) /\ \A i \in 1..Len(lines) : lines[i].key # NULL
    BY <1>1, <1>2, <1>3, ReadableIs
  <1>5. PICK S : Filling(Filled(lines), S, lines, Len(lines))
    BY <1>4, FilledIs
  <1>6. lock' = [l \in Keys |-> NULL]
    <2>1. \A l \in Keys : lock[l] = NULL
      BY <1>2, <1>3 DEF Shape, Headed
    <2>2. lock \in [Keys -> Clients \union {NULL}]
      BY <1>3 DEF TypeOK
    <2> QED BY <1>2, <2>1, <2>2
  <1>7. Shape(S)' /\ Types'
    BY <1>2, <1>5, <1>6, FilledShape
  <1>8. PICK v : v = View(k)'
    OBVIOUS
  <1>9. v = IF list'[k] = NULL THEN NULL ELSE Shown(node', S[k], Fronting(k)')
    BY <1>7, <1>8, ViewIsNext
  <1>10. CASE list'[k] = NULL
    <2>1. \A i \in 1..Len(lines) : lines[i].key # k
      BY <1>2, <1>5, <1>10 DEF Filling
    <2> QED BY <1>1, <1>8, <1>9, <1>10, <2>1 DEF Given
  <1>11. CASE list'[k] # NULL
    <2>1. PICK i \in 1..Len(lines) : /\ lines[i].key = k /\ Len(S[k]) = Len(lines[i].val)
                                     /\ \A j \in 1..Len(S[k]) : node'[S[k][j]].val = lines[i].val[j]
      BY <1>2, <1>5, <1>11 DEF Filling
    <2>2. ~Fronting(k)' /\ Fronting(k)' \in BOOLEAN
      <3>1. lock'[k] = NULL
        BY <1>6
      <3> QED BY <3>1, NullIs DEF Fronting
    <2>3. S[k] \in Seq(DOMAIN node') /\ node' \in [DOMAIN node' -> Node]
      BY <1>7 DEF Shape, Rings, Types
    <2>4. v = Shown(node', S[k], FALSE)
      BY <1>9, <1>11, <2>2
    <2>5. v \in Seq(Elements) /\ Len(v) = Len(S[k]) /\ \A j \in 1..Len(S[k]) : v[j] = node'[S[k][j]].val
      BY <2>3, <2>4, ShownPlain
    <2>6. PICK w : w = lines[i].val
      OBVIOUS
    <2>7. w \in Seq(Elements)
      <3>1. lines[i] \in Line
        BY <1>4
      <3> QED BY <2>6, <3>1 DEF Line
    <2>8. v = w
      BY <2>1, <2>5, <2>6, <2>7, SameSeq
    <2>9. v # NULL
      BY <2>5, NullIs
    <2> QED BY <1>1, <1>8, <2>1, <2>6, <2>8, <2>9 DEF Given
  <1> QED BY <1>10, <1>11

\* The keys in front of m have what was written, the next one a part of it, and the others nothing.
GivenBack(V, m) ==
    /\ m \in 0..Len(Order)
    /\ \A i \in 1..m : Kept(Order[i], V[Order[i]])
    /\ \A i \in (m + 1)..Len(Order) :
          \/ V[Order[i]] = NULL
          \/ i = m + 1 /\ Begun(Order[i], V[Order[i]])

LEMMA LeftGivesBack ==
    ASSUME NEW f, NEW n, Lines(f, n), NEW j, NEW lines, Left(f, j, lines),
           NEW V, \A k \in Keys : Given(lines, k, V[k])
    PROVE  GivenBack(V, Reached(f, n, j))
  <1>1. j \in 0..Len(f) /\ Len(f) \in Nat /\ f \in Seq(Line)
    BY DEF Left, Lines
  <1>2. PICK m : m = Reached(f, n, j)
    OBVIOUS
  <1>3. /\ m \in 0..Len(Order)
        /\ \A i \in 1..j : Place(f[i].key) <= m
        /\ \A k \in Keys : Place(k) <= m /\ NULL \notin since[k] => \E i \in 1..j : f[i].key = k
        /\ j < Len(f) => Place(f[j + 1].key) = m + 1
    BY <1>1, <1>2, ReachedIs
  <1>4. \A x \in 1..j : x \in 1..Len(lines) /\ x \in 1..Len(f) /\ lines[x] = f[x]
    BY <1>1 DEF Left
  <1>5. \A x \in 1..Len(lines) : x \in 1..j \/ (x = j + 1 /\ j < Len(f) /\ j + 1 \in 1..Len(f))
    BY <1>1 DEF Left
  <1>6. ASSUME NEW i \in 1..m PROVE Kept(Order[i], V[Order[i]])
    <2>1. PICK k \in Keys : k = Order[i] /\ Place(k) = i
      BY <1>3, OrderIs, PlaceIs
    <2>2. PICK v : v = V[k] /\ Given(lines, k, v)
      OBVIOUS
    <2>3. CASE v = NULL
      <3>1. \A x \in 1..Len(lines) : lines[x].key # k
        BY <2>2, <2>3 DEF Given
      <3>2. ~\E x \in 1..j : f[x].key = k
        BY <1>4, <3>1
      <3>3. NULL \in since[k]
        BY <1>3, <2>1, <3>2
      <3> QED BY <2>1, <2>2, <2>3, <3>3 DEF Kept
    <2>4. CASE v # NULL
      <3>1. PICK x \in 1..Len(lines) : lines[x].key = k /\ v = lines[x].val
        BY <2>2, <2>4 DEF Given
      <3>2. x \in 1..j
        <4>1. CASE x = j + 1 /\ j < Len(f)
          <5>1. Place(k) = m + 1
            BY <1>3, <3>1, <4>1 DEF Left
          <5> QED BY <1>3, <2>1, <5>1
        <4> QED BY <1>5, <4>1
      <3>3. Honest(k, v)
        BY <1>4, <3>1, <3>2 DEF Lines
      <3> QED BY <2>1, <2>2, <2>4, <3>3 DEF Kept
    <2> QED BY <2>3, <2>4
  <1>7. ASSUME NEW i \in (m + 1)..Len(Order)
        PROVE  V[Order[i]] = NULL \/ (i = m + 1 /\ Begun(Order[i], V[Order[i]]))
    <2>1. PICK k \in Keys : k = Order[i] /\ Place(k) = i
      BY <1>3, OrderIs, PlaceIs
    <2>2. PICK v : v = V[k] /\ Given(lines, k, v)
      OBVIOUS
    <2> SUFFICES ASSUME v # NULL PROVE i = m + 1 /\ Begun(k, v)
      BY <2>1, <2>2
    <2>3. PICK x \in 1..Len(lines) : lines[x].key = k /\ v = lines[x].val
      BY <2>2 DEF Given
    <2>4. CASE x \in 1..j
      <3>1. Place(k) <= m
        BY <1>3, <1>4, <2>3, <2>4
      <3> QED BY <1>3, <2>1, <3>1
    <2>5. CASE x = j + 1 /\ j < Len(f) /\ j + 1 \in 1..Len(f)
      <3>1. f[j + 1].key = k /\ Started(f[j + 1].val, v)
        BY <1>1, <2>3, <2>5 DEF Left
      <3>2. i = m + 1
        BY <1>3, <2>1, <2>5, <3>1
      <3>3. Honest(k, f[j + 1].val)
        BY <2>5, <3>1 DEF Lines
      <3>4. f[j + 1].val \in Seq(Elements)
        <4>1. f[j + 1] \in Line
          BY <1>1, <2>5
        <4> QED BY <4>1 DEF Line
      <3>5. Begun(k, v)
        BY <3>1, <3>3, <3>4, BegunIs
      <3> QED BY <3>2, <3>5
    <2> QED BY <1>5, <2>4, <2>5
  <1> QED BY <1>2, <1>3, <1>6, <1>7 DEF GivenBack

LEMMA FileLeft ==
    ASSUME NEW R, Inv(R), Saved, Read
    PROVE  \E f, n, j : Lines(f, n) /\ Left(f, j, Readable(file)) /\ (whole => Reached(f, n, j) = Len(Order))
  <1>1. saver.pc = "idle" /\ file # <<>>
    BY DEF Read
  <1>2. ASSUME NEW f, NEW n, Lines(f, n) PROVE f \in Seq(Line) /\ \A i \in 1..Len(f) : f[i].key # NULL
    BY <1>2, NullIs DEF Lines
  <1>3. CASE ~whole
    <2>1. PICK f, n : Lines(f, n) /\ file \in Written(f)
      BY <1>1, <1>3 DEF Saved
    <2>2. \E j \in 0..Len(f) : Left(f, j, Readable(file))
      BY <1>1, <1>2, <2>1, WrittenLeft
    <2> QED BY <1>3, <2>1, <2>2
  <1>4. CASE whole
    <2>1. Lines(file, Len(Order) + 1)
      BY <1>1, <1>4 DEF Saved
    <2>2. file \in Seq(Line) /\ \A i \in 1..Len(file) : file[i].key # NULL
      BY <1>2, <2>1
    <2>3. Len(file) \in 1..Len(file) /\ Len(file) \in 0..Len(file)
      BY <1>1, <2>2
    <2>4. Readable(file) = file
      BY <2>2, <2>3 DEF Readable, Last
    <2>5. Left(file, Len(file), Readable(file))
      BY <2>2, <2>3, <2>4 DEF Left
    <2>6. Reached(file, Len(Order) + 1, Len(file)) = Len(Order)
      BY OrderIs DEF Reached
    <2> QED BY <2>1, <2>5, <2>6
  <1> QED BY <1>3, <1>4

LEMMA ReadKeeps ==
    ASSUME NEW R, Inv(R), Saved, Read
    PROVE  \E m \in 0..Len(Order) :
              /\ \A i \in 1..m : Kept(Order[i], View(Order[i])')
              /\ \A i \in (m + 1)..Len(Order) :
                   \/ View(Order[i])' = NULL
                   \/ i = m + 1 /\ Begun(Order[i], View(Order[i])')
              /\ whole => m = Len(Order)
  <1>1. PICK V : V = [k \in Keys |-> View(k)']
    OBVIOUS
  <1>2. \A k \in Keys : Given(Readable(file), k, V[k])
    BY <1>1, ReadGives
  <1>3. PICK f, n, j : Lines(f, n) /\ Left(f, j, Readable(file)) /\ (whole => Reached(f, n, j) = Len(Order))
    BY FileLeft
  <1>4. PICK m : m = Reached(f, n, j) /\ GivenBack(V, m)
    BY <1>2, <1>3, LeftGivesBack
  <1>5. m \in 0..Len(Order) /\ Len(Order) \in Nat
    BY <1>4, OrderIs DEF GivenBack
  <1>6. \A i \in 1..Len(Order) : V[Order[i]] = View(Order[i])'
    BY <1>1, OrderIs
  <1>7. \A i \in 1..m : Kept(Order[i], View(Order[i])')
    BY <1>4, <1>5, <1>6 DEF GivenBack
  <1>8. ASSUME NEW i \in (m + 1)..Len(Order)
        PROVE  View(Order[i])' = NULL \/ (i = m + 1 /\ Begun(Order[i], View(Order[i])'))
    BY <1>4, <1>5, <1>6 DEF GivenBack
  <1> QED BY <1>3, <1>4, <1>5, <1>7, <1>8

\* What the last save wrote comes back when the server that crashed reads its file: all of
\* it, or, after a crash in the save, all in front of some place, and of the key there its
\* beginning (Hash::read, after whatever the stream had written).
THEOREM ReadsBack == Spec => ReadBack
  <1>1. FiledFollowed /\ [Next]_vars =>
          [Read =>
             \E m \in 0..Len(Order) :
                 /\ \A i \in 1..m : Kept(Order[i], View(Order[i])')
                 /\ \A i \in (m + 1)..Len(Order) :
                      \/ View(Order[i])' = NULL
                      \/ i = m + 1 /\ Begun(Order[i], View(Order[i])')
                 /\ whole => m = Len(Order)]_vars
    BY ReadKeeps DEF FiledFollowed, Filed
  <1> QED BY <1>1, AlwaysFiled, PTL DEF Spec, ReadBack

=============================================================================
