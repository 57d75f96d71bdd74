--------------------------- MODULE CommandProofs ---------------------------
(***************************************************************************)
(* Theorems about Command.tla for every choice of its constants.           *)
(***************************************************************************)
EXTENDS Command, SequenceTheorems, WellFoundedInduction, TLAPS

\* The inductive invariant: the types, and no authr above its authw.
Inv == TypeOK /\ AuthOrdered

Ordered(n) == n = NULL \/ n.authr <= n.authw

-----------------------------------------------------------------------------
(* Nodes                                                                   *)

\* A node kv's constructor builds is a node.
LEMMA NewNodeType ==
    ASSUME NEW v \in Value, NEW r \in Auth, NEW w \in Auth
    PROVE  /\ NewNode(v, r, w) \in Node
           /\ NewNode(v, r, w).authr = r /\ NewNode(v, r, w).authw = w
  BY DEF NewNode, Node

\* kv::set_authr keeps the order of the authorities by raising authw.
LEMMA SetAuthrType ==
    ASSUME NEW n \in Node, NEW r \in Auth
    PROVE  /\ SetAuthr(n, r) \in Node
           /\ SetAuthr(n, r).authr = r
           /\ SetAuthr(n, r).authw = IF r > n.authw THEN r ELSE n.authw
  BY DEF SetAuthr, Node

\* kv::set_authw keeps it by lowering authr.
LEMMA SetAuthwType ==
    ASSUME NEW n \in Node, NEW w \in Auth
    PROVE  /\ SetAuthw(n, w) \in Node
           /\ SetAuthw(n, w).authw = w
           /\ SetAuthw(n, w).authr = IF n.authr > w THEN w ELSE n.authr
  BY DEF SetAuthw, Node

\* Hash::set leaves the node with exactly the authorities it was given, whatever
\* the node had before, provided they are in order.
LEMMA SetNodeExact ==
    ASSUME NEW n \in Node \union {NULL}, NEW v \in Value,
           NEW r \in Auth, NEW w \in Auth, r <= w
    PROVE  /\ SetNode(n, v, r, w) \in Node
           /\ SetNode(n, v, r, w).authr = r
           /\ SetNode(n, v, r, w).authw = w
  <1>1. CASE n = NULL
    BY <1>1, NewNodeType DEF SetNode
  <1>2. CASE n # NULL
    <2> DEFINE m == [n EXCEPT !.val = v]
               p == SetAuthr(m, r)
    <2>1. m \in Node
      BY <1>2 DEF Node
    <2>2. p \in Node /\ p.authr = r
      BY <2>1, SetAuthrType
    <2>3. SetAuthw(p, w) \in Node /\ SetAuthw(p, w).authw = w /\ SetAuthw(p, w).authr = r
      <3> HIDE DEF p
      <3>1. /\ SetAuthw(p, w) \in Node
            /\ SetAuthw(p, w).authw = w
            /\ SetAuthw(p, w).authr = IF p.authr > w THEN w ELSE p.authr
        BY <2>2, SetAuthwType
      <3>2. ~(r > w)
        BY DEF Auth
      <3> QED BY <2>2, <3>1, <3>2
    <2> QED BY <1>2, <2>3 DEF SetNode, Overwrite
  <1> QED BY <1>1, <1>2

-----------------------------------------------------------------------------
(* Values                                                                  *)

\* What a value of each type holds.
LEMMA ContentType ==
    ASSUME NEW v \in Value
    PROVE  /\ Dtype(v) = "String" => Content(v) \in Strings
           /\ Dtype(v) = "List" => Content(v) \in Seq(Words)
           /\ Dtype(v) = "Set" => Content(v) \in SUBSET Words
           /\ Dtype(v) = "Hashmap" => Content(v) \in Maps
  BY DEF Value, Dtype, Content

\* Content of the right kind makes a value.
LEMMA ValueType ==
    /\ \A s \in Strings : <<"String", s>> \in Value
    /\ \A l \in Seq(Words) : <<"List", l>> \in Value
    /\ \A e \in SUBSET Words : <<"Set", e>> \in Value
    /\ \A m \in Maps : <<"Hashmap", m>> \in Value
  BY DEF Value

\* A function from words to words is the content of a hashmap.
LEMMA MapType ==
    ASSUME NEW F \in SUBSET Words, NEW m \in [F -> Words]
    PROVE  m \in Maps
  BY DEF Maps

\* The domain and the entries of a hashmap are words.
LEMMA MapElim ==
    ASSUME NEW m \in Maps
    PROVE  DOMAIN m \in SUBSET Words /\ m \in [DOMAIN m -> Words]
  BY DEF Maps

\* A set of natural numbers that is not empty has a least element.
LEMMA LeastNat ==
    ASSUME NEW T \in SUBSET Nat, T # {}
    PROVE  \E m \in T : \A n \in T : m <= n
  <1> DEFINE R == OpToRel(<, Nat)
  <1>1. \A x, y \in Nat : <<x, y>> \in R <=> x < y
    BY DEF OpToRel
  <1>2. \E m \in T : \A n \in T : ~(<<n, m>> \in R)
    <2> HIDE DEF R
    <2>1. IsWellFoundedOn(R, Nat)
      BY NatLessThanWellFounded DEF R
    <2> QED BY <2>1, WFMin
  <1> HIDE DEF R
  <1>3. PICK m \in T : \A n \in T : ~(<<n, m>> \in R)
    BY <1>2
  <1>4. ASSUME NEW n \in T
        PROVE  m <= n
    <2>1. m \in Nat /\ n \in Nat /\ ~(n < m)
      BY <1>1, <1>3
    <2> QED BY <2>1
  <1> QED BY <1>4

\* data_encode pairs words up into a hashmap.
LEMMA PairUpType ==
    ASSUME NEW w \in Seq(Words)
    PROVE  PairUp(w) \in Maps
  <1> DEFINE n == Len(w) \div 2
             F == {w[2*i - 1] : i \in 1..n}
             IsLast(f, i) == w[2*i - 1] = f /\ \A j \in 1..n : w[2*j - 1] = f => j <= i
             at(f) == CHOOSE i \in 1..n : IsLast(f, i)
  <1>1. n \in Nat /\ 2 * n <= Len(w)
    BY LenProperties
  <1>2. \A i \in 1..n : w[2*i - 1] \in Words /\ w[2*i] \in Words
    BY <1>1, ElementOfSeq
  <1>3. F \in SUBSET Words
    BY <1>2
  <1>4. ASSUME NEW f \in F
        PROVE  at(f) \in 1..n
    <2> DEFINE T == {m \in 0..n : n - m >= 1 /\ w[2*(n - m) - 1] = f}
    <2>1. PICK i \in 1..n : w[2*i - 1] = f
      OBVIOUS
    <2>2. n - i \in T
      BY <1>1, <2>1
    <2>3. PICK m \in T : \A x \in T : m <= x
      <3>1. T \subseteq 0..n
        OBVIOUS
      <3>2. 0..n \subseteq Nat
        <4> HIDE DEF n
        <4> QED BY <1>1
      <3> HIDE DEF T
      <3> QED BY <2>2, <3>1, <3>2, LeastNat
    <2>4. n - m \in 1..n /\ w[2*(n - m) - 1] = f
      BY <1>1, <2>3
    <2>5. ASSUME NEW j \in 1..n, w[2*j - 1] = f
          PROVE  j <= n - m
      <3>1. n - j \in T
        BY <1>1, <2>5
      <3>2. m <= n - j
        BY <2>3, <3>1
      <3>3. m \in Nat
        BY <1>1, <2>3
      <3> HIDE DEF n
      <3> QED BY <1>1, <3>2, <3>3
    <2>6. IsLast(f, n - m)
      BY <2>4, <2>5
    <2>7. \E x \in 1..n : IsLast(f, x)
      BY <2>4, <2>6
    <2> QED BY <2>7
  <1>5. [f \in F |-> w[2 * at(f)]] \in [F -> Words]
    BY <1>2, <1>4
  <1>6. PairUp(w) = [f \in F |-> w[2 * at(f)]]
    BY DEF PairUp
  <1> HIDE DEF F
  <1> QED BY <1>3, <1>5, <1>6, MapType

\* List::at lands inside the list for every index, negative ones included.
LEMMA AtInRange ==
    ASSUME NEW l \in Seq(Words), Len(l) # 0, NEW i \in Int
    PROVE  At(l, i) \in 1..Len(l)
  <1> DEFINE n == Len(l)
             back == (0 - i) % n
  <1>1. n \in Nat \ {0}
    BY LenProperties
  <1>2. At(l, i) = IF i >= 0 THEN (i % n) + 1 ELSE ((n - back) % n) + 1
    BY DEF At
  <1> HIDE DEF n
  <1>3. \A j \in Int : j % n \in 0..(n - 1)
    BY <1>1
  <1>4. back \in 0..(n - 1)
    <2>1. 0 - i \in Int
      OBVIOUS
    <2> QED BY <1>3, <2>1
  <1> HIDE DEF back
  <1>5. (n - back) % n \in 0..(n - 1)
    <2>1. n - back \in Int
      BY <1>1, <1>4
    <2> QED BY <1>3, <2>1
  <1>6. At(l, i) \in 1..n
    <2>1. CASE i >= 0
      <3>1. i % n \in 0..(n - 1)
        BY <1>3
      <3>2. At(l, i) = (i % n) + 1
        BY <1>2, <2>1
      <3> QED BY <1>1, <3>1, <3>2
    <2>2. CASE ~(i >= 0)
      <3>1. At(l, i) = ((n - back) % n) + 1
        BY <1>2, <2>2
      <3> QED BY <1>1, <1>5, <3>1
    <2> QED BY <2>1, <2>2
  <1> QED BY <1>6 DEF n

\* The operations of a list give a list.
LEMMA ListOpsType ==
    ASSUME NEW l \in Seq(Words)
    PROVE  /\ \A w \in Seq(Words) : l \o w \in Seq(Words) /\ Reverse(w) \o l \in Seq(Words)
           /\ l # <<>> => Tail(l) \in Seq(Words) /\ Front(l) \in Seq(Words)
           /\ \A i \in 1..Len(l) : /\ RemoveAt(l, i) \in Seq(Words)
                                   /\ \A x \in Words : [l EXCEPT ![i] = x] \in Seq(Words)
  <1>1. \A w \in Seq(Words) : Reverse(w) \in Seq(Words)
    <2> SUFFICES ASSUME NEW w \in Seq(Words)
                 PROVE  Reverse(w) \in Seq(Words)
      OBVIOUS
    <2>1. Len(w) \in Nat
      BY LenProperties
    <2>2. \A i \in 1..Len(w) : w[(Len(w) - i) + 1] \in Words
      BY <2>1, ElementOfSeq
    <2> QED BY <2>1, <2>2 DEF Reverse
  <1>2. Len(l) \in Nat
    BY LenProperties
  <1>3. \A m, n \in Int : 1 <= m /\ n <= Len(l) => SubSeq(l, m, n) \in Seq(Words)
    BY <1>2, ElementOfSeq
  <1>4. l # <<>> => Tail(l) \in Seq(Words) /\ Front(l) \in Seq(Words)
    BY <1>2, <1>3 DEF Front
  <1>5. ASSUME NEW i \in 1..Len(l)
        PROVE  RemoveAt(l, i) \in Seq(Words)
    <2>1. SubSeq(l, 1, i - 1) \in Seq(Words) /\ SubSeq(l, i + 1, Len(l)) \in Seq(Words)
      BY <1>2, <1>3
    <2> QED BY <2>1 DEF RemoveAt
  <1>6. \A i \in 1..Len(l) : \A x \in Words : [l EXCEPT ![i] = x] \in Seq(Words)
    BY ExceptSeq
  <1> QED BY <1>1, <1>4, <1>5, <1>6

\* The operations of a hashmap give a hashmap.
LEMMA MapOpsType ==
    ASSUME NEW m \in Maps, NEW f \in Words
    PROVE  /\ \A w \in Words :
                [x \in DOMAIN m \union {f} |-> IF x = f THEN w ELSE m[x]] \in Maps
           /\ [x \in DOMAIN m \ {f} |-> m[x]] \in Maps
  <1>1. DOMAIN m \in SUBSET Words /\ \A x \in DOMAIN m : m[x] \in Words
    BY MapElim
  <1>2. ASSUME NEW w \in Words
        PROVE  [x \in DOMAIN m \union {f} |-> IF x = f THEN w ELSE m[x]] \in Maps
    <2>1. DOMAIN m \union {f} \in SUBSET Words
      BY <1>1
    <2>2. [x \in DOMAIN m \union {f} |-> IF x = f THEN w ELSE m[x]]
             \in [DOMAIN m \union {f} -> Words]
      BY <1>1
    <2> QED BY <2>1, <2>2, MapType
  <1>3. DOMAIN m \ {f} \in SUBSET Words
    BY <1>1
  <1>4. [x \in DOMAIN m \ {f} |-> m[x]] \in [DOMAIN m \ {f} -> Words]
    BY <1>1
  <1> QED BY <1>2, <1>3, <1>4, MapType

\* What data_encode makes of the words of lmake, smake and hmake is a value.
LEMMA EncodeType ==
    ASSUME NEW w \in Seq(Words), NEW d \in {"List", "Set", "Hashmap"}
    PROVE  <<d, Encode(w, d)>> \in Value
  <1>1. CASE d = "List"
    BY <1>1, ValueType DEF Encode
  <1>2. CASE d = "Set"
    <2>1. ToSet(w) \in SUBSET Words
      BY LenProperties, ElementOfSeq DEF ToSet
    <2> QED BY <1>2, <2>1, ValueType DEF Encode
  <1>3. CASE d = "Hashmap"
    BY <1>3, PairUpType, ValueType DEF Encode
  <1> QED BY <1>1, <1>2, <1>3

\* Printing a value into the file and parsing it again gives values.
LEMMA PrintParseType ==
    ASSUME NEW v \in Value
    PROVE  Printed(v) \in Value /\ Parsed(v) \in Value
  <1>1. Printed(v) \in Value
    <2>1. <<"List", <<EmptyMark>>>> \in Value
      BY TextAssumption, ValueType
    <2>2. <<"Set", {EmptyMark}>> \in Value
      BY TextAssumption, ValueType
    <2> QED BY <2>1, <2>2 DEF Printed
  <1>2. Parsed(v) \in Value
    BY ContentType, TextAssumption, ValueType DEF Parsed
  <1> QED BY <1>1, <1>2

-----------------------------------------------------------------------------
(* What one command can do                                                 *)

\* What the action properties say of one step.
Good == /\ ShownToReadersOnly
        /\ AnswersAreFresh
        /\ ChangedByWritersOnly
        /\ ChangerMayChangeAgain
        /\ ErrorIsHarmless
        /\ RestoredAsSaved

\* The command changed k to the node n (to nothing, for NULL) with the authority
\* the old node asks for and without going above the client's own.
Written(k, n) ==
    /\ n \in Node \union {NULL} /\ Ordered(n)
    /\ h' = [h EXCEPT ![k] = n]
    /\ h[k] # NULL => reply'.auth >= h[k].authw
    /\ n # NULL => reply'.auth >= n.authw
    /\ reply'.msg \in {"ok", "data"}

\* A command on the key k changed nothing, deleted the expired key or wrote it,
\* and showed at most k, live, to a client that may read it.
Outcome(k) ==
    /\ Quiet /\ reply' \in Replies /\ reply'.cmd # "read"
    /\ reply'.shown = {} \/ (reply'.shown = {k} /\ Live(k) /\ reply'.auth >= h[k].authr)
    /\ \/ h' = h
       \/ h[k] # NULL /\ IsExpired(h[k]) /\ h' = [h EXCEPT ![k] = NULL]
       \/ \E n : Written(k, n)

\* A typed update of one key keeps the invariant.
LEMMA UpdateKeepsInv ==
    ASSUME Inv, Quiet, reply' \in Replies, NEW k \in Keys,
           NEW n \in Node \union {NULL}, Ordered(n), h' = [h EXCEPT ![k] = n]
    PROVE  Inv'
  <1>1. TypeOK'
    BY DEF Inv, TypeOK, Quiet
  <1>2. ASSUME NEW x \in Keys, h'[x] # NULL
        PROVE  h'[x].authr <= h'[x].authw
    BY <1>2 DEF Inv, TypeOK, AuthOrdered, Ordered
  <1>3. AuthOrdered'
    BY <1>2 DEF Inv, AuthOrdered, Quiet
  <1> QED BY <1>1, <1>3 DEF Inv

\* So does a step that leaves the table and the file alone.
LEMMA SameKeepsInv ==
    ASSUME Inv, Quiet, reply' \in Replies, h' = h
    PROVE  Inv'
  BY DEF Inv, TypeOK, AuthOrdered, Quiet

\* Every outcome keeps the invariant and satisfies the action properties.
LEMMA OutcomeGood ==
    ASSUME Inv, NEW k \in Keys, Outcome(k)
    PROVE  Inv' /\ Good
  <1>1. Inv'
    <2>1. CASE h' = h
      BY <2>1, SameKeepsInv DEF Outcome
    <2>2. CASE h' = [h EXCEPT ![k] = NULL]
      BY <2>2, UpdateKeepsInv DEF Outcome, Ordered
    <2>3. CASE \E n : Written(k, n)
      BY <2>3, UpdateKeepsInv DEF Outcome, Written
    <2> QED BY <2>1, <2>2, <2>3 DEF Outcome
  <1>2. ShownToReadersOnly /\ AnswersAreFresh
    BY DEF Outcome, ShownToReadersOnly, AnswersAreFresh, Live
  <1>3. \A x \in Keys : x # k => h'[x] = h[x]
    BY DEF Outcome, Written, Inv, TypeOK
  <1>4. \/ h'[k] = h[k]
        \/ h[k] # NULL /\ IsExpired(h[k]) /\ h'[k] = NULL
        \/ Written(k, h'[k])
    BY DEF Outcome, Written, Inv, TypeOK
  <1>5. ChangedByWritersOnly
    BY <1>3, <1>4 DEF ChangedByWritersOnly, Written
  <1>6. ChangerMayChangeAgain
    BY <1>3, <1>4 DEF ChangerMayChangeAgain, Written
  <1>7. ErrorIsHarmless
    BY <1>3, <1>4 DEF ErrorIsHarmless, Written, Outcome, Quiet
  <1>8. RestoredAsSaved
    BY DEF RestoredAsSaved, Outcome
  <1> QED BY <1>1, <1>2, <1>5, <1>6, <1>7, <1>8 DEF Good

\* A reply built by Answer is a reply.
LEMMA AnswerType ==
    ASSUME NEW cmd \in Cmds, NEW c \in Auth, NEW msg \in Msgs,
           NEW shown \in SUBSET Keys, Answer(cmd, c, msg, shown)
    PROVE  /\ reply' \in Replies
           /\ reply'.cmd = cmd /\ reply'.auth = c
           /\ reply'.msg = msg /\ reply'.shown = shown
  BY DEF Answer, Replies

\* A refusal is an outcome.
LEMMA RefuseOutcome ==
    ASSUME NEW k \in Keys, NEW cmd \in Cmds, cmd # "read", NEW c \in Auth,
           NEW msg \in Msgs, Refuse(cmd, c, msg), Quiet
    PROVE  Outcome(k)
  <1>1. Answer(cmd, c, msg, {}) /\ h' = h
    BY DEF Refuse
  <1> QED BY <1>1, AnswerType DEF Outcome

\* The shared checks end in an outcome.
LEMMA RejectedOutcome ==
    ASSUME NEW k \in Keys, NEW cmd \in Cmds, cmd # "read", NEW c \in Auth,
           NEW types, NEW level,
           Rejected(cmd, c, k, types, level) \/ RejectedOrEmpty(cmd, c, k, types, level),
           Quiet
    PROVE  Outcome(k)
  <1>1. \A msg \in Msgs : Refuse(cmd, c, msg) => Outcome(k)
    BY RefuseOutcome
  <1>2. ASSUME h[k] # NULL, IsExpired(h[k]), h' = [h EXCEPT ![k] = NULL],
               Answer(cmd, c, "nokey", {})
        PROVE  Outcome(k)
    BY <1>2, AnswerType DEF Outcome, Msgs
  <1> QED BY <1>1, <1>2 DEF Rejected, RejectedOrEmpty, Msgs

\* So does an answer with data to a client whose authority was checked.
LEMMA ShownOutcome ==
    ASSUME Inv, NEW k \in Keys, NEW cmd \in Cmds, cmd # "read", NEW c \in Auth,
           NEW types, NEW level \in {"authr", "authw"}, Granted(c, k, types, level),
           NEW msg \in Msgs, Answer(cmd, c, msg, {k}), h' = h, Quiet
    PROVE  Outcome(k)
  <1>1. h[k] \in Node /\ h[k].authr <= h[k].authw
    BY DEF Granted, Live, Inv, TypeOK, AuthOrdered
  <1>2. c >= h[k].authr /\ Live(k)
    <2>1. h[k].authr \in Int /\ h[k].authw \in Int /\ c \in Int
      BY <1>1 DEF Node, Auth
    <2>2. c >= h[k].authr \/ c >= h[k].authw
      BY DEF Granted
    <2>3. Live(k)
      BY DEF Granted
    <2> QED BY <1>1, <2>1, <2>2, <2>3
  <1> QED BY <1>2, AnswerType DEF Outcome

\* So does a change of the content in place, whether it shows what it took out
\* (the pops) or not: a client that may write may also read.
LEMMA ChangeOutcome ==
    ASSUME Inv, NEW k \in Keys, NEW cmd \in Cmds, cmd # "read", NEW c \in Auth,
           NEW types, Granted(c, k, types, "authw"),
           NEW content, <<Dtype(h[k].val), content>> \in Value, Change(k, content),
           NEW msg \in {"ok", "data"}, NEW shown \in {{}, {k}},
           Answer(cmd, c, msg, shown), Quiet
    PROVE  Outcome(k)
  <1> DEFINE n == [h[k] EXCEPT !.val = <<Dtype(h[k].val), content>>]
  <1>1. h[k] \in Node /\ h[k].authr <= h[k].authw
    BY DEF Granted, Live, Inv, TypeOK, AuthOrdered
  <1>2. n \in Node /\ n.authr = h[k].authr /\ n.authw = h[k].authw
    BY <1>1 DEF Node
  <1>3. h' = [h EXCEPT ![k] = n]
    BY DEF Change
  <1>4. c >= h[k].authw /\ c >= h[k].authr /\ Live(k)
    <2>1. h[k].authr \in Int /\ h[k].authw \in Int /\ c \in Int
      BY <1>1 DEF Node, Auth
    <2>2. c >= h[k].authw /\ Live(k)
      BY DEF Granted
    <2> QED BY <1>1, <2>1, <2>2
  <1>5. /\ reply' \in Replies
        /\ reply'.cmd = cmd /\ reply'.auth = c /\ reply'.msg = msg /\ reply'.shown = shown
    BY AnswerType DEF Msgs
  <1> HIDE DEF n
  <1>6. Written(k, n)
    BY <1>1, <1>2, <1>3, <1>4, <1>5 DEF Written, Ordered
  <1> QED BY <1>4, <1>5, <1>6 DEF Outcome

\* So does a set of the make family: the new authorities are in order and not
\* above the client's.
LEMMA PutOutcome ==
    ASSUME Inv, NEW k \in Keys, NEW cmd \in Cmds, cmd # "read", NEW c \in Auth,
           NEW v \in Value, NEW r \in Auth, NEW w \in Auth, r <= w, w <= c,
           ~NoWrite(c, k), Put(k, v, r, w), Answer(cmd, c, "ok", {}), Quiet
    PROVE  Outcome(k)
  <1> DEFINE n == SetNode(h[k], v, r, w)
  <1>1. n \in Node /\ n.authr = r /\ n.authw = w
    <2>1. h[k] \in Node \union {NULL}
      BY DEF Inv, TypeOK
    <2> QED BY <2>1, SetNodeExact
  <1>2. h' = [h EXCEPT ![k] = n]
    BY DEF Put
  <1>3. /\ reply' \in Replies
        /\ reply'.cmd = cmd /\ reply'.auth = c /\ reply'.msg = "ok" /\ reply'.shown = {}
    BY AnswerType DEF Msgs
  <1>4. h[k] # NULL => c >= h[k].authw
    <2>1. h[k] # NULL => h[k] \in Node
      BY DEF Inv, TypeOK
    <2>2. h[k] # NULL => h[k].authw \in Int
      BY <2>1 DEF Node, Auth
    <2>3. h[k] # NULL => ~(c < h[k].authw)
      BY DEF NoWrite
    <2>4. c \in Int
      BY DEF Auth
    <2> QED BY <2>2, <2>3, <2>4
  <1> HIDE DEF n
  <1>5. c >= n.authw
    BY <1>1 DEF Auth
  <1>6. Written(k, n)
    BY <1>1, <1>2, <1>3, <1>4, <1>5 DEF Written, Ordered
  <1> QED BY <1>3, <1>6 DEF Outcome

-----------------------------------------------------------------------------
(* Every command has such an outcome                                       *)

\* get, del and make with two to four arguments.
LEMMA StringOutcome ==
    ASSUME Inv, NEW a \in AuthLevels, NEW k \in Keys, StringCommand(a, k)
    PROVE  Outcome(k)
  <1>1. a \in Auth
    BY AuthAssumption
  <1>2. CASE Get(a, k)
    BY <1>1, <1>2, RejectedOutcome, ShownOutcome DEF Get, Msgs, Cmds
  <1>3. CASE Del(a, k)
    <2>1. CASE Refuse("del", a, "nokey") \/ Refuse("del", a, "perm")
      BY <1>1, <1>3, <2>1, RefuseOutcome DEF Del, Msgs, Cmds
    <2>2. CASE h[k] # NULL /\ a >= h[k].authw /\ h' = [h EXCEPT ![k] = NULL]
               /\ Answer("del", a, "ok", {})
      <3>1. /\ reply' \in Replies /\ reply'.cmd = "del" /\ reply'.auth = a
            /\ reply'.msg = "ok" /\ reply'.shown = {}
        BY <1>1, <2>2, AnswerType DEF Msgs, Cmds
      <3>2. Written(k, NULL)
        BY <2>2, <3>1 DEF Written, Ordered
      <3> QED BY <1>3, <3>1, <3>2 DEF Outcome, Del
    <2> QED BY <1>3, <2>1, <2>2 DEF Del
  <1>4. ASSUME NEW s \in StringArgs, Make3(a, k, s)
        PROVE  Outcome(k)
    <2>1. CASE Refuse("make", a, "perm")
      BY <1>1, <1>4, <2>1, RefuseOutcome DEF Make3, Msgs, Cmds
    <2>2. CASE ~NoWrite(a, k) /\ Put(k, <<"String", s>>, 0, a) /\ Answer("make", a, "ok", {})
      <3>1. <<"String", s>> \in Value
        BY TextAssumption, ValueType
      <3>2. 0 \in Auth /\ 0 <= a /\ a <= a
        BY <1>1 DEF Auth
      <3> QED BY <1>1, <1>4, <2>2, <3>1, <3>2, PutOutcome DEF Make3, Cmds
    <2> QED BY <1>4, <2>1, <2>2 DEF Make3
  <1>5. ASSUME NEW s \in StringArgs, NEW x \in AuthArgs, Make4(a, k, s, x)
        PROVE  Outcome(k)
    <2>1. CASE Refuse("make", a, "perm") \/ Refuse("make", a, "badarg")
      BY <1>1, <1>5, <2>1, RefuseOutcome DEF Make4, Msgs, Cmds
    <2>2. CASE /\ ~NoWrite(a, k) /\ ~BadAuth(x) /\ a >= x
               /\ Put(k, <<"String", s>>, x, a)
               /\ Answer("make", a, "ok", {})
      <3>1. <<"String", s>> \in Value
        BY TextAssumption, ValueType
      <3>2. x \in Auth /\ x <= a /\ a <= a
        BY <1>1, <2>2 DEF BadAuth, Auth
      <3> QED BY <1>1, <1>5, <2>2, <3>1, <3>2, PutOutcome DEF Make4, Cmds
    <2> QED BY <1>5, <2>1, <2>2 DEF Make4
  <1>6. ASSUME NEW s \in StringArgs, NEW x \in AuthArgs, NEW y \in AuthArgs,
               Make5(a, k, s, x, y)
        PROVE  Outcome(k)
    <2>1. CASE Refuse("make", a, "perm") \/ Refuse("make", a, "badarg")
      BY <1>1, <1>6, <2>1, RefuseOutcome DEF Make5, Msgs, Cmds
    <2>2. CASE /\ ~NoWrite(a, k) /\ ~BadAuth(x) /\ ~BadAuth(y)
               /\ a >= y /\ x <= y
               /\ Put(k, <<"String", s>>, x, y)
               /\ Answer("make", a, "ok", {})
      <3>1. <<"String", s>> \in Value
        BY TextAssumption, ValueType
      <3>2. x \in Auth /\ y \in Auth /\ x <= y /\ y <= a
        BY <1>1, <2>2 DEF BadAuth, Auth
      <3> QED BY <1>1, <1>6, <2>2, <3>1, <3>2, PutOutcome DEF Make5, Cmds
    <2> QED BY <1>6, <2>1, <2>2 DEF Make5
  <1> QED BY <1>2, <1>3, <1>4, <1>5, <1>6 DEF StringCommand

\* lmake, smake and hmake.
LEMMA MakeOfOutcome ==
    ASSUME Inv, NEW a \in AuthLevels, NEW k \in Keys, NEW w \in ListArgs,
           NEW cmd \in Cmds, cmd # "read", NEW d \in {"List", "Set", "Hashmap"},
           MakeOf(cmd, d, a, k, w)
    PROVE  Outcome(k)
  <1>1. a \in Auth /\ w \in Seq(Words)
    BY AuthAssumption, ArgAssumption
  <1>2. CASE Refuse(cmd, a, "perm") \/ Refuse(cmd, a, "badarg")
    BY <1>1, <1>2, RefuseOutcome DEF MakeOf, Msgs, Cmds
  <1>3. CASE ~NoWrite(a, k) /\ Put(k, <<d, Encode(w, d)>>, 0, a) /\ Answer(cmd, a, "ok", {})
    <2>1. <<d, Encode(w, d)>> \in Value
      BY <1>1, EncodeType
    <2>2. 0 \in Auth /\ 0 <= a /\ a <= a
      BY <1>1 DEF Auth
    <2> QED BY <1>1, <1>3, <2>1, <2>2, PutOutcome DEF MakeOf
  <1> QED BY <1>2, <1>3 DEF MakeOf

\* What a granted command finds: a value of one of its types.
LEMMA GrantedContent ==
    ASSUME Inv, NEW k \in Keys, NEW c, NEW types, NEW level, Granted(c, k, types, level)
    PROVE  h[k].val \in Value /\ Dtype(h[k].val) \in types
  BY DEF Granted, Live, Inv, TypeOK, Node

\* The list commands.
LEMMA ListOutcome ==
    ASSUME Inv, NEW a \in AuthLevels, NEW k \in Keys, ListCommand(a, k)
    PROVE  Outcome(k)
  <1> DEFINE l == Content(h[k].val)
             Write == Granted(a, k, {"List"}, "authw")
  <1>1. a \in Auth
    BY AuthAssumption
  <1>2. ASSUME Write
        PROVE  l \in Seq(Words) /\ Dtype(h[k].val) = "List"
    BY <1>2, GrantedContent, ContentType
  <1>3. ASSUME Write, Quiet, NEW l2 \in Seq(Words), Change(k, l2),
               NEW cmd \in Cmds, cmd # "read", NEW msg \in {"ok", "data"},
               NEW shown \in {{}, {k}}, Answer(cmd, a, msg, shown)
        PROVE  Outcome(k)
    <2>1. <<Dtype(h[k].val), l2>> \in Value
      BY <1>2, <1>3, ValueType
    <2> QED BY <1>1, <1>3, <2>1, ChangeOutcome
  <1>4. ASSUME GrantedNonEmpty(a, k, {"List"}, "authw")
        PROVE  Write /\ l # <<>> /\ Len(l) # 0
    <2>1. Write /\ ~IsEmpty(h[k].val)
      BY <1>4 DEF GrantedNonEmpty
    <2>2. Len(l) # 0
      BY <1>2, <2>1 DEF IsEmpty
    <2> QED BY <2>1, <2>2
  <1>5. ASSUME NEW cmd \in Cmds, cmd # "read", NEW level, NEW i, Quiet,
               BadIndex(cmd, a, k, i, level)
        PROVE  Outcome(k)
    BY <1>1, <1>5, RefuseOutcome DEF BadIndex, Msgs
  <1>6. CASE LPop(a, k)
    <2>1. CASE RejectedOrEmpty("lpop", a, k, {"List"}, "authw")
      BY <1>1, <1>6, <2>1, RejectedOutcome DEF LPop, Cmds
    <2>2. CASE /\ GrantedNonEmpty(a, k, {"List"}, "authw")
               /\ Change(k, Tail(l)) /\ Answer("lpop", a, "data", {k})
      <3>1. Tail(l) \in Seq(Words)
        BY <1>2, <1>4, <2>2, ListOpsType
      <3> QED BY <1>3, <1>4, <1>6, <2>2, <3>1 DEF LPop, Cmds
    <2> QED BY <1>6, <2>1, <2>2 DEF LPop
  <1>7. CASE RPop(a, k)
    <2>1. CASE RejectedOrEmpty("rpop", a, k, {"List"}, "authw")
      BY <1>1, <1>7, <2>1, RejectedOutcome DEF RPop, Cmds
    <2>2. CASE /\ GrantedNonEmpty(a, k, {"List"}, "authw")
               /\ Change(k, Front(l)) /\ Answer("rpop", a, "data", {k})
      <3>1. Front(l) \in Seq(Words)
        BY <1>2, <1>4, <2>2, ListOpsType
      <3> QED BY <1>3, <1>4, <1>7, <2>2, <3>1 DEF RPop, Cmds
    <2> QED BY <1>7, <2>1, <2>2 DEF RPop
  <1>8. ASSUME NEW w \in ListArgs, MakeOf("lmake", "List", a, k, w)
        PROVE  Outcome(k)
    BY <1>8, MakeOfOutcome DEF Cmds
  <1>9. ASSUME NEW w \in ListArgs, LPush(a, k, w)
        PROVE  Outcome(k)
    <2>1. CASE Rejected("lpush", a, k, {"List"}, "authw")
      BY <1>1, <1>9, <2>1, RejectedOutcome DEF LPush, Cmds
    <2>2. CASE Write /\ Change(k, Reverse(w) \o l) /\ Answer("lpush", a, "ok", {})
      <3>1. Reverse(w) \o l \in Seq(Words)
        BY <1>2, <2>2, ArgAssumption, ListOpsType
      <3> QED BY <1>3, <1>9, <2>2, <3>1 DEF LPush, Cmds
    <2> QED BY <1>9, <2>1, <2>2 DEF LPush
  <1>10. ASSUME NEW w \in ListArgs, RPush(a, k, w)
        PROVE  Outcome(k)
    <2>1. CASE Rejected("rpush", a, k, {"List"}, "authw")
      BY <1>1, <1>10, <2>1, RejectedOutcome DEF RPush, Cmds
    <2>2. CASE Write /\ Change(k, l \o w) /\ Answer("rpush", a, "ok", {})
      <3>1. l \o w \in Seq(Words)
        BY <1>2, <2>2, ArgAssumption, ListOpsType
      <3> QED BY <1>3, <1>10, <2>2, <3>1 DEF RPush, Cmds
    <2> QED BY <1>10, <2>1, <2>2 DEF RPush
  <1>11. ASSUME NEW i \in IndexArgs, LGet(a, k, i)
         PROVE  Outcome(k)
    <2>1. CASE RejectedOrEmpty("lget", a, k, {"List"}, "authr")
      BY <1>1, <1>11, <2>1, RejectedOutcome DEF LGet, Cmds
    <2>2. CASE BadIndex("lget", a, k, i, "authr")
      BY <1>5, <1>11, <2>2 DEF LGet, Cmds
    <2>3. CASE /\ GrantedNonEmpty(a, k, {"List"}, "authr")
               /\ Answer("lget", a, "data", {k}) /\ h' = h
      BY <1>1, <1>11, <2>3, ShownOutcome DEF LGet, GrantedNonEmpty, Cmds, Msgs
    <2> QED BY <1>11, <2>1, <2>2, <2>3 DEF LGet
  <1>12. ASSUME NEW i \in IndexArgs, LErase(a, k, i)
         PROVE  Outcome(k)
    <2>1. CASE RejectedOrEmpty("lerase", a, k, {"List"}, "authw")
      BY <1>1, <1>12, <2>1, RejectedOutcome DEF LErase, Cmds
    <2>2. CASE BadIndex("lerase", a, k, i, "authw")
      BY <1>5, <1>12, <2>2 DEF LErase, Cmds
    <2>3. CASE /\ GrantedNonEmpty(a, k, {"List"}, "authw") /\ i # NotInt
               /\ Change(k, RemoveAt(l, At(l, i))) /\ Answer("lerase", a, "ok", {})
      <3>1. At(l, i) \in 1..Len(l)
        BY <1>2, <1>4, <2>3, ArgAssumption, AtInRange
      <3>2. RemoveAt(l, At(l, i)) \in Seq(Words)
        BY <1>2, <1>4, <2>3, <3>1, ListOpsType
      <3> QED BY <1>3, <1>4, <1>12, <2>3, <3>2 DEF LErase, Cmds
    <2> QED BY <1>12, <2>1, <2>2, <2>3 DEF LErase
  <1>13. ASSUME NEW i \in IndexArgs, NEW w \in WordArgs, LSet(a, k, i, w)
         PROVE  Outcome(k)
    <2>1. CASE RejectedOrEmpty("lset", a, k, {"List"}, "authw")
      BY <1>1, <1>13, <2>1, RejectedOutcome DEF LSet, Cmds
    <2>2. CASE BadIndex("lset", a, k, i, "authw")
      BY <1>5, <1>13, <2>2 DEF LSet, Cmds
    <2>3. CASE /\ GrantedNonEmpty(a, k, {"List"}, "authw") /\ i # NotInt
               /\ Change(k, [l EXCEPT ![At(l, i)] = w]) /\ Answer("lset", a, "ok", {})
      <3>1. At(l, i) \in 1..Len(l)
        BY <1>2, <1>4, <2>3, ArgAssumption, AtInRange
      <3>2. [l EXCEPT ![At(l, i)] = w] \in Seq(Words)
        BY <1>2, <1>4, <2>3, <3>1, ArgAssumption, ListOpsType
      <3> QED BY <1>3, <1>4, <1>13, <2>3, <3>2 DEF LSet, Cmds
    <2> QED BY <1>13, <2>1, <2>2, <2>3 DEF LSet
  <1> QED BY <1>6, <1>7, <1>8, <1>9, <1>10, <1>11, <1>12, <1>13 DEF ListCommand

\* The set commands and sort.
LEMMA SetOutcome ==
    ASSUME Inv, NEW a \in AuthLevels, NEW k \in Keys, SetCommand(a, k)
    PROVE  Outcome(k)
  <1> DEFINE e == Content(h[k].val)
             Write == Granted(a, k, {"Set"}, "authw")
  <1>1. a \in Auth
    BY AuthAssumption
  <1>2. ASSUME Write
        PROVE  e \in SUBSET Words /\ Dtype(h[k].val) = "Set"
    BY <1>2, GrantedContent, ContentType
  <1>3. ASSUME Write, Quiet, NEW e2 \in SUBSET Words, Change(k, e2),
               NEW cmd \in Cmds, cmd # "read", NEW msg \in {"ok", "data"},
               NEW shown \in {{}, {k}}, Answer(cmd, a, msg, shown)
        PROVE  Outcome(k)
    <2>1. <<Dtype(h[k].val), e2>> \in Value
      BY <1>2, <1>3, ValueType
    <2> QED BY <1>1, <1>3, <2>1, ChangeOutcome
  <1>4. ASSUME GrantedNonEmpty(a, k, {"Set"}, "authw")
        PROVE  Write
    BY <1>4 DEF GrantedNonEmpty
  <1>5. CASE SPop(a, k)
    <2>1. CASE RejectedOrEmpty("spop", a, k, {"Set"}, "authw")
      BY <1>1, <1>5, <2>1, RejectedOutcome DEF SPop, Cmds
    <2>2. CASE /\ GrantedNonEmpty(a, k, {"Set"}, "authw")
               /\ \E x \in e : Change(k, e \ {x})
               /\ Answer("spop", a, "data", {k})
      <3>1. PICK x \in e : Change(k, e \ {x})
        BY <2>2
      <3>2. e \ {x} \in SUBSET Words
        BY <1>2, <1>4, <2>2
      <3> QED BY <1>3, <1>4, <1>5, <2>2, <3>1, <3>2 DEF SPop, Cmds
    <2> QED BY <1>5, <2>1, <2>2 DEF SPop
  <1>6. CASE Sort(a, k)
    <2>1. CASE Rejected("sort", a, k, {"List", "Set"}, "authr")
      BY <1>1, <1>6, <2>1, RejectedOutcome DEF Sort, Cmds
    <2>2. CASE Granted(a, k, {"List", "Set"}, "authr") /\ Answer("sort", a, "data", {k}) /\ h' = h
      BY <1>1, <1>6, <2>2, ShownOutcome DEF Sort, Cmds, Msgs
    <2> QED BY <1>6, <2>1, <2>2 DEF Sort
  <1>7. ASSUME NEW w \in ListArgs, MakeOf("smake", "Set", a, k, w)
        PROVE  Outcome(k)
    BY <1>7, MakeOfOutcome DEF Cmds
  <1>8. ASSUME NEW w \in ListArgs, SPush(a, k, w)
        PROVE  Outcome(k)
    <2>1. CASE Rejected("spush", a, k, {"Set"}, "authw")
      BY <1>1, <1>8, <2>1, RejectedOutcome DEF SPush, Cmds
    <2>2. CASE Write /\ Change(k, e \union ToSet(w)) /\ Answer("spush", a, "ok", {})
      <3>1. ToSet(w) \in SUBSET Words
        BY ArgAssumption, LenProperties, ElementOfSeq DEF ToSet
      <3>2. e \union ToSet(w) \in SUBSET Words
        BY <1>2, <2>2, <3>1
      <3> QED BY <1>3, <1>8, <2>2, <3>2 DEF SPush, Cmds
    <2> QED BY <1>8, <2>1, <2>2 DEF SPush
  <1>9. ASSUME NEW x \in WordArgs, SErase(a, k, x)
        PROVE  Outcome(k)
    <2>1. CASE RejectedOrEmpty("serase", a, k, {"Set"}, "authw")
      BY <1>1, <1>9, <2>1, RejectedOutcome DEF SErase, Cmds
    <2>2. CASE Refuse("serase", a, "noelem")
      BY <1>1, <1>9, <2>2, RefuseOutcome DEF SErase, Cmds, Msgs
    <2>3. CASE /\ GrantedNonEmpty(a, k, {"Set"}, "authw")
               /\ Change(k, e \ {x}) /\ Answer("serase", a, "ok", {})
      <3>1. e \ {x} \in SUBSET Words
        BY <1>2, <1>4, <2>3
      <3> QED BY <1>3, <1>4, <1>9, <2>3, <3>1 DEF SErase, Cmds
    <2> QED BY <1>9, <2>1, <2>2, <2>3 DEF SErase
  <1> QED BY <1>5, <1>6, <1>7, <1>8, <1>9 DEF SetCommand

\* The hashmap commands.
LEMMA HashmapOutcome ==
    ASSUME Inv, NEW a \in AuthLevels, NEW k \in Keys, HashmapCommand(a, k)
    PROVE  Outcome(k)
  <1> DEFINE m == Content(h[k].val)
             Write == Granted(a, k, {"Hashmap"}, "authw")
  <1>1. a \in Auth
    BY AuthAssumption
  <1>2. ASSUME Write
        PROVE  m \in Maps /\ Dtype(h[k].val) = "Hashmap"
    BY <1>2, GrantedContent, ContentType
  <1>3. ASSUME Write, Quiet, NEW m2 \in Maps, Change(k, m2),
               NEW cmd \in Cmds, cmd # "read", Answer(cmd, a, "ok", {})
        PROVE  Outcome(k)
    <2>1. <<Dtype(h[k].val), m2>> \in Value
      BY <1>2, <1>3, ValueType
    <2> QED BY <1>1, <1>3, <2>1, ChangeOutcome
  <1>4. ASSUME NEW cmd \in {"hfields", "hvals"}, HList(cmd, a, k)
        PROVE  Outcome(k)
    <2>1. CASE RejectedOrEmpty(cmd, a, k, {"Hashmap"}, "authr")
      BY <1>1, <1>4, <2>1, RejectedOutcome DEF HList, Cmds
    <2>2. CASE /\ GrantedNonEmpty(a, k, {"Hashmap"}, "authr")
               /\ Answer(cmd, a, "data", {k}) /\ h' = h
      BY <1>1, <1>4, <2>2, ShownOutcome DEF HList, GrantedNonEmpty, Cmds, Msgs
    <2> QED BY <1>4, <2>1, <2>2 DEF HList
  <1>5. ASSUME NEW w \in ListArgs, MakeOf("hmake", "Hashmap", a, k, w)
        PROVE  Outcome(k)
    BY <1>5, MakeOfOutcome DEF Cmds
  <1>6. ASSUME NEW f \in WordArgs, HGet(a, k, f)
        PROVE  Outcome(k)
    <2>1. CASE RejectedOrEmpty("hget", a, k, {"Hashmap"}, "authr")
      BY <1>1, <1>6, <2>1, RejectedOutcome DEF HGet, Cmds
    <2>2. CASE /\ GrantedNonEmpty(a, k, {"Hashmap"}, "authr") /\ h' = h
               /\ Answer("hget", a, "nofield", {k}) \/ Answer("hget", a, "data", {k})
      BY <1>1, <1>6, <2>2, ShownOutcome DEF HGet, GrantedNonEmpty, Cmds, Msgs
    <2> QED BY <1>6, <2>1, <2>2 DEF HGet
  <1>7. ASSUME NEW f \in WordArgs, HErase(a, k, f)
        PROVE  Outcome(k)
    <2>1. CASE RejectedOrEmpty("herase", a, k, {"Hashmap"}, "authw")
      BY <1>1, <1>7, <2>1, RejectedOutcome DEF HErase, Cmds
    <2>2. CASE Refuse("herase", a, "nofield")
      BY <1>1, <1>7, <2>2, RefuseOutcome DEF HErase, Cmds, Msgs
    <2>3. CASE /\ GrantedNonEmpty(a, k, {"Hashmap"}, "authw")
               /\ Change(k, [x \in Fields(k) \ {f} |-> m[x]])
               /\ Answer("herase", a, "ok", {})
      <3>1. Write
        BY <2>3 DEF GrantedNonEmpty
      <3>2. [x \in Fields(k) \ {f} |-> m[x]] \in Maps
        BY <1>2, <3>1, ArgAssumption, MapOpsType DEF Fields
      <3> QED BY <1>3, <1>7, <2>3, <3>1, <3>2 DEF HErase, Cmds
    <2> QED BY <1>7, <2>1, <2>2, <2>3 DEF HErase
  <1>8. ASSUME NEW f \in WordArgs, NEW w \in WordArgs, HPush(a, k, f, w)
        PROVE  Outcome(k)
    <2>1. CASE Rejected("hpush", a, k, {"Hashmap"}, "authw")
      BY <1>1, <1>8, <2>1, RejectedOutcome DEF HPush, Cmds
    <2>2. CASE /\ Write
               /\ Change(k, [x \in Fields(k) \union {f} |-> IF x = f THEN w ELSE m[x]])
               /\ Answer("hpush", a, "ok", {})
      <3>1. [x \in Fields(k) \union {f} |-> IF x = f THEN w ELSE m[x]] \in Maps
        BY <1>2, <2>2, ArgAssumption, MapOpsType DEF Fields
      <3> QED BY <1>3, <1>8, <2>2, <3>1 DEF HPush, Cmds
    <2> QED BY <1>8, <2>1, <2>2 DEF HPush
  <1> QED BY <1>4, <1>5, <1>6, <1>7, <1>8 DEF HashmapCommand

\* ttl, authr, authw and expire.
LEMMA KeyOutcome ==
    ASSUME Inv, NEW a \in AuthLevels, NEW k \in Keys, KeyCommand(a, k)
    PROVE  Outcome(k)
  <1>1. a \in Auth /\ a \in Int
    BY AuthAssumption DEF Auth
  <1>2. h[k] # NULL => /\ h[k] \in Node /\ h[k].authr <= h[k].authw
                       /\ h[k].authr \in Int /\ h[k].authw \in Int
    BY DEF Inv, TypeOK, AuthOrdered, Node, Auth
  <1>3. CASE Ttl(a, k)
    <2>1. CASE Rejected("ttl", a, k, Dtypes, "authr")
      BY <1>1, <1>3, <2>1, RejectedOutcome DEF Ttl, Cmds
    <2>2. CASE /\ Granted(a, k, Dtypes, "authr") /\ ~Rejected("ttl", a, k, Dtypes, "authr")
      <3>1. Live(k) /\ a >= h[k].authr
        BY <2>2 DEF Granted
      <3>2. h[k] \in Node /\ ~IsExpired(h[k])
        BY <1>2, <3>1 DEF Live
      <3>3. [h[k] EXCEPT !.finished = @ \/ (h[k].ttl # -1 /\ IsExpired(h[k]))] = h[k]
        BY <3>2 DEF Node
      <3>4. h' = h
        BY <1>3, <2>2, <3>2, <3>3 DEF Ttl, Inv, TypeOK
      <3>5. reply' \in Replies /\ reply'.cmd = "ttl" /\ reply'.auth = a /\ reply'.shown = {k}
        <4>1. h[k].ttl \in Int /\ now - h[k].timer \in Int
          BY <3>2, BoundAssumption DEF Node, Inv, TypeOK
        <4> QED BY <1>1, <1>3, <2>2, <4>1 DEF Ttl, Replies, Cmds, Msgs
      <3> QED BY <1>3, <3>1, <3>4, <3>5 DEF Outcome, Ttl
    <2> QED BY <1>3, <2>1, <2>2 DEF Ttl
  <1>4. ASSUME NEW x \in AuthArgs, NEW cmd \in {"authr", "authw"}, NEW n \in Node,
               Quiet, h[k] # NULL, ~BadAuth(x), a >= x, a >= h[k].authw,
               Ordered(n), n.authw <= h[k].authw \/ n.authw <= x,
               h' = [h EXCEPT ![k] = n], Answer(cmd, a, "ok", {})
        PROVE  Outcome(k)
    <2>1. /\ reply' \in Replies
          /\ reply'.cmd = cmd /\ reply'.auth = a /\ reply'.msg = "ok" /\ reply'.shown = {}
      BY <1>1, <1>4, AnswerType DEF Cmds, Msgs
    <2>2. a >= n.authw
      <3>1. x \in Int /\ n.authw \in Int
        BY <1>4 DEF BadAuth, Node, Auth
      <3> QED BY <1>1, <1>2, <1>4, <3>1
    <2>3. Written(k, n)
      BY <1>4, <2>1, <2>2 DEF Written
    <2> QED BY <1>4, <2>1, <2>3 DEF Outcome
  <1>5. ASSUME NEW x \in AuthArgs, ~BadAuth(x), a >= x
        PROVE  x \in Auth
    BY <1>1, <1>5 DEF BadAuth, Auth
  <1>6. ASSUME NEW x \in AuthArgs, Authr(a, k, x)
        PROVE  Outcome(k)
    <2>1. CASE Refuse("authr", a, "nokey") \/ Refuse("authr", a, "badarg") \/ Refuse("authr", a, "perm")
      BY <1>1, <1>6, <2>1, RefuseOutcome DEF Authr, SetAuth, Cmds, Msgs
    <2>2. CASE /\ h[k] # NULL /\ ~BadAuth(x) /\ a >= x /\ a >= h[k].authw
               /\ h' = [h EXCEPT ![k] = SetAuthr(@, x)]
               /\ Answer("authr", a, "ok", {})
      <3> DEFINE n == SetAuthr(h[k], x)
      <3>1. x \in Auth /\ x \in Int
        BY <1>5, <2>2 DEF Auth
      <3>2. n \in Node /\ n.authr = x /\ n.authw = IF x > h[k].authw THEN x ELSE h[k].authw
        BY <1>2, <2>2, <3>1, SetAuthrType
      <3>3. h' = [h EXCEPT ![k] = n]
        BY <2>2
      <3> HIDE DEF n
      <3>4. Ordered(n) /\ (n.authw <= h[k].authw \/ n.authw <= x)
        BY <1>2, <2>2, <3>1, <3>2 DEF Ordered
      <3> QED BY <1>4, <1>6, <2>2, <3>2, <3>3, <3>4 DEF Authr, SetAuth
    <2> QED BY <1>6, <2>1, <2>2 DEF Authr, SetAuth
  <1>7. ASSUME NEW x \in AuthArgs, Authw(a, k, x)
        PROVE  Outcome(k)
    <2>1. CASE Refuse("authw", a, "nokey") \/ Refuse("authw", a, "badarg") \/ Refuse("authw", a, "perm")
      BY <1>1, <1>7, <2>1, RefuseOutcome DEF Authw, SetAuth, Cmds, Msgs
    <2>2. CASE /\ h[k] # NULL /\ ~BadAuth(x) /\ a >= x /\ a >= h[k].authw
               /\ h' = [h EXCEPT ![k] = SetAuthw(@, x)]
               /\ Answer("authw", a, "ok", {})
      <3> DEFINE n == SetAuthw(h[k], x)
      <3>1. x \in Auth /\ x \in Int
        BY <1>5, <2>2 DEF Auth
      <3>2. n \in Node /\ n.authw = x /\ n.authr = IF h[k].authr > x THEN x ELSE h[k].authr
        BY <1>2, <2>2, <3>1, SetAuthwType
      <3>3. h' = [h EXCEPT ![k] = n]
        BY <2>2
      <3> HIDE DEF n
      <3>4. Ordered(n) /\ (n.authw <= h[k].authw \/ n.authw <= x)
        BY <1>2, <2>2, <3>1, <3>2 DEF Ordered
      <3> QED BY <1>4, <1>7, <2>2, <3>2, <3>3, <3>4 DEF Authw, SetAuth
    <2> QED BY <1>7, <2>1, <2>2 DEF Authw, SetAuth
  <1>8. ASSUME NEW t \in TimeArgs, Expire(a, k, t)
        PROVE  Outcome(k)
    <2>1. CASE Refuse("expire", a, "badarg")
      BY <1>1, <1>8, <2>1, RefuseOutcome DEF Expire, Cmds, Msgs
    <2>2. CASE Rejected("expire", a, k, Dtypes, "authw")
      BY <1>1, <1>8, <2>2, RejectedOutcome DEF Expire, Cmds
    <2>3. CASE /\ t # NotInt /\ Granted(a, k, Dtypes, "authw")
               /\ h' = [h EXCEPT ![k].ttl = t, ![k].timer = now]
               /\ Answer("expire", a, "ok", {})
      <3> DEFINE n == [h[k] EXCEPT !.ttl = t, !.timer = now]
      <3>1. h[k] \in Node /\ h[k].authr <= h[k].authw /\ a >= h[k].authw
        BY <1>2, <2>3 DEF Granted, Live
      <3>2. n \in Node /\ n.authr = h[k].authr /\ n.authw = h[k].authw
        <4>1. t \in Int
          BY <2>3, ArgAssumption
        <4>2. now \in Int
          BY BoundAssumption DEF Inv, TypeOK
        <4> QED BY <3>1, <4>1, <4>2 DEF Node
      <3>3. h' = [h EXCEPT ![k] = n]
        BY <2>3 DEF Inv, TypeOK
      <3>4. /\ reply' \in Replies
            /\ reply'.cmd = "expire" /\ reply'.auth = a /\ reply'.msg = "ok" /\ reply'.shown = {}
        BY <1>1, <2>3, AnswerType DEF Cmds, Msgs
      <3> HIDE DEF n
      <3>5. Written(k, n)
        BY <3>1, <3>2, <3>3, <3>4 DEF Written, Ordered
      <3> QED BY <1>8, <3>4, <3>5 DEF Outcome, Expire
    <2> QED BY <1>8, <2>1, <2>2, <2>3 DEF Expire
  <1> QED BY <1>3, <1>6, <1>7, <1>8 DEF KeyCommand

-----------------------------------------------------------------------------
(* Commands on the whole store, the clock and the process                  *)

\* A line of the file is typed and ordered when its node is.
LEMMA SnapshotType ==
    ASSUME Inv
    PROVE  /\ Snapshot \in [Keys -> Line \union {NULL}]
           /\ \A k \in Keys : Snapshot[k] # NULL => Snapshot[k][2] <= Snapshot[k][1]
  <1>1. ASSUME NEW k \in Keys, h[k] # NULL
        PROVE  LineOf(h[k]) \in Line /\ LineOf(h[k])[2] <= LineOf(h[k])[1]
    <2>1. h[k] \in Node /\ h[k].authr <= h[k].authw
      BY <1>1 DEF Inv, TypeOK, AuthOrdered
    <2>2. Printed(h[k].val) \in Value
      BY <2>1, PrintParseType DEF Node
    <2> QED BY <2>1, <2>2 DEF LineOf, Line, Node
  <1> QED BY <1>1 DEF Snapshot

\* The node a set of read leaves for the key of a line.
Restored(k) == SetNode(h[k], Parsed(snap[k][3]), snap[k][2], snap[k][1])

\* It has the authorities of the line.
LEMMA RestoredNode ==
    ASSUME Inv, snap # NoFile, NEW k \in Keys, snap[k] # NULL
    PROVE  /\ Restored(k) \in Node
           /\ Restored(k).authr = snap[k][2] /\ Restored(k).authw = snap[k][1]
  <1>1. h[k] \in Node \union {NULL}
    BY DEF Inv, TypeOK
  <1>2. snap[k] \in Line /\ snap[k][2] <= snap[k][1]
    BY DEF Inv, TypeOK, AuthOrdered
  <1>3. PICK aw \in Auth, ar \in Auth, text \in Value : snap[k] = <<aw, ar, text>>
    BY <1>2 DEF Line
  <1>4. ar <= aw
    BY <1>2, <1>3
  <1>5. PICK parsed \in Value : parsed = Parsed(text)
    BY PrintParseType
  <1>6. Restored(k) = SetNode(h[k], parsed, ar, aw)
    BY <1>3, <1>5 DEF Restored
  <1>7. /\ SetNode(h[k], parsed, ar, aw) \in Node
        /\ SetNode(h[k], parsed, ar, aw).authr = ar
        /\ SetNode(h[k], parsed, ar, aw).authw = aw
    BY <1>1, <1>3, <1>4, <1>5, SetNodeExact
  <1> QED BY <1>3, <1>6, <1>7

\* keys, save and read: the commands that are not about one key.
LEMMA StoreGood ==
    ASSUME Inv, NEW a \in AuthLevels, StoreCommand(a)
    PROVE  Inv' /\ Good
  <1>1. a \in Auth
    BY AuthAssumption
  <1>2. CASE KeysCmd(a)
    <2> DEFINE S == {k \in Keys : h[k] # NULL /\ a >= h[k].authr}
    <2>1. S \in SUBSET Keys /\ h' = h /\ Quiet /\ Answer("keys", a, "data", S)
      BY <1>2 DEF KeysCmd
    <2>2. /\ reply' \in Replies /\ reply'.cmd = "keys" /\ reply'.auth = a
          /\ reply'.msg = "data" /\ reply'.shown = S
      <3> HIDE DEF S
      <3> QED BY <1>1, <2>1, AnswerType DEF Cmds, Msgs
    <2>3. Inv'
      BY <2>1, <2>2, SameKeepsInv
    <2> QED BY <2>1, <2>2, <2>3
         DEF Good, ShownToReadersOnly, AnswersAreFresh, ChangedByWritersOnly,
             ChangerMayChangeAgain, ErrorIsHarmless, RestoredAsSaved
  <1>3. CASE Save(a)
    <2>1. /\ reply' \in Replies /\ reply'.cmd = "save" /\ reply'.msg = "ok" /\ reply'.shown = {}
      BY <1>1, <1>3, AnswerType DEF Save, Cmds, Msgs
    <2>2. Inv'
      BY <1>3, <2>1, SnapshotType DEF Save, Inv, TypeOK, AuthOrdered
    <2> QED BY <1>3, <2>1, <2>2
         DEF Save, Good, ShownToReadersOnly, AnswersAreFresh, ChangedByWritersOnly,
             ChangerMayChangeAgain, ErrorIsHarmless, RestoredAsSaved
  <1>4. CASE SaveFails(a) \/ ReadFails(a)
    <2>1. /\ h' = h /\ Quiet
          /\ Answer("save", a, "nofile", {}) \/ Answer("read", a, "badread", {})
      BY <1>4 DEF SaveFails, ReadFails, Refuse
    <2>2. /\ reply' \in Replies /\ reply'.msg # "ok" /\ reply'.shown = {}
      BY <1>1, <2>1, AnswerType DEF Cmds, Msgs
    <2>3. Inv'
      BY <2>1, <2>2, SameKeepsInv
    <2> QED BY <2>1, <2>2, <2>3
         DEF Quiet, Good, ShownToReadersOnly, AnswersAreFresh, ChangedByWritersOnly,
             ChangerMayChangeAgain, ErrorIsHarmless, RestoredAsSaved
  <1>5. CASE Read(a)
    <2>1. /\ reply' \in Replies /\ reply'.cmd = "read" /\ reply'.msg = "ok" /\ reply'.shown = {}
      BY <1>1, <1>5, AnswerType DEF Read, Cmds, Msgs
    <2>2. \A k \in Keys :
             h'[k] = IF snap[k] = NULL THEN h[k] ELSE Restored(k)
      BY <1>5 DEF Read, Restored
    <2>3. \A k \in Keys : IF snap[k] = NULL THEN h'[k] = h[k]
                          ELSE /\ h'[k] \in Node
                               /\ h'[k].authr = snap[k][2] /\ h'[k].authw = snap[k][1]
      BY <1>5, <2>2, RestoredNode DEF Read
    <2>4. TypeOK'
      <3>1. h' \in [Keys -> Node \union {NULL}]
        BY <1>5, <2>3 DEF Read, Inv, TypeOK
      <3> QED BY <1>5, <2>1, <3>1 DEF Read, Quiet, Inv, TypeOK
    <2>5. AuthOrdered'
      <3>1. \A k \in Keys : h'[k] # NULL => h'[k].authr <= h'[k].authw
        BY <1>5, <2>3 DEF Read, Inv, AuthOrdered
      <3> QED BY <1>5, <3>1 DEF Read, Quiet, Inv, AuthOrdered
    <2>6. RestoredAsSaved
      BY <2>3 DEF RestoredAsSaved
    <2> QED BY <2>1, <2>4, <2>5, <2>6
         DEF Inv, Good, ShownToReadersOnly, AnswersAreFresh, ChangedByWritersOnly,
             ChangerMayChangeAgain, ErrorIsHarmless
  <1> QED BY <1>2, <1>3, <1>4, <1>5 DEF StoreCommand

\* The auto_save thread, the clock and the end of the process.
LEMMA WorldGood ==
    ASSUME Inv, AutoSave \/ Tick \/ Restart
    PROVE  Inv' /\ Good
  <1>1. 0 \in Auth
    BY DEF Auth
  <1>2. CASE AutoSave
    <2>1. /\ reply' \in Replies /\ reply'.cmd = "auto_save" /\ reply'.msg = "none" /\ reply'.shown = {}
      BY <1>1, <1>2, AnswerType DEF AutoSave, Cmds, Msgs
    <2>2. Inv'
      BY <1>2, <2>1, SnapshotType DEF AutoSave, Inv, TypeOK, AuthOrdered
    <2> QED BY <1>2, <2>1, <2>2
         DEF AutoSave, Good, ShownToReadersOnly, AnswersAreFresh, ChangedByWritersOnly,
             ChangerMayChangeAgain, ErrorIsHarmless, RestoredAsSaved
  <1>3. CASE Tick
    <2>1. /\ reply' \in Replies /\ reply'.cmd = "tick" /\ reply'.msg = "none" /\ reply'.shown = {}
      BY <1>1, <1>3, AnswerType DEF Tick, Cmds, Msgs
    <2>2. now' \in 0..MaxClock
      BY <1>3, BoundAssumption DEF Tick, Inv, TypeOK
    <2>3. Inv'
      BY <1>3, <2>1, <2>2 DEF Tick, Inv, TypeOK, AuthOrdered
    <2> QED BY <1>3, <2>1, <2>3
         DEF Tick, Good, ShownToReadersOnly, AnswersAreFresh, ChangedByWritersOnly,
             ChangerMayChangeAgain, ErrorIsHarmless, RestoredAsSaved
  <1>4. CASE Restart
    <2>1. /\ reply' \in Replies /\ reply'.cmd = "restart" /\ reply'.msg = "none" /\ reply'.shown = {}
      BY <1>1, <1>4, AnswerType DEF Restart, Cmds, Msgs
    <2>2. Inv'
      BY <1>4, <2>1 DEF Restart, Quiet, Inv, TypeOK, AuthOrdered
    <2> QED BY <1>4, <2>1, <2>2
         DEF Restart, Good, ShownToReadersOnly, AnswersAreFresh, ChangedByWritersOnly,
             ChangerMayChangeAgain, ErrorIsHarmless, RestoredAsSaved
  <1> QED BY <1>2, <1>3, <1>4

-----------------------------------------------------------------------------
(* The theorems                                                            *)

\* setup starts with an empty table, which satisfies the invariant.
LEMMA InitInv == Init => Inv
  BY BoundAssumption DEF Init, Inv, TypeOK, AuthOrdered, Replies, Cmds, Msgs, Auth

\* Every step keeps the invariant and satisfies the action properties.
LEMMA NextGood ==
    ASSUME Inv, Next
    PROVE  Inv' /\ Good
  <1>1. ASSUME NEW a \in AuthLevels, NEW k \in Keys,
               \/ StringCommand(a, k) \/ ListCommand(a, k) \/ SetCommand(a, k)
               \/ HashmapCommand(a, k) \/ KeyCommand(a, k)
        PROVE  Inv' /\ Good
    <2>1. Outcome(k)
      BY <1>1, StringOutcome, ListOutcome, SetOutcome, HashmapOutcome, KeyOutcome
    <2> QED BY <2>1, OutcomeGood
  <1>2. ASSUME NEW a \in AuthLevels, StoreCommand(a)
        PROVE  Inv' /\ Good
    BY <1>2, StoreGood
  <1>3. CASE AutoSave \/ Tick \/ Restart
    BY <1>3, WorldGood
  <1> QED BY <1>1, <1>2, <1>3 DEF Next

\* So does a step of the rest of the world, which changes nothing here.
LEMMA StutterInv == Inv /\ UNCHANGED vars => Inv'
  BY DEF Inv, TypeOK, AuthOrdered, vars

\* The table, the file and the replies keep their types, and no key is ever
\* readable by fewer clients than may write it, through every sequence of
\* commands, expiries, saves, restores and restarts.
THEOREM Invariance == Spec => []Inv
  <1>1. Inv /\ [Next]_vars => Inv'
    BY NextGood, StutterInv
  <1> QED BY InitInv, <1>1, PTL DEF Spec

\* The type invariant of the command engine.
THEOREM TypeCorrect == Spec => []TypeOK
  <1>1. Inv => TypeOK
    BY DEF Inv
  <1> QED BY Invariance, <1>1, PTL

\* authr never exceeds authw, in the table and in the snapshot file.
THEOREM AuthorityOrder == Spec => []AuthOrdered
  <1>1. Inv => AuthOrdered
    BY DEF Inv
  <1> QED BY Invariance, <1>1, PTL

\* No client is shown anything of a key above its authority: the pops too, which
\* only look at authw, because of AuthOrdered.
THEOREM Secrecy == Spec => Disclosure
  <1>1. Inv /\ [Next]_vars => [ShownToReadersOnly]_vars
    BY NextGood DEF Good
  <1> QED BY Invariance, <1>1, PTL DEF Spec, Disclosure

\* No command but keys answers from an expired key.
THEOREM Freshness == Spec => FreshReads
  <1>1. Inv /\ [Next]_vars => [AnswersAreFresh]_vars
    BY NextGood DEF Good
  <1> QED BY Invariance, <1>1, PTL DEF Spec, FreshReads

\* Only clients with the write authority, expiry, read and the loss of the
\* process change a key.
THEOREM WriteProtection == Spec => WriteProtected
  <1>1. Inv /\ [Next]_vars => [ChangedByWritersOnly]_vars
    BY NextGood DEF Good
  <1> QED BY Invariance, <1>1, PTL DEF Spec, WriteProtected

\* A client never puts a key out of its own reach.
THEOREM KeepsControl == Spec => NoLockout
  <1>1. Inv /\ [Next]_vars => [ChangerMayChangeAgain]_vars
    BY NextGood DEF Good
  <1> QED BY Invariance, <1>1, PTL DEF Spec, NoLockout

\* A refused command changes nothing but an expired key it met.
THEOREM ErrorsAreHarmless == Spec => ErrorsChangeNothing
  <1>1. Inv /\ [Next]_vars => [ErrorIsHarmless]_vars
    BY NextGood DEF Good
  <1> QED BY Invariance, <1>1, PTL DEF Spec, ErrorsChangeNothing

\* read gives every key of the file exactly the authorities that were saved.
THEOREM RestoreAuthorities == Spec => RestoreExact
  <1>1. Inv /\ [Next]_vars => [RestoredAsSaved]_vars
    BY NextGood DEF Good
  <1> QED BY Invariance, <1>1, PTL DEF Spec, RestoreExact

-----------------------------------------------------------------------------
(* What ttl answers                                                        *)

\* Answer gives the command its name.
LEMMA Named ==
    ASSUME NEW cmd \in Cmds, cmd # "ttl", NEW a, NEW k, NEW types, NEW level, NEW msg,
           \/ \E shown : Answer(cmd, a, msg, shown)
           \/ Refuse(cmd, a, msg)
           \/ Rejected(cmd, a, k, types, level)
           \/ RejectedOrEmpty(cmd, a, k, types, level)
    PROVE  reply'.cmd # "ttl"
  BY DEF Answer, Refuse, Rejected, RejectedOrEmpty

\* What ttl answers of a node that has not expired: its time is not over.
LEMMA TtlAnswer ==
    ASSUME Inv, NEW a \in AuthLevels, NEW k \in Keys, Ttl(a, k)
    PROVE  TtlReply'
  <1>1. CASE Rejected("ttl", a, k, Dtypes, "authr")
    BY <1>1 DEF Rejected, Refuse, Answer, TtlReply
  <1>2. CASE Granted(a, k, Dtypes, "authr") /\ ~Rejected("ttl", a, k, Dtypes, "authr")
    <2>1. h[k] \in Node /\ ~IsExpired(h[k])
      BY <1>2 DEF Granted, Live, Inv, TypeOK
    <2>2. h[k].ttl \in Int /\ h[k].timer \in Int /\ now \in Int
      BY <2>1, BoundAssumption DEF Node, Inv, TypeOK
    <2>3. h[k].ttl = -1 \/ h[k].ttl - (now - h[k].timer) >= 1
      BY <2>1, <2>2 DEF IsExpired
    <2>4. reply'.num = IF h[k].ttl = -1 THEN -1 ELSE h[k].ttl - (now - h[k].timer)
      BY <1>2, <2>1 DEF Ttl
    <2> QED BY <2>3, <2>4 DEF TtlReply
  <1> QED BY <1>1, <1>2 DEF Ttl

LEMMA TtlOnly ==
    ASSUME Inv, Next
    PROVE  TtlReply'
  <1> DEFINE Other == reply'.cmd # "ttl"
  <1>1. ASSUME NEW a, NEW k, StringCommand(a, k) PROVE Other
    BY <1>1, Named DEF Cmds, StringCommand, Get, Del, Make3, Make4, Make5
  <1>2. ASSUME NEW a, NEW k, ListCommand(a, k) PROVE Other
    BY <1>2, Named DEF Cmds, ListCommand, LPop, RPop, LPush, RPush, LGet, LSet, LErase, MakeOf, BadIndex
  <1>3. ASSUME NEW a, NEW k, SetCommand(a, k) PROVE Other
    BY <1>3, Named DEF Cmds, SetCommand, SPop, Sort, SPush, SErase, MakeOf
  <1>4. ASSUME NEW a, NEW k, HashmapCommand(a, k) PROVE Other
    BY <1>4, Named DEF Cmds, HashmapCommand, HList, HGet, HErase, HPush, MakeOf
  <1>5. ASSUME NEW a \in AuthLevels, NEW k \in Keys, KeyCommand(a, k) PROVE TtlReply'
    <2>1. CASE Ttl(a, k)
      BY <2>1, TtlAnswer
    <2>2. CASE \E x \in AuthArgs : Authr(a, k, x) \/ Authw(a, k, x)
      <3>1. Other
        BY <2>2, Named DEF Cmds, Authr, Authw, SetAuth
      <3> QED BY <3>1 DEF TtlReply
    <2>3. CASE \E t \in TimeArgs : Expire(a, k, t)
      <3>1. Other
        BY <2>3, Named DEF Cmds, Expire
      <3> QED BY <3>1 DEF TtlReply
    <2> QED BY <1>5, <2>1, <2>2, <2>3 DEF KeyCommand
  <1>6. ASSUME NEW a, StoreCommand(a) PROVE Other
    BY <1>6, Named DEF Cmds, StoreCommand, KeysCmd, Save, SaveFails, Read, ReadFails
  <1>7. ASSUME AutoSave \/ Tick \/ Restart PROVE Other
    BY <1>7, Named DEF Cmds, AutoSave, Tick, Restart
  <1>8. Other => TtlReply'
    BY DEF TtlReply
  <1> HIDE DEF Other
  <1> QED BY <1>1, <1>2, <1>3, <1>4, <1>5, <1>6, <1>7, <1>8 DEF Next

\* TtlReply: kv::get_ttl tells a client -1 or the seconds a key has left, which are one or
\* more, for any time that expire was given.
THEOREM TimesLeft == Spec => []TtlReply
  <1>1. Init => TtlReply
    BY DEF Init, TtlReply
  <1>2. Inv /\ TtlReply /\ [Next]_vars => TtlReply'
    BY TtlOnly DEF TtlReply, vars
  <1> QED BY Invariance, <1>1, <1>2, PTL DEF Spec

=============================================================================
