------------------------------ MODULE Command ------------------------------
(***************************************************************************)
(* What one MUSE server does with one command at a time: COMMAND::execute  *)
(* and its handlers (command.h, command.cpp) over the key table (hash.cpp, *)
(* hashnode.cpp, kvstore.h), the wall clock that expires keys, and the     *)
(* snapshot file that save, read and the auto-save thread share.  Commands *)
(* do not overlap here; HashTable.tla takes the same table apart into the  *)
(* memory accesses of concurrent command threads.                          *)
(*                                                                         *)
(* A value is a pair <<dtype, content>>.  The elements of lists, sets and  *)
(* hashmaps are words without a comma, so that printing them separated by  *)
(* commas and splitting the text again gives them back; the value of a     *)
(* String key may hold commas (Strings, FirstPart).                        *)
(***************************************************************************)
EXTENDS Integers, FiniteSets, SequencesExt

CONSTANTS
    Keys,        \* keys that clients name
    Strings,     \* values of String keys
    Words,       \* elements of lists and sets, fields and values of hashmaps
    FirstPart,   \* the text of a string before its first comma
    EmptyMark,   \* the word "(empty)" that stands for an empty list or set in print
    NullWord,    \* the word "NULL"
    AuthLevels,  \* authority levels of the connected clients
    StringArgs,  \* second argument of make
    ListArgs,    \* the words after the key in lmake, lpush, rpush, smake, spush, hmake
    AuthArgs,    \* authorities given to make, authr and authw
    TimeArgs,    \* seconds given to expire
    IndexArgs,   \* indices given to lget, lset and lerase
    WordArgs,    \* elements and fields given to lset, serase, hpush, hget and herase
    NotInt,      \* an argument that strtoint refuses
    NULL,        \* no node
    NoFile,      \* no snapshot file
    MaxLen,      \* bound: elements of a list
    MaxClock     \* bound: the last second of the clock

VARIABLES
    h,      \* the table: the node of each key
    now,    \* time(NULL)
    snap,   \* the snapshot file: the line of each key
    reply   \* the last command and what its client was told

vars == <<h, now, snap, reply>>

Auth  == 0..255

ASSUME AuthAssumption == AuthLevels \subseteq Auth /\ AuthLevels # {}
ASSUME TextAssumption == /\ FirstPart \in [Strings -> Strings]
                         /\ EmptyMark \in Words
                         /\ StringArgs \subseteq Strings
ASSUME ArgAssumption  == /\ AuthArgs  \subseteq Int \union {NotInt}
                         /\ TimeArgs  \subseteq Int \union {NotInt}
                         /\ IndexArgs \subseteq Int \union {NotInt}
                         /\ WordArgs  \subseteq Words
                         /\ \A w \in ListArgs : w \in Seq(Words) /\ w # <<>>
ASSUME BoundAssumption == MaxClock \in Nat /\ MaxLen \in Nat

Dtypes == {"String", "List", "Set", "Hashmap"}

Maps == UNION {[F -> Words] : F \in SUBSET Words}

Value == ({"String"} \X Strings) \union ({"List"} \X Seq(Words))
         \union ({"Set"} \X SUBSET Words) \union ({"Hashmap"} \X Maps)

Node == [val : Value, authr : Auth, authw : Auth, ttl : Int, timer : Int,
         finished : BOOLEAN]

\* One line of the file after its dtype and key: authw, authr, printed value.
Line == Auth \X Auth \X Value

Msgs == {"ok", "data", "nokey", "perm", "type", "empty", "badarg", "nofield",
         "noelem", "nofile", "badread", "none"}

Cmds == {"get", "make", "del", "keys", "lmake", "lpush", "rpush", "lpop", "rpop", "lget",
         "lset", "lerase", "smake", "spush", "spop", "serase", "sort", "hmake", "hpush",
         "hget", "hfields", "hvals", "herase", "authr", "authw", "expire", "ttl", "save",
         "read", "auto_save", "tick", "restart"}

Replies == [cmd : Cmds, auth : Auth, msg : Msgs, shown : SUBSET Keys, num : Int]

\* The type invariant: nodes are kv objects, a file has at most one line per key.
TypeOK ==
    /\ h \in [Keys -> Node \union {NULL}]
    /\ now \in 0..MaxClock
    /\ snap \in [Keys -> Line \union {NULL}] \union {NoFile}
    /\ reply \in Replies

-----------------------------------------------------------------------------
(* Values                                                                  *)

Dtype(v) == v[1]
Content(v) == v[2]

\* data_encode of a Hashmap: the words in pairs; a later pair for a field wins.
PairUp(w) ==
    LET n == Len(w) \div 2
        last(f) == CHOOSE i \in 1..n : /\ w[2*i - 1] = f
                                       /\ \A j \in 1..n : w[2*j - 1] = f => j <= i
    IN  [f \in {w[2*i - 1] : i \in 1..n} |-> w[2 * last(f)]]

\* data_encode: the content of a value made from the comma-separated words w.
Encode(w, dtype) ==
    CASE dtype = "List" -> w
      [] dtype = "Set" -> ToSet(w)
      [] dtype = "Hashmap" -> PairUp(w)

IsEmpty(v) ==
    CASE Dtype(v) = "List" -> Len(Content(v)) = 0
      [] Dtype(v) = "Hashmap" -> DOMAIN Content(v) = {}
      [] OTHER -> Content(v) = {}

\* List::at: the position of an index, counted backwards when it is negative,
\* wrapping around the circular list.
At(l, i) == IF i >= 0 THEN (i % Len(l)) + 1
                      ELSE ((Len(l) - ((0 - i) % Len(l))) % Len(l)) + 1

\* get_kv_str: an empty list or set is printed as the word "(empty)"; an empty
\* hashmap is printed so too, but "(empty)" alone is read back as no pair.
Printed(v) ==
    CASE v = <<"List", <<>>>> -> <<"List", <<EmptyMark>>>>
      [] v = <<"Set", {}>> -> <<"Set", {EmptyMark}>>
      [] OTHER -> v

\* Hash::read splits the whole line at commas, and takes args[4] alone as the
\* value of a String.
Parsed(v) == IF Dtype(v) = "String" THEN <<"String", FirstPart[Content(v)]>> ELSE v

-----------------------------------------------------------------------------
(* Nodes: class kv                                                         *)

NewNode(v, r, w) == [val |-> v, authr |-> r, authw |-> w,
                     ttl |-> -1, timer |-> 0, finished |-> FALSE]

\* Mutant: authr is raised above authw.
SetAuthrAlone(n, r) == [n EXCEPT !.authr = r]

SetAuthr(n, r) == [n EXCEPT !.authr = r, !.authw = IF r > n.authw THEN r ELSE @]
SetAuthw(n, w) == [n EXCEPT !.authw = w, !.authr = IF n.authr > w THEN w ELSE @]

\* Mutant: the new write authority is not assigned.
OverwriteReadOnly(n, v, r, w) == SetAuthr([n EXCEPT !.val = v], r)

\* Hash::set on an existing node: the time to live stays what it was.
Overwrite(n, v, r, w) == SetAuthw(SetAuthr([n EXCEPT !.val = v], r), w)

SetNode(n, v, r, w) == IF n = NULL THEN NewNode(v, r, w) ELSE Overwrite(n, v, r, w)

\* Mutant: the last second is still granted.
IsExpiredLate(n) == n.finished \/ (n.ttl # -1 /\ now - n.timer > n.ttl)

IsExpired(n) == n.finished \/ (n.ttl # -1 /\ now - n.timer >= n.ttl)

Live(k) == h[k] # NULL /\ ~IsExpired(h[k])

-----------------------------------------------------------------------------
(* Replies                                                                 *)

Answer(cmd, a, msg, shown) ==
    reply' = [cmd |-> cmd, auth |-> a, msg |-> msg, shown |-> shown, num |-> 0]

Refuse(cmd, a, msg) == Answer(cmd, a, msg, {}) /\ UNCHANGED h

\* A handler that is done leaves the clock and the file alone.
Quiet == UNCHANGED <<now, snap>>

-----------------------------------------------------------------------------
(* The checks the handlers share, in the order they make them: the key, its *)
(* expiry (an expired key is deleted), its type, the authority of the client*)

Rejected(cmd, a, k, types, level) ==
    \/ h[k] = NULL /\ Refuse(cmd, a, "nokey")
    \/ /\ h[k] # NULL /\ IsExpired(h[k])
       /\ h' = [h EXCEPT ![k] = NULL]
       /\ Answer(cmd, a, "nokey", {})
    \/ Live(k) /\ Dtype(h[k].val) \notin types /\ Refuse(cmd, a, "type")
    \/ /\ Live(k) /\ Dtype(h[k].val) \in types
       /\ a < h[k][level]
       /\ Refuse(cmd, a, "perm")

\* Mutant: expiry is not asked.
GrantedExpired(a, k, types, level) ==
    h[k] # NULL /\ Dtype(h[k].val) \in types /\ a >= h[k][level]

\* Mutant: authority is not asked.
GrantedToAll(a, k, types, level) == Live(k) /\ Dtype(h[k].val) \in types

Granted(a, k, types, level) ==
    Live(k) /\ Dtype(h[k].val) \in types /\ a >= h[k][level]

\* Commands that also refuse an empty value ("EMPTY LIST", "EMPTY HASHMAP").
RejectedOrEmpty(cmd, a, k, types, level) ==
    \/ Rejected(cmd, a, k, types, level)
    \/ /\ Granted(a, k, types, level)
       /\ IsEmpty(h[k].val)
       /\ Refuse(cmd, a, "empty")

GrantedNonEmpty(a, k, types, level) ==
    Granted(a, k, types, level) /\ ~IsEmpty(h[k].val)

\* The same value object gets new content: lists, sets and hashmaps are
\* changed in place.  MaxLen bounds the lists.
Change(k, content) ==
    /\ Dtype(h[k].val) = "List" => Len(content) <= MaxLen
    /\ h' = [h EXCEPT ![k].val = <<Dtype(@), content>>]

-----------------------------------------------------------------------------
(* Strings and keys                                                        *)

Get(a, k) ==
    /\ \/ Rejected("get", a, k, Dtypes, "authr")
       \/ /\ Granted(a, k, Dtypes, "authr")
          /\ Answer("get", a, "data", {k})
          /\ UNCHANGED h
    /\ Quiet

\* Mutant: make writes over any key.
NoWriteNever(a, k) == FALSE

\* The check that make, lmake, smake and hmake share: an existing node, even an
\* expired one, needs its write authority.
NoWrite(a, k) == h[k] # NULL /\ a < h[k].authw

Put(k, v, r, w) == h' = [h EXCEPT ![k] = SetNode(@, v, r, w)]

\* Mutant: negative authorities pass.
BadAuthNoSign(x) == x = NotInt

\* strtoint refuses the argument, or it is negative.
BadAuth(x) == x \notin Nat

\* make KEY VALUE
Make3(a, k, s) ==
    /\ \/ NoWrite(a, k) /\ Refuse("make", a, "perm")
       \/ ~NoWrite(a, k) /\ Put(k, <<"String", s>>, 0, a) /\ Answer("make", a, "ok", {})
    /\ Quiet

\* make KEY VALUE AUTHR
Make4(a, k, s, x) ==
    /\ \/ NoWrite(a, k) /\ Refuse("make", a, "perm")
       \/ ~NoWrite(a, k) /\ BadAuth(x) /\ Refuse("make", a, "badarg")
       \/ ~NoWrite(a, k) /\ ~BadAuth(x) /\ a < x /\ Refuse("make", a, "perm")
       \/ /\ ~NoWrite(a, k) /\ ~BadAuth(x) /\ a >= x
          /\ Put(k, <<"String", s>>, x, a)
          /\ Answer("make", a, "ok", {})
    /\ Quiet

\* Mutant: the write authority is not compared with the client's.
Make5NoLimit(a, k, s, x, y) ==
    /\ ~NoWrite(a, k) /\ ~BadAuth(x) /\ ~BadAuth(y) /\ a >= x /\ x <= y
    /\ Put(k, <<"String", s>>, x, y)
    /\ Answer("make", a, "ok", {})
    /\ Quiet

\* make KEY VALUE AUTHR AUTHW
Make5(a, k, s, x, y) ==
    /\ \/ NoWrite(a, k) /\ Refuse("make", a, "perm")
       \/ ~NoWrite(a, k) /\ (BadAuth(x) \/ BadAuth(y)) /\ Refuse("make", a, "badarg")
       \/ /\ ~NoWrite(a, k) /\ ~BadAuth(x) /\ ~BadAuth(y)
          /\ \/ (a < x \/ a < y) /\ Refuse("make", a, "perm")
             \/ a >= x /\ a >= y /\ x > y /\ Refuse("make", a, "badarg")
             \/ /\ a >= y /\ x <= y
                /\ Put(k, <<"String", s>>, x, y)
                /\ Answer("make", a, "ok", {})
    /\ Quiet

\* Mutant: del does not ask for the authority.
DelUnchecked(a, k) ==
    /\ \/ h[k] = NULL /\ Refuse("del", a, "nokey")
       \/ h[k] # NULL /\ h' = [h EXCEPT ![k] = NULL] /\ Answer("del", a, "ok", {})
    /\ Quiet

\* del asks neither for the type nor for the expiry of the key.
Del(a, k) ==
    /\ \/ h[k] = NULL /\ Refuse("del", a, "nokey")
       \/ h[k] # NULL /\ a < h[k].authw /\ Refuse("del", a, "perm")
       \/ /\ h[k] # NULL /\ a >= h[k].authw
          /\ h' = [h EXCEPT ![k] = NULL]
          /\ Answer("del", a, "ok", {})
    /\ Quiet

\* Mutant: keys does not filter.
KeysCmdAll(a) ==
    /\ Answer("keys", a, "data", {k \in Keys : h[k] # NULL})
    /\ UNCHANGED h /\ Quiet

\* keys lists the names the client may read, expired ones too.
KeysCmd(a) ==
    /\ Answer("keys", a, "data", {k \in Keys : h[k] # NULL /\ a >= h[k].authr})
    /\ UNCHANGED h /\ Quiet

-----------------------------------------------------------------------------
(* Lists                                                                   *)

\* Mutant: hmake counts its arguments after the set.
MakeOfLateCount(cmd, dtype, a, k, w) ==
    /\ Len(w) <= MaxLen
    /\ \/ NoWrite(a, k) /\ Refuse(cmd, a, "perm")
       \/ /\ ~NoWrite(a, k)
          /\ Put(k, <<dtype, Encode(w, dtype)>>, 0, a)
          /\ Answer(cmd, a, IF dtype = "Hashmap" /\ Len(w) % 2 = 1 THEN "badarg" ELSE "ok", {})
    /\ Quiet

\* lmake, smake and hmake (which refuses an odd number of arguments).
MakeOf(cmd, dtype, a, k, w) ==
    /\ Len(w) <= MaxLen
    /\ \/ /\ dtype = "Hashmap" /\ Len(w) % 2 = 1
          /\ Refuse(cmd, a, "badarg")
       \/ /\ dtype = "Hashmap" => Len(w) % 2 = 0
          /\ \/ NoWrite(a, k) /\ Refuse(cmd, a, "perm")
             \/ /\ ~NoWrite(a, k)
                /\ Put(k, <<dtype, Encode(w, dtype)>>, 0, a)
                /\ Answer(cmd, a, "ok", {})
    /\ Quiet

\* lpush pushes its arguments to the front one after the other.
LPush(a, k, w) ==
    /\ \/ Rejected("lpush", a, k, {"List"}, "authw")
       \/ /\ Granted(a, k, {"List"}, "authw")
          /\ Change(k, Reverse(w) \o Content(h[k].val))
          /\ Answer("lpush", a, "ok", {})
    /\ Quiet

\* Mutant: the arguments are pushed as one element.
RPushNested(a, k, w) ==
    /\ Granted(a, k, {"List"}, "authw")
    /\ Change(k, Append(Content(h[k].val), w))
    /\ Answer("rpush", a, "ok", {})
    /\ Quiet

RPush(a, k, w) ==
    /\ \/ Rejected("rpush", a, k, {"List"}, "authw")
       \/ /\ Granted(a, k, {"List"}, "authw")
          /\ Change(k, Content(h[k].val) \o w)
          /\ Answer("rpush", a, "ok", {})
    /\ Quiet

LPop(a, k) ==
    /\ \/ RejectedOrEmpty("lpop", a, k, {"List"}, "authw")
       \/ /\ GrantedNonEmpty(a, k, {"List"}, "authw")
          /\ Change(k, Tail(Content(h[k].val)))
          /\ Answer("lpop", a, "data", {k})
    /\ Quiet

RPop(a, k) ==
    /\ \/ RejectedOrEmpty("rpop", a, k, {"List"}, "authw")
       \/ /\ GrantedNonEmpty(a, k, {"List"}, "authw")
          /\ Change(k, Front(Content(h[k].val)))
          /\ Answer("rpop", a, "data", {k})
    /\ Quiet

BadIndex(cmd, a, k, i, level) ==
    GrantedNonEmpty(a, k, {"List"}, level) /\ i = NotInt /\ Refuse(cmd, a, "badarg")

LGet(a, k, i) ==
    /\ \/ RejectedOrEmpty("lget", a, k, {"List"}, "authr")
       \/ BadIndex("lget", a, k, i, "authr")
       \/ /\ GrantedNonEmpty(a, k, {"List"}, "authr") /\ i # NotInt
          /\ Answer("lget", a, "data", {k})
          /\ UNCHANGED h
    /\ Quiet

LSet(a, k, i, w) ==
    /\ \/ RejectedOrEmpty("lset", a, k, {"List"}, "authw")
       \/ BadIndex("lset", a, k, i, "authw")
       \/ /\ GrantedNonEmpty(a, k, {"List"}, "authw") /\ i # NotInt
          /\ LET l == Content(h[k].val) IN Change(k, [l EXCEPT ![At(l, i)] = w])
          /\ Answer("lset", a, "ok", {})
    /\ Quiet

LErase(a, k, i) ==
    /\ \/ RejectedOrEmpty("lerase", a, k, {"List"}, "authw")
       \/ BadIndex("lerase", a, k, i, "authw")
       \/ /\ GrantedNonEmpty(a, k, {"List"}, "authw") /\ i # NotInt
          /\ LET l == Content(h[k].val) IN Change(k, RemoveAt(l, At(l, i)))
          /\ Answer("lerase", a, "ok", {})
    /\ Quiet

-----------------------------------------------------------------------------
(* Sets                                                                    *)

SPush(a, k, w) ==
    /\ \/ Rejected("spush", a, k, {"Set"}, "authw")
       \/ /\ Granted(a, k, {"Set"}, "authw")
          /\ Change(k, Content(h[k].val) \union ToSet(w))
          /\ Answer("spush", a, "ok", {})
    /\ Quiet

\* spop takes an element of the first bucket in use: some element.
SPop(a, k) ==
    /\ \/ RejectedOrEmpty("spop", a, k, {"Set"}, "authw")
       \/ /\ GrantedNonEmpty(a, k, {"Set"}, "authw")
          /\ \E e \in Content(h[k].val) : Change(k, Content(h[k].val) \ {e})
          /\ Answer("spop", a, "data", {k})
    /\ Quiet

SErase(a, k, e) ==
    /\ \/ RejectedOrEmpty("serase", a, k, {"Set"}, "authw")
       \/ /\ GrantedNonEmpty(a, k, {"Set"}, "authw")
          /\ \/ e \notin Content(h[k].val) /\ Refuse("serase", a, "noelem")
             \/ /\ e \in Content(h[k].val)
                /\ Change(k, Content(h[k].val) \ {e})
                /\ Answer("serase", a, "ok", {})
    /\ Quiet

\* sort does not ask whether the value is empty: split then leaves its array
\* pointer unset and delete[] of it is undefined: the empty text is sent, as
\* here, or the process dies, which is the step Restart below.
Sort(a, k) ==
    /\ \/ Rejected("sort", a, k, {"List", "Set"}, "authr")
       \/ /\ Granted(a, k, {"List", "Set"}, "authr")
          /\ Answer("sort", a, "data", {k})
          /\ UNCHANGED h
    /\ Quiet

-----------------------------------------------------------------------------
(* Hashmaps                                                                *)

Fields(k) == DOMAIN Content(h[k].val)

\* Hashmap::set_fv
HPush(a, k, f, w) ==
    /\ \/ Rejected("hpush", a, k, {"Hashmap"}, "authw")
       \/ /\ Granted(a, k, {"Hashmap"}, "authw")
          /\ Change(k, [x \in Fields(k) \union {f} |->
                           IF x = f THEN w ELSE Content(h[k].val)[x]])
          /\ Answer("hpush", a, "ok", {})
    /\ Quiet

\* hget takes the value "NULL" for a missing field.
HGet(a, k, f) ==
    /\ \/ RejectedOrEmpty("hget", a, k, {"Hashmap"}, "authr")
       \/ /\ GrantedNonEmpty(a, k, {"Hashmap"}, "authr")
          /\ LET missing == f \notin Fields(k) \/ Content(h[k].val)[f] = NullWord
             IN  Answer("hget", a, IF missing THEN "nofield" ELSE "data", {k})
          /\ UNCHANGED h
    /\ Quiet

\* hfields and hvals
HList(cmd, a, k) ==
    /\ \/ RejectedOrEmpty(cmd, a, k, {"Hashmap"}, "authr")
       \/ /\ GrantedNonEmpty(a, k, {"Hashmap"}, "authr")
          /\ Answer(cmd, a, "data", {k})
          /\ UNCHANGED h
    /\ Quiet

HErase(a, k, f) ==
    /\ \/ RejectedOrEmpty("herase", a, k, {"Hashmap"}, "authw")
       \/ /\ GrantedNonEmpty(a, k, {"Hashmap"}, "authw")
          /\ \/ f \notin Fields(k) /\ Refuse("herase", a, "nofield")
             \/ /\ f \in Fields(k)
                /\ Change(k, [x \in Fields(k) \ {f} |-> Content(h[k].val)[x]])
                /\ Answer("herase", a, "ok", {})
    /\ Quiet

-----------------------------------------------------------------------------
(* Authority and time to live                                              *)

\* authr and authw: neither asks whether the key has expired.
SetAuth(cmd, a, k, x) ==
    /\ \/ h[k] = NULL /\ Refuse(cmd, a, "nokey")
       \/ h[k] # NULL /\ BadAuth(x) /\ Refuse(cmd, a, "badarg")
       \/ /\ h[k] # NULL /\ ~BadAuth(x)
          /\ a < x \/ a < h[k].authw
          /\ Refuse(cmd, a, "perm")
       \/ /\ h[k] # NULL /\ ~BadAuth(x)
          /\ a >= x /\ a >= h[k].authw
          /\ h' = [h EXCEPT ![k] = IF cmd = "authr" THEN SetAuthr(@, x) ELSE SetAuthw(@, x)]
          /\ Answer(cmd, a, "ok", {})
    /\ Quiet

Authr(a, k, x) == SetAuth("authr", a, k, x)
Authw(a, k, x) == SetAuth("authw", a, k, x)

\* expire looks at its time first; -1 makes the key permanent again, any other
\* negative time expires it at once.
Expire(a, k, t) ==
    /\ \/ t = NotInt /\ Refuse("expire", a, "badarg")
       \/ t # NotInt /\ Rejected("expire", a, k, Dtypes, "authw")
       \/ /\ t # NotInt /\ Granted(a, k, Dtypes, "authw")
          /\ h' = [h EXCEPT ![k].ttl = t, ![k].timer = now]
          /\ Answer("expire", a, "ok", {})
    /\ Quiet

\* kv::get_ttl, which also marks a key it finds expired.
Ttl(a, k) ==
    /\ \/ Rejected("ttl", a, k, Dtypes, "authr")
       \/ /\ Granted(a, k, Dtypes, "authr")
          /\ LET n == h[k]
                 stale == n.ttl # -1 /\ IsExpired(n)
             IN  /\ h' = [h EXCEPT ![k].finished = @ \/ stale]
                 /\ reply' = [cmd |-> "ttl", auth |-> a, msg |-> "data", shown |-> {k},
                              num |-> IF n.ttl = -1 THEN -1
                                      ELSE IF stale THEN 0
                                      ELSE n.ttl - (now - n.timer)]
    /\ Quiet

-----------------------------------------------------------------------------
(* The snapshot                                                            *)

LineOf(n) == <<n.authw, n.authr, Printed(n.val)>>

\* Mutant: expired keys are not written.
SnapshotLive == [k \in Keys |-> IF Live(k) THEN LineOf(h[k]) ELSE NULL]

Snapshot == [k \in Keys |-> IF h[k] = NULL THEN NULL ELSE LineOf(h[k])]

\* save asks for no authority and writes expired keys too; times to live are
\* not part of a line.
Save(a) ==
    /\ snap' = Snapshot
    /\ Answer("save", a, "ok", {})
    /\ UNCHANGED <<h, now>>

\* The file cannot be opened.
SaveFails(a) == Refuse("save", a, "nofile") /\ Quiet

\* The auto_save thread, every 120 seconds.
AutoSave ==
    /\ snap' = Snapshot
    /\ Answer("auto_save", 0, "none", {})
    /\ UNCHANGED <<h, now>>

\* read PASSWORD: each line of the file becomes a set.  Keys the file does not
\* hold stay, and so does the time to live of a node that is still there.
Read(a) ==
    /\ snap # NoFile
    /\ h' = [k \in Keys |->
               IF snap[k] = NULL THEN h[k]
               ELSE SetNode(h[k], Parsed(snap[k][3]), snap[k][2], snap[k][1])]
    /\ Answer("read", a, "ok", {})
    /\ Quiet

\* No file, a password that is no number, or a wrong one, under which the first
\* line decrypts to text that is no line.
ReadFails(a) == Refuse("read", a, "badread") /\ Quiet

-----------------------------------------------------------------------------
(* The world                                                               *)

Tick ==
    /\ now < MaxClock
    /\ now' = now + 1
    /\ Answer("tick", 0, "none", {})
    /\ UNCHANGED <<h, snap>>

\* The process ends, at a signal or in a handler that is undefined, and setup
\* starts a new one with an empty table; the file is still there.
Restart ==
    /\ h' = [k \in Keys |-> NULL]
    /\ Answer("restart", 0, "none", {})
    /\ Quiet

Init ==
    /\ h = [k \in Keys |-> NULL]
    /\ now = 0
    /\ snap = NoFile
    /\ reply = [cmd |-> "restart", auth |-> 0, msg |-> "none", shown |-> {}, num |-> 0]

StringCommand(a, k) ==
    \/ Get(a, k) \/ Del(a, k)
    \/ \E s \in StringArgs :
         \/ Make3(a, k, s)
         \/ \E x \in AuthArgs : Make4(a, k, s, x)
         \/ \E x, y \in AuthArgs : Make5(a, k, s, x, y)

ListCommand(a, k) ==
    \/ LPop(a, k) \/ RPop(a, k)
    \/ \E w \in ListArgs :
         MakeOf("lmake", "List", a, k, w) \/ LPush(a, k, w) \/ RPush(a, k, w)
    \/ \E i \in IndexArgs :
         LGet(a, k, i) \/ LErase(a, k, i) \/ \E w \in WordArgs : LSet(a, k, i, w)

SetCommand(a, k) ==
    \/ SPop(a, k) \/ Sort(a, k)
    \/ \E w \in ListArgs : MakeOf("smake", "Set", a, k, w) \/ SPush(a, k, w)
    \/ \E e \in WordArgs : SErase(a, k, e)

HashmapCommand(a, k) ==
    \/ HList("hfields", a, k) \/ HList("hvals", a, k)
    \/ \E w \in ListArgs : MakeOf("hmake", "Hashmap", a, k, w)
    \/ \E f \in WordArgs :
         HGet(a, k, f) \/ HErase(a, k, f) \/ \E w \in WordArgs : HPush(a, k, f, w)

KeyCommand(a, k) ==
    \/ Ttl(a, k)
    \/ \E x \in AuthArgs : Authr(a, k, x) \/ Authw(a, k, x)
    \/ \E t \in TimeArgs : Expire(a, k, t)

StoreCommand(a) ==
    KeysCmd(a) \/ Save(a) \/ SaveFails(a) \/ Read(a) \/ ReadFails(a)

Next ==
    \/ \E a \in AuthLevels, k \in Keys :
         \/ StringCommand(a, k) \/ ListCommand(a, k) \/ SetCommand(a, k)
         \/ HashmapCommand(a, k) \/ KeyCommand(a, k)
    \/ \E a \in AuthLevels : StoreCommand(a)
    \/ AutoSave \/ Tick \/ Restart

Spec == Init /\ [][Next]_vars

\* The clock runs, and auto_save's own thread saves again and again as long as
\* the file can be opened.
FairSpec == Spec /\ WF_vars(Tick) /\ WF_vars(AutoSave)

-----------------------------------------------------------------------------
(* Properties                                                              *)

\* No node and no line of the file asks more of a reader than of a writer:
\* kv::set_authr and kv::set_authw drag the other authority along, make refuses
\* the opposite order, and read gets the two columns back in the order save
\* wrote them.  The pops rely on it: they show data after checking authw only.
AuthOrdered ==
    /\ \A k \in Keys : h[k] # NULL => h[k].authr <= h[k].authw
    /\ snap # NoFile => \A k \in Keys : snap[k] # NULL => snap[k][2] <= snap[k][1]

\* Nothing of a key, its name in keys and its time to live included, is sent to
\* a client below the read authority the key had when the command began.
ShownToReadersOnly ==
    \A k \in reply'.shown : h[k] # NULL /\ reply'.auth >= h[k].authr
Disclosure == [][ShownToReadersOnly]_vars

\* No command but keys answers from a key whose time to live is over, whatever
\* make, read or authr did to the node since (is_expired in every handler).
AnswersAreFresh == reply'.cmd # "keys" => \A k \in reply'.shown : Live(k)
FreshReads == [][AnswersAreFresh]_vars

\* A node changes at the hand of a client that its write authority admits, is
\* collected once expired, or is overwritten by read or lost with the process.
ChangedByWritersOnly ==
    \A k \in Keys : h'[k] # h[k] =>
        \/ reply'.cmd \in {"read", "restart"}
        \/ h[k] = NULL
        \/ reply'.auth >= h[k].authw
        \/ h'[k] = NULL /\ IsExpired(h[k])
WriteProtected == [][ChangedByWritersOnly]_vars

\* A client that changed a key may change it again: make, authr and authw refuse
\* authorities above the client's own, also where set_authr raises authw.
ChangerMayChangeAgain ==
    \A k \in Keys : h'[k] # h[k] /\ h'[k] # NULL =>
        reply'.cmd = "read" \/ reply'.auth >= h'[k].authw
NoLockout == [][ChangerMayChangeAgain]_vars

\* A command that answers with an error has changed nothing but an expired key.
ErrorIsHarmless ==
    reply'.msg \notin {"ok", "data", "none"} =>
        /\ \A k \in Keys : h'[k] # h[k] => h'[k] = NULL /\ IsExpired(h[k])
        /\ snap' = snap
ErrorsChangeNothing == [][ErrorIsHarmless]_vars

\* After read every key of the file has exactly the authorities of its line, on
\* a new node and on one that set_authr and set_authw had to adjust, and the
\* keys the file does not hold are untouched.
RestoredAsSaved ==
    reply'.cmd = "read" /\ reply'.msg = "ok" =>
        \A k \in Keys :
            IF snap[k] = NULL THEN h'[k] = h[k]
            ELSE <<h'[k].authw, h'[k].authr>> = <<snap[k][1], snap[k][2]>>
RestoreExact == [][RestoredAsSaved]_vars

\* ttl answers -1 or a number of seconds that are still to come, for negative and
\* zero times too (the test against -1 in get_ttl and is_expired).
TtlReply == reply.cmd = "ttl" /\ reply.msg = "data" => reply.num = -1 \/ reply.num >= 1

\* A key that stays in the table gets into the file, as auto_save goes on.
EventuallySaved ==
    \A k \in Keys : h[k] # NULL ~> h[k] = NULL \/ (snap # NoFile /\ snap[k] # NULL)

\* What README.md says of the snapshot: the value a line restores is the value
\* that was saved.
RestoreKeepsValue ==
    [][snap' # snap => \A k \in Keys : h[k] # NULL => Parsed(snap'[k][3]) = h[k].val]_vars

=============================================================================
