------------------------------- MODULE KvMap -------------------------------
(***************************************************************************)
(* What the key table promises to clients that use it at the same time:    *)
(* every command takes effect at one moment between its call and its       *)
(* answer, as if the handlers of command.cpp ran one after the other.      *)
(* HashTable.tla is the table that is supposed to keep the promise.        *)
(***************************************************************************)
EXTENDS KvOps

VARIABLES
    map,   \* the entry of each key
    sent,  \* number of commands each client has sent
    todo,  \* the command of a client that has not taken effect yet
    told   \* the answer of the last command that took effect

mapVars == <<map, sent, todo, told>>

Entry == [val : Ids, elems : SUBSET Ids, authr : Nat, authw : Nat, expired : BOOLEAN]

MapTypeOK ==
    /\ map \in [Keys -> Entry \union {NULL}]
    /\ sent \in [Clients -> 0..MaxCommands]
    /\ todo \in [Clients -> Commands \union {NULL}]
    /\ told \in [Clients -> Answers]

-----------------------------------------------------------------------------

Tell(c, msg) ==
    /\ told' = [told EXCEPT ![c] = Plain(msg)]
    /\ todo' = [todo EXCEPT ![c] = NULL]
    /\ UNCHANGED sent

Refused(c, msg) == Tell(c, msg) /\ UNCHANGED map

CallMap(c) ==
    /\ todo[c] = NULL
    /\ sent[c] < MaxCommands
    /\ \E m \in Work[c] : todo' = [todo EXCEPT ![c] = m]
    /\ sent' = [sent EXCEPT ![c] = @ + 1]
    /\ told' = [told EXCEPT ![c] = Plain("none")]
    /\ UNCHANGED map

\* Below, e is the entry of the key of c's command m.
Put(k, e) == map' = [map EXCEPT ![k] = e]

Needed(m, e) == IF m.op = "get" THEN e.authr ELSE e.authw

\* No such key, or an expired one, which is collected.
Absent(c, m, e) == m.op # "make" /\ e = NULL /\ Refused(c, "nokey")

Collect(c, m, e) ==
    /\ m.op \in AsksExpiry
    /\ e # NULL /\ e.expired
    /\ Put(m.key, NULL)
    /\ Tell(c, "nokey")

Usable(m, e) == e # NULL /\ (m.op \in AsksExpiry => ~e.expired)

Denied(c, m, e) ==
    Usable(m, e) /\ Level[c] < Needed(m, e) /\ Refused(c, "perm")

MayDo(c, op, m, e) == m.op = op /\ Usable(m, e) /\ Level[c] >= Needed(m, e)

GetMap(c, m, e) ==
    /\ MayDo(c, "get", m, e)
    /\ told' = [told EXCEPT ![c] = [msg |-> "data", val |-> e.val, elems |-> e.elems]]
    /\ todo' = [todo EXCEPT ![c] = NULL]
    /\ UNCHANGED <<map, sent>>

MakeMap(c, m, e) ==
    /\ MayDo(c, "make", m, e) \/ (m.op = "make" /\ e = NULL)
    /\ Put(m.key, [val |-> <<c, sent[c]>>, elems |-> {}, authr |-> m.r, authw |-> m.w,
                   expired |-> e # NULL /\ e.expired])
    /\ Tell(c, "ok")

DelMap(c, m, e) ==
    MayDo(c, "del", m, e) /\ Put(m.key, NULL) /\ Tell(c, "ok")

ExpireMap(c, m, e) ==
    MayDo(c, "expire", m, e) /\ Put(m.key, [e EXCEPT !.expired = TRUE]) /\ Tell(c, "ok")

AuthMap(c, m, e) ==
    /\ \/ MayDo(c, "authr", m, e) /\ Put(m.key, SetAuthr(e, m.r))
       \/ MayDo(c, "authw", m, e) /\ Put(m.key, SetAuthw(e, m.w))
    /\ Tell(c, "ok")

LPushMap(c, m, e) ==
    /\ MayDo(c, "lpush", m, e)
    /\ Put(m.key, [e EXCEPT !.elems = @ \union {<<c, sent[c]>>}])
    /\ Tell(c, "ok")

Take(c) ==
    /\ todo[c] # NULL
    /\ LET m == todo[c]
           e == map[m.key]
       IN  \/ Absent(c, m, e) \/ Collect(c, m, e) \/ Denied(c, m, e)
           \/ GetMap(c, m, e) \/ MakeMap(c, m, e) \/ DelMap(c, m, e)
           \/ ExpireMap(c, m, e) \/ AuthMap(c, m, e) \/ LPushMap(c, m, e)

InitMap ==
    /\ map = [k \in Keys |->
                IF k \in InitKeys
                THEN [val |-> <<k, 0>>, elems |-> {}, authr |-> 0,
                      authw |-> InitLevel, expired |-> FALSE]
                ELSE NULL]
    /\ sent = [c \in Clients |-> 0]
    /\ todo = [c \in Clients |-> NULL]
    /\ told = [c \in Clients |-> Plain("none")]

NextMap == \E c \in Clients : CallMap(c) \/ Take(c)

SpecMap == InitMap /\ [][NextMap]_mapVars
=============================================================================
