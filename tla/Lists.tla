------------------------------- MODULE Lists -------------------------------
(***************************************************************************)
(* What the commands on lists promise to clients that use them at the same *)
(* time: each takes effect at one moment between its call and its answer.  *)
(* Persist.tla has the pointers that are supposed to keep the promise.     *)
(***************************************************************************)
EXTENDS ListOps

VARIABLES
    seq,   \* the list of each key, NULL where there is no such key
    sent,  \* number of commands each client has sent
    todo,  \* the command of a client that has not taken effect yet
    told   \* the answer of the last command that took effect

listVars == <<seq, sent, todo, told>>

-----------------------------------------------------------------------------

CallList(c) ==
    /\ todo[c] = NULL /\ sent[c] < MaxCommands[c]
    /\ \E m \in Work[c] : todo' = [todo EXCEPT ![c] = m]
    /\ sent' = [sent EXCEPT ![c] = @ + 1]
    /\ told' = [told EXCEPT ![c] = Plain("none")]
    /\ UNCHANGED seq

Tell(c, ans) ==
    /\ told' = [told EXCEPT ![c] = ans]
    /\ todo' = [todo EXCEPT ![c] = NULL]
    /\ UNCHANGED sent

Put(k, s) == seq' = [seq EXCEPT ![k] = s]

\* Below, s is the list of the key of c's command m.
Push(c, m, s) ==
    /\ m.op \in Pushes
    /\ Put(m.key, IF m.op = "lpush" THEN <<m.val>> \o s ELSE Append(s, m.val))
    /\ Tell(c, Plain("ok"))

Pop(c, m, s) ==
    /\ m.op \in Pops /\ s # <<>>
    /\ Put(m.key, IF m.op = "lpop" THEN Tail(s) ELSE Front(s))
    /\ Tell(c, [msg |-> "data", val |-> IF m.op = "lpop" THEN Head(s) ELSE Last(s)])

Erase(c, m, s) ==
    /\ m.op = "lerase" /\ s # <<>>
    /\ Put(m.key, RemoveAt(s, Index(s, m.i)))
    /\ Tell(c, Plain("ok"))

\* The two answers to a command that finds nothing to take: an error, or what the command
\* answers otherwise, which for pop is the text of no element.
Nothing(c, m, s) ==
    /\ m.op \notin Pushes /\ s = <<>>
    /\ \/ Tell(c, Plain("empty"))
       \/ Tell(c, Plain(IF m.op = "lerase" THEN "ok" ELSE "blank"))
    /\ UNCHANGED seq

Act(c) ==
    /\ todo[c] # NULL
    /\ LET m == todo[c]
           s == seq[m.key]
       IN  \/ s = NULL /\ Tell(c, Plain("nokey")) /\ UNCHANGED seq
           \/ s # NULL /\ (Push(c, m, s) \/ Pop(c, m, s) \/ Erase(c, m, s) \/ Nothing(c, m, s))

\* The server is started again, with no key; what is under way is not answered.
Restart ==
    /\ seq' = [k \in Keys |-> NULL]
    /\ todo' = [c \in Clients |-> NULL]
    /\ told' = [c \in Clients |-> Plain("none")]
    /\ UNCHANGED sent

\* The file is read: what it gives back is not said here.
Load ==
    /\ \A k \in Keys : seq[k] = NULL
    /\ \A c \in Clients : todo[c] = NULL
    /\ UNCHANGED <<sent, todo, told>>

InitLists ==
    /\ seq = InitList
    /\ sent = [c \in Clients |-> 0]
    /\ todo = [c \in Clients |-> NULL]
    /\ told = [c \in Clients |-> Plain("none")]

NextLists == \/ \E c \in Clients : CallList(c) \/ Act(c)
             \/ Restart
             \/ Load

SpecLists == InitLists /\ [][NextLists]_listVars
=============================================================================
