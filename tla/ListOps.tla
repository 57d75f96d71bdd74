------------------------------ MODULE ListOps ------------------------------
(***************************************************************************)
(* Commands on lists, as far as the lists themselves (Persist.tla) and     *)
(* the sequences they implement (Lists.tla) have them in common.           *)
(***************************************************************************)
EXTENDS Integers, Sequences, SequencesExt

CONSTANTS
    Clients,
    Keys,
    Vals,         \* elements that clients push
    Work,         \* commands each client may send
    MaxCommands,  \* bound: commands per client
    InitList,     \* the list of each key at first
    NULL

Pushes == {"lpush", "rpush"}
Pops == {"lpop", "rpop"}
Commands == [op : Pushes \union Pops \union {"lerase"}, key : Keys, val : Vals, i : Int]
Plain(msg) == [msg |-> msg, val |-> NULL]

\* List::at takes an index modulo the length, backwards from the head if it is negative:
\* as the modulo of TLA+ does.
Index(s, i) == (i % Len(s)) + 1

ASSUME WorkAssumption ==
    /\ MaxCommands \in [Clients -> Nat] /\ Work \in [Clients -> SUBSET Commands]
    /\ InitList \in [Keys -> Seq(Vals)]
    /\ NULL \notin Clients /\ NULL \notin Keys /\ NULL \notin Commands /\ NULL \notin Seq(Vals)
=============================================================================
