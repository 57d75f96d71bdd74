------------------------------- MODULE Cluster -------------------------------
(***************************************************************************)
(* Several servers made into a cluster.  muse-cluster (cluster.cpp; the    *)
(* last part of muse-dist, distribute.cpp, does the same) tells one server *)
(* after the other which slots it owns (myinfo) and which server owns the  *)
(* other ones (clust), while clients are already at work.  A command whose *)
(* key hashes to a slot of another server is sent on to it, over the one   *)
(* socket there is for that server, by the thread that serves the command; *)
(* it answers with the next bytes that come back (scan_and_send).          *)
(*                                                                         *)
(* A socket is a stream: recv may return several commands, or answers, at  *)
(* once.  Of several commands only the first is seen, as the text behind   *)
(* its authority (char(8)) is ignored.  What a command does to the table of*)
(* its server is Command's business; an answer here says which command it  *)
(* belongs to and which server gave it.                                    *)
(***************************************************************************)
EXTENDS Integers, Sequences

CONSTANTS
    N,            \* servers in the configuration file
    Total,        \* TOTAL_SLOT_NUM
    Clients,
    Home,         \* the server each client is connected to
    Named,        \* slots of the keys that clients name
    MaxCommands   \* bound: commands per client

Nodes == 0..(N - 1)
Slots == 0..(Total - 1)

ASSUME SizeAssumption == N \in Nat \ {0} /\ Total \in Nat \ {0}
ASSUME ClientsAssumption == /\ Home \in [Clients -> Nodes]
                            /\ Named \subseteq Slots
                            /\ MaxCommands \in Nat

VARIABLES
    start, end,  \* start_num and end_num of each server's table
    peers,       \* cluster_vec, slot_start and slot_end of each server
    tell,        \* the builder: server <<i>> is to be told about server <<j>>
    half,        \* the server has set its start_num but not yet its end_num
    th,          \* the thread of each client's command
    out,         \* commands on the socket from one server to another
    back,        \* answers on the same socket
    work,        \* commands that a server has received from another one
    again,       \* commands that would have to be sent on a second time
    fault        \* a command for which cluster_vec was read behind its end

vars == <<start, end, peers, tell, half, th, out, back, work, again, fault>>

Sockets == Nodes \X Nodes
Commands == [of : Clients \X (1..MaxCommands), slot : Named]
Answers == [of : Clients \X (1..MaxCommands), by : Nodes]
Threads == [pc : {"idle", "here", "route", "wait"}, n : 0..MaxCommands,
            slot : Slots, to : Nodes, safe : BOOLEAN, ans : Seq(Answers)]
Peers == [to : Nodes, lo : Int, hi : Int]

TypeOK ==
    /\ start \in [Nodes -> Int] /\ end \in [Nodes -> Int]
    /\ peers \in [Nodes -> Seq(Peers)]
    /\ tell \in (0..N) \X Nodes
    /\ half \in BOOLEAN
    /\ th \in [Clients -> Threads]
    /\ out \in [Sockets -> Seq(Commands)]
    /\ back \in [Sockets -> Seq(Answers)]
    /\ work \subseteq [cmd : Commands, via : Sockets]
    /\ again \subseteq Commands
    /\ fault \in BOOLEAN

-----------------------------------------------------------------------------
(* Which slots the builder gives to server k                               *)

EachSlot == Total \div N

Lo(k) == EachSlot * k

\* Mutant: the slots left over by the division go to nobody.
HiEven(k) == EachSlot * (k + 1) - 1

Hi(k) == IF k = N - 1 THEN Total - 1 ELSE EachSlot * (k + 1) - 1

Owns(k, s) == Lo(k) <= s /\ s <= Hi(k)

-----------------------------------------------------------------------------
(* The builder: server by server, message by message, waiting for each     *)
(* answer                                                                  *)

Built == tell[1] = N

\* Mutant: the inner loop runs once too often.
NextTellLate == tell' = IF tell[2] < N THEN <<tell[1], tell[2] + 1>> ELSE <<tell[1] + 1, 0>>

NextTell == tell' = IF tell[2] + 1 < N THEN <<tell[1], tell[2] + 1>> ELSE <<tell[1] + 1, 0>>

\* hash_reset, set_boundary: the server is told of itself.
SetStart ==
    /\ ~Built /\ ~half /\ tell[1] = tell[2]
    /\ start' = [start EXCEPT ![tell[1]] = Lo(tell[1])]
    /\ half' = TRUE
    /\ UNCHANGED <<end, peers, tell, th, out, back, work, again, fault>>

\* Mutant: set_boundary leaves end_num alone.
SetEndNot ==
    /\ half
    /\ half' = FALSE
    /\ NextTell
    /\ UNCHANGED <<start, end, peers, th, out, back, work, again, fault>>

SetEnd ==
    /\ half
    /\ end' = [end EXCEPT ![tell[1]] = Hi(tell[1])]
    /\ half' = FALSE
    /\ NextTell
    /\ UNCHANGED <<start, peers, th, out, back, work, again, fault>>

\* Mutant: the server takes its own slots for those of the other one.
ConnectOwn ==
    /\ ~Built /\ tell[1] # tell[2]
    /\ LET j == tell[2] IN
       peers' = [peers EXCEPT ![tell[1]] = Append(@, [to |-> j, lo |-> start[tell[1]], hi |-> end[tell[1]]])]
    /\ NextTell
    /\ UNCHANGED <<start, end, half, th, out, back, work, again, fault>>

\* cluster_connect: the servers are running, so that the connection succeeds.  The
\* entry counts (cluster_num) before its range is there: Route has this case.
Connect ==
    /\ ~Built /\ tell[1] # tell[2]
    /\ LET j == tell[2] IN
       peers' = [peers EXCEPT ![tell[1]] = Append(@, [to |-> j, lo |-> Lo(j), hi |-> Hi(j)])]
    /\ NextTell
    /\ UNCHANGED <<start, end, half, th, out, back, work, again, fault>>

-----------------------------------------------------------------------------
(* The thread of a client's command, at the client's server                *)

Command(c) == [of |-> <<c, th[c].n>>, slot |-> th[c].slot]

\* History: safe says that the cluster was complete when the command came.
Call(c) ==
    /\ th[c].pc = "idle" /\ th[c].n < MaxCommands
    /\ \E s \in Named :
         th' = [th EXCEPT ![c].pc = "here", ![c].n = @ + 1, ![c].slot = s,
                          ![c].safe = Built, ![c].ans = <<>>]
    /\ UNCHANGED <<start, end, peers, tell, half, out, back, work, again, fault>>

\* Mutant: a slot at the end of the range is sent on.
MineBelow(i, s) == start[i] <= s /\ s < end[i]

\* COMMAND::execute: the slot is in the range of server i.  (The two bounds are read
\* one after the other; both may come from before, or after, they are set.)
Mine(i, s) == start[i] <= s /\ s <= end[i]

Reply(c, ans) == th' = [th EXCEPT ![c].pc = "idle", ![c].to = 0, ![c].ans = ans]

Execute(c) ==
    /\ th[c].pc = "here"
    /\ IF Mine(Home[c], th[c].slot)
       THEN Reply(c, <<[of |-> <<c, th[c].n>>, by |-> Home[c]]>>)
       ELSE th' = [th EXCEPT ![c].pc = "route"]
    /\ UNCHANGED <<start, end, peers, tell, half, out, back, work, again, fault>>

\* The entries of server i's table for slot s; the first one counts.
Entries(i, s) == {x \in DOMAIN peers[i] : peers[i][x].lo <= s /\ s <= peers[i][x].hi}
First(i, s) == CHOOSE x \in Entries(i, s) : \A y \in Entries(i, s) : x <= y

\* cluster_connect of server i is filling cluster_vec, slot_start and slot_end.
Filling(i) == ~Built /\ tell[1] = i /\ tell[2] # i

\* A search that meets an entry without a range, or vectors that are being moved,
\* may end anywhere, and so may one that finds nothing.
Route(c) ==
    LET i == Home[c]
        s == th[c].slot
    IN  /\ th[c].pc = "route"
        /\ \/ /\ Entries(i, s) = {} \/ Filling(i)
              /\ fault' = TRUE
              /\ UNCHANGED <<th, out>>
           \/ /\ Entries(i, s) # {}
              /\ LET j == peers[i][First(i, s)].to IN
                 /\ out' = [out EXCEPT ![<<i, j>>] = Append(@, Command(c))]
                 /\ th' = [th EXCEPT ![c].pc = "wait", ![c].to = j]
              /\ UNCHANGED fault
        /\ UNCHANGED <<start, end, peers, tell, half, back, work, again>>

\* recv: the first answers that have come back on the socket, whosever they are.
Take(c) ==
    LET via == <<Home[c], th[c].to>> IN
    /\ th[c].pc = "wait"
    /\ \E k \in 1..Len(back[via]) :
         /\ Reply(c, SubSeq(back[via], 1, k))
         /\ back' = [back EXCEPT ![via] = SubSeq(@, k + 1, Len(@))]
    /\ UNCHANGED <<start, end, peers, tell, half, out, work, again, fault>>

-----------------------------------------------------------------------------
(* The other end of the socket: server_task, and a thread for each text    *)
(* that it receives                                                        *)

Receive(i, j) ==
    /\ \E k \in 1..Len(out[<<i, j>>]) :
         /\ work' = work \union {[cmd |-> Head(out[<<i, j>>]), via |-> <<i, j>>]}
         /\ out' = [out EXCEPT ![<<i, j>>] = SubSeq(@, k + 1, Len(@))]
    /\ UNCHANGED <<start, end, peers, tell, half, th, back, again, fault>>

\* Mutant: the thread ends without an answer, as it does for special commands.
ServeMute(w) ==
    /\ work' = work \ {w}
    /\ UNCHANGED <<start, end, peers, tell, half, th, out, back, again, fault>>

\* The threads of a server end in any order.  A command whose slot is not in the
\* range of this server either would be sent on again.
Serve(w) ==
    /\ work' = work \ {w}
    /\ IF Mine(w.via[2], w.cmd.slot)
       THEN /\ back' = [back EXCEPT ![w.via] = Append(@, [of |-> w.cmd.of, by |-> w.via[2]])]
            /\ UNCHANGED again
       ELSE again' = again \union {w.cmd} /\ UNCHANGED back
    /\ UNCHANGED <<start, end, peers, tell, half, th, out, fault>>

-----------------------------------------------------------------------------

Init ==
    /\ start = [i \in Nodes |-> 0]
    /\ end = [i \in Nodes |-> Total - 1]
    /\ peers = [i \in Nodes |-> <<>>]
    /\ tell = <<0, 0>>
    /\ half = FALSE
    /\ th = [c \in Clients |-> [pc |-> "idle", n |-> 0, slot |-> 0, to |-> 0,
                                safe |-> FALSE, ans |-> <<>>]]
    /\ out = [x \in Sockets |-> <<>>]
    /\ back = [x \in Sockets |-> <<>>]
    /\ work = {}
    /\ again = {}
    /\ fault = FALSE

Build == ~fault /\ (SetStart \/ SetEnd \/ Connect)
Run(c) == ~fault /\ (Execute(c) \/ Route(c) \/ Take(c))
Server(i, j) == ~fault /\ (Receive(i, j) \/ \E w \in work : w.via = <<i, j>> /\ Serve(w))

\* Every client has had its answers, or the process is gone.
Over ==
    /\ fault \/ (Built /\ \A c \in Clients : th[c].pc = "idle" /\ th[c].n = MaxCommands)
    /\ UNCHANGED vars

Next ==
    \/ Build
    \/ \E c \in Clients : (~fault /\ Call(c)) \/ Run(c)
    \/ \E i, j \in Nodes : Server(i, j)
    \/ Over

Spec == Init /\ [][Next]_vars

\* The builder goes on, and the threads of all servers run.
FairSpec ==
    /\ Spec
    /\ WF_vars(Build)
    /\ \A c \in Clients : WF_vars(Run(c))
    /\ \A i, j \in Nodes : WF_vars(Server(i, j))

-----------------------------------------------------------------------------
(* Properties                                                              *)

\* Once the cluster is complete every slot has one owner, which is the first one
\* that the other servers find for it (the search in scan_and_send).
Partitioned ==
    Built => \A s \in Slots : \E k \in Nodes :
        \A i \in Nodes : IF i = k THEN Mine(i, s)
                         ELSE ~Mine(i, s) /\ Entries(i, s) # {} /\ peers[i][First(i, s)].to = k

\* A command is sent on at most once, also while the cluster is being built: the
\* server it is sent to takes it, so that no two threads wait for each other in a
\* circle.
OneHop == again = {}

\* Where each server has one client, a client is answered what its own command was
\* answered, and by the owner of the slot if the cluster was complete.
OwnAnswer ==
    \A c \in Clients : th[c].pc = "idle" /\ th[c].n > 0 =>
        \E k \in Nodes : /\ th[c].ans = <<[of |-> <<c, th[c].n>>, by |-> k]>>
                         /\ th[c].safe => Owns(k, th[c].slot)

\* No command that comes when the cluster is complete reads cluster_vec behind its
\* end (those that come earlier may: a server knows its own slots before it knows
\* the servers told later, and its threads search the vectors while they grow).
Reachable == [][fault' = fault \/ \E c \in Clients : th[c].pc = "route" /\ ~th[c].safe]_vars

\* Every command is answered, unless one came too early.
Answered == \A c \in Clients : th[c].pc # "idle" ~> th[c].pc = "idle" \/ fault

=============================================================================
