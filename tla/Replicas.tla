------------------------------ MODULE Replicas ------------------------------
(***************************************************************************)
(* Servers that are replicas of each other, and the log that each of them  *)
(* keeps.  muse-replica (replica.cpp; the first part of muse-dist,         *)
(* distribute.cpp, does the same) tells one server after the other how     *)
(* many replicas there are and which ones the others are; the server       *)
(* connects to each and greets it with replicaaccept.  From then on each   *)
(* server sends every write of its clients to all the others, and appends  *)
(* every write that it serves to its log.                                  *)
(*                                                                         *)
(* A command is served by a thread of its own (scan_and_send), which       *)
(* starts a thread for the log and one per replica, and answers; none of   *)
(* them waits for another.  A socket is a stream: recv may return several  *)
(* texts at once, which are then one command.  What stands for the writes  *)
(* is make with a read authority (four words) and del (two); keys and      *)
(* values are no numbers.  That an auto_send_each thread waits for an      *)
(* answer, which it only prints, is left out.                              *)
(***************************************************************************)
EXTENDS Integers, Sequences, FiniteSets, SequencesExt

CONSTANTS
    N,           \* servers
    Sizes,       \* how many of them the configuration file may name
    Clients,
    Home,        \* the server each client is connected to
    Level,       \* authority of each client
    Keys,
    Writes,      \* the commands that each client may send
    MaxCalls,    \* bound: commands of all clients, for each size
    MaxEarly,    \* bound: those sent before the replicas have been set up, for each size
    MaxRoute,    \* bound: servers that a text is passed through
    NULL

Nodes == 0..(N - 1)
Pairs == {p \in Nodes \X Nodes : p[1] # p[2]}

ASSUME SizeAssumption ==
    /\ N \in Nat /\ Sizes \subseteq 1..N
    /\ MaxCalls \in [Sizes -> Nat] /\ MaxEarly \in [Sizes -> Nat]
    /\ MaxRoute \in Nat \ {0, 1}    \* a client's command gets to the replicas of its server
ASSUME ClientsAssumption ==
    /\ Home \in [Clients -> Nodes] /\ \A c \in Clients, n \in Sizes : Home[c] < n
    /\ Level \in [Clients -> Nat] /\ Clients \intersect Nodes = {} /\ NULL \notin Seq(Nodes)
    /\ Writes \in [Clients -> SUBSET [op : {"make", "del"}, key : Keys, r : Nat]]

VARIABLES
    size,      \* replicanumber in the configuration file
    tell,      \* the builder: <<i, x, c>>, server i gets message x, c: and has connected
    socks,     \* replica_sock of each server, NULL while replica_num is 0
    quiet,     \* connections whose auto_send_yes is false
    th,        \* each client: idle, waiting or gone
    calls,     \* history: the commands sent, by whom, and whether all replicas had accepted
    mixed,     \* history: some command was sent before that, or while another was under way
    out,       \* what the servers have sent to each other
    work,      \* scan_and_send threads
    sends,     \* auto_send_each threads
    logging,   \* log_append threads, one for each write that a server has done
    log,       \* the log file of each server
    tab,       \* the table of each server
    closed,    \* the connection records that were freed: of builders (by server), of clients
    fault,     \* what ended the run
    done       \* history: the commands each server served, in this order

vars == <<size, tell, socks, quiet, th, calls, mixed, out, work, sends, logging, log, tab, closed,
          fault, done>>

Members == 0..(size - 1)

-----------------------------------------------------------------------------
(* Texts.  A route lists the servers that a text was sent through; its     *)
(* last one has it, and the one before that is the other end of the socket *)
(* it came by.  A first one alone has it from a client.                    *)

Accept == [of |-> 0, op |-> "replicaaccept", key |-> NULL, r |-> 0]
Forms == {"make", "del", "replicaaccept", "refused", "garbled"}
Command == [of : Nat, op : Forms, key : Keys \union {NULL}, r : Nat]
Text == [cmd : Command, route : Seq(Nodes)]
Issued == [by : Clients, cmd : Command, safe : BOOLEAN]
Line == [cmd : Command, auth : Nat]      \* of the log
Entry == [val : Nat, r : Nat, w : Nat]

At(route) == route[Len(route)]
FromClient(route) == Len(route) = 1
Via(route) == <<route[Len(route) - 1], route[Len(route)]>>

TypeOK ==
    /\ size \in Sizes
    /\ tell \in (0..N) \X (0..N) \X BOOLEAN
    /\ socks \in [Nodes -> Seq(Nodes) \union {NULL}]
    /\ quiet \subseteq Pairs
    /\ th \in [Clients -> {"idle", "wait", "gone"}]
    /\ calls \in Seq(Issued)
    /\ mixed \in BOOLEAN
    /\ out \in [Pairs -> Seq(Text)]
    /\ work \subseteq Text
    /\ sends \subseteq [text : Text, x : 1..(N - 1)]
    /\ logging \subseteq [line : Line, route : Seq(Nodes), nth : Nat]
    /\ log \in [Nodes -> Seq(Line)] /\ done \in [Nodes -> Seq(Line)]
    /\ tab \in [Nodes -> [Keys -> Entry \union {NULL}]]
    /\ closed \subseteq Nodes \union Clients
    /\ fault \in {"none", "socket", "freed"}

Words == [make |-> 4, del |-> 2, replicaaccept |-> 1]

WordsOf(texts) == FoldLeft(LAMBDA n, t : n + Words[t.cmd.op] - 1, 1, texts)

\* The command that several texts make when recv returns them at once, as their last and
\* first words run together.  If it has as many words as a write of its name, it is one
\* (command_type), which the handler refuses: there is no such authority or key.
Merged(texts) ==
    LET first == Head(texts)
        isWrite == \/ first.cmd.op = "make" /\ WordsOf(texts) \in 3..5
                   \/ first.cmd.op = "del" /\ WordsOf(texts) = 2
    IN  IF Len(texts) = 1 THEN first
        ELSE [first EXCEPT !.cmd.op = IF isWrite THEN "refused" ELSE "garbled"]

-----------------------------------------------------------------------------
(* What a command does to a table                                          *)

Admits(t, cmd, auth) ==
    \/ /\ cmd.op = "make"
       /\ t[cmd.key] # NULL => auth >= t[cmd.key].w
       /\ auth >= cmd.r
    \/ /\ cmd.op = "del"
       /\ t[cmd.key] # NULL
       /\ auth >= t[cmd.key].w

Execute(t, cmd, auth) ==
    IF ~Admits(t, cmd, auth) THEN t
    ELSE CASE cmd.op = "make" -> [t EXCEPT ![cmd.key] = [val |-> cmd.of, r |-> cmd.r, w |-> auth]]
           [] cmd.op = "del" -> [t EXCEPT ![cmd.key] = NULL]

EmptyTable == [k \in Keys |-> NULL]

\* Executes a line after the other, each with its authority: what muse-restore does to an
\* empty server with a log whose lines are readable.
Replay(lines) ==
    LET t[n \in 0..Len(lines)] ==
          IF n = 0 THEN EmptyTable ELSE Execute(t[n - 1], lines[n].cmd, lines[n].auth)
    IN  t[Len(lines)]

-----------------------------------------------------------------------------
(* The builder goes from server to server and from message to message, and *)
(* waits for each answer.  Message 0 is replicanumber, message j + 1 is    *)
(* the address of server j.                                                *)

Built == tell[1] = size

\* Mutant: one message too many for each server.
FollowingPast(t) ==
    LET x == IF t[2] = t[1] THEN t[2] + 2 ELSE t[2] + 1
    IN  IF x <= size + 1 THEN <<t[1], x, FALSE>> ELSE <<t[1] + 1, 0, FALSE>>

\* Server i is not told of itself.
Following(t) ==
    LET x == IF t[2] = t[1] THEN t[2] + 2 ELSE t[2] + 1
    IN  IF x <= size THEN <<t[1], x, FALSE>> ELSE <<t[1] + 1, 0, FALSE>>

\* The last message to a server is followed by quit, on which server_task frees the
\* record of the builder's connection.
Proceed ==
    /\ tell' = Following(tell)
    /\ closed' = IF Following(tell)[1] # tell[1] THEN closed \union {tell[1]} ELSE closed

\* set_replica_num
SetNumber ==
    /\ ~Built /\ tell[2] = 0
    /\ socks' = [socks EXCEPT ![tell[1]] = <<>>]
    /\ Proceed
    /\ UNCHANGED <<size, quiet, th, calls, mixed, out, work, sends, logging, log, tab, fault, done>>

\* replica_add: the servers are running, so that the connection succeeds ...
AddReplica ==
    /\ ~Built /\ tell[2] # 0 /\ ~tell[3]
    /\ socks' = [socks EXCEPT ![tell[1]] = Append(@, tell[2] - 1)]
    /\ tell' = <<tell[1], tell[2], TRUE>>
    /\ UNCHANGED <<size, quiet, th, calls, mixed, out, work, sends, logging, log, tab, closed, fault, done>>

\* ... and the greeting is not answered.
Greet ==
    /\ ~Built /\ tell[3]
    /\ LET p == <<tell[1], tell[2] - 1>> IN
       out' = [out EXCEPT ![p] = Append(@, [cmd |-> Accept, route |-> p])]
    /\ Proceed
    /\ UNCHANGED <<size, socks, quiet, th, calls, mixed, work, sends, logging, log, tab, fault, done>>

-----------------------------------------------------------------------------
(* Clients                                                                 *)

\* Every replica has been greeted by every other and knows what that means.
Ready == Built /\ \A p \in Pairs \cap (Members \X Members) : p \in quiet

UnderWay == work # {} \/ sends # {} \/ logging # {} \/ \E p \in Pairs : out[p] # <<>>

Early == {n \in DOMAIN calls : ~calls[n].safe}

\* The client's connection brings one text at a time, as the client waits.
Call(c) ==
    /\ th[c] = "idle"
    /\ Len(calls) < MaxCalls[size]
    /\ Ready \/ Cardinality(Early) < MaxEarly[size]
    /\ \E m \in Writes[c] :
         LET cmd == [of |-> Len(calls) + 1, op |-> m.op, key |-> m.key, r |-> m.r] IN
         /\ work' = work \union {[cmd |-> cmd, route |-> <<Home[c]>>]}
         /\ calls' = Append(calls, [by |-> c, cmd |-> cmd, safe |-> Ready])
    /\ th' = [th EXCEPT ![c] = "wait"]
    /\ mixed' = (mixed \/ ~Ready \/ UnderWay)
    /\ UNCHANGED <<size, tell, socks, quiet, out, sends, logging, log, tab, closed, fault, done>>

\* Mutant: server_task frees the record when its client has gone.
LeaveFrees(c) ==
    /\ th[c] = "idle" /\ (Len(calls) = MaxCalls[size] \/ ~Ready)
    /\ th' = [th EXCEPT ![c] = "gone"]
    /\ closed' = closed \union {c}
    /\ UNCHANGED <<size, tell, socks, quiet, calls, mixed, out, work, sends, logging, log, tab, fault, done>>

\* task_client ends without telling the server; server_task then ends on its recv and
\* keeps the record of the connection.
Leave(c) ==
    /\ th[c] = "idle" /\ (Len(calls) = MaxCalls[size] \/ ~Ready)
    /\ th' = [th EXCEPT ![c] = "gone"]
    /\ UNCHANGED <<size, tell, socks, quiet, calls, mixed, out, work, sends, logging, log, tab, closed,
                   fault, done>>

-----------------------------------------------------------------------------
(* scan_and_send                                                           *)

\* server_task of a replica: what recv returns becomes one command.
Receive(p) ==
    /\ \E k \in 1..Len(out[p]) :
         /\ work' = work \union {Merged(SubSeq(out[p], 1, k))}
         /\ out' = [out EXCEPT ![p] = SubSeq(@, k + 1, Len(@))]
    /\ UNCHANGED <<size, tell, socks, quiet, th, calls, mixed, sends, logging, log, tab, closed, fault, done>>

\* replica_accept
Obey(text) ==
    /\ text.cmd.op = "replicaaccept"
    /\ quiet' = quiet \union {Via(text.route)}
    /\ work' = work \ {text}
    /\ UNCHANGED <<size, tell, socks, th, calls, mixed, out, sends, logging, log, tab, closed, fault, done>>

\* What the client said of itself, or the authority that the connection of a server has.
AuthOf(text) == IF FromClient(text.route) THEN Level[calls[text.cmd.of].by] ELSE 0

\* Mutant: del is forgotten among the writes.
IsWriteNotDel(text) == text.cmd.op \in {"make", "refused"}

\* command_type
IsWrite(text) == text.cmd.op # "garbled"

\* Mutant: the connection is not asked.
SendsOnAlways(route) == socks[At(route)] # NULL

\* The connection's auto_send_yes, and replica_num
SendsOn(route) ==
    /\ FromClient(route) \/ Via(route) \notin quiet
    /\ socks[At(route)] # NULL

\* Mutant: the loop ends one too early.
SendersOfFewer(text) ==
    IF SendsOn(text.route) /\ Len(text.route) < MaxRoute
    THEN {[text |-> text, x |-> x] : x \in 1..(size - 2)}
    ELSE {}

\* auto_send: one thread for each entry of replica_sock
SendersOf(text) ==
    IF SendsOn(text.route) /\ Len(text.route) < MaxRoute
    THEN {[text |-> text, x |-> x] : x \in 1..(size - 1)}
    ELSE {}

\* The command is executed, the threads for the log and for the replicas are started, and
\* the client is answered.  (What the thread does between two of these is its own.)
Serve(text) ==
    LET i == At(text.route)
        line == [cmd |-> text.cmd, auth |-> AuthOf(text)]
    IN  /\ text.cmd.op # "replicaaccept"
        /\ tab' = [tab EXCEPT ![i] = Execute(@, line.cmd, line.auth)]
        /\ IF IsWrite(text)
           THEN /\ done' = [done EXCEPT ![i] = Append(@, line)]
                /\ logging' = logging \union
                     {[line |-> line, route |-> text.route, nth |-> Len(done[i]) + 1]}
                /\ sends' = sends \union SendersOf(text)
           ELSE UNCHANGED <<done, logging, sends>>
        /\ th' = IF FromClient(text.route) THEN [th EXCEPT ![calls[text.cmd.of].by] = "idle"] ELSE th
        /\ work' = work \ {text}
        /\ UNCHANGED <<size, tell, socks, quiet, calls, mixed, out, log, closed, fault>>

-----------------------------------------------------------------------------
(* auto_send_each, log_append                                              *)

\* The command goes out as the client sent it, without the client's authority.  Where
\* there is no socket yet, what happens to be in replica_sock is taken for one.
Send(s) ==
    LET i == At(s.text.route) IN
    /\ sends' = sends \ {s}
    /\ \/ /\ s.x <= Len(socks[i])
          /\ LET j == socks[i][s.x] IN
             out' = [out EXCEPT ![<<i, j>>] = Append(@, [s.text EXCEPT !.route = Append(@, j)])]
          /\ UNCHANGED fault
       \/ /\ s.x > Len(socks[i])
          /\ fault' = "socket"
          /\ UNCHANGED out
    /\ UNCHANGED <<size, tell, socks, quiet, th, calls, mixed, work, logging, log, tab, closed, done>>

\* Mutant: the line has no authority.
LogAppendBare(l) ==
    /\ logging' = logging \ {l}
    /\ log' = [log EXCEPT ![At(l.route)] = Append(@, [l.line EXCEPT !.auth = 0])]
    /\ UNCHANGED <<size, tell, socks, quiet, th, calls, mixed, out, work, sends, tab, closed, fault, done>>

\* The thread reads ss->auth before it writes the line under log_mutex.
LogAppend(l) ==
    /\ logging' = logging \ {l}
    /\ IF FromClient(l.route) /\ calls[l.line.cmd.of].by \in closed
       THEN fault' = "freed" /\ UNCHANGED log
       ELSE log' = [log EXCEPT ![At(l.route)] = Append(@, l.line)] /\ UNCHANGED fault
    /\ UNCHANGED <<size, tell, socks, quiet, th, calls, mixed, out, work, sends, tab, closed, done>>

-----------------------------------------------------------------------------

Init ==
    /\ size \in Sizes
    /\ tell = <<0, 0, FALSE>>
    /\ socks = [i \in Nodes |-> NULL]
    /\ quiet = {}
    /\ th = [c \in Clients |-> "idle"]
    /\ calls = <<>> /\ mixed = FALSE
    /\ out = [p \in Pairs |-> <<>>]
    /\ work = {} /\ sends = {} /\ logging = {}
    /\ log = [i \in Nodes |-> <<>>] /\ done = [i \in Nodes |-> <<>>]
    /\ tab = [i \in Nodes |-> EmptyTable]
    /\ closed = {}
    /\ fault = "none"

Running == fault = "none"
Build == Running /\ (SetNumber \/ AddReplica \/ Greet)
Client(c) == Running /\ (Call(c) \/ Leave(c))
Socket(p) == Running /\ Receive(p)
Threads(i) ==
    /\ Running
    /\ \/ \E text \in work : At(text.route) = i /\ (Obey(text) \/ Serve(text))
       \/ \E s \in sends : At(s.text.route) = i /\ Send(s)
       \/ \E l \in logging : At(l.route) = i /\ LogAppend(l)

\* The servers only wait for more.
Settled == Built /\ ~UnderWay
Over == (~Running \/ (Settled /\ \A c \in Clients : th[c] = "gone")) /\ UNCHANGED vars

Next ==
    \/ Build
    \/ \E c \in Clients : Client(c)
    \/ \E p \in Pairs : Socket(p)
    \/ \E i \in Nodes : Threads(i)
    \/ Over

Spec == Init /\ [][Next]_vars

\* The builder goes on, and so do the threads of all servers.
FairSpec ==
    /\ Spec
    /\ WF_vars(Build)
    /\ \A p \in Pairs : WF_vars(Socket(p))
    /\ \A i \in Nodes : WF_vars(Threads(i))

-----------------------------------------------------------------------------
(* Properties                                                              *)

\* A server serves a command that was sent once the replicas had accepted at most once,
\* whatever else is going on: replicas do not pass it on to each other (replica_accept).
ExecutedOnce ==
    \A i \in Members, n \in DOMAIN calls \ Early :
        Cardinality({x \in DOMAIN done[i] : done[i][x].cmd.of = n}) <= 1

\* If each command was sent when the one before had reached all replicas, then every
\* server has executed all of them in the order in which they were sent: with the
\* client's authority at the server that the client is connected to, with none elsewhere.
SeenBy(i) ==
    [n \in DOMAIN calls |->
        [cmd |-> calls[n].cmd, auth |-> IF Home[calls[n].by] = i THEN Level[calls[n].by] ELSE 0]]
Converged == Settled /\ ~mixed => \A i \in Members : tab[i] = Replay(SeenBy(i))

Occurs(lines, l) == Cardinality({x \in DOMAIN lines : lines[x] = l})

\* When no thread is left, the log of a server holds the writes it has served, each once
\* and with the authority it was executed with, and rebuilds the table if they came one
\* by one (log_append).
LogFollows ==
    Settled =>
        \A i \in Members :
            /\ \A l \in Range(log[i]) \union Range(done[i]) :
                 Occurs(log[i], l) = Occurs(done[i], l)
            /\ ~mixed => Replay(log[i]) = tab[i]

\* No thread uses the record of a connection that was freed, and only a command sent
\* before the replicas were set up meets an array without its sockets.
SoundMemory == fault # "freed" /\ (fault = "socket" => Early # {})

\* A write that is sent alone reaches every server and every log.
Has(lines, n) == \E x \in DOMAIN lines : lines[x].cmd.of = n
Everywhere(n) == \A i \in Members : Has(done[i], n) /\ Has(log[i], n)
Calls == 1..Max(Range(MaxCalls))
Spread == \A n \in Calls : (n \in DOMAIN calls) ~> (Everywhere(n) \/ mixed)

=============================================================================
