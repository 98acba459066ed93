--------------------------- MODULE MultiroomGroup ---------------------------
(***************************************************************************)
(* Grouping of instances for multiroom playback: the sync service in       *)
(* src/crates/sync/src/lib.rs.                                             *)
(*                                                                         *)
(* Each instance runs one main loop that owns its role and takes commands  *)
(* and events one at a time, and one task for every connection it dials or *)
(* accepts.  A leader dials a follower; the follower's accept task answers *)
(* the hello unless the instance is busy, tells its main loop and watches  *)
(* the connection; the leader's dial task tells the leader's main loop and *)
(* watches the connection from the other end.  Tasks and main loops talk   *)
(* through the event queues only.                                          *)
(***************************************************************************)
EXTENDS Integers, FiniteSets, Sequences

CONSTANTS
  Node,        \* the instances
  NoConn,      \* no connection
  MaxConn,     \* bound: connections ever dialled
  MaxFaults    \* bound: crashes of instances and connections lost

ASSUME GroupAssumption == MaxConn \in Nat /\ NoConn \notin Nat

Conn == 1..MaxConn

VARIABLES
  role,            \* role of an instance
  followers,       \* handles of a leader: follower |-> connection
  via,             \* connection of a follower to its leader
  busy,            \* flag read by the accept tasks
  followerActive,  \* flag read by the command handler
  teeActive,       \* flag read by the playback thread
  events,          \* event queue of the main loop, capacity 64 in the code
  ends,            \* the two ends of a dialled connection
  open,            \* a connection that neither side closed and no one lost
  dialer,          \* task of add_to_group
  acceptor,        \* task of accept_leader
  hasty,           \* history: who was added to whose group while a dial to it was under way
  faults           \* crashes and losses so far

flags == <<busy, followerActive, teeActive>>
loop  == <<role, followers, via, flags>>
dials == <<ends, hasty>>
tasks == <<dials, open, dialer, acceptor>>
vars  == <<loop, events, tasks, faults>>

Dialled  == DOMAIN ends
Leader(c)   == ends[c].leader
Follower(c) == ends[c].follower

\* FollowerConnected and LeaderHello carry the connection, FollowerGone the id
\* of the peer, LeaderGone nothing.
Event ==
  [type : {"FollowerConnected", "LeaderHello"}, conn : Conn]
    \cup [type : {"FollowerGone"}, id : Node] \cup [type : {"LeaderGone"}]

TypeOK ==
  /\ role \in [Node -> {"Idle", "Leader", "Follower"}]
  /\ DOMAIN followers = Node
  /\ \A n \in Node : /\ DOMAIN followers[n] \subseteq Node
                     /\ \A f \in DOMAIN followers[n] : followers[n][f] \in Dialled
  /\ via \in [Node -> Dialled \cup {NoConn}]
  /\ busy \in [Node -> BOOLEAN] /\ followerActive \in [Node -> BOOLEAN]
  /\ teeActive \in [Node -> BOOLEAN]
  /\ events \in [Node -> Seq(Event)]
  /\ Dialled = 1..Cardinality(Dialled) /\ Dialled \subseteq Conn
  /\ ends \in [Dialled -> [leader : Node, follower : Node]]
  /\ open \in [Dialled -> BOOLEAN]
  /\ dialer \in [Dialled -> {"Dialing", "Reading", "Done"}]
  /\ acceptor \in [Dialled -> {"Waiting", "Acked", "Grouped", "Done"}]
  /\ hasty \subseteq Node \X Node

Init ==
  /\ role = [n \in Node |-> "Idle"]
  /\ followers = [n \in Node |-> <<>>]
  /\ via = [n \in Node |-> NoConn]
  /\ busy = [n \in Node |-> FALSE] /\ followerActive = busy /\ teeActive = busy
  /\ events = [n \in Node |-> <<>>]
  /\ ends = <<>> /\ open = <<>> /\ dialer = <<>> /\ acceptor = <<>>
  /\ hasty = {} /\ faults = 0

-----------------------------------------------------------------------------
(* The connection tasks.                                                   *)

Send(n, e) == events' = [events EXCEPT ![n] = Append(@, e)]
Close(cs)  == open' = [c \in Dialled |-> open[c] /\ c \notin cs]

\* accept_leader: a busy instance closes the connection, another one answers.
Accept(c) ==
  /\ dialer[c] = "Dialing" /\ open[c] /\ acceptor[c] = "Waiting"
  /\ IF busy[Follower(c)]
     THEN Close({c}) /\ acceptor' = [acceptor EXCEPT ![c] = "Done"]
     ELSE acceptor' = [acceptor EXCEPT ![c] = "Acked"] /\ UNCHANGED open
  /\ UNCHANGED <<loop, events, dials, dialer, faults>>

AnnounceLeader(c) ==
  /\ acceptor[c] = "Acked"
  /\ acceptor' = [acceptor EXCEPT ![c] = "Grouped"]
  /\ Send(Follower(c), [type |-> "LeaderHello", conn |-> c])
  /\ UNCHANGED <<loop, dials, open, dialer, faults>>

\* The connection died before the answer could be written.
AckFails(c) ==
  /\ acceptor[c] = "Acked" /\ ~open[c]
  /\ acceptor' = [acceptor EXCEPT ![c] = "Done"]
  /\ UNCHANGED <<loop, events, dials, open, dialer, faults>>

\* run_grouped_follower has returned.
LeaderEnds(c) ==
  /\ acceptor[c] = "Grouped" /\ ~open[c]
  /\ acceptor' = [acceptor EXCEPT ![c] = "Done"]
  /\ Send(Follower(c), [type |-> "LeaderGone"])
  /\ UNCHANGED <<loop, dials, open, dialer, faults>>

\* The answer arrived in time.
Connected(c) ==
  /\ dialer[c] = "Dialing" /\ acceptor[c] \in {"Acked", "Grouped"}
  /\ dialer' = [dialer EXCEPT ![c] = "Reading"]
  /\ Send(Leader(c), [type |-> "FollowerConnected", conn |-> c])
  /\ UNCHANGED <<loop, dials, open, acceptor, faults>>

\* The dial was refused, or its 12 seconds are over: the connection is dropped.
DialFails(c) ==
  /\ dialer[c] = "Dialing"
  /\ dialer' = [dialer EXCEPT ![c] = "Done"]
  /\ Close({c})
  /\ UNCHANGED <<loop, events, dials, acceptor, faults>>

\* The read loop of the dial task ends with the connection.
FollowerEnds(c) ==
  /\ dialer[c] = "Reading" /\ ~open[c]
  /\ dialer' = [dialer EXCEPT ![c] = "Done"]
  /\ Send(Leader(c), [type |-> "FollowerGone", id |-> Follower(c)])
  /\ UNCHANGED <<loop, dials, open, acceptor, faults>>

-----------------------------------------------------------------------------
(* The main loop: commands.                                                *)

Handles(n) == {followers[n][f] : f \in DOMAIN followers[n]}

\* A dial of n to f whose end has not reached the main loop of n.
UnderWay(n, f) ==
  \/ \E c \in Dialled : ends[c] = [leader |-> n, follower |-> f] /\ dialer[c] = "Dialing"
  \/ \E i \in DOMAIN events[n] : /\ events[n][i].type = "FollowerConnected"
                                 /\ Follower(events[n][i].conn) = f

\* The user interface does not wait for a dial to be over, and two browsers may add
\* the same room.
AddToGroup(n, f) ==
  /\ hasty' = IF UnderWay(n, f) THEN hasty \cup {<<n, f>>} ELSE hasty
  /\ Cardinality(Dialled) < MaxConn
  /\ role[n] # "Follower" /\ f \notin DOMAIN followers[n]
  /\ LET c == Cardinality(Dialled) + 1
         with(tab, v) == [d \in Dialled \cup {c} |-> IF d = c THEN v ELSE tab[d]]
     IN /\ ends'     = with(ends, [leader |-> n, follower |-> f])
        /\ open'     = with(open, TRUE)
        /\ dialer'   = with(dialer, "Dialing")
        /\ acceptor' = with(acceptor, "Waiting")
  /\ UNCHANGED <<loop, events, faults>>

\* remove_from_group of a follower the leader has a handle for.
Remove(n, f) ==
  /\ Close({followers[n][f]})
  /\ followers' = [followers EXCEPT ![n] = [g \in DOMAIN @ \ {f} |-> @[g]]]
  /\ IF DOMAIN followers[n] = {f}
     THEN /\ role' = [role EXCEPT ![n] = "Idle"]
          /\ busy' = [busy EXCEPT ![n] = FALSE]
          /\ teeActive' = [teeActive EXCEPT ![n] = FALSE]
     ELSE UNCHANGED <<role, busy, teeActive>>
  /\ UNCHANGED <<via, followerActive>>

RemoveFromGroup(n, f) ==
  /\ f \in DOMAIN followers[n]
  /\ Remove(n, f)
  /\ UNCHANGED <<events, dials, dialer, acceptor, faults>>

\* leave_group.
Leave(n) ==
  /\ Close(Handles(n) \cup {via[n]})
  /\ role' = [role EXCEPT ![n] = "Idle"]
  /\ followers' = [followers EXCEPT ![n] = <<>>]
  /\ via' = [via EXCEPT ![n] = NoConn]
  /\ busy' = [busy EXCEPT ![n] = FALSE]
  /\ followerActive' = [followerActive EXCEPT ![n] = FALSE]
  /\ teeActive' = [teeActive EXCEPT ![n] = FALSE]

LeaveGroup(n) ==
  /\ Leave(n)
  /\ UNCHANGED <<events, dials, dialer, acceptor, faults>>

-----------------------------------------------------------------------------
(* The main loop: events.                                                  *)

\* on_follower_connected.
OnFollowerConnected(n, c) ==
  IF role[n] = "Follower"
  THEN Close({c}) /\ UNCHANGED loop
  ELSE /\ followers' = [followers EXCEPT ![n] =
                          [f \in DOMAIN @ \cup {Follower(c)} |->
                             IF f = Follower(c) THEN c ELSE @[f]]]
       /\ role' = [role EXCEPT ![n] = "Leader"]
       /\ busy' = [busy EXCEPT ![n] = TRUE]
       /\ teeActive' = [teeActive EXCEPT ![n] = TRUE]
       /\ UNCHANGED <<via, followerActive, open>>

\* Mutant: whoever says hello last is the leader.
LastHelloWins(n, c) ==
  /\ role' = [role EXCEPT ![n] = "Follower"]
  /\ via' = [via EXCEPT ![n] = c]
  /\ busy' = [busy EXCEPT ![n] = TRUE]
  /\ followerActive' = [followerActive EXCEPT ![n] = TRUE]
  /\ UNCHANGED <<followers, teeActive, open>>

\* Mutant: a second leader is turned down without closing its connection.
HelloIgnored(n, c) ==
  IF role[n] # "Idle"
  THEN UNCHANGED <<loop, open>>
  ELSE /\ role' = [role EXCEPT ![n] = "Follower"]
       /\ via' = [via EXCEPT ![n] = c]
       /\ busy' = [busy EXCEPT ![n] = TRUE]
       /\ followerActive' = [followerActive EXCEPT ![n] = TRUE]
       /\ UNCHANGED <<followers, teeActive, open>>

\* on_leader_hello.
OnLeaderHello(n, c) ==
  IF role[n] # "Idle"
  THEN Close({c}) /\ UNCHANGED loop
  ELSE /\ role' = [role EXCEPT ![n] = "Follower"]
       /\ via' = [via EXCEPT ![n] = c]
       /\ busy' = [busy EXCEPT ![n] = TRUE]
       /\ followerActive' = [followerActive EXCEPT ![n] = TRUE]
       /\ UNCHANGED <<followers, teeActive, open>>

OnFollowerGone(n, f) ==
  IF f \in DOMAIN followers[n] THEN Remove(n, f) ELSE UNCHANGED <<loop, open>>

\* Mutant: a leader that is gone is only logged.
LeaderGoneIgnored(n) == UNCHANGED <<loop, open>>

OnLeaderGone(n) ==
  IF role[n] = "Follower" THEN Leave(n) ELSE UNCHANGED <<loop, open>>

\* handle_event.
HandleEvent(n) ==
  /\ events[n] # <<>>
  /\ LET e == Head(events[n])
     IN CASE e.type = "FollowerConnected" -> OnFollowerConnected(n, e.conn)
          [] e.type = "FollowerGone"      -> OnFollowerGone(n, e.id)
          [] e.type = "LeaderHello"       -> OnLeaderHello(n, e.conn)
          [] e.type = "LeaderGone"        -> OnLeaderGone(n)
  /\ events' = [events EXCEPT ![n] = Tail(@)]
  /\ UNCHANGED <<dials, dialer, acceptor, faults>>

-----------------------------------------------------------------------------
(* What the network and the machines do.                                   *)

\* The keep-alive of a connection times out at both ends.
Loss(c) ==
  /\ open[c] /\ faults < MaxFaults
  /\ faults' = faults + 1
  /\ Close({c})
  /\ UNCHANGED <<loop, events, dials, dialer, acceptor>>

\* An instance dies and starts again: its role, its tasks and its events are
\* lost, its peers find the connections dead.
Crash(n) ==
  /\ faults < MaxFaults
  /\ faults' = faults + 1
  /\ role' = [role EXCEPT ![n] = "Idle"]
  /\ followers' = [followers EXCEPT ![n] = <<>>]
  /\ via' = [via EXCEPT ![n] = NoConn]
  /\ busy' = [busy EXCEPT ![n] = FALSE]
  /\ followerActive' = [followerActive EXCEPT ![n] = FALSE]
  /\ teeActive' = [teeActive EXCEPT ![n] = FALSE]
  /\ events' = [events EXCEPT ![n] = <<>>]
  /\ Close({c \in Dialled : n \in {Leader(c), Follower(c)}})
  /\ dialer' = [c \in Dialled |-> IF Leader(c) = n THEN "Done" ELSE dialer[c]]
  /\ acceptor' = [c \in Dialled |-> IF Follower(c) = n THEN "Done" ELSE acceptor[c]]
  /\ UNCHANGED dials

TaskStep(c) ==
  \/ Accept(c) \/ AnnounceLeader(c) \/ AckFails(c) \/ LeaderEnds(c)
  \/ Connected(c) \/ DialFails(c) \/ FollowerEnds(c)

Next ==
  \/ \E c \in Dialled : TaskStep(c) \/ Loss(c)
  \/ \E n \in Node : HandleEvent(n) \/ LeaveGroup(n) \/ Crash(n)
  \/ \E n \in Node : \E f \in Node \ {n} : AddToGroup(n, f) \/ RemoveFromGroup(n, f)

\* The runtime polls every task and the main loop; commands and failures come
\* or do not come.
Fairness ==
  /\ \A n \in Node : WF_vars(HandleEvent(n))
  /\ \A c \in Conn : WF_vars(c \in Dialled /\ TaskStep(c))

Spec     == Init /\ [][Next]_vars
FairSpec == Spec /\ Fairness

-----------------------------------------------------------------------------
(* Properties.                                                             *)

\* What the other threads read agrees with the role in every state: an idle
\* instance accepts a leader and its own transport commands, a follower
\* neither, and audio is teed while there are followers and only then.
FlagsMatchRole ==
  \A n \in Node :
    /\ busy[n] <=> role[n] # "Idle"
    /\ followerActive[n] <=> role[n] = "Follower"
    /\ teeActive[n] <=> role[n] = "Leader"
    /\ DOMAIN followers[n] # {} <=> role[n] = "Leader"
    /\ via[n] # NoConn <=> role[n] = "Follower"

\* Nothing is under way: no event is queued, no task has a step to take.
Settled ==
  /\ \A n \in Node : events[n] = <<>>
  /\ \A c \in Dialled : /\ dialer[c] # "Dialing" /\ acceptor[c] # "Acked"
                        /\ ~open[c] => dialer[c] = "Done" /\ acceptor[c] # "Grouped"

\* Once things have settled leader and follower agree on who is grouped with
\* whom, over a connection that is up: no leader streams to an instance that plays
\* on its own, and no follower is left locked to a leader that forgot it.  The
\* second fails when a room is added again while it is dialled: the follower turns
\* the second connection down, and its end takes away the handle that replaced the
\* first one's.
Agreement ==
  Settled =>
    \A l, f \in Node :
      /\ f \in DOMAIN followers[l] =>
           via[f] = followers[l][f] /\ ends[via[f]] = [leader |-> l, follower |-> f] /\ open[via[f]]
      /\ via[f] # NoConn /\ Leader(via[f]) = l => f \in DOMAIN followers[l] \/ <<l, f>> \in hasty

\* The rooms are what every instance takes them for.
RoomsAgree == FlagsMatchRole /\ Agreement

\* A connection whose hello can still reach the main loop is not over yet.
Pending(c) ==
  \/ acceptor[c] \in {"Waiting", "Acked"}
  \/ \E n \in Node : \E i \in DOMAIN events[n] :
       events[n][i] = [type |-> "LeaderHello", conn |-> c]

Lease == INSTANCE GroupLease WITH
  holder <- via,
  over   <- {c \in Dialled : ~Pending(c) /\ \A n \in Node : via[n] # c}

\* Grouping keeps the promise of GroupLease ("a follower accepts a single
\* leader connection", lib.rs:6-7): on_leader_hello takes a leader only when
\* idle, and no connection is taken twice, whatever the tasks are up to.
ImplementsLease == Lease!Spec

\* Every dead connection is let go at both ends ("every path converges on
\* connection died -> revert to Idle", multiroom_architecture.md).
DeathReverts ==
  \A c \in Conn :
    (c \in Dialled /\ ~open[c]) ~> \A n \in Node : via[n] # c /\ c \notin Handles(n)

=============================================================================
