---------------------------- MODULE GroupProofs ----------------------------
(***************************************************************************)
(* Proofs about grouping for every set of instances and any number of      *)
(* connections and faults: flags and roles, the lease of a follower, and   *)
(* the agreement of leader and follower once things have settled.          *)
(***************************************************************************)
EXTENDS MultiroomGroup, FiniteSetTheorems, TLAPS

USE DEF dials

-----------------------------------------------------------------------------
(* The inductive invariant.                                                *)

Connection(c) == [type |-> "FollowerConnected", conn |-> c]
Hello(c)      == [type |-> "LeaderHello", conn |-> c]
Gone(f)       == [type |-> "FollowerGone", id |-> f]
LeaderLost    == [type |-> "LeaderGone"]

Queued(n, e) == \E i \in DOMAIN events[n] : events[n][i] = e

\* Behind every e in the queue of n there is a g.
Trailed(n, e, g) ==
  \A i \in DOMAIN events[n] :
    events[n][i] = e => \E j \in DOMAIN events[n] : i < j /\ events[n][j] = g

\* An e is queued once at most.
Once(n, e) ==
  \A i, j \in DOMAIN events[n] : events[n][i] = e /\ events[n][j] = e => i = j

\* Events go to the instance they concern.
Addressed(c) ==
  \A n \in Node :
    /\ Queued(n, Connection(c)) => c \in Dialled /\ Leader(c) = n
    /\ Queued(n, Hello(c))      => c \in Dialled /\ Follower(c) = n

\* The hello of a connection is told once, and handled once.
HelloOnce(c) ==
  \A n \in Node :
    /\ Once(n, Hello(c))
    /\ via[n] = c => Follower(c) = n
    /\ Queued(n, Hello(c)) \/ via[n] = c => acceptor[c] \in {"Grouped", "Done"}
    /\ Queued(n, Hello(c)) => via[n] # c

\* A task ends after its connection.
TasksOutlive(c) ==
  /\ open[c] => acceptor[c] # "Done" /\ dialer[c] # "Done"
  /\ dialer[c] = "Reading" => acceptor[c] # "Waiting"

\* What a leader keeps or will keep is a connection that is read, or that a
\* FollowerGone behind it takes away again.
HandleAlive(c) ==
  \A n \in Node : \A f \in DOMAIN followers[n] :
    followers[n][f] = c =>
      /\ ends[c] = [leader |-> n, follower |-> f]
      /\ dialer[c] = "Reading" \/ (dialer[c] = "Done" /\ Queued(n, Gone(f)))

ConnectionAlive(c) ==
  \A n \in Node :
    Queued(n, Connection(c)) =>
      \/ dialer[c] = "Reading"
      \/ (dialer[c] = "Done" /\ Trailed(n, Connection(c), Gone(Follower(c))))

\* The same for a follower.
LeaseAlive(c) ==
  \A n \in Node :
    via[n] = c =>
      acceptor[c] = "Grouped" \/ (acceptor[c] = "Done" /\ Queued(n, LeaderLost))

HelloAlive(c) ==
  \A n \in Node :
    Queued(n, Hello(c)) =>
      \/ acceptor[c] = "Grouped"
      \/ (acceptor[c] = "Done" /\ Trailed(n, Hello(c), LeaderLost))

\* A follower that was told of a leader follows it, will do so, or closes the connection.
GroupedFollows(c) ==
  acceptor[c] = "Grouped" /\ open[c] =>
    via[Follower(c)] = c \/ Queued(Follower(c), Hello(c))

\* Unless it was added again while it was dialled, a leader has one connection to a
\* follower, kept or under way, ...
Coming(c) == dialer[c] = "Dialing" \/ Queued(Leader(c), Connection(c))

OneDial(c) ==
  Coming(c) =>
    /\ Follower(c) \notin DOMAIN followers[Leader(c)]
    /\ dialer[c] = "Dialing" => ~Queued(Leader(c), Connection(c))
    /\ Once(Leader(c), Connection(c))
    /\ \A d \in Dialled : Coming(d) /\ ends[d] = ends[c] => d = c

\* ... and keeps what it reads.
ReadIsKept(c) ==
  dialer[c] = "Reading" /\ open[c] =>
    \/ /\ Follower(c) \in DOMAIN followers[Leader(c)]
       /\ followers[Leader(c)][Follower(c)] = c
    \/ Queued(Leader(c), Connection(c))

Alive(c)  == HandleAlive(c) /\ ConnectionAlive(c) /\ LeaseAlive(c) /\ HelloAlive(c)
Patient(c) == <<Leader(c), Follower(c)>> \notin hasty
Single(c) == Patient(c) => OneDial(c) /\ ReadIsKept(c)

IInv ==
  /\ TypeOK /\ FlagsMatchRole
  /\ \A c \in Conn : Addressed(c)
  /\ \A c \in Dialled : /\ HelloOnce(c) /\ TasksOutlive(c) /\ GroupedFollows(c)
                        /\ Alive(c) /\ Single(c)

-----------------------------------------------------------------------------
(* The events.                                                             *)

LEMMA EventFacts ==
  /\ LeaderLost \in Event /\ \A f \in Node : Gone(f) \in Event
  /\ \A c \in Conn : Connection(c) \in Event /\ Hello(c) \in Event
  /\ \A c, d : Connection(c) = Connection(d) \/ Hello(c) = Hello(d) => c = d
  /\ \A f, g : Gone(f) = Gone(g) => f = g
  /\ \A c, d : Connection(c) # Hello(d) /\ Connection(c) # Gone(d) /\ Hello(c) # Gone(d)
  /\ \A c : Connection(c) # LeaderLost /\ Hello(c) # LeaderLost /\ Gone(c) # LeaderLost
BY DEF Event, Connection, Hello, Gone, LeaderLost

\* What sending an event does to the queues.
LEMMA SendFacts ==
  ASSUME NEW n \in Node, NEW e \in Event, events \in [Node -> Seq(Event)], Send(n, e)
  PROVE  /\ events' \in [Node -> Seq(Event)]
         /\ \A m \in Node : \A x : Queued(m, x)' <=> Queued(m, x) \/ (m = n /\ x = e)
         /\ \A m \in Node : \A x :
              Once(m, x) /\ ~(m = n /\ x = e /\ Queued(m, x)) => Once(m, x)'
         /\ \A m \in Node : \A x, g :
              Trailed(m, x, g) /\ ~(m = n /\ x = e) => Trailed(m, x, g)'
         /\ \A x : x # e => Trailed(n, x, e)'
<1> DEFINE s == events[n]  k == Len(events[n])
<1>1. s \in Seq(Event) /\ k \in Nat /\ DOMAIN s = 1..k
  OBVIOUS
<1>2. events' = [events EXCEPT ![n] = Append(s, e)]
  BY DEF Send
<1>3. /\ events'[n] = Append(s, e) /\ DOMAIN events'[n] = 1..k + 1
      /\ events'[n][k + 1] = e /\ \A i \in 1..k : events'[n][i] = s[i]
  BY <1>1, <1>2
<1>4. \A m \in Node \ {n} : events'[m] = events[m]
  BY <1>2
<1>5. events' \in [Node -> Seq(Event)]
  BY <1>1, <1>2
<1>6. \A x : Queued(n, x)' <=> Queued(n, x) \/ x = e
  BY <1>1, <1>3 DEF Queued
<1>7. ASSUME NEW x, Once(n, x), x # e \/ ~Queued(n, x)
      PROVE  Once(n, x)'
  BY <1>1, <1>3, <1>7 DEF Once, Queued
<1>8. ASSUME NEW x, NEW g, Trailed(n, x, g), x # e
      PROVE  Trailed(n, x, g)'
  BY <1>1, <1>3, <1>8 DEF Trailed
<1>9. ASSUME NEW x, x # e
      PROVE  Trailed(n, x, e)'
  BY <1>1, <1>3, <1>9 DEF Trailed
<1>10. ASSUME NEW m \in Node, m # n
       PROVE  \A x, g : /\ Queued(m, x)' <=> Queued(m, x)
                        /\ Once(m, x) => Once(m, x)'
                        /\ Trailed(m, x, g) => Trailed(m, x, g)'
  BY <1>4, <1>10 DEF Queued, Once, Trailed
<1> HIDE DEF s, k
<1> QED BY <1>5, <1>6, <1>7, <1>8, <1>9, <1>10

\* What handling one does.
LEMMA TakeFacts ==
  ASSUME NEW n \in Node, NEW e, events \in [Node -> Seq(Event)],
         events[n] # <<>>, e = Head(events[n]), events' = [events EXCEPT ![n] = Tail(@)]
  PROVE  /\ e \in Event /\ Queued(n, e)
         /\ events' \in [Node -> Seq(Event)]
         /\ \A m \in Node : \A x : Queued(m, x)' => Queued(m, x)
         /\ \A m \in Node : \A x : Queued(m, x) => Queued(m, x)' \/ (m = n /\ x = e)
         /\ \A m \in Node : \A x : Once(m, x) => Once(m, x)'
         /\ Once(n, e) => ~Queued(n, e)'
         /\ \A m \in Node : \A x, g : Trailed(m, x, g) => Trailed(m, x, g)'
         /\ \A g : Trailed(n, e, g) => Queued(n, g)'
<1> DEFINE s == events[n]  k == Len(events[n])
<1>1. s \in Seq(Event) /\ k \in Nat \ {0} /\ DOMAIN s = 1..k /\ e = s[1] /\ e \in Event
  OBVIOUS
<1>2. /\ events'[n] = Tail(s) /\ DOMAIN events'[n] = 1..k - 1
      /\ \A i \in 1..k - 1 : events'[n][i] = s[i + 1]
  BY <1>1
<1>3. \A m \in Node \ {n} : events'[m] = events[m]
  OBVIOUS
<1>4. events' \in [Node -> Seq(Event)]
  BY <1>1
<1>5. \A i \in 2..k : i - 1 \in 1..k - 1 /\ events'[n][i - 1] = s[i]
  BY <1>1, <1>2
<1>6. Queued(n, e)
  BY <1>1 DEF Queued
<1>7. \A x : Queued(n, x)' => Queued(n, x)
  BY <1>1, <1>2 DEF Queued
<1>8. ASSUME NEW x, Queued(n, x), x # e
      PROVE  Queued(n, x)'
  <2>1. PICK i \in 1..k : s[i] = x
    BY <1>1, <1>8 DEF Queued
  <2>2. i \in 2..k
    BY <1>1, <1>8, <2>1
  <2> QED BY <1>2, <1>5, <2>1, <2>2 DEF Queued
<1>9. ASSUME NEW x, Once(n, x)
      PROVE  Once(n, x)'
  BY <1>1, <1>2, <1>9 DEF Once
<1>10. ASSUME Once(n, e)
       PROVE  ~Queued(n, e)'
  BY <1>1, <1>2, <1>10 DEF Once, Queued
<1>11. ASSUME NEW x, NEW g, Trailed(n, x, g)
       PROVE  Trailed(n, x, g)'
  <2> SUFFICES ASSUME NEW i \in 1..k - 1, events'[n][i] = x
               PROVE  \E j \in 1..k - 1 : i < j /\ events'[n][j] = g
    BY <1>2 DEF Trailed
  <2>1. PICK j \in 1..k : i + 1 < j /\ s[j] = g
    BY <1>1, <1>2, <1>11 DEF Trailed
  <2>2. i < j - 1 /\ j - 1 \in 1..k - 1 /\ events'[n][j - 1] = g
    BY <1>1, <1>5, <2>1
  <2> QED BY <2>2
<1>12. ASSUME NEW g, Trailed(n, e, g)
       PROVE  Queued(n, g)'
  <2>1. PICK j \in 1..k : 1 < j /\ s[j] = g
    BY <1>1, <1>12 DEF Trailed
  <2>2. j - 1 \in 1..k - 1 /\ events'[n][j - 1] = g
    BY <1>1, <1>5, <2>1
  <2> QED BY <1>2, <2>2 DEF Queued
<1>13. ASSUME NEW m \in Node, m # n
       PROVE  \A x, g : /\ Queued(m, x)' <=> Queued(m, x)
                        /\ Once(m, x) => Once(m, x)'
                        /\ Trailed(m, x, g) => Trailed(m, x, g)'
  BY <1>3, <1>13 DEF Queued, Once, Trailed
<1> HIDE DEF s, k
<1>14. \A m \in Node : \A x : Queued(m, x)' => Queued(m, x)
  BY <1>7, <1>13
<1>15. \A m \in Node : \A x : Queued(m, x) => Queued(m, x)' \/ (m = n /\ x = e)
  BY <1>8, <1>13
<1>16. \A m \in Node : \A x : Once(m, x) => Once(m, x)'
  BY <1>9, <1>13
<1>17. \A m \in Node : \A x, g : Trailed(m, x, g) => Trailed(m, x, g)'
  BY <1>11, <1>13
<1> QED BY <1>1, <1>4, <1>6, <1>10, <1>12, <1>14, <1>15, <1>16, <1>17

LEMMA KeepFacts ==
  ASSUME events' = events
  PROVE  \A n \in Node : \A x, g : /\ Queued(n, x)' <=> Queued(n, x)
                                   /\ Once(n, x)' <=> Once(n, x)
                                   /\ Trailed(n, x, g)' <=> Trailed(n, x, g)
BY DEF Queued, Once, Trailed

-----------------------------------------------------------------------------
(* The connection tasks.                                                   *)

LEMMA DialledFacts ==
  ASSUME TypeOK, NEW c \in Dialled
  PROVE  c \in Conn /\ c \in Nat /\ c # NoConn /\ Leader(c) \in Node /\ Follower(c) \in Node
BY GroupAssumption DEF TypeOK, Conn, Leader, Follower

LEMMA CloseFacts ==
  ASSUME TypeOK, NEW cs, Close(cs)
  PROVE  /\ open' \in [Dialled -> BOOLEAN]
         /\ \A c \in Dialled : open'[c] <=> open[c] /\ c \notin cs
BY DEF Close, TypeOK

\* What a connection task may do: it goes on, tells its main loop that the connection
\* is made, or ends with the connection and tells its main loop so.
AcceptorMoves(c) ==
  \/ acceptor'[c] = acceptor[c]
  \/ acceptor[c] = "Waiting" /\ acceptor'[c] = "Acked"
  \/ acceptor[c] = "Acked" /\ acceptor'[c] = "Grouped" /\ Queued(Follower(c), Hello(c))'
  \/ /\ acceptor'[c] = "Done" /\ ~open'[c]
     /\ acceptor[c] = "Grouped" => /\ Queued(Follower(c), LeaderLost)'
                                   /\ Trailed(Follower(c), Hello(c), LeaderLost)'

DialerMoves(c) ==
  \/ dialer'[c] = dialer[c]
  \/ /\ dialer[c] = "Dialing" /\ dialer'[c] = "Reading" /\ acceptor'[c] # "Waiting"
     /\ Queued(Leader(c), Connection(c))'
  \/ /\ dialer'[c] = "Done" /\ ~open'[c]
     /\ dialer[c] = "Reading" => /\ Queued(Leader(c), Gone(Follower(c)))'
                                 /\ Trailed(Leader(c), Connection(c), Gone(Follower(c)))'

\* Sent with the step of the task, and at no other time.
HelloSent(n, c) ==
  c \in Dialled /\ n = Follower(c) /\ acceptor[c] = "Acked" /\ acceptor'[c] = "Grouped"

ConnectionSent(n, c) ==
  c \in Dialled /\ n = Leader(c) /\ dialer[c] = "Dialing" /\ dialer'[c] = "Reading"

EventsMove ==
  \A n \in Node :
    /\ \A x : Queued(n, x) => Queued(n, x)'
    /\ \A c \in Conn :
         /\ Queued(n, Hello(c))' => Queued(n, Hello(c)) \/ HelloSent(n, c)
         /\ Queued(n, Connection(c))' => Queued(n, Connection(c)) \/ ConnectionSent(n, c)
         /\ Once(n, Hello(c)) /\ ~(Queued(n, Hello(c)) /\ HelloSent(n, c))
              => Once(n, Hello(c))'
         /\ Once(n, Connection(c)) /\ ~(Queued(n, Connection(c)) /\ ConnectionSent(n, c))
              => Once(n, Connection(c))'
         /\ \A g : /\ Trailed(n, Hello(c), g) /\ ~HelloSent(n, c) => Trailed(n, Hello(c), g)'
                   /\ Trailed(n, Connection(c), g) /\ ~ConnectionSent(n, c)
                        => Trailed(n, Connection(c), g)'

TaskMove ==
  /\ TypeOK' /\ UNCHANGED <<loop, ends, hasty>>
  /\ \A c \in Dialled : /\ open'[c] => open[c]
                        /\ AcceptorMoves(c) /\ DialerMoves(c)
  /\ EventsMove

LEMMA TaskMoveKeeps ==
  ASSUME IInv, TaskMove
  PROVE  IInv'
<1> USE DEF IInv, TaskMove
<1>1. /\ UNCHANGED <<role, followers, via, busy, followerActive, teeActive, ends, hasty>>
      /\ Dialled' = Dialled /\ \A d : Leader(d)' = Leader(d) /\ Follower(d)' = Follower(d)
  BY DEF loop, flags, Dialled, Leader, Follower
<1>2. \A d \in Dialled : d \in Conn /\ Leader(d) \in Node /\ Follower(d) \in Node
  BY DialledFacts
<1>3. FlagsMatchRole'
  BY <1>1 DEF FlagsMatchRole
<1>4. \A d \in Conn : Addressed(d)'
  BY <1>1 DEF Addressed, EventsMove, HelloSent, ConnectionSent
<1>5. ASSUME NEW d \in Dialled
      PROVE  /\ HelloOnce(d)' /\ TasksOutlive(d)' /\ GroupedFollows(d)' /\ Alive(d)'
             /\ Single(d)'
  <2> USE <1>1, <1>2, <1>5
  <2>0. /\ acceptor[d] \in {"Waiting", "Acked", "Grouped", "Done"}
        /\ dialer[d] \in {"Dialing", "Reading", "Done"} /\ open[d] \in BOOLEAN
    BY DEF TypeOK
  <2>1. HelloOnce(d)'
    BY DEF HelloOnce, AcceptorMoves, EventsMove, HelloSent
  <2>2. TasksOutlive(d)'
    BY <2>0 DEF TasksOutlive, AcceptorMoves, DialerMoves
  <2>3. GroupedFollows(d)'
    BY DEF GroupedFollows, AcceptorMoves, EventsMove
  <2>4. HandleAlive(d)'
    BY DEF Alive, HandleAlive, DialerMoves, EventsMove, Leader, Follower
  <2>5. ConnectionAlive(d)'
    BY DEF Alive, ConnectionAlive, DialerMoves, EventsMove, ConnectionSent, Addressed
  <2>6. LeaseAlive(d)'
    BY DEF Alive, LeaseAlive, HelloOnce, AcceptorMoves, EventsMove
  <2>7. HelloAlive(d)'
    BY DEF Alive, HelloAlive, AcceptorMoves, EventsMove, HelloSent, Addressed
  <2>8. ASSUME NEW e \in Dialled, Coming(e)'
        PROVE  Coming(e)
    BY <2>8 DEF Coming, DialerMoves, EventsMove, ConnectionSent, TypeOK
  <2>9. Single(d)'
    <3>0. Patient(d)' => Patient(d)
      BY DEF Patient
    <3>1. Patient(d) => OneDial(d)'
      BY <2>8 DEF Single, OneDial, DialerMoves, EventsMove, ConnectionSent, Coming
    <3>2. Patient(d) => ReadIsKept(d)'
      BY DEF Single, ReadIsKept, DialerMoves, EventsMove
    <3> QED BY <3>0, <3>1, <3>2 DEF Single
  <2> QED BY <2>1, <2>2, <2>3, <2>4, <2>5, <2>6, <2>7, <2>9 DEF Alive
<1> QED BY <1>1, <1>3, <1>4, <1>5

\* The steps of the tasks are such moves.
LEMMA QuietFacts ==
  ASSUME events' = events, UNCHANGED <<ends, hasty>>, TypeOK
  PROVE  EventsMove
BY KeepFacts DEF EventsMove

LEMMA AcceptMoves ==
  ASSUME IInv, NEW c \in Dialled, Accept(c)
  PROVE  TaskMove
<1> USE DEF IInv
<1>1. /\ events' = events /\ UNCHANGED <<loop, ends, hasty, dialer>> /\ EventsMove
      /\ Dialled' = Dialled
  BY QuietFacts DEF Accept, Dialled
<1>2. /\ open' \in [Dialled -> BOOLEAN] /\ \A d \in Dialled : open'[d] => open[d]
      /\ acceptor' \in [Dialled -> {"Waiting", "Acked", "Grouped", "Done"}]
      /\ \A d \in Dialled : \/ acceptor'[d] = acceptor[d]
                            \/ acceptor[d] = "Waiting" /\ acceptor'[d] = "Acked"
                            \/ acceptor[d] = "Waiting" /\ acceptor'[d] = "Done" /\ ~open'[d]
  <2>1. CASE busy[Follower(c)]
    <3>1. Close({c}) /\ acceptor[c] = "Waiting" /\ acceptor' = [acceptor EXCEPT ![c] = "Done"]
      BY <2>1 DEF Accept
    <3>2. open' \in [Dialled -> BOOLEAN] /\ \A d \in Dialled : open'[d] <=> open[d] /\ d \notin {c}
      BY <3>1, CloseFacts
    <3> QED BY <3>1, <3>2 DEF TypeOK
  <2>2. CASE ~busy[Follower(c)]
    BY <2>2 DEF Accept, TypeOK
  <2> QED BY <2>1, <2>2
<1>3. TypeOK'
  BY <1>1, <1>2 DEF TypeOK, loop, flags
<1>4. \A d \in Dialled : AcceptorMoves(d) /\ DialerMoves(d)
  BY <1>1, <1>2 DEF AcceptorMoves, DialerMoves
<1> QED BY <1>1, <1>2, <1>3, <1>4 DEF TaskMove

LEMMA AckFailsMoves ==
  ASSUME IInv, NEW c \in Dialled, AckFails(c)
  PROVE  TaskMove
<1> USE DEF IInv
<1>1. /\ events' = events /\ UNCHANGED <<loop, ends, hasty, dialer, open>> /\ EventsMove
      /\ Dialled' = Dialled
  BY QuietFacts DEF AckFails, Dialled
<1>2. /\ acceptor' \in [Dialled -> {"Waiting", "Acked", "Grouped", "Done"}]
      /\ \A d \in Dialled : \/ acceptor'[d] = acceptor[d]
                            \/ acceptor[d] = "Acked" /\ acceptor'[d] = "Done" /\ ~open[d]
  BY DEF AckFails, TypeOK
<1>3. TypeOK'
  BY <1>1, <1>2 DEF TypeOK, loop, flags
<1>4. \A d \in Dialled : AcceptorMoves(d) /\ DialerMoves(d)
  BY <1>1, <1>2 DEF AcceptorMoves, DialerMoves
<1> QED BY <1>1, <1>2, <1>3, <1>4 DEF TaskMove

LEMMA DialFailsMoves ==
  ASSUME IInv, NEW c \in Dialled, DialFails(c)
  PROVE  TaskMove
<1> USE DEF IInv
<1>1. /\ events' = events /\ UNCHANGED <<loop, ends, hasty, acceptor>> /\ EventsMove
      /\ Dialled' = Dialled
  BY QuietFacts DEF DialFails, Dialled
<1>2. /\ open' \in [Dialled -> BOOLEAN] /\ \A d \in Dialled : open'[d] => open[d]
      /\ dialer' \in [Dialled -> {"Dialing", "Reading", "Done"}]
      /\ \A d \in Dialled : \/ dialer'[d] = dialer[d]
                            \/ dialer[d] = "Dialing" /\ dialer'[d] = "Done" /\ ~open'[d]
  BY CloseFacts DEF DialFails, TypeOK
<1>3. TypeOK'
  BY <1>1, <1>2 DEF TypeOK, loop, flags
<1>4. \A d \in Dialled : AcceptorMoves(d) /\ DialerMoves(d)
  BY <1>1, <1>2 DEF AcceptorMoves, DialerMoves
<1> QED BY <1>1, <1>2, <1>3, <1>4 DEF TaskMove

LEMMA LossMoves ==
  ASSUME IInv, NEW c \in Dialled, Loss(c)
  PROVE  TaskMove
<1> USE DEF IInv
<1>1. /\ events' = events /\ UNCHANGED <<loop, ends, hasty, dialer, acceptor>> /\ EventsMove
      /\ Dialled' = Dialled
  BY QuietFacts DEF Loss, Dialled
<1>2. open' \in [Dialled -> BOOLEAN] /\ \A d \in Dialled : open'[d] => open[d]
  BY CloseFacts DEF Loss
<1>3. TypeOK'
  BY <1>1, <1>2 DEF TypeOK, loop, flags
<1>4. \A d \in Dialled : AcceptorMoves(d) /\ DialerMoves(d)
  BY <1>1 DEF AcceptorMoves, DialerMoves
<1> QED BY <1>1, <1>2, <1>3, <1>4 DEF TaskMove

LEMMA AnnounceMoves ==
  ASSUME IInv, NEW c \in Dialled, AnnounceLeader(c)
  PROVE  TaskMove
<1> USE DEF IInv
<1>1. UNCHANGED <<loop, ends, hasty, open, dialer>> /\ Dialled' = Dialled
  BY DEF AnnounceLeader, Dialled
<1>2. c \in Conn /\ Follower(c) \in Node /\ Send(Follower(c), Hello(c)) /\ Hello(c) \in Event
  BY DialledFacts, EventFacts DEF AnnounceLeader, Hello
<1>3. events \in [Node -> Seq(Event)]
  BY DEF TypeOK
<1>4. /\ acceptor' \in [Dialled -> {"Waiting", "Acked", "Grouped", "Done"}]
      /\ acceptor[c] = "Acked" /\ acceptor'[c] = "Grouped"
      /\ \A d \in Dialled \ {c} : acceptor'[d] = acceptor[d]
  BY DEF AnnounceLeader, TypeOK
<1>5. events' \in [Node -> Seq(Event)] /\ Queued(Follower(c), Hello(c))'
  BY <1>1, <1>2, <1>3, SendFacts DEF Follower
<1>6. TypeOK'
  BY <1>1, <1>4, <1>5 DEF TypeOK, loop, flags
<1>7. \A d \in Dialled : AcceptorMoves(d) /\ DialerMoves(d)
  BY <1>1, <1>4, <1>5 DEF AcceptorMoves, DialerMoves
<1>8. HelloSent(Follower(c), c)
  BY <1>4 DEF HelloSent
<1>9. EventsMove
  BY <1>2, <1>3, <1>8, SendFacts, EventFacts DEF EventsMove
<1> QED BY <1>1, <1>6, <1>7, <1>9 DEF TaskMove

LEMMA ConnectedMoves ==
  ASSUME IInv, NEW c \in Dialled, Connected(c)
  PROVE  TaskMove
<1> USE DEF IInv
<1>1. UNCHANGED <<loop, ends, hasty, open, acceptor>> /\ Dialled' = Dialled
  BY DEF Connected, Dialled
<1>2. /\ c \in Conn /\ Leader(c) \in Node /\ Send(Leader(c), Connection(c))
      /\ Connection(c) \in Event
  BY DialledFacts, EventFacts DEF Connected, Connection
<1>3. events \in [Node -> Seq(Event)]
  BY DEF TypeOK
<1>4. /\ dialer' \in [Dialled -> {"Dialing", "Reading", "Done"}]
      /\ dialer[c] = "Dialing" /\ dialer'[c] = "Reading" /\ acceptor'[c] # "Waiting"
      /\ \A d \in Dialled \ {c} : dialer'[d] = dialer[d]
  BY <1>1 DEF Connected, TypeOK
<1>5. events' \in [Node -> Seq(Event)] /\ Queued(Leader(c), Connection(c))'
  BY <1>1, <1>2, <1>3, SendFacts DEF Leader
<1>6. TypeOK'
  BY <1>1, <1>4, <1>5 DEF TypeOK, loop, flags
<1>7. \A d \in Dialled : AcceptorMoves(d) /\ DialerMoves(d)
  BY <1>1, <1>4, <1>5 DEF AcceptorMoves, DialerMoves
<1>8. ConnectionSent(Leader(c), c)
  BY <1>4 DEF ConnectionSent
<1>9. EventsMove
  BY <1>2, <1>3, <1>8, SendFacts, EventFacts DEF EventsMove
<1> QED BY <1>1, <1>6, <1>7, <1>9 DEF TaskMove

LEMMA LeaderEndsMoves ==
  ASSUME IInv, NEW c \in Dialled, LeaderEnds(c)
  PROVE  TaskMove
<1> USE DEF IInv
<1>1. UNCHANGED <<loop, ends, hasty, open, dialer>> /\ Dialled' = Dialled /\ ~open[c]
  BY DEF LeaderEnds, Dialled
<1>2. c \in Conn /\ Follower(c) \in Node /\ Send(Follower(c), LeaderLost) /\ LeaderLost \in Event
  BY DialledFacts, EventFacts DEF LeaderEnds, LeaderLost
<1>3. events \in [Node -> Seq(Event)]
  BY DEF TypeOK
<1>4. /\ acceptor' \in [Dialled -> {"Waiting", "Acked", "Grouped", "Done"}]
      /\ acceptor'[c] = "Done" /\ \A d \in Dialled \ {c} : acceptor'[d] = acceptor[d]
  BY DEF LeaderEnds, TypeOK
<1>5. /\ events' \in [Node -> Seq(Event)] /\ Queued(Follower(c), LeaderLost)'
      /\ Trailed(Follower(c), Hello(c), LeaderLost)'
  BY <1>1, <1>2, <1>3, SendFacts, EventFacts DEF Follower, Hello
<1>6. TypeOK'
  BY <1>1, <1>4, <1>5 DEF TypeOK, loop, flags
<1>7. \A d \in Dialled : AcceptorMoves(d) /\ DialerMoves(d)
  BY <1>1, <1>4, <1>5 DEF AcceptorMoves, DialerMoves
<1>8. EventsMove
  BY <1>2, <1>3, SendFacts, EventFacts DEF EventsMove
<1> QED BY <1>1, <1>6, <1>7, <1>8 DEF TaskMove

LEMMA FollowerEndsMoves ==
  ASSUME IInv, NEW c \in Dialled, FollowerEnds(c)
  PROVE  TaskMove
<1> USE DEF IInv
<1> DEFINE g == Gone(Follower(c))
<1>1. UNCHANGED <<loop, ends, hasty, open, acceptor>> /\ Dialled' = Dialled /\ ~open[c]
  BY DEF FollowerEnds, Dialled
<1>2. /\ c \in Conn /\ Leader(c) \in Node /\ Follower(c) \in Node
      /\ Send(Leader(c), g) /\ g \in Event
  BY DialledFacts, EventFacts DEF FollowerEnds, Gone
<1>3. events \in [Node -> Seq(Event)]
  BY DEF TypeOK
<1>4. /\ dialer' \in [Dialled -> {"Dialing", "Reading", "Done"}]
      /\ dialer'[c] = "Done" /\ \A d \in Dialled \ {c} : dialer'[d] = dialer[d]
  BY DEF FollowerEnds, TypeOK
<1>5. Connection(c) # g /\ \A d \in Conn : Hello(d) # g /\ Connection(d) # g
  BY EventFacts
<1>6. Leader(c)' = Leader(c) /\ g' = g
  BY <1>1 DEF Leader, Follower, Gone
<1> HIDE DEF g
<1>7. /\ events' \in [Node -> Seq(Event)] /\ Queued(Leader(c), g)'
      /\ Trailed(Leader(c), Connection(c), g)'
  BY <1>1, <1>2, <1>3, <1>5, <1>6, SendFacts DEF Leader, Connection
<1>8. TypeOK'
  BY <1>1, <1>4, <1>7 DEF TypeOK, loop, flags
<1>9. \A d \in Dialled : AcceptorMoves(d) /\ DialerMoves(d)
  BY <1>1, <1>4, <1>7 DEF AcceptorMoves, DialerMoves, g
<1>10. EventsMove
  BY <1>2, <1>3, <1>5, SendFacts DEF EventsMove
<1> QED BY <1>1, <1>8, <1>9, <1>10 DEF TaskMove

-----------------------------------------------------------------------------
(* What a main loop lets go.                                               *)

\* Handles and leaders are dropped, and with them their connections.
LoopLetsGo ==
  /\ role' \in [Node -> {"Idle", "Leader", "Follower"}]
  /\ busy' \in [Node -> BOOLEAN] /\ followerActive' \in [Node -> BOOLEAN]
  /\ teeActive' \in [Node -> BOOLEAN]
  /\ via' \in [Node -> Dialled \cup {NoConn}]
  /\ DOMAIN followers' = Node
  /\ FlagsMatchRole'
  /\ open' \in [Dialled -> BOOLEAN]
  /\ \A d \in Dialled : open'[d] => open[d]
  /\ \A n \in Node :
       /\ \A f \in DOMAIN followers'[n] :
            f \in DOMAIN followers[n] /\ followers'[n][f] = followers[n][f]
       /\ \A f \in DOMAIN followers[n] :
            f \in DOMAIN followers'[n] \/ ~open'[followers[n][f]]
       /\ \/ via'[n] = via[n]
          \/ via'[n] = NoConn /\ ~open'[via[n]]

\* An event is gone once it is handled: what it told is closed or dropped.
EventsLetGo ==
  /\ events' \in [Node -> Seq(Event)]
  /\ \A n \in Node :
       /\ \A x : (Queued(n, x)' => Queued(n, x)) /\ (Once(n, x) => Once(n, x)')
       /\ \A x, g : Trailed(n, x, g) => Trailed(n, x, g)'
       /\ \A d \in Dialled :
            /\ Queued(n, Hello(d)) => Queued(n, Hello(d))' \/ ~open'[d]
            /\ Queued(n, Connection(d)) => Queued(n, Connection(d))' \/ ~open'[d]
       /\ \A f \in Node :
            Queued(n, Gone(f)) => Queued(n, Gone(f))' \/ f \notin DOMAIN followers'[n]
       /\ Queued(n, LeaderLost) => Queued(n, LeaderLost)' \/ via'[n] = NoConn

LetGo == LoopLetsGo /\ EventsLetGo /\ UNCHANGED <<ends, hasty, dialer, acceptor>>

LEMMA LetGoKeeps ==
  ASSUME IInv, LetGo
  PROVE  IInv'
<1> USE DEF IInv, LetGo
<1>1. /\ UNCHANGED <<ends, hasty, dialer, acceptor>>
      /\ Dialled' = Dialled /\ \A d : Leader(d)' = Leader(d) /\ Follower(d)' = Follower(d)
  BY DEF Dialled, Leader, Follower
<1>2. \A d \in Dialled : d \in Conn /\ d # NoConn /\ Leader(d) \in Node /\ Follower(d) \in Node
  BY DialledFacts
<1>3. TypeOK'
  BY <1>1 DEF TypeOK, LoopLetsGo, EventsLetGo
<1>4. FlagsMatchRole'
  BY DEF LoopLetsGo
<1>5. \A d \in Conn : Addressed(d)'
  BY <1>1 DEF Addressed, EventsLetGo
<1>6. ASSUME NEW d \in Dialled
      PROVE  /\ HelloOnce(d)' /\ TasksOutlive(d)' /\ GroupedFollows(d)' /\ Alive(d)'
             /\ Single(d)'
  <2> USE <1>1, <1>2, <1>6
  <2>0. /\ \A n \in Node : via'[n] = d => via[n] = d
        /\ \A n \in Node : via[n] = d => via'[n] = d \/ ~open'[d]
        /\ open'[d] => open[d]
    BY DEF LoopLetsGo
  <2>1. HelloOnce(d)'
    BY <2>0 DEF HelloOnce, EventsLetGo
  <2>2. TasksOutlive(d)'
    BY DEF TasksOutlive, LoopLetsGo
  <2>3. GroupedFollows(d)'
    BY <2>0 DEF GroupedFollows, EventsLetGo
  <2>4. HandleAlive(d)'
    BY DEF Alive, HandleAlive, LoopLetsGo, EventsLetGo, TypeOK
  <2>5. ConnectionAlive(d)'
    BY DEF Alive, ConnectionAlive, EventsLetGo
  <2>6. LeaseAlive(d)'
    <3>1. \A n \in Node : via'[n] = d /\ Queued(n, LeaderLost) => Queued(n, LeaderLost)'
      BY DEF EventsLetGo
    <3> QED BY <2>0, <3>1 DEF Alive, LeaseAlive
  <2>7. HelloAlive(d)'
    BY DEF Alive, HelloAlive, EventsLetGo
  <2>8. \A e \in Dialled : Coming(e)' => Coming(e)
    BY DEF Coming, EventsLetGo
  <2>11. Patient(d)' => Patient(d)
    BY <1>1 DEF Patient
  <2>9. Patient(d) => OneDial(d)'
    BY <2>8 DEF Single, OneDial, LoopLetsGo, EventsLetGo
  <2>10. Patient(d) => ReadIsKept(d)'
    <3> DEFINE l == Leader(d)  f == Follower(d)
    <3>1. f \in DOMAIN followers[l] /\ followers[l][f] = d /\ open'[d]
            => f \in DOMAIN followers'[l] /\ followers'[l][f] = d
      BY DEF LoopLetsGo
    <3>2. Queued(l, Connection(d)) /\ open'[d] => Queued(l, Connection(d))'
      BY DEF EventsLetGo
    <3> QED BY <2>0, <3>1, <3>2 DEF Single, ReadIsKept
  <2> QED BY <2>1, <2>2, <2>3, <2>4, <2>5, <2>6, <2>7, <2>9, <2>10, <2>11 DEF Alive, Single
<1> QED BY <1>1, <1>3, <1>4, <1>5, <1>6

\* The four ways a main loop lets go.
LEMMA SameLoopLetsGo ==
  ASSUME IInv, UNCHANGED loop, NEW cs, Close(cs)
  PROVE  LoopLetsGo
<1>1. open' \in [Dialled -> BOOLEAN] /\ \A d \in Dialled : open'[d] => open[d]
  BY CloseFacts DEF IInv
<1> QED BY <1>1 DEF IInv, TypeOK, FlagsMatchRole, LoopLetsGo, loop, flags

LEMMA RemoveLetsGo ==
  ASSUME IInv, NEW n \in Node, NEW f \in DOMAIN followers[n], Remove(n, f)
  PROVE  LoopLetsGo /\ f \notin DOMAIN followers'[n] /\ UNCHANGED via
<1> USE DEF IInv
<1> DEFINE c == followers[n][f]
<1>1. /\ c \in Dialled /\ open' \in [Dialled -> BOOLEAN]
      /\ \A d \in Dialled : open'[d] <=> open[d] /\ d # c
  <2>1. c \in Dialled /\ Close({c})
    BY DEF Remove, TypeOK
  <2>2. \A d \in Dialled : open'[d] <=> open[d] /\ d \notin {c}
    BY <2>1, CloseFacts
  <2>3. open' \in [Dialled -> BOOLEAN]
    BY <2>1, CloseFacts
  <2> QED BY <2>1, <2>2, <2>3
<1>2. /\ DOMAIN followers' = Node
      /\ followers'[n] = [g \in DOMAIN followers[n] \ {f} |-> followers[n][g]]
      /\ \A m \in Node \ {n} : followers'[m] = followers[m]
  BY DEF Remove, TypeOK
<1>3. /\ DOMAIN followers'[n] = DOMAIN followers[n] \ {f}
      /\ \A g \in DOMAIN followers'[n] : followers'[n][g] = followers[n][g]
  BY <1>2
<1>4. role[n] = "Leader" /\ UNCHANGED <<via, followerActive>>
  BY DEF FlagsMatchRole, Remove
<1>5. /\ role' \in [Node -> {"Idle", "Leader", "Follower"}] /\ busy' \in [Node -> BOOLEAN]
      /\ teeActive' \in [Node -> BOOLEAN]
      /\ \A m \in Node \ {n} : role'[m] = role[m] /\ busy'[m] = busy[m]
                                /\ teeActive'[m] = teeActive[m]
      /\ IF DOMAIN followers'[n] = {}
         THEN role'[n] = "Idle" /\ ~busy'[n] /\ ~teeActive'[n]
         ELSE role'[n] = "Leader" /\ busy'[n] = busy[n] /\ teeActive'[n] = teeActive[n]
  <2>1. CASE DOMAIN followers[n] = {f}
    <3>1. /\ role' = [role EXCEPT ![n] = "Idle"] /\ busy' = [busy EXCEPT ![n] = FALSE]
          /\ teeActive' = [teeActive EXCEPT ![n] = FALSE]
      BY <2>1 DEF Remove
    <3>2. DOMAIN followers'[n] = {}
      BY <1>3, <2>1
    <3> QED BY <3>1, <3>2 DEF TypeOK
  <2>2. CASE DOMAIN followers[n] # {f}
    <3>1. UNCHANGED <<role, busy, teeActive>>
      BY <2>2 DEF Remove
    <3>2. DOMAIN followers'[n] # {}
      BY <1>3, <2>2
    <3> QED BY <1>4, <3>1, <3>2 DEF TypeOK
  <2> QED BY <2>1, <2>2
<1>6. FlagsMatchRole'
  <2> SUFFICES ASSUME NEW m \in Node
               PROVE  /\ busy'[m] <=> role'[m] # "Idle"
                      /\ followerActive'[m] <=> role'[m] = "Follower"
                      /\ teeActive'[m] <=> role'[m] = "Leader"
                      /\ DOMAIN followers'[m] # {} <=> role'[m] = "Leader"
                      /\ via'[m] # NoConn <=> role'[m] = "Follower"
    BY DEF FlagsMatchRole
  <2>1. CASE m # n
    BY <1>2, <1>4, <1>5, <2>1 DEF FlagsMatchRole
  <2>2. CASE m = n
    <3>1. busy[n] /\ teeActive[n] /\ ~followerActive[n] /\ via[n] = NoConn
      BY <1>4 DEF FlagsMatchRole
    <3> QED BY <1>4, <1>5, <2>2, <3>1
  <2> QED BY <2>1, <2>2
<1> QED BY <1>1, <1>2, <1>3, <1>4, <1>5, <1>6 DEF LoopLetsGo, TypeOK

LEMMA LeaveLetsGo ==
  ASSUME IInv, NEW n \in Node, Leave(n)
  PROVE  LoopLetsGo /\ via'[n] = NoConn
<1> USE DEF IInv
<1>1. /\ open' \in [Dialled -> BOOLEAN]
      /\ \A d \in Dialled : open'[d] <=> open[d] /\ d \notin Handles(n) /\ d # via[n]
  <2>1. Close(Handles(n) \cup {via[n]})
    BY DEF Leave
  <2>2. \A d \in Dialled : open'[d] <=> open[d] /\ d \notin Handles(n) \cup {via[n]}
    BY <2>1, CloseFacts
  <2>3. open' \in [Dialled -> BOOLEAN]
    BY <2>1, CloseFacts
  <2> QED BY <2>2, <2>3
<1>2. /\ DOMAIN followers' = Node /\ DOMAIN followers'[n] = {}
      /\ \A m \in Node \ {n} : followers'[m] = followers[m]
  BY DEF Leave, TypeOK
<1>3. \A f \in DOMAIN followers[n] : followers[n][f] \in Handles(n)
  BY DEF Handles
<1>4. /\ role' \in [Node -> {"Idle", "Leader", "Follower"}] /\ busy' \in [Node -> BOOLEAN]
      /\ followerActive' \in [Node -> BOOLEAN] /\ teeActive' \in [Node -> BOOLEAN]
      /\ via' \in [Node -> Dialled \cup {NoConn}]
      /\ \A m \in Node \ {n} : /\ role'[m] = role[m] /\ busy'[m] = busy[m]
                               /\ followerActive'[m] = followerActive[m]
                               /\ teeActive'[m] = teeActive[m] /\ via'[m] = via[m]
      /\ role'[n] = "Idle" /\ ~busy'[n] /\ ~followerActive'[n] /\ ~teeActive'[n]
      /\ via'[n] = NoConn
  BY DEF Leave, TypeOK
<1>5. FlagsMatchRole'
  BY <1>2, <1>4 DEF FlagsMatchRole
<1>6. via[n] = NoConn \/ ~open'[via[n]]
  BY <1>1 DEF TypeOK
<1>7. \A m \in Node : \A f \in DOMAIN followers[m] :
        f \in DOMAIN followers'[m] \/ ~open'[followers[m][f]]
  BY <1>1, <1>2, <1>3 DEF TypeOK
<1> QED BY <1>1, <1>2, <1>4, <1>5, <1>6, <1>7 DEF LoopLetsGo

LEMMA KeptEventsLetGo ==
  ASSUME IInv, events' = events
  PROVE  EventsLetGo
BY KeepFacts DEF IInv, TypeOK, EventsLetGo

LEMMA TakenEventLetsGo ==
  ASSUME IInv, NEW n \in Node, NEW e, events[n] # <<>>, e = Head(events[n]),
         events' = [events EXCEPT ![n] = Tail(@)],
         \A d \in Dialled : e = Hello(d) \/ e = Connection(d) => ~open'[d],
         \A f \in Node : e = Gone(f) => f \notin DOMAIN followers'[n],
         e = LeaderLost => via'[n] = NoConn
  PROVE  EventsLetGo
<1>1. events \in [Node -> Seq(Event)]
  BY DEF IInv, TypeOK
<1>2. /\ events' \in [Node -> Seq(Event)]
      /\ \A m \in Node : /\ \A x : (Queued(m, x)' => Queued(m, x)) /\ (Once(m, x) => Once(m, x)')
                         /\ \A x, g : Trailed(m, x, g) => Trailed(m, x, g)'
                         /\ \A x : Queued(m, x) => Queued(m, x)' \/ (m = n /\ x = e)
  BY <1>1, TakeFacts, ZenonT(60)
<1>3. ASSUME NEW m \in Node
      PROVE  /\ \A d \in Dialled :
                  /\ Queued(m, Hello(d)) => Queued(m, Hello(d))' \/ ~open'[d]
                  /\ Queued(m, Connection(d)) => Queued(m, Connection(d))' \/ ~open'[d]
             /\ \A f \in Node :
                  Queued(m, Gone(f)) => Queued(m, Gone(f))' \/ f \notin DOMAIN followers'[m]
             /\ Queued(m, LeaderLost) => Queued(m, LeaderLost)' \/ via'[m] = NoConn
  <2>1. \A x : Queued(m, x) => Queued(m, x)' \/ (m = n /\ x = e)
    BY <1>2
  <2>2. CASE m # n
    BY <2>1, <2>2
  <2>3. CASE m = n
    <3>1. \A d \in Dialled : /\ Queued(m, Hello(d)) => Queued(m, Hello(d))' \/ ~open'[d]
                             /\ Queued(m, Connection(d)) => Queued(m, Connection(d))' \/ ~open'[d]
      BY <2>1
    <3>2. \A f \in Node :
            Queued(m, Gone(f)) => Queued(m, Gone(f))' \/ f \notin DOMAIN followers'[m]
      BY <2>1, <2>3
    <3>3. Queued(m, LeaderLost) => Queued(m, LeaderLost)' \/ via'[m] = NoConn
      BY <2>1, <2>3
    <3> QED BY <3>1, <3>2, <3>3
  <2> QED BY <2>2, <2>3
<1> QED BY <1>2, <1>3 DEF EventsLetGo

-----------------------------------------------------------------------------
(* The commands and the events of a main loop.                             *)

LEMMA RemoveFromGroupKeeps ==
  ASSUME IInv, NEW n \in Node, NEW f, RemoveFromGroup(n, f)
  PROVE  IInv'
BY RemoveLetsGo, KeptEventsLetGo, LetGoKeeps DEF RemoveFromGroup, LetGo

LEMMA LeaveGroupKeeps ==
  ASSUME IInv, NEW n \in Node, LeaveGroup(n)
  PROVE  IInv'
BY LeaveLetsGo, KeptEventsLetGo, LetGoKeeps DEF LeaveGroup, LetGo

\* n handles the first of its events.
Handled(n, e) ==
  /\ events[n] # <<>> /\ e = Head(events[n])
  /\ events' = [events EXCEPT ![n] = Tail(@)]
  /\ UNCHANGED <<ends, hasty, dialer, acceptor>>

LEMMA EventCases ==
  ASSUME IInv, NEW n \in Node, HandleEvent(n)
  PROVE  \E e : /\ Handled(n, e) /\ Queued(n, e)
                /\ \/ \E c \in Conn : e = Connection(c) /\ OnFollowerConnected(n, c)
                   \/ \E f \in Node : e = Gone(f) /\ OnFollowerGone(n, f)
                   \/ \E c \in Conn : e = Hello(c) /\ OnLeaderHello(n, c)
                   \/ e = LeaderLost /\ OnLeaderGone(n)
<1> DEFINE e == Head(events[n])
<1>1. events \in [Node -> Seq(Event)]
  BY DEF IInv, TypeOK
<1>2. /\ events[n] # <<>> /\ events' = [events EXCEPT ![n] = Tail(@)]
      /\ UNCHANGED <<ends, hasty, dialer, acceptor>>
      /\ e.type = "FollowerConnected" => OnFollowerConnected(n, e.conn)
      /\ e.type = "FollowerGone" => OnFollowerGone(n, e.id)
      /\ e.type = "LeaderHello" => OnLeaderHello(n, e.conn)
      /\ e.type = "LeaderGone" => OnLeaderGone(n)
  BY DEF HandleEvent
<1>3. e \in Event /\ Queued(n, e)
  BY <1>1, <1>2, TakeFacts
<1>4. \/ e.type = "FollowerConnected" /\ e.conn \in Conn /\ e = Connection(e.conn)
      \/ e.type = "FollowerGone" /\ e.id \in Node /\ e = Gone(e.id)
      \/ e.type = "LeaderHello" /\ e.conn \in Conn /\ e = Hello(e.conn)
      \/ e.type = "LeaderGone" /\ e = LeaderLost
  BY <1>3 DEF Event, Connection, Hello, Gone, LeaderLost
<1>5. Handled(n, e)
  BY <1>2 DEF Handled
<1> HIDE DEF e
<1> QED BY <1>2, <1>3, <1>4, <1>5

LEMMA TurnedDownKeeps ==
  ASSUME IInv, NEW n \in Node, NEW e, NEW c \in Conn, Handled(n, e),
         e = Connection(c) \/ e = Hello(c), UNCHANGED loop, Close({c})
  PROVE  IInv'
<1>1. LoopLetsGo
  BY SameLoopLetsGo
<1>2. \A d \in Dialled : e = Hello(d) \/ e = Connection(d) => ~open'[d]
  <2>1. \A d \in Dialled : d \in {c} => ~open'[d]
    BY CloseFacts DEF IInv
  <2> QED BY <2>1, EventFacts
<1>3. EventsLetGo
  <2>1. e # LeaderLost /\ \A f \in Node : e # Gone(f)
    BY EventFacts
  <2> QED BY <1>2, <2>1, TakenEventLetsGo DEF Handled
<1> QED BY <1>1, <1>3, LetGoKeeps DEF LetGo, Handled

LEMMA FollowerGoneKeeps ==
  ASSUME IInv, NEW n \in Node, NEW e, NEW f \in Node, Handled(n, e),
         e = Gone(f), OnFollowerGone(n, f)
  PROVE  IInv'
<1>1. LoopLetsGo /\ f \notin DOMAIN followers'[n]
  <2>1. CASE f \in DOMAIN followers[n]
    BY <2>1, RemoveLetsGo DEF OnFollowerGone
  <2>2. CASE f \notin DOMAIN followers[n]
    <3>1. UNCHANGED loop /\ UNCHANGED open
      BY <2>2 DEF OnFollowerGone
    <3>2. Close({})
      BY <3>1 DEF Close, IInv, TypeOK
    <3> QED BY <2>2, <3>1, <3>2, SameLoopLetsGo DEF loop
  <2> QED BY <2>1, <2>2
<1>2. EventsLetGo
  <2>1. /\ e # LeaderLost /\ \A d \in Dialled : e # Hello(d) /\ e # Connection(d)
        /\ \A g \in Node : e = Gone(g) => g = f
    BY EventFacts
  <2>2. \A d \in Dialled : e = Hello(d) \/ e = Connection(d) => ~open'[d]
    BY <2>1
  <2>3. \A g \in Node : e = Gone(g) => g \notin DOMAIN followers'[n]
    BY <1>1, <2>1
  <2>4. e = LeaderLost => via'[n] = NoConn
    BY <2>1
  <2>5. events[n] # <<>> /\ e = Head(events[n]) /\ events' = [events EXCEPT ![n] = Tail(@)]
    BY DEF Handled
  <2> QED BY <2>2, <2>3, <2>4, <2>5, TakenEventLetsGo
<1> QED BY <1>1, <1>2, LetGoKeeps DEF LetGo, Handled

LEMMA LeaderGoneKeeps ==
  ASSUME IInv, NEW n \in Node, NEW e, Handled(n, e), e = LeaderLost, OnLeaderGone(n)
  PROVE  IInv'
<1>1. LoopLetsGo /\ via'[n] = NoConn
  <2>1. CASE role[n] = "Follower"
    BY <2>1, LeaveLetsGo DEF OnLeaderGone
  <2>2. CASE role[n] # "Follower"
    <3>1. UNCHANGED loop /\ UNCHANGED open
      BY <2>2 DEF OnLeaderGone
    <3>2. Close({}) /\ via[n] = NoConn
      BY <2>2, <3>1 DEF Close, IInv, TypeOK, FlagsMatchRole
    <3> QED BY <2>2, <3>1, <3>2, SameLoopLetsGo DEF loop
  <2> QED BY <2>1, <2>2
<1>2. EventsLetGo
  <2>1. /\ \A d \in Dialled : e # Hello(d) /\ e # Connection(d)
        /\ \A g \in Node : e # Gone(g)
    BY EventFacts
  <2> QED BY <1>1, <2>1, TakenEventLetsGo DEF Handled
<1> QED BY <1>1, <1>2, LetGoKeeps DEF LetGo, Handled

\* The events but the one handled are still there.
LEMMA HandledFacts ==
  ASSUME IInv, NEW n \in Node, NEW e, Handled(n, e)
  PROVE  /\ Queued(n, e) /\ events' \in [Node -> Seq(Event)]
         /\ \A m \in Node : \A x : Queued(m, x)' => Queued(m, x)
         /\ \A m \in Node : \A x : x # e /\ Queued(m, x) => Queued(m, x)'
         /\ \A m \in Node : \A x : m # n /\ Queued(m, x) => Queued(m, x)'
         /\ \A m \in Node : \A x : Once(m, x) => Once(m, x)'
         /\ Once(n, e) => ~Queued(n, e)'
         /\ \A m \in Node : \A x, g : Trailed(m, x, g) => Trailed(m, x, g)'
         /\ \A g : Trailed(n, e, g) => Queued(n, g)'
<1>1. events \in [Node -> Seq(Event)]
  BY DEF IInv, TypeOK
<1>2. \A m \in Node : \A x : Queued(m, x) => Queued(m, x)' \/ (m = n /\ x = e)
  BY <1>1, TakeFacts DEF Handled
<1>3. \A m \in Node : \A x : x # e /\ Queued(m, x) => Queued(m, x)'
  BY <1>2
<1>4. \A m \in Node : \A x : m # n /\ Queued(m, x) => Queued(m, x)'
  BY <1>2
<1> QED BY <1>1, <1>3, <1>4, TakeFacts DEF Handled

\* An instance that follows nobody takes a follower that is connected.
LEMMA FollowerTakenKeeps ==
  ASSUME IInv, NEW n \in Node, NEW c \in Conn, Handled(n, Connection(c)),
         OnFollowerConnected(n, c), role[n] # "Follower"
  PROVE  IInv'
<1> USE DEF IInv
<1> DEFINE e == Connection(c)  f == Follower(c)
<1>1. /\ UNCHANGED <<ends, hasty, dialer, acceptor, open, via, followerActive>>
      /\ Dialled' = Dialled /\ \A d : Leader(d)' = Leader(d) /\ Follower(d)' = Follower(d)
  BY DEF Handled, OnFollowerConnected, Dialled, Leader, Follower
<1>2. Queued(n, e) /\ c \in Dialled /\ Leader(c) = n
  BY HandledFacts DEF Addressed
<1>3. \A d \in Dialled : d \in Conn /\ Leader(d) \in Node /\ Follower(d) \in Node
  BY DialledFacts
<1>4. /\ DOMAIN followers' = Node
      /\ DOMAIN followers'[n] = DOMAIN followers[n] \cup {f}
      /\ followers'[n][f] = c
      /\ \A g \in DOMAIN followers[n] : g # f => followers'[n][g] = followers[n][g]
      /\ \A m \in Node : m # n => followers'[m] = followers[m]
  BY DEF OnFollowerConnected, TypeOK
<1>5. /\ role' = [role EXCEPT ![n] = "Leader"] /\ busy' = [busy EXCEPT ![n] = TRUE]
      /\ teeActive' = [teeActive EXCEPT ![n] = TRUE]
  BY DEF OnFollowerConnected
<1>6. ends[c] = [leader |-> n, follower |-> f]
  BY <1>2 DEF TypeOK, Leader, Follower
<1> HIDE DEF e, f
<1>7. f \in Node /\ e \in Event
  BY <1>2, <1>3, EventFacts DEF e, f
<1>8. TypeOK'
  <2>1. events' \in [Node -> Seq(Event)]
    BY HandledFacts
  <2>2. /\ DOMAIN followers' = Node
        /\ \A m \in Node : /\ DOMAIN followers'[m] \subseteq Node
                           /\ \A g \in DOMAIN followers'[m] : followers'[m][g] \in Dialled
    <3>1. \A m \in Node : m # n => DOMAIN followers'[m] \subseteq Node
      BY <1>4 DEF TypeOK
    <3>2. \A m \in Node : m # n => \A g \in DOMAIN followers'[m] : followers'[m][g] \in Dialled
      BY <1>4 DEF TypeOK
    <3>3. DOMAIN followers'[n] \subseteq Node
      BY <1>4, <1>7 DEF TypeOK
    <3>4. \A g \in DOMAIN followers'[n] : followers'[n][g] \in Dialled
      BY <1>2, <1>4 DEF TypeOK
    <3> QED BY <1>4, <3>1, <3>2, <3>3, <3>4
  <2> QED BY <1>1, <1>5, <2>1, <2>2 DEF TypeOK
<1>9. FlagsMatchRole'
  <2>1. DOMAIN followers'[n] # {} /\ via[n] = NoConn /\ ~followerActive[n]
    BY <1>4 DEF FlagsMatchRole
  <2>2. /\ role'[n] = "Leader" /\ busy'[n] /\ teeActive'[n]
        /\ \A m \in Node : m # n => role'[m] = role[m] /\ busy'[m] = busy[m]
                                    /\ teeActive'[m] = teeActive[m]
    BY <1>5 DEF TypeOK
  <2> QED BY <1>1, <1>4, <2>1, <2>2 DEF FlagsMatchRole
<1>10. /\ \A m \in Node : \A x : Queued(m, x)' => Queued(m, x)
       /\ \A m \in Node : \A x : x # e /\ Queued(m, x) => Queued(m, x)'
       /\ \A m \in Node : \A x : Once(m, x) => Once(m, x)'
       /\ Once(n, e) => ~Queued(n, e)'
       /\ \A m \in Node : \A x, g : Trailed(m, x, g) => Trailed(m, x, g)'
       /\ \A g : Trailed(n, e, g) => Queued(n, g)'
  BY HandledFacts DEF e
<1>11. \A d : Hello(d) # e /\ Gone(d) # e /\ (d # c => Connection(d) # e) /\ LeaderLost # e
  BY EventFacts DEF e
<1>12. \A d \in Conn : Addressed(d)'
  BY <1>1, <1>10 DEF Addressed
<1>13. ASSUME NEW d \in Dialled
       PROVE  /\ HelloOnce(d)' /\ TasksOutlive(d)' /\ GroupedFollows(d)' /\ Alive(d)'
              /\ Single(d)'
  <2> USE <1>1, <1>3, <1>13
  <2>1. HelloOnce(d)'
    BY <1>10 DEF HelloOnce
  <2>2. TasksOutlive(d)'
    BY DEF TasksOutlive
  <2>3. GroupedFollows(d)'
    BY <1>10, <1>11 DEF GroupedFollows
  <2>4. HandleAlive(d)'
    <3> SUFFICES ASSUME NEW m \in Node, NEW g \in DOMAIN followers'[m], followers'[m][g] = d
                 PROVE  /\ ends[d] = [leader |-> m, follower |-> g]
                        /\ dialer[d] = "Reading" \/ (dialer[d] = "Done" /\ Queued(m, Gone(g))')
      BY DEF HandleAlive
    <3>1. CASE m = n /\ g = f
      <4>1. d = c
        BY <1>4, <3>1
      <4>2. dialer[c] = "Reading" \/ (dialer[c] = "Done" /\ Trailed(n, e, Gone(f)))
        BY <1>2 DEF Alive, ConnectionAlive, e, f
      <4> QED BY <1>6, <1>10, <3>1, <4>1, <4>2
    <3>2. CASE ~(m = n /\ g = f)
      <4>1. g \in DOMAIN followers[m] /\ followers[m][g] = d
        BY <1>4, <3>2
      <4> QED BY <1>10, <1>11, <4>1 DEF Alive, HandleAlive
    <3> QED BY <3>1, <3>2
  <2>5. ConnectionAlive(d)'
    BY <1>10 DEF Alive, ConnectionAlive
  <2>6. LeaseAlive(d)'
    BY <1>10, <1>11 DEF Alive, LeaseAlive
  <2>7. HelloAlive(d)'
    BY <1>10 DEF Alive, HelloAlive
  <2>8. ASSUME Patient(d)
        PROVE  OneDial(d)'
    <3>1. CASE d = c
      <4>1. Once(n, e) /\ dialer[c] # "Dialing"
        BY <1>2, <2>8, <3>1 DEF Single, OneDial, Coming, e
      <4>2. ~Coming(c)'
        BY <1>2, <1>10, <4>1 DEF Coming, e
      <4> QED BY <3>1, <4>2 DEF OneDial
    <3>2. CASE d # c
      <4>1. \A b \in Dialled : Coming(b)' => Coming(b)
        BY <1>10 DEF Coming
      <4>2. Coming(c)
        BY <1>2 DEF Coming, e
      <4>3. Coming(d) => ends[d] # ends[c]
        BY <1>2, <2>8, <3>2, <4>2 DEF Single, OneDial
      <4>4. Coming(d) => ~(Leader(d) = n /\ Follower(d) = f)
        <5>1. ends[d] = [leader |-> Leader(d), follower |-> Follower(d)]
          BY DEF TypeOK, Leader, Follower
        <5> QED BY <1>6, <4>3, <5>1
      <4>5. Coming(d) => Follower(d) \notin DOMAIN followers'[Leader(d)]
        BY <1>4, <2>8, <4>4 DEF Single, OneDial
      <4>6. Once(Leader(d), Connection(d)) => Once(Leader(d), Connection(d))'
        BY <1>10
      <4>7. Queued(Leader(d), Connection(d))' => Queued(Leader(d), Connection(d))
        BY <1>10
      <4> QED BY <2>8, <4>1, <4>5, <4>6, <4>7 DEF Single, OneDial
    <3> QED BY <3>1, <3>2
  <2>9. ASSUME Patient(d)
        PROVE  ReadIsKept(d)'
    <3> SUFFICES ASSUME dialer[d] = "Reading", open[d]
                 PROVE  \/ /\ Follower(d) \in DOMAIN followers'[Leader(d)]
                           /\ followers'[Leader(d)][Follower(d)] = d
                        \/ Queued(Leader(d), Connection(d))'
      BY DEF ReadIsKept
    <3>1. CASE d = c
      BY <1>2, <1>4, <3>1 DEF f
    <3>2. CASE d # c /\ Queued(Leader(d), Connection(d))
      BY <1>10, <1>11, <3>2
    <3>3. CASE d # c /\ ~Queued(Leader(d), Connection(d))
      <4>1. /\ Follower(d) \in DOMAIN followers[Leader(d)]
            /\ followers[Leader(d)][Follower(d)] = d
        BY <2>9, <3>3 DEF Single, ReadIsKept
      <4>2. Leader(d) = n /\ Follower(d) = f => f \notin DOMAIN followers[n]
        <5>1. Leader(d) = n /\ Follower(d) = f => Patient(c)
          BY <1>2, <2>9 DEF Patient, f
        <5> QED BY <1>2, <5>1 DEF Single, OneDial, Coming, e, f
      <4> QED BY <1>4, <4>1, <4>2
    <3> QED BY <3>1, <3>2, <3>3
  <2>11. Patient(d)' => Patient(d)
    BY <1>1 DEF Patient
  <2> QED BY <2>1, <2>2, <2>3, <2>4, <2>5, <2>6, <2>7, <2>8, <2>9, <2>11 DEF Alive, Single
<1> QED BY <1>1, <1>8, <1>9, <1>12, <1>13

\* An idle instance takes the leader that says hello.
LEMMA LeaderTakenKeeps ==
  ASSUME IInv, NEW n \in Node, NEW c \in Conn, Handled(n, Hello(c)),
         OnLeaderHello(n, c), role[n] = "Idle"
  PROVE  IInv'
<1> USE DEF IInv
<1> DEFINE e == Hello(c)
<1>1. /\ UNCHANGED <<ends, hasty, dialer, acceptor, open, followers, teeActive>>
      /\ Dialled' = Dialled /\ \A d : Leader(d)' = Leader(d) /\ Follower(d)' = Follower(d)
  BY DEF Handled, OnLeaderHello, Dialled, Leader, Follower
<1>2. Queued(n, e) /\ c \in Dialled /\ Follower(c) = n
  BY HandledFacts DEF Addressed
<1>3. \A d \in Dialled : d \in Conn /\ d # NoConn /\ Leader(d) \in Node /\ Follower(d) \in Node
  BY DialledFacts
<1>4. /\ role' = [role EXCEPT ![n] = "Follower"] /\ busy' = [busy EXCEPT ![n] = TRUE]
      /\ followerActive' = [followerActive EXCEPT ![n] = TRUE]
      /\ via' = [via EXCEPT ![n] = c]
  BY DEF OnLeaderHello
<1>5. via[n] = NoConn /\ DOMAIN followers[n] = {} /\ ~teeActive[n]
  BY DEF FlagsMatchRole
<1>6. via'[n] = c /\ \A m \in Node : m # n => via'[m] = via[m]
  BY <1>4 DEF TypeOK
<1>7. TypeOK'
  <2>1. events' \in [Node -> Seq(Event)]
    BY HandledFacts
  <2> QED BY <1>1, <1>2, <1>4, <2>1 DEF TypeOK
<1>8. FlagsMatchRole'
  <2>1. /\ role'[n] = "Follower" /\ busy'[n] /\ followerActive'[n] /\ c # NoConn
        /\ \A m \in Node : m # n => role'[m] = role[m] /\ busy'[m] = busy[m]
                                    /\ followerActive'[m] = followerActive[m]
    BY <1>2, <1>3, <1>4 DEF TypeOK
  <2> QED BY <1>1, <1>5, <1>6, <2>1 DEF FlagsMatchRole
<1> HIDE DEF e
<1>9. /\ \A m \in Node : \A x : Queued(m, x)' => Queued(m, x)
      /\ \A m \in Node : \A x : x # e /\ Queued(m, x) => Queued(m, x)'
      /\ \A m \in Node : \A x : Once(m, x) => Once(m, x)'
      /\ Once(n, e) => ~Queued(n, e)'
      /\ \A m \in Node : \A x, g : Trailed(m, x, g) => Trailed(m, x, g)'
      /\ \A g : Trailed(n, e, g) => Queued(n, g)'
  BY HandledFacts DEF e
<1>10. \A d : Connection(d) # e /\ Gone(d) # e /\ (d # c => Hello(d) # e) /\ LeaderLost # e
  BY EventFacts DEF e
<1>11. \A d \in Conn : Addressed(d)'
  BY <1>1, <1>9 DEF Addressed
<1>12. ASSUME NEW d \in Dialled
       PROVE  /\ HelloOnce(d)' /\ TasksOutlive(d)' /\ GroupedFollows(d)' /\ Alive(d)'
              /\ Single(d)'
  <2> USE <1>1, <1>3, <1>12
  <2>1. HelloOnce(d)'
    <3>1. CASE d = c
      <4>1. \A m \in Node : ~Queued(m, Hello(c))'
        BY <1>2, <1>9 DEF HelloOnce, Addressed, e
      <4> QED BY <1>2, <1>6, <1>9, <3>1, <4>1 DEF HelloOnce, e
    <3>2. CASE d # c
      BY <1>6, <1>9, <3>2 DEF HelloOnce
    <3> QED BY <3>1, <3>2
  <2>2. TasksOutlive(d)'
    BY DEF TasksOutlive
  <2>3. GroupedFollows(d)'
    <3>1. CASE d = c
      BY <1>2, <1>6, <3>1 DEF GroupedFollows
    <3>2. CASE d # c
      BY <1>5, <1>6, <1>9, <1>10, <3>2 DEF GroupedFollows
    <3> QED BY <3>1, <3>2
  <2>4. HandleAlive(d)'
    BY <1>9, <1>10 DEF Alive, HandleAlive
  <2>5. ConnectionAlive(d)'
    BY <1>9 DEF Alive, ConnectionAlive
  <2>6. LeaseAlive(d)'
    <3>1. CASE d = c
      <4>1. acceptor[c] = "Grouped" \/ (acceptor[c] = "Done" /\ Trailed(n, e, LeaderLost))
        BY <1>2 DEF Alive, HelloAlive, e
      <4>2. \A m \in Node : via'[m] = c => m = n
        BY <1>2, <1>6 DEF HelloOnce
      <4> QED BY <1>9, <3>1, <4>1, <4>2 DEF LeaseAlive
    <3>2. CASE d # c
      BY <1>6, <1>9, <1>10, <3>2 DEF Alive, LeaseAlive
    <3> QED BY <3>1, <3>2
  <2>7. HelloAlive(d)'
    BY <1>9 DEF Alive, HelloAlive
  <2>8. \A b \in Dialled : Coming(b)' <=> Coming(b)
    BY <1>9, <1>10 DEF Coming
  <2>11. Patient(d)' => Patient(d)
    BY <1>1 DEF Patient
  <2>9. Patient(d) => OneDial(d)'
    BY <1>9, <2>8 DEF Single, OneDial
  <2>10. Patient(d) => ReadIsKept(d)'
    BY <1>9, <1>10 DEF Single, ReadIsKept
  <2> QED BY <2>1, <2>2, <2>3, <2>4, <2>5, <2>6, <2>7, <2>9, <2>10, <2>11 DEF Alive, Single
<1> QED BY <1>1, <1>7, <1>8, <1>11, <1>12

LEMMA HandleEventKeeps ==
  ASSUME IInv, NEW n \in Node, HandleEvent(n)
  PROVE  IInv'
<1>1. PICK e : /\ Handled(n, e) /\ Queued(n, e)
               /\ \/ \E c \in Conn : e = Connection(c) /\ OnFollowerConnected(n, c)
                  \/ \E f \in Node : e = Gone(f) /\ OnFollowerGone(n, f)
                  \/ \E c \in Conn : e = Hello(c) /\ OnLeaderHello(n, c)
                  \/ e = LeaderLost /\ OnLeaderGone(n)
  BY EventCases
<1>2. ASSUME NEW c \in Conn, e = Connection(c), OnFollowerConnected(n, c)
      PROVE  IInv'
  <2>1. CASE role[n] = "Follower"
    <3>1. UNCHANGED loop /\ Close({c})
      BY <1>2, <2>1 DEF OnFollowerConnected
    <3> QED BY <1>1, <1>2, <3>1, TurnedDownKeeps
  <2>2. CASE role[n] # "Follower"
    BY <1>1, <1>2, <2>2, FollowerTakenKeeps
  <2> QED BY <2>1, <2>2
<1>3. ASSUME NEW c \in Conn, e = Hello(c), OnLeaderHello(n, c)
      PROVE  IInv'
  <2>1. CASE role[n] # "Idle"
    <3>1. UNCHANGED loop /\ Close({c})
      BY <1>3, <2>1 DEF OnLeaderHello
    <3> QED BY <1>1, <1>3, <3>1, TurnedDownKeeps
  <2>2. CASE role[n] = "Idle"
    BY <1>1, <1>3, <2>2, LeaderTakenKeeps
  <2> QED BY <2>1, <2>2
<1>4. ASSUME NEW f \in Node, e = Gone(f), OnFollowerGone(n, f)
      PROVE  IInv'
  BY <1>1, <1>4, FollowerGoneKeeps
<1>5. ASSUME e = LeaderLost, OnLeaderGone(n)
      PROVE  IInv'
  BY <1>1, <1>5, LeaderGoneKeeps
<1> QED BY <1>1, <1>2, <1>3, <1>4, <1>5

LEMMA CrashKeeps ==
  ASSUME IInv, NEW n \in Node, Crash(n)
  PROVE  IInv'
<1> USE DEF IInv
<1> DEFINE touched(d) == n = Leader(d) \/ n = Follower(d)
<1>1. /\ UNCHANGED <<ends, hasty>> /\ Dialled' = Dialled
      /\ \A d : Leader(d)' = Leader(d) /\ Follower(d)' = Follower(d)
  BY DEF Crash, Dialled, Leader, Follower
<1>2. \A d \in Dialled : d \in Conn /\ d # NoConn /\ Leader(d) \in Node /\ Follower(d) \in Node
  BY DialledFacts
<1>3. /\ open' \in [Dialled -> BOOLEAN]
      /\ \A d \in Dialled : open'[d] <=> open[d] /\ ~touched(d)
  <2> DEFINE cs == {d \in Dialled : n \in {Leader(d), Follower(d)}}
  <2>1. Close(cs)
    BY DEF Crash
  <2>2. \A d \in Dialled : d \in cs <=> touched(d)
    OBVIOUS
  <2> HIDE DEF cs, touched
  <2>3. /\ open' \in [Dialled -> BOOLEAN]
        /\ \A d \in Dialled : open'[d] <=> open[d] /\ d \notin cs
    BY <2>1, CloseFacts
  <2> QED BY <2>2, <2>3
<1>4. /\ dialer' \in [Dialled -> {"Dialing", "Reading", "Done"}]
      /\ acceptor' \in [Dialled -> {"Waiting", "Acked", "Grouped", "Done"}]
      /\ \A d \in Dialled : dialer'[d] = IF Leader(d) = n THEN "Done" ELSE dialer[d]
      /\ \A d \in Dialled : acceptor'[d] = IF Follower(d) = n THEN "Done" ELSE acceptor[d]
  BY DEF Crash, TypeOK
<1>5. /\ role' \in [Node -> {"Idle", "Leader", "Follower"}] /\ busy' \in [Node -> BOOLEAN]
      /\ followerActive' \in [Node -> BOOLEAN] /\ teeActive' \in [Node -> BOOLEAN]
      /\ via' \in [Node -> Dialled \cup {NoConn}] /\ DOMAIN followers' = Node
      /\ role'[n] = "Idle" /\ ~busy'[n] /\ ~followerActive'[n] /\ ~teeActive'[n]
      /\ via'[n] = NoConn /\ DOMAIN followers'[n] = {}
      /\ \A m \in Node : m # n => /\ role'[m] = role[m] /\ busy'[m] = busy[m]
                                  /\ followerActive'[m] = followerActive[m]
                                  /\ teeActive'[m] = teeActive[m] /\ via'[m] = via[m]
                                  /\ followers'[m] = followers[m]
  BY DEF Crash, TypeOK
<1>6. /\ events' \in [Node -> Seq(Event)] /\ events'[n] = <<>>
      /\ \A m \in Node : m # n => events'[m] = events[m]
  BY DEF Crash, TypeOK
<1>7. /\ \A x : ~Queued(n, x)' /\ Once(n, x)'
      /\ \A m \in Node : m # n => \A x, g : /\ Queued(m, x)' <=> Queued(m, x)
                                            /\ Once(m, x)' <=> Once(m, x)
                                            /\ Trailed(m, x, g)' <=> Trailed(m, x, g)
  BY <1>6 DEF Queued, Once, Trailed
<1>8. TypeOK'
  <2>1. \A m \in Node : /\ DOMAIN followers'[m] \subseteq Node
                        /\ \A f \in DOMAIN followers'[m] : followers'[m][f] \in Dialled
    BY <1>5 DEF TypeOK
  <2> QED BY <1>1, <1>3, <1>4, <1>5, <1>6, <2>1 DEF TypeOK
<1>9. FlagsMatchRole'
  BY <1>5 DEF FlagsMatchRole
<1>10. \A d \in Conn : Addressed(d)'
  BY <1>1, <1>7 DEF Addressed
<1>11. ASSUME NEW d \in Dialled
       PROVE  /\ HelloOnce(d)' /\ TasksOutlive(d)' /\ GroupedFollows(d)' /\ Alive(d)'
              /\ Single(d)'
  <2> USE <1>1, <1>2, <1>11
  <2>0. /\ \A m \in Node : via'[m] = d => m # n /\ via[m] = d
        /\ \A m \in Node : Queued(m, Hello(d))' => m # n /\ Queued(m, Hello(d))
        /\ \A m \in Node : Once(m, Hello(d)) => Once(m, Hello(d))'
        /\ acceptor'[d] = acceptor[d] \/ (acceptor'[d] = "Done" /\ Follower(d) = n)
    BY <1>4, <1>5, <1>7
  <2>1. HelloOnce(d)'
    BY <2>0 DEF HelloOnce
  <2>2. TasksOutlive(d)'
    BY <1>3, <1>4 DEF TasksOutlive
  <2>3. GroupedFollows(d)'
    BY <1>3, <1>4, <1>5, <1>7, SMTT(30) DEF GroupedFollows
  <2>4. HandleAlive(d)'
    <3> SUFFICES ASSUME NEW m \in Node, NEW f \in DOMAIN followers'[m], followers'[m][f] = d
                 PROVE  /\ ends[d] = [leader |-> m, follower |-> f]
                        /\ dialer'[d] = "Reading" \/ (dialer'[d] = "Done" /\ Queued(m, Gone(f))')
      BY DEF HandleAlive
    <3>1. m # n /\ f \in DOMAIN followers[m] /\ followers[m][f] = d
      BY <1>5
    <3>2. ends[d] = [leader |-> m, follower |-> f]
      BY <3>1 DEF Alive, HandleAlive
    <3>3. Leader(d) = m
      BY <3>2 DEF Leader
    <3> QED BY <1>4, <1>7, <3>1, <3>2, <3>3 DEF Alive, HandleAlive
  <2>5. ConnectionAlive(d)'
    <3> SUFFICES ASSUME NEW m \in Node, Queued(m, Connection(d))'
                 PROVE  \/ dialer'[d] = "Reading"
                        \/ (dialer'[d] = "Done" /\ Trailed(m, Connection(d), Gone(Follower(d)))')
      BY DEF ConnectionAlive
    <3>1. m # n /\ Queued(m, Connection(d))
      BY <1>7
    <3>2. Leader(d) = m
      BY <3>1 DEF Addressed
    <3> QED BY <1>4, <1>7, <3>1, <3>2 DEF Alive, ConnectionAlive
  <2>6. LeaseAlive(d)'
    BY <1>7, <2>0 DEF Alive, LeaseAlive, HelloOnce
  <2>7. HelloAlive(d)'
    <3> SUFFICES ASSUME NEW m \in Node, Queued(m, Hello(d))'
                 PROVE  \/ acceptor'[d] = "Grouped"
                        \/ (acceptor'[d] = "Done" /\ Trailed(m, Hello(d), LeaderLost)')
      BY DEF HelloAlive
    <3>1. m # n /\ Queued(m, Hello(d))
      BY <1>7
    <3>2. Follower(d) = m
      BY <3>1 DEF Addressed
    <3> QED BY <1>4, <1>7, <3>1, <3>2 DEF Alive, HelloAlive
  <2>8. \A b \in Dialled : Coming(b)' => Coming(b) /\ Leader(b) # n
    BY <1>4, <1>7 DEF Coming
  <2>11. Patient(d)' => Patient(d)
    BY <1>1 DEF Patient
  <2>9. Patient(d) => OneDial(d)'
    BY <1>4, <1>5, <1>7, <2>8 DEF Single, OneDial
  <2>10. ASSUME Patient(d) PROVE ReadIsKept(d)'
    <3>1. ReadIsKept(d)
      BY <2>10 DEF Single
    <3> HIDE DEF IInv
    <3> QED BY <1>3, <1>4, <1>5, <1>7, <3>1 DEF ReadIsKept
  <2> QED BY <2>1, <2>2, <2>3, <2>4, <2>5, <2>6, <2>7, <2>9, <2>10, <2>11 DEF Alive, Single
<1> QED BY <1>1, <1>8, <1>9, <1>10, <1>11

\* A dial adds a connection nobody knows of.
LEMMA AddToGroupKeeps ==
  ASSUME IInv, NEW n \in Node, NEW f \in Node, AddToGroup(n, f)
  PROVE  IInv'
<1> USE DEF IInv
<1> DEFINE k == Cardinality(Dialled)
<1> SUFFICES ASSUME NEW c, c = k + 1
             PROVE  IInv'
  OBVIOUS
<1>1. k \in Nat /\ Dialled = 1..k /\ k < MaxConn
  <2>1. Dialled = 1..k /\ Dialled \subseteq 1..MaxConn
    BY DEF TypeOK, Conn
  <2>2. IsFiniteSet(Dialled)
    <3>1. IsFiniteSet(1..MaxConn)
      BY FS_Interval, GroupAssumption
    <3> QED BY <2>1, <3>1, FS_Subset
  <2> QED BY <2>1, <2>2, FS_CardinalityType DEF AddToGroup
<1>2. c \in Conn /\ c \notin Dialled /\ Dialled \cup {c} = 1..c /\ c # NoConn
  BY <1>1, GroupAssumption DEF Conn
<1>3. UNCHANGED <<role, followers, via, busy, followerActive, teeActive, events>>
  BY DEF AddToGroup, loop, flags
<1>4. /\ ends' = [d \in Dialled \cup {c} |-> IF d = c THEN [leader |-> n, follower |-> f] ELSE ends[d]]
      /\ open' = [d \in Dialled \cup {c} |-> IF d = c THEN TRUE ELSE open[d]]
      /\ dialer' = [d \in Dialled \cup {c} |-> IF d = c THEN "Dialing" ELSE dialer[d]]
      /\ acceptor' = [d \in Dialled \cup {c} |-> IF d = c THEN "Waiting" ELSE acceptor[d]]
  BY DEF AddToGroup
<1>5. hasty' = IF UnderWay(n, f) THEN hasty \cup {<<n, f>>} ELSE hasty
  BY DEF AddToGroup
<1>6. f \notin DOMAIN followers[n]
  BY DEF AddToGroup
<1>7. Cardinality(1..c) = c
  BY <1>1, FS_Interval
<1> HIDE DEF k
<1>8. Dialled' = Dialled \cup {c}
  BY <1>4 DEF Dialled
<1>9. /\ ends'[c] = [leader |-> n, follower |-> f] /\ open'[c]
      /\ dialer'[c] = "Dialing" /\ acceptor'[c] = "Waiting"
      /\ \A d \in Dialled : /\ d # c /\ ends'[d] = ends[d] /\ open'[d] = open[d]
                            /\ dialer'[d] = dialer[d] /\ acceptor'[d] = acceptor[d]
  BY <1>2, <1>4
<1>10. /\ Leader(c)' = n /\ Follower(c)' = f
       /\ \A d \in Dialled : Leader(d)' = Leader(d) /\ Follower(d)' = Follower(d)
  BY <1>9 DEF Leader, Follower
<1>11. \A m \in Node : \A x, g : /\ Queued(m, x)' <=> Queued(m, x)
                                 /\ Once(m, x)' <=> Once(m, x)
                                 /\ Trailed(m, x, g)' <=> Trailed(m, x, g)
  BY <1>3, KeepFacts
<1>12. /\ \A m \in Node : ~Queued(m, Hello(c)) /\ ~Queued(m, Connection(c)) /\ via[m] # c
       /\ \A m \in Node : \A g \in DOMAIN followers[m] : followers[m][g] # c
  BY <1>2 DEF Addressed, TypeOK
<1>13. TypeOK'
  <2>1. Dialled' = 1..Cardinality(Dialled') /\ Dialled' \subseteq Conn
    BY <1>1, <1>2, <1>7, <1>8 DEF TypeOK
  <2>2. /\ ends' \in [Dialled' -> [leader : Node, follower : Node]]
        /\ open' \in [Dialled' -> BOOLEAN]
        /\ dialer' \in [Dialled' -> {"Dialing", "Reading", "Done"}]
        /\ acceptor' \in [Dialled' -> {"Waiting", "Acked", "Grouped", "Done"}]
    BY <1>4, <1>8 DEF TypeOK
  <2>3. /\ via' \in [Node -> Dialled' \cup {NoConn}]
        /\ \A m \in Node : \A g \in DOMAIN followers'[m] : followers'[m][g] \in Dialled'
    BY <1>3, <1>8 DEF TypeOK
  <2>4. hasty' \subseteq Node \X Node
    BY <1>5 DEF TypeOK
  <2> QED BY <1>3, <2>1, <2>2, <2>3, <2>4 DEF TypeOK
<1>14. FlagsMatchRole'
  BY <1>3 DEF FlagsMatchRole
<1>15. \A d \in Conn : Addressed(d)'
  BY <1>8, <1>10, <1>11 DEF Addressed
<1>16. \A d \in Dialled : Coming(d)' <=> Coming(d)
  BY <1>9, <1>10, <1>11, DialledFacts DEF Coming
<1>17. ASSUME <<n, f>> \notin hasty', NEW d \in Dialled, ends[d] = [leader |-> n, follower |-> f]
       PROVE  ~Coming(d)
  <2>1. Leader(d) = n /\ Follower(d) = f
    BY <1>17 DEF Leader, Follower
  <2>2. dialer[d] # "Dialing"
    BY <1>5, <1>17 DEF UnderWay
  <2>3. ~Queued(n, Connection(d))
    BY <1>5, <1>17, <2>1 DEF UnderWay, Queued, Connection
  <2> QED BY <2>1, <2>2, <2>3 DEF Coming
<1>18. ASSUME NEW d \in Dialled
       PROVE  /\ HelloOnce(d)' /\ TasksOutlive(d)' /\ GroupedFollows(d)' /\ Alive(d)'
              /\ Single(d)'
  <2>1. /\ Leader(d) \in Node /\ Follower(d) \in Node
        /\ ends'[d] = ends[d] /\ open'[d] = open[d] /\ dialer'[d] = dialer[d]
        /\ acceptor'[d] = acceptor[d] /\ Leader(d)' = Leader(d) /\ Follower(d)' = Follower(d)
    BY <1>9, <1>10, DialledFacts
  <2>2. HelloOnce(d)' /\ TasksOutlive(d)'
    BY <1>3, <1>11, <2>1 DEF HelloOnce, TasksOutlive
  <2>3. GroupedFollows(d)'
    BY <1>3, <1>11, <2>1 DEF GroupedFollows
  <2>4. HandleAlive(d)' /\ ConnectionAlive(d)'
    BY <1>3, <1>11, <2>1 DEF Alive, HandleAlive, ConnectionAlive
  <2>5. LeaseAlive(d)' /\ HelloAlive(d)'
    BY <1>3, <1>11, <2>1 DEF Alive, LeaseAlive, HelloAlive
  <2>8. Patient(d)' => Patient(d) /\ <<Leader(d), Follower(d)>> \notin hasty'
    BY <1>5, <2>1 DEF Patient
  <2>6. ASSUME Patient(d)'
        PROVE  OneDial(d)'
    <3>1. \A b \in Dialled' : Coming(b)' /\ Coming(d)' /\ ends'[b] = ends'[d] => b = d
      <4>1. \A b \in Dialled : Coming(b)' /\ Coming(d)' /\ ends'[b] = ends'[d] => b = d
        BY <1>9, <1>16, <2>6, <2>8 DEF Single, OneDial
      <4>2. Coming(d)' => ends'[c] # ends'[d]
        <5> SUFFICES ASSUME Coming(d), ends[d] = [leader |-> n, follower |-> f] PROVE FALSE
          BY <1>9, <1>16
        <5>1. Leader(d) = n /\ Follower(d) = f
          BY DEF Leader, Follower
        <5> QED BY <1>17, <2>6, <2>8, <5>1
      <4> QED BY <1>8, <4>1, <4>2
    <3> QED BY <1>3, <1>11, <1>16, <2>1, <2>6, <2>8, <3>1 DEF Single, OneDial
  <2>7. Patient(d)' => ReadIsKept(d)'
    BY <1>3, <1>11, <2>1, <2>8 DEF Single, ReadIsKept
  <2> QED BY <2>2, <2>3, <2>4, <2>5, <2>6, <2>7 DEF Alive, Single
<1>19. /\ HelloOnce(c)' /\ TasksOutlive(c)' /\ GroupedFollows(c)' /\ Alive(c)'
       /\ Single(c)'
  <2>1. HelloOnce(c)' /\ TasksOutlive(c)'
    <3>1. \A m \in Node : Once(m, Hello(c))
      BY <1>12 DEF Once, Queued
    <3> QED BY <1>3, <1>9, <1>11, <1>12, <3>1 DEF HelloOnce, TasksOutlive
  <2>2. GroupedFollows(c)' /\ Alive(c)'
    BY <1>3, <1>9, <1>11, <1>12
       DEF GroupedFollows, Alive, HandleAlive, ConnectionAlive, LeaseAlive, HelloAlive
  <2>3. Patient(c)' => OneDial(c)'
    <3>1. Once(n, Connection(c))
      BY <1>12 DEF Once, Queued
    <3>2. Patient(c)' => \A b \in Dialled' : Coming(b)' /\ ends'[b] = ends'[c] => b = c
      BY <1>8, <1>9, <1>10, <1>16, <1>17 DEF Patient
    <3> QED BY <1>3, <1>6, <1>10, <1>11, <1>12, <3>1, <3>2 DEF OneDial
  <2>4. ReadIsKept(c)'
    BY <1>9 DEF ReadIsKept
  <2> QED BY <2>1, <2>2, <2>3, <2>4 DEF Single
<1> QED BY <1>8, <1>13, <1>14, <1>15, <1>18, <1>19

-----------------------------------------------------------------------------
(* The theorems.                                                           *)

LEMMA InitKeeps ==
  ASSUME Init
  PROVE  IInv
<1>1. Dialled = {}
  BY DEF Init, Dialled
<1>2. TypeOK
  <2>1. Dialled = 1..Cardinality(Dialled) /\ Dialled \subseteq Conn
    BY <1>1, FS_EmptySet
  <2>2. DOMAIN followers = Node /\ \A n \in Node : DOMAIN followers[n] = {}
    BY DEF Init
  <2>3. /\ ends \in [Dialled -> [leader : Node, follower : Node]] /\ open \in [Dialled -> BOOLEAN]
        /\ dialer \in [Dialled -> {"Dialing", "Reading", "Done"}]
        /\ acceptor \in [Dialled -> {"Waiting", "Acked", "Grouped", "Done"}]
    BY <1>1 DEF Init, Dialled
  <2>4. events \in [Node -> Seq(Event)] /\ via \in [Node -> Dialled \cup {NoConn}]
    BY DEF Init
  <2>5. /\ role \in [Node -> {"Idle", "Leader", "Follower"}] /\ busy \in [Node -> BOOLEAN]
        /\ followerActive \in [Node -> BOOLEAN] /\ teeActive \in [Node -> BOOLEAN]
    BY DEF Init
  <2> QED BY <2>1, <2>2, <2>3, <2>4, <2>5 DEF TypeOK, Init
<1>3. FlagsMatchRole
  BY DEF Init, FlagsMatchRole
<1>4. \A c \in Conn : Addressed(c)
  BY DEF Init, Addressed, Queued
<1> QED BY <1>1, <1>2, <1>3, <1>4 DEF IInv

LEMMA TaskStepMoves ==
  ASSUME IInv, NEW c \in Dialled, TaskStep(c) \/ Loss(c)
  PROVE  TaskMove
BY AcceptMoves, AnnounceMoves, AckFailsMoves, LeaderEndsMoves, ConnectedMoves,
   DialFailsMoves, FollowerEndsMoves, LossMoves DEF TaskStep

LEMMA NextKeeps ==
  ASSUME IInv, [Next]_vars
  PROVE  IInv'
<1>1. ASSUME NEW c \in Dialled, TaskStep(c) \/ Loss(c)
      PROVE  IInv'
  BY <1>1, TaskStepMoves, TaskMoveKeeps
<1>2. ASSUME NEW n \in Node, HandleEvent(n) \/ LeaveGroup(n) \/ Crash(n)
      PROVE  IInv'
  BY <1>2, HandleEventKeeps, LeaveGroupKeeps, CrashKeeps
<1>3. ASSUME NEW n \in Node, NEW f \in Node, AddToGroup(n, f) \/ RemoveFromGroup(n, f)
      PROVE  IInv'
  BY <1>3, AddToGroupKeeps, RemoveFromGroupKeeps
<1>4. ASSUME UNCHANGED vars
      PROVE  IInv'
  <2>1. LetGo
    <3>1. UNCHANGED loop /\ Close({}) /\ events' = events /\ UNCHANGED <<ends, hasty, dialer, acceptor>>
      BY <1>4 DEF vars, tasks, Close, IInv, TypeOK
    <3> QED BY <3>1, SameLoopLetsGo, KeptEventsLetGo DEF LetGo
  <2> QED BY <2>1, LetGoKeeps
<1> QED BY <1>1, <1>2, <1>3, <1>4 DEF Next

\* The inductive invariant: besides the types and the flags, no event tells of a
\* connection twice, a task outlives its connection, and whoever keeps a dead
\* connection, or will keep one, has an event coming that takes it away again.
THEOREM Invariant == Spec => []IInv
BY InitKeeps, NextKeeps, PTL DEF Spec

\* In every state the flags that the other threads read agree with the role
\* (lib.rs), whether or not users wait for their dials.
THEOREM Flags == Spec => []FlagsMatchRole
<1>1. IInv => FlagsMatchRole
  BY DEF IInv
<1> QED BY <1>1, Invariant, PTL

\* Once nothing is queued and no task has a step to take, leader and follower
\* agree on who is grouped with whom.
LEMMA SettledAgrees == IInv => Agreement
<1> SUFFICES ASSUME IInv, Settled, NEW l \in Node, NEW f \in Node
             PROVE  /\ f \in DOMAIN followers[l] =>
                         /\ via[f] = followers[l][f]
                         /\ ends[via[f]] = [leader |-> l, follower |-> f] /\ open[via[f]]
                    /\ via[f] # NoConn /\ Leader(via[f]) = l =>
                         f \in DOMAIN followers[l] \/ <<l, f>> \in hasty
  BY DEF Agreement
<1> USE DEF IInv
<1>1. \A n \in Node : \A x : ~Queued(n, x)
  BY DEF Settled, Queued
<1>2. ASSUME f \in DOMAIN followers[l]
      PROVE  via[f] = followers[l][f] /\ ends[via[f]] = [leader |-> l, follower |-> f] /\ open[via[f]]
  <2> DEFINE c == followers[l][f]
  <2>1. c \in Dialled /\ c # NoConn
    BY <1>2, DialledFacts DEF TypeOK
  <2>2. ends[c] = [leader |-> l, follower |-> f] /\ dialer[c] = "Reading"
    BY <1>1, <1>2, <2>1 DEF Alive, HandleAlive
  <2>3. open[c] /\ acceptor[c] \notin {"Waiting", "Acked", "Done"}
    BY <2>1, <2>2 DEF Settled, TasksOutlive
  <2>4. acceptor[c] = "Grouped"
    BY <2>1, <2>3 DEF TypeOK
  <2>5. via[f] = c
    BY <1>1, <2>1, <2>2, <2>3, <2>4 DEF GroupedFollows, Follower
  <2> QED BY <2>2, <2>3, <2>5
<1>3. ASSUME via[f] # NoConn, Leader(via[f]) = l, <<l, f>> \notin hasty
      PROVE  f \in DOMAIN followers[l]
  <2> DEFINE c == via[f]
  <2>1. c \in Dialled
    BY <1>3 DEF TypeOK
  <2>2. Follower(c) = f /\ acceptor[c] = "Grouped"
    BY <1>1, <2>1 DEF HelloOnce, Alive, LeaseAlive
  <2>3. open[c] /\ dialer[c] = "Reading"
    BY <2>1, <2>2 DEF Settled, TasksOutlive, TypeOK
  <2>4. Patient(c)
    BY <1>3, <2>2 DEF Patient
  <2> QED BY <1>1, <1>3, <2>1, <2>2, <2>3, <2>4 DEF Single, ReadIsKept
<1> QED BY <1>2, <1>3

\* The rooms are what every instance takes them for, for any number of instances,
\* connections and faults and whatever users press: but for a room that was added
\* again while it was dialled, which may stay with a leader that has let it go.
THEOREM Rooms == Spec => []RoomsAgree
<1>1. IInv => RoomsAgree
  BY SettledAgrees DEF RoomsAgree, IInv
<1> QED BY <1>1, Invariant, PTL

-----------------------------------------------------------------------------
(* The lease: every step maps to a step of GroupLease or to a stutter.     *)

Over == {c \in Dialled : ~Pending(c) /\ \A n \in Node : via[n] # c}

LEMMA PendingFacts ==
  ASSUME TypeOK
  PROVE  \A c \in Dialled :
           Pending(c) <=> \/ acceptor[c] \in {"Waiting", "Acked"}
                          \/ \E n \in Node : Queued(n, Hello(c))
BY DEF Pending, Queued, Hello

\* A connection that is not pending never is again; a new one is.
PendingFalls ==
  /\ Dialled \subseteq Dialled'
  /\ \A c \in Dialled : Pending(c)' => Pending(c)
  /\ \A c \in Dialled' \ Dialled : Pending(c)'

LeaderDropped(n) == n \in Node /\ via' = [via EXCEPT ![n] = NoConn]

LeaderTaken(n, c) ==
  /\ n \in Node /\ c \in Dialled /\ Queued(n, Hello(c)) /\ via[n] = NoConn
  /\ via' = [via EXCEPT ![n] = c]
  /\ Dialled' = Dialled /\ \A d \in Dialled : d # c /\ Pending(d) => Pending(d)'

LeaseMoves == via' = via \/ \E n : LeaderDropped(n) \/ \E c : LeaderTaken(n, c)

LEMMA TaskMoveFalls ==
  ASSUME IInv, IInv', TaskMove
  PROVE  PendingFalls /\ via' = via
<1> USE DEF IInv, TaskMove
<1>1. Dialled' = Dialled /\ via' = via /\ \A d : Follower(d)' = Follower(d)
  BY DEF Dialled, loop, Follower
<1>2. ASSUME NEW c \in Dialled, Pending(c)'
      PROVE  Pending(c)
  <2>1. c \in Conn /\ acceptor[c] \in {"Waiting", "Acked", "Grouped", "Done"}
    BY DialledFacts DEF TypeOK
  <2>2. acceptor'[c] \in {"Waiting", "Acked"} \/ \E n \in Node : Queued(n, Hello(c))'
    BY <1>1, <1>2, PendingFacts DEF Pending, Queued, Hello
  <2>3. acceptor'[c] \in {"Waiting", "Acked"} => acceptor[c] \in {"Waiting", "Acked"}
    BY DEF AcceptorMoves
  <2>4. ASSUME NEW n \in Node, Queued(n, Hello(c))'
        PROVE  Queued(n, Hello(c)) \/ acceptor[c] = "Acked"
    BY <2>1, <2>4 DEF EventsMove, HelloSent
  <2> QED BY <2>2, <2>3, <2>4, PendingFacts
<1> QED BY <1>1, <1>2 DEF PendingFalls

\* The steps of the main loop leave the tasks alone, and send no hello.
LEMMA LoopFalls ==
  ASSUME IInv, IInv', UNCHANGED <<ends, hasty, acceptor>>,
         \A n \in Node : \A x : Queued(n, x)' => Queued(n, x)
  PROVE  PendingFalls
<1> USE DEF IInv
<1>1. Dialled' = Dialled
  BY DEF Dialled
<1>2. ASSUME NEW c \in Dialled, Pending(c)'
      PROVE  Pending(c)
  <2>1. acceptor'[c] \in {"Waiting", "Acked"} \/ \E n \in Node : Queued(n, Hello(c))'
    BY <1>1, <1>2, PendingFacts DEF Pending, Queued, Hello
  <2> QED BY <2>1, PendingFacts
<1> QED BY <1>1, <1>2 DEF PendingFalls

LEMMA HandleEventLease ==
  ASSUME IInv, IInv', NEW n \in Node, HandleEvent(n)
  PROVE  PendingFalls /\ LeaseMoves
<1> USE DEF IInv
<1>1. PICK e : /\ Handled(n, e) /\ Queued(n, e)
               /\ \/ \E c \in Conn : e = Connection(c) /\ OnFollowerConnected(n, c)
                  \/ \E f \in Node : e = Gone(f) /\ OnFollowerGone(n, f)
                  \/ \E c \in Conn : e = Hello(c) /\ OnLeaderHello(n, c)
                  \/ e = LeaderLost /\ OnLeaderGone(n)
  BY EventCases
<1>2. /\ \A m \in Node : \A x : Queued(m, x)' => Queued(m, x)
      /\ \A m \in Node : \A x : x # e /\ Queued(m, x) => Queued(m, x)'
  BY <1>1, HandledFacts
<1>3. UNCHANGED <<ends, hasty, acceptor>> /\ Dialled' = Dialled
  BY <1>1 DEF Handled, Dialled
<1>4. PendingFalls
  BY <1>2, <1>3, LoopFalls
<1>5. ASSUME NEW c \in Conn, e = Connection(c), OnFollowerConnected(n, c)
      PROVE  LeaseMoves
  BY <1>5 DEF OnFollowerConnected, LeaseMoves, loop
<1>6. ASSUME NEW f \in Node, e = Gone(f), OnFollowerGone(n, f)
      PROVE  LeaseMoves
  BY <1>6 DEF OnFollowerGone, Remove, LeaseMoves, loop
<1>7. ASSUME e = LeaderLost, OnLeaderGone(n)
      PROVE  LeaseMoves
  BY <1>7 DEF OnLeaderGone, Leave, LeaseMoves, LeaderDropped, loop
<1>8. ASSUME NEW c \in Conn, e = Hello(c), OnLeaderHello(n, c)
      PROVE  LeaseMoves
  <2>1. CASE role[n] # "Idle"
    BY <1>8, <2>1 DEF OnLeaderHello, LeaseMoves, loop
  <2>2. CASE role[n] = "Idle"
    <3>1. c \in Dialled /\ via[n] = NoConn /\ via' = [via EXCEPT ![n] = c]
      BY <1>1, <1>8, <2>2 DEF Addressed, FlagsMatchRole, OnLeaderHello
    <3>2. ASSUME NEW d \in Dialled, d # c, Pending(d)
          PROVE  Pending(d)'
      <4>1. acceptor[d] \in {"Waiting", "Acked"} \/ \E m \in Node : Queued(m, Hello(d))
        BY <3>2, PendingFacts
      <4>2. Hello(d) # e
        BY <1>8, <3>2, EventFacts
      <4>3. acceptor'[d] \in {"Waiting", "Acked"} \/ \E m \in Node : Queued(m, Hello(d))'
        BY <1>2, <1>3, <4>1, <4>2
      <4> QED BY <1>3, <4>3, PendingFacts DEF Pending, Queued, Hello
    <3> QED BY <1>1, <1>3, <1>8, <3>1, <3>2 DEF LeaseMoves, LeaderTaken
  <2> QED BY <2>1, <2>2
<1> QED BY <1>1, <1>4, <1>5, <1>6, <1>7, <1>8

LEMMA CrashLease ==
  ASSUME IInv, IInv', NEW n \in Node, Crash(n)
  PROVE  PendingFalls /\ LeaderDropped(n)
<1> USE DEF IInv
<1>1. Dialled' = Dialled /\ LeaderDropped(n)
  BY DEF Crash, Dialled, LeaderDropped
<1>2. /\ \A d \in Dialled : acceptor'[d] = acceptor[d] \/ acceptor'[d] = "Done"
      /\ events'[n] = <<>> /\ \A m \in Node : m # n => events'[m] = events[m]
  BY DEF Crash, TypeOK
<1>3. \A m \in Node : \A x : Queued(m, x)' => Queued(m, x)
  BY <1>2 DEF Queued
<1>4. ASSUME NEW c \in Dialled, Pending(c)'
      PROVE  Pending(c)
  <2>1. acceptor'[c] \in {"Waiting", "Acked"} \/ \E m \in Node : Queued(m, Hello(c))'
    BY <1>1, <1>4, PendingFacts DEF Pending, Queued, Hello
  <2> QED BY <1>2, <1>3, <2>1, PendingFacts
<1> QED BY <1>1, <1>4 DEF PendingFalls

LEMMA AddToGroupLease ==
  ASSUME IInv, IInv', NEW n \in Node, NEW f \in Node, AddToGroup(n, f)
  PROVE  PendingFalls /\ via' = via
<1> USE DEF IInv
<1> SUFFICES ASSUME NEW c, c = Cardinality(Dialled) + 1
             PROVE  PendingFalls /\ via' = via
  OBVIOUS
<1>1. via' = via /\ events' = events
  BY DEF AddToGroup, loop
<1>2. Dialled' = Dialled \cup {c}
  BY DEF AddToGroup, Dialled
<1>3. \A d \in Dialled' : d # c => acceptor'[d] = acceptor[d]
  BY <1>2 DEF AddToGroup
<1>4. acceptor'[c] = "Waiting"
  BY <1>2 DEF AddToGroup
<1>5. Pending(c)'
  BY <1>2, <1>4, PendingFacts DEF Pending
<1>6. ASSUME NEW d \in Dialled, Pending(d)', d # c
      PROVE  Pending(d)
  BY <1>1, <1>2, <1>3, <1>6 DEF Pending
<1>7. c \notin Dialled
  <2>1. Dialled = 1..Cardinality(Dialled) /\ Dialled \subseteq 1..MaxConn
    BY DEF TypeOK, Conn
  <2>2. IsFiniteSet(1..MaxConn)
    BY FS_Interval, GroupAssumption
  <2>3. Cardinality(Dialled) \in Nat
    BY <2>1, <2>2, FS_Subset, FS_CardinalityType
  <2> QED BY <2>1, <2>3
<1> QED BY <1>1, <1>2, <1>5, <1>6, <1>7 DEF PendingFalls

LEMMA NextLease ==
  ASSUME IInv, IInv', Next
  PROVE  PendingFalls /\ LeaseMoves
<1>1. ASSUME NEW c \in Dialled, TaskStep(c) \/ Loss(c)
      PROVE  PendingFalls /\ LeaseMoves
  BY <1>1, TaskStepMoves, TaskMoveFalls DEF LeaseMoves
<1>2. ASSUME NEW n \in Node, LeaveGroup(n)
      PROVE  PendingFalls /\ LeaseMoves
  <2>1. LeaderDropped(n) /\ UNCHANGED <<events, ends, hasty, acceptor>>
    BY <1>2 DEF LeaveGroup, Leave, LeaderDropped
  <2> QED BY <2>1, KeepFacts, LoopFalls DEF LeaseMoves
<1>3. ASSUME NEW n \in Node, Crash(n)
      PROVE  PendingFalls /\ LeaseMoves
  BY <1>3, CrashLease DEF LeaseMoves
<1>4. ASSUME NEW n \in Node, NEW f \in Node, RemoveFromGroup(n, f)
      PROVE  PendingFalls /\ LeaseMoves
  <2>1. UNCHANGED <<via, events, ends, hasty, acceptor>>
    BY <1>4 DEF RemoveFromGroup, Remove
  <2> QED BY <2>1, KeepFacts, LoopFalls DEF LeaseMoves
<1> QED BY <1>1, <1>2, <1>3, <1>4, HandleEventLease, AddToGroupLease DEF Next, LeaseMoves

\* What an instance follows is over for everybody else.
LEMMA HeldFacts ==
  ASSUME IInv, NEW n \in Node, via[n] # NoConn
  PROVE  /\ via[n] \in Dialled /\ ~Pending(via[n])
         /\ \A m \in Node : via[m] = via[n] => m = n
<1> DEFINE c == via[n]
<1>1. c \in Dialled
  BY DEF IInv, TypeOK
<1>2. HelloOnce(c) /\ c \in Conn
  BY <1>1, DialledFacts DEF IInv
<1>3. \A m \in Node : ~Queued(m, Hello(c))
  BY <1>1, <1>2 DEF IInv, Addressed, HelloOnce
<1> QED BY <1>1, <1>2, <1>3, PendingFacts DEF IInv, HelloOnce

LEMMA LeaseStep ==
  ASSUME IInv, PendingFalls, LeaseMoves
  PROVE  Lease!Next
<1> USE DEF PendingFalls
<1>1. CASE via' = via
  <2>1. Over \subseteq Over'
    BY <1>1 DEF Over
  <2>2. Over' \cap Lease!Held = {}
    BY <1>1 DEF Over, Lease!Held
  <2> QED BY <1>1, <2>1, <2>2 DEF Lease!Next, Lease!Refuse, Over
<1>2. ASSUME NEW n, LeaderDropped(n), via' # via
      PROVE  Lease!Next
  <2>1. n \in Node /\ via' = [via EXCEPT ![n] = NoConn] /\ via[n] # NoConn
    BY <1>2 DEF LeaderDropped, IInv, TypeOK
  <2>2. via'[n] = NoConn /\ \A m \in Node : m # n => via'[m] = via[m]
    BY <2>1 DEF IInv, TypeOK
  <2>3. /\ via[n] \in Dialled /\ ~Pending(via[n])
        /\ \A m \in Node : via[m] = via[n] => m = n
    BY <2>1, HeldFacts
  <2>4. ASSUME NEW c \in Over \cup {via[n]}
        PROVE  c \in Over'
    <3>1. c \in Dialled /\ ~Pending(c) /\ c # NoConn
      BY <2>3, <2>4, DialledFacts DEF Over, IInv
    <3>2. c \in Dialled' /\ ~Pending(c)'
      BY <3>1
    <3>3. \A m \in Node : m # n => via[m] # c
      BY <2>3, <2>4 DEF Over
    <3>4. \A m \in Node : via'[m] # c
      BY <2>2, <3>1, <3>3
    <3> QED BY <3>2, <3>4 DEF Over
  <2>5. Over \cup {via[n]} \subseteq Over'
    BY <2>4
  <2> QED BY <2>1, <2>5 DEF Lease!Next, Lease!Leave, Over
<1>3. ASSUME NEW n, NEW c, LeaderTaken(n, c)
      PROVE  Lease!Next
  <2> USE DEF LeaderTaken
  <2>1. n \in Node /\ c \in Dialled /\ via[n] = NoConn /\ via' = [via EXCEPT ![n] = c]
    BY <1>3
  <2>2. Pending(c) /\ c \in Conn /\ c # NoConn
    BY <1>3, PendingFacts, DialledFacts DEF IInv
  <2>3. \A m \in Node : via[m] # c
    BY <2>2, HeldFacts
  <2>4. via'[n] = c /\ \A m \in Node : m # n => via'[m] = via[m]
    BY <2>1 DEF IInv, TypeOK
  <2>5. ASSUME NEW d \in Dialled
        PROVE  d \in Over' <=> d \in Over
    <3>1. CASE d = c
      BY <2>1, <2>2, <2>4, <3>1 DEF Over
    <3>2. CASE d # c
      <4>1. Pending(d)' <=> Pending(d)
        BY <1>3, <3>2
      <4>2. (\A m \in Node : via'[m] # d) <=> (\A m \in Node : via[m] # d)
        BY <2>1, <2>4, <3>2, DialledFacts DEF IInv
      <4> QED BY <1>3, <4>1, <4>2 DEF Over
    <3> QED BY <3>1, <3>2
  <2>6. Over' = Over
    BY <1>3, <2>5 DEF Over
  <2>7. c \notin Lease!Held \cup Over
    BY <2>2, <2>3 DEF Lease!Held, Over
  <2> QED BY <2>1, <2>2, <2>6, <2>7 DEF Lease!Next, Lease!Join, Over
<1> QED BY <1>1, <1>2, <1>3 DEF LeaseMoves

\* Grouping implements the lease for every value of the constants: a follower
\* accepts one leader connection at a time and none twice (on_leader_hello).
THEOREM OneLeader == Spec => ImplementsLease
<1>1. Init => Lease!Init
  BY DEF Init, Lease!Init, Dialled
<1>2. IInv /\ IInv' /\ [Next]_vars => [Lease!Next]_<<via, Over>>
  <2>1. ASSUME UNCHANGED vars
        PROVE  UNCHANGED <<via, Over>>
    BY <2>1 DEF vars, loop, tasks, Over, Pending, Dialled
  <2> QED BY <2>1, NextLease, LeaseStep
<1>3. Init /\ [][Next]_vars => []IInv
  BY Invariant DEF Spec
<1> QED BY <1>1, <1>2, <1>3, PTL DEF Spec, ImplementsLease, Lease!Spec, Over
=============================================================================
