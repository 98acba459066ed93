----------------------------- MODULE QueueOrder -----------------------------
(* The queue of QueueService implements the list with a position.          *)
EXTENDS Queue

\* The key at place i of S.
Nth(S, i) == CHOOSE k \in S : Cardinality({j \in S : j <= k}) = i

\* The songs of queue q under the keys of S, in the order of the keys.
InOrder(q, S) == [i \in 1..Cardinality(S) |-> q[Nth(S, i)]]

\* The songs of queue q before key c, under it and after it.
Ahead(q, c)  == IF c = NoKey THEN <<>> ELSE InOrder(q, {k \in DOMAIN q : k < c})
Under(q, c)  == IF c \in DOMAIN q THEN <<q[c]>> ELSE <<>>
Beyond(q, c) == InOrder(q, {k \in DOMAIN q : c # NoKey => k > c})

Order == INSTANCE PlayOrder WITH
  before <- Ahead(songs, current),
  here   <- Under(songs, current),
  after  <- Beyond(songs, current)

\* Every call of QueueService is a step of the list: songs added later are
\* behind all earlier ones, also after a restart or a crash between two adds,
\* removing a song leaves the position, and reordering keeps it on its song.
ImplementsPlayOrder == Order!Spec
=============================================================================
