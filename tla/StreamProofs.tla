---------------------------- MODULE StreamProofs ----------------------------
(***************************************************************************)
(* Proofs about the audio of a room for any sessions, lengths of songs and *)
(* capacities of the channels: what a sink plays is at its place in the    *)
(* song, and every sink that plays can be stopped.                         *)
(***************************************************************************)
EXTENDS AudioStream, TLAPS

-----------------------------------------------------------------------------
(* Chunks in a sequence, and in a channel of events.                       *)

Rising(q)     == \A i, j \in DOMAIN q : i < j => q[i].pos < q[j].pos
Of(q)         == {q[i].pos : i \in DOMAIN q}
Genuine(q, s) == \A i \in DOMAIN q : q[i].session = s /\ q[i].stamp = q[i].pos

Carries(e, s)  == e.type = "Chunk" /\ e.session = s
ChunksIn(m, s) == {i \in DOMAIN m : Carries(m[i], s)}
RisingIn(m, s) ==
  \A i, j \in ChunksIn(m, s) : i < j => m[i].chunk.pos < m[j].chunk.pos
OfIn(m, s)     == {m[i].chunk.pos : i \in ChunksIn(m, s)}
GenuineIn(m, s) ==
  \A i \in ChunksIn(m, s) : m[i].chunk.session = s /\ m[i].chunk.stamp = m[i].chunk.pos

LEMMA EmptyFacts ==
  /\ <<>> \in Seq(Chunk) /\ <<>> \in Seq(Event) /\ Rising(<<>>) /\ Of(<<>>) = {}
  /\ \A s : Genuine(<<>>, s) /\ RisingIn(<<>>, s) /\ OfIn(<<>>, s) = {} /\ GenuineIn(<<>>, s)
BY DEF Rising, Of, Genuine, RisingIn, OfIn, GenuineIn, ChunksIn

LEMMA ChunkFacts ==
  /\ \A c \in Chunk : c.session \in Session /\ c.stamp \in 0..MaxChunk /\ c.pos \in 0..MaxChunk
  /\ \A e \in Event : e.session \in Session /\ (e.type = "Chunk" => e.chunk \in Chunk)
BY DEF Chunk, Event

LEMMA AppendFacts ==
  ASSUME NEW q \in Seq(Chunk), NEW c \in Chunk, Rising(q), \A p \in Of(q) : p < c.pos
  PROVE  /\ Append(q, c) \in Seq(Chunk) /\ Rising(Append(q, c))
         /\ Of(Append(q, c)) \subseteq Of(q) \cup {c.pos}
         /\ \A s : Genuine(q, s) /\ c.session = s /\ c.stamp = c.pos => Genuine(Append(q, c), s)
<1> DEFINE r == Append(q, c)  k == Len(q)
<1>1. /\ r \in Seq(Chunk) /\ k \in Nat /\ DOMAIN q = 1..k /\ DOMAIN r = 1..k + 1
      /\ r[k + 1] = c /\ \A i \in 1..k : r[i] = q[i]
  OBVIOUS
<1> HIDE DEF r, k
<1>2. \A i \in 1..k + 1 : i \in 1..k \/ i = k + 1
  BY <1>1
<1>3. Of(r) \subseteq Of(q) \cup {c.pos}
  BY <1>1, <1>2 DEF Of
<1>4. Rising(r)
  <2> SUFFICES ASSUME NEW i \in 1..k + 1, NEW j \in 1..k + 1, i < j
               PROVE  r[i].pos < r[j].pos
    BY <1>1 DEF Rising
  <2>1. i \in 1..k
    BY <1>1
  <2>2. q[i].pos \in Of(q)
    BY <1>1, <2>1 DEF Of
  <2> QED BY <1>1, <1>2, <2>1, <2>2 DEF Rising
<1>5. \A s : Genuine(q, s) /\ c.session = s /\ c.stamp = c.pos => Genuine(r, s)
  BY <1>1, <1>2 DEF Genuine
<1> QED BY <1>1, <1>3, <1>4, <1>5 DEF r

LEMMA TailFacts ==
  ASSUME NEW q \in Seq(Chunk), q # <<>>, Rising(q)
  PROVE  /\ Head(q) \in Chunk /\ Head(q) = q[1] /\ 1 \in DOMAIN q /\ Head(q).pos \in Of(q)
         /\ Tail(q) \in Seq(Chunk) /\ Rising(Tail(q)) /\ Of(Tail(q)) \subseteq Of(q)
         /\ \A p \in Of(Tail(q)) : Head(q).pos < p
         /\ \A s : Genuine(q, s) => Genuine(Tail(q), s)
<1> DEFINE r == Tail(q)  k == Len(q)
<1>1. /\ r \in Seq(Chunk) /\ k \in Nat \ {0} /\ DOMAIN q = 1..k /\ DOMAIN r = 1..k - 1
      /\ Head(q) = q[1] /\ q[1] \in Chunk /\ \A i \in 1..k - 1 : i + 1 \in 1..k /\ r[i] = q[i + 1]
  OBVIOUS
<1> HIDE DEF r, k
<1>2. Of(r) \subseteq Of(q) /\ q[1].pos \in Of(q) /\ 1 \in 1..k
  <2>1. 1 \in 1..k
    BY <1>1
  <2>2. \A i \in 1..k - 1 : r[i].pos \in Of(q)
    BY <1>1 DEF Of
  <2> QED BY <1>1, <2>1, <2>2 DEF Of
<1>3. Rising(r) /\ \A p \in Of(r) : q[1].pos < p
  <2>1. Rising(r)
    <3> SUFFICES ASSUME NEW i \in 1..k - 1, NEW j \in 1..k - 1, i < j
                 PROVE  r[i].pos < r[j].pos
      BY <1>1 DEF Rising
    <3>1. i + 1 \in 1..k /\ j + 1 \in 1..k /\ i + 1 < j + 1
      BY <1>1
    <3> QED BY <1>1, <3>1 DEF Rising
  <2>2. ASSUME NEW i \in 1..k - 1 PROVE q[1].pos < r[i].pos
    <3>1. 1 \in 1..k /\ i + 1 \in 1..k /\ 1 < i + 1 /\ r[i] = q[i + 1]
      BY <1>1
    <3> QED BY <1>1, <3>1 DEF Rising
  <2> QED BY <1>1, <2>1, <2>2 DEF Of
<1>4. \A s : Genuine(q, s) => Genuine(r, s)
  BY <1>1 DEF Genuine
<1> QED BY <1>1, <1>2, <1>3, <1>4 DEF r

LEMMA AppendInFacts ==
  ASSUME NEW m \in Seq(Event), NEW e \in Event, NEW s, RisingIn(m, s), GenuineIn(m, s),
         Carries(e, s) => /\ \A p \in OfIn(m, s) : p < e.chunk.pos
                          /\ e.chunk.session = s /\ e.chunk.stamp = e.chunk.pos
  PROVE  /\ Append(m, e) \in Seq(Event) /\ RisingIn(Append(m, e), s) /\ GenuineIn(Append(m, e), s)
         /\ OfIn(Append(m, e), s) \subseteq
              OfIn(m, s) \cup (IF Carries(e, s) THEN {e.chunk.pos} ELSE {})
<1> DEFINE r == Append(m, e)  k == Len(m)
<1>1. /\ r \in Seq(Event) /\ k \in Nat /\ DOMAIN m = 1..k /\ DOMAIN r = 1..k + 1
      /\ r[k + 1] = e /\ \A i \in 1..k : r[i] = m[i]
  OBVIOUS
<1> HIDE DEF r, k
<1>2. \A i \in ChunksIn(r, s) : i \in ChunksIn(m, s) \/ (i = k + 1 /\ Carries(e, s))
  BY <1>1 DEF ChunksIn
<1>3. \A i \in ChunksIn(m, s) : i \in 1..k /\ m[i].chunk.pos \in OfIn(m, s)
  BY <1>1 DEF ChunksIn, OfIn
<1>4. RisingIn(r, s)
  <2> SUFFICES ASSUME NEW i \in ChunksIn(r, s), NEW j \in ChunksIn(r, s), i < j
               PROVE  r[i].chunk.pos < r[j].chunk.pos
    BY DEF RisingIn
  <2>1. i \in ChunksIn(m, s)
    BY <1>1, <1>2, <1>3
  <2>2. CASE j \in ChunksIn(m, s)
    BY <1>1, <1>3, <2>1, <2>2 DEF RisingIn
  <2>3. CASE j = k + 1 /\ Carries(e, s)
    BY <1>1, <1>3, <2>1, <2>3
  <2> QED BY <1>2, <2>2, <2>3
<1>5. GenuineIn(r, s)
  BY <1>1, <1>2, <1>3 DEF GenuineIn
<1>6. OfIn(r, s) \subseteq OfIn(m, s) \cup (IF Carries(e, s) THEN {e.chunk.pos} ELSE {})
  <2> SUFFICES ASSUME NEW i \in ChunksIn(r, s)
               PROVE  r[i].chunk.pos \in OfIn(m, s) \/ (Carries(e, s) /\ r[i].chunk.pos = e.chunk.pos)
    BY DEF OfIn
  <2> QED BY <1>1, <1>2, <1>3
<1> QED BY <1>1, <1>4, <1>5, <1>6 DEF r

\* A part of a channel, from its n-th event on.
LEMMA PartFacts ==
  ASSUME NEW m \in Seq(Event), NEW r \in Seq(Event), NEW n \in Nat,
         \A i \in DOMAIN r : i + n \in DOMAIN m /\ r[i] = m[i + n]
  PROVE  \A s : /\ RisingIn(m, s) => RisingIn(r, s)
                /\ GenuineIn(m, s) => GenuineIn(r, s)
                /\ OfIn(r, s) \subseteq OfIn(m, s)
<1> SUFFICES ASSUME NEW s
             PROVE  /\ RisingIn(m, s) => RisingIn(r, s)
                    /\ GenuineIn(m, s) => GenuineIn(r, s)
                    /\ OfIn(r, s) \subseteq OfIn(m, s)
  OBVIOUS
<1>1. \A i \in ChunksIn(r, s) : i \in Nat /\ i + n \in ChunksIn(m, s) /\ r[i] = m[i + n]
  BY DEF ChunksIn
<1>2. RisingIn(m, s) => RisingIn(r, s)
  BY <1>1 DEF RisingIn
<1>3. GenuineIn(m, s) => GenuineIn(r, s)
  BY <1>1 DEF GenuineIn
<1>4. OfIn(r, s) \subseteq OfIn(m, s)
  BY <1>1 DEF OfIn
<1> QED BY <1>2, <1>3, <1>4

LEMMA TailInFacts ==
  ASSUME NEW m \in Seq(Event), m # <<>>
  PROVE  /\ Head(m) \in Event /\ Tail(m) \in Seq(Event) /\ Len(Tail(m)) <= Len(m)
         /\ \A s : /\ RisingIn(m, s) => RisingIn(Tail(m), s)
                   /\ GenuineIn(m, s) => GenuineIn(Tail(m), s)
                   /\ OfIn(Tail(m), s) \subseteq OfIn(m, s)
                   /\ Carries(Head(m), s) =>
                        /\ Head(m).chunk.pos \in OfIn(m, s)
                        /\ RisingIn(m, s) => \A p \in OfIn(Tail(m), s) : Head(m).chunk.pos < p
                        /\ GenuineIn(m, s) => /\ Head(m).chunk.session = s
                                              /\ Head(m).chunk.stamp = Head(m).chunk.pos
<1> DEFINE r == Tail(m)  k == Len(m)
<1>1. /\ r \in Seq(Event) /\ k \in Nat \ {0} /\ DOMAIN m = 1..k /\ DOMAIN r = 1..k - 1
      /\ Head(m) = m[1] /\ m[1] \in Event /\ Len(r) = k - 1
      /\ \A i \in 1..k - 1 : i + 1 \in 1..k /\ r[i] = m[i + 1]
  OBVIOUS
<1> HIDE DEF r, k
<1>2. \A s : /\ RisingIn(m, s) => RisingIn(r, s)
             /\ GenuineIn(m, s) => GenuineIn(r, s)
             /\ OfIn(r, s) \subseteq OfIn(m, s)
  BY <1>1, PartFacts
<1>3. ASSUME NEW s, Carries(m[1], s)
      PROVE  /\ m[1].chunk.pos \in OfIn(m, s)
             /\ RisingIn(m, s) => \A p \in OfIn(r, s) : m[1].chunk.pos < p
             /\ GenuineIn(m, s) => m[1].chunk.session = s /\ m[1].chunk.stamp = m[1].chunk.pos
  <2>1. 1 \in ChunksIn(m, s)
    BY <1>1, <1>3 DEF ChunksIn
  <2>2. \A i \in ChunksIn(r, s) : i \in Nat \ {0} /\ i + 1 \in ChunksIn(m, s) /\ r[i] = m[i + 1]
    BY <1>1 DEF ChunksIn
  <2> QED BY <2>1, <2>2 DEF OfIn, RisingIn, GenuineIn
<1> QED BY <1>1, <1>2, <1>3 DEF r

LEMMA NewestFacts ==
  ASSUME NEW m \in Seq(Event)
  PROVE  /\ Newest(m) \in Seq(Event) /\ Len(Newest(m)) <= FeedSlots
         /\ \A s : /\ RisingIn(m, s) => RisingIn(Newest(m), s)
                   /\ GenuineIn(m, s) => GenuineIn(Newest(m), s)
                   /\ OfIn(Newest(m), s) \subseteq OfIn(m, s)
<1>1. FeedSlots \in Nat \ {0} /\ Len(m) \in Nat
  BY StreamAssumption
<1>2. CASE Len(m) <= FeedSlots
  BY <1>2 DEF Newest
<1>3. CASE Len(m) > FeedSlots
  <2> DEFINE n == Len(m) - FeedSlots  r == SubSeq(m, n + 1, Len(m))
  <2>1. n \in Nat /\ n + 1 \in 1..Len(m) /\ Newest(m) = r
    BY <1>1, <1>3 DEF Newest
  <2>2. r \in Seq(Event) /\ Len(r) = FeedSlots
    BY <1>1, <2>1
  <2>3. \A i \in DOMAIN r : i + n \in DOMAIN m /\ r[i] = m[i + n]
    BY <1>1, <2>1
  <2> HIDE DEF n, r
  <2>4. \A s : /\ RisingIn(m, s) => RisingIn(r, s)
               /\ GenuineIn(m, s) => GenuineIn(r, s)
               /\ OfIn(r, s) \subseteq OfIn(m, s)
    BY <2>1, <2>2, <2>3, PartFacts
  <2> QED BY <1>1, <2>1, <2>2, <2>4
<1> QED BY <1>1, <1>2, <1>3

-----------------------------------------------------------------------------
(* The way of a session: what was heard comes before what a sink holds,    *)
(* that before what its handler holds, and so on up to what the leader has *)
(* still to decode.                                                        *)

Line(s) ==
  <<Of(heard[s]), Of(backlog[s]), Of(held[s]), Of(audio[s]), OfIn(feed, s), OfIn(tee, s),
    {p \in 0..MaxChunk : live = s /\ decoded <= p}>>

InOrder(l) == \A i, j \in 1..7 : i < j => \A a \in l[i], b \in l[j] : a < b

\* A stage may lose chunks, and one chunk may go past the empty stages in between.
Flows(l, m) ==
  \/ \A i \in 1..7 : m[i] \subseteq l[i]
  \/ \E k, j \in 1..7 : \E x \in l[j] :
       /\ k < j /\ m[k] \subseteq l[k] \cup {x}
       /\ \A i \in 1..7 : i # k => m[i] \subseteq l[i]
       /\ \A i \in k + 1..j : \A y \in m[i] : x < y

LEMMA FlowKeepsOrder ==
  ASSUME NEW l, NEW m, \A i \in 1..7 : l[i] \subseteq Int, InOrder(l), Flows(l, m)
  PROVE  InOrder(m)
<1>1. CASE \A i \in 1..7 : m[i] \subseteq l[i]
  BY <1>1 DEF InOrder
<1>2. ASSUME NEW k \in 1..7, NEW j \in 1..7, NEW x \in l[j], k < j, m[k] \subseteq l[k] \cup {x},
             \A i \in 1..7 : i # k => m[i] \subseteq l[i],
             \A i \in k + 1..j : \A y \in m[i] : x < y
      PROVE  InOrder(m)
  <2> SUFFICES ASSUME NEW i1 \in 1..7, NEW i2 \in 1..7, i1 < i2, NEW a \in m[i1], NEW b \in m[i2]
               PROVE  a < b
    BY DEF InOrder
  <2>1. CASE a \in l[i1] /\ b \in l[i2]
    BY <2>1 DEF InOrder
  <2>2. CASE i1 = k /\ a = x
    <3>1. b \in l[i2]
      BY <1>2, <2>2
    <3>2. CASE i2 <= j
      BY <1>2, <2>2, <3>2
    <3>3. CASE j < i2
      BY <1>2, <2>2, <3>1, <3>3 DEF InOrder
    <3> QED BY <3>2, <3>3
  <2>3. CASE i2 = k /\ b = x
    <3>1. a \in l[i1] /\ i1 < j
      BY <1>2, <2>3
    <3> QED BY <1>2, <2>3, <3>1 DEF InOrder
  <2> QED BY <1>2, <2>1, <2>2, <2>3
<1> QED BY <1>1, <1>2 DEF Flows

LEMMA LineFacts ==
  ASSUME NEW s
  PROVE  /\ Line(s)[1] = Of(heard[s]) /\ Line(s)[2] = Of(backlog[s]) /\ Line(s)[3] = Of(held[s])
         /\ Line(s)[4] = Of(audio[s]) /\ Line(s)[5] = OfIn(feed, s) /\ Line(s)[6] = OfIn(tee, s)
         /\ Line(s)[7] = {p \in 0..MaxChunk : live = s /\ decoded <= p}
BY DEF Line

Intact(s) ==
  /\ Rising(heard[s]) /\ Rising(backlog[s]) /\ Rising(held[s]) /\ Rising(audio[s])
  /\ RisingIn(feed, s) /\ RisingIn(tee, s)
  /\ Genuine(heard[s], s) /\ Genuine(backlog[s], s) /\ Genuine(held[s], s) /\ Genuine(audio[s], s)
  /\ GenuineIn(feed, s) /\ GenuineIn(tee, s)

Sound(s) ==
  /\ Intact(s) /\ InOrder(Line(s))
  /\ s \notin ended \cup {live} => \A i \in 1..7 : Line(s)[i] = {}

\* The leader counts what it decodes, and begins no session twice.
Counted == sent = decoded /\ live \notin ended

IInv == TypeOK /\ Counted /\ Reachable /\ \A s \in Session : Sound(s)

LEMMA LineType ==
  ASSUME TypeOK, NEW s \in Session
  PROVE  \A i \in 1..7 : Line(s)[i] \subseteq Int
<1>1. \A q \in Seq(Chunk) : Of(q) \subseteq Int
  <2> SUFFICES ASSUME NEW q \in Seq(Chunk), NEW i \in DOMAIN q
               PROVE  q[i].pos \in Int
    BY DEF Of
  <2>1. q[i] \in Chunk
    OBVIOUS
  <2> QED BY <2>1, ChunkFacts
<1>2. \A m \in Seq(Event) : OfIn(m, s) \subseteq Int
  <2> SUFFICES ASSUME NEW m \in Seq(Event), NEW i \in ChunksIn(m, s)
               PROVE  m[i].chunk.pos \in Int
    BY DEF OfIn
  <2>1. m[i] \in Event /\ m[i].type = "Chunk"
    BY DEF ChunksIn, Carries
  <2> QED BY <2>1, ChunkFacts
<1>3. /\ heard[s] \in Seq(Chunk) /\ backlog[s] \in Seq(Chunk) /\ held[s] \in Seq(Chunk)
      /\ audio[s] \in Seq(Chunk) /\ feed \in Seq(Event) /\ tee \in Seq(Event)
  BY DEF TypeOK
<1> QED BY <1>1, <1>2, <1>3, LineFacts

-----------------------------------------------------------------------------
(* Types, the leader's count, and the sinks that can be stopped.           *)

LEMMA SendTypes ==
  ASSUME TypeOK, NEW e \in Event, TrySend(e)
  PROVE  tee' \in Seq(Event) /\ Len(tee') <= TeeSlots
<1>1. tee \in Seq(Event) /\ Len(tee) <= TeeSlots /\ TeeSlots \in Nat
  BY StreamAssumption DEF TypeOK
<1>2. CASE Fits
  <2>1. tee' = Append(tee, e) /\ Len(tee) < TeeSlots
    BY <1>2 DEF TrySend, Fits
  <2> QED BY <1>1, <2>1
<1>3. CASE ~Fits
  BY <1>1, <1>3 DEF TrySend
<1> QED BY <1>2, <1>3

LEMMA BroadcastTypes ==
  ASSUME TypeOK, NEW e \in Event, Broadcast(e)
  PROVE  feed' \in Seq(Event) /\ Len(feed') <= FeedSlots
<1>1. feed \in Seq(Event) /\ Len(feed) <= FeedSlots
  BY DEF TypeOK
<1>2. CASE writer
  <2>1. feed' = Newest(Append(feed, e)) /\ Append(feed, e) \in Seq(Event)
    BY <1>1, <1>2 DEF Broadcast
  <2> QED BY <2>1, NewestFacts
<1>3. CASE ~writer
  BY <1>1, <1>3 DEF Broadcast
<1> QED BY <1>2, <1>3

\* What the leader's end of the way changes.
LeaderTypes ==
  /\ live \in Session \cup {0} /\ current \in Session \cup {0} /\ writing \in Session \cup {0}
  /\ sent \in 0..MaxChunk /\ decoded \in 0..MaxChunk /\ ended \subseteq Session
  /\ tee \in Seq(Event) /\ Len(tee) <= TeeSlots
  /\ feed \in Seq(Event) /\ Len(feed) <= FeedSlots /\ writer \in BOOLEAN

\* What the network and the follower change.
Message == [type : {"StreamStart", "StreamStop"}, session : Session]

FollowerTypes ==
  /\ joined \in {"No", "Yes", "Lost"}
  /\ control \in Seq(Message)
  /\ audio \in [Session -> Seq(Chunk)] /\ finished \subseteq Session /\ refused \subseteq Session
  /\ listening \in BOOLEAN /\ synced \in BOOLEAN /\ pending \subseteq Session
  /\ handler \in [Session -> {"None", "Waiting", "Clock", "Starting", "Forward", "Draining", "Done"}]
  /\ held \in [Session -> Seq(Chunk)]
  /\ sinks \subseteq Session /\ sink \in [Session -> {"None", "Playing", "Gone"}]
  /\ backlog \in [Session -> Seq(Chunk)] /\ heard \in [Session -> Seq(Chunk)]

LEMMA TypeParts == TypeOK <=> LeaderTypes /\ FollowerTypes
BY DEF TypeOK, LeaderTypes, FollowerTypes, Message

LEMMA JoinTypes ==
  ASSUME NEW S, NEW a \in Seq(S), NEW b \in Seq(S), NEW c \in S
  PROVE  a \o b \in Seq(S) /\ a \o b \o <<c>> \in Seq(S)
OBVIOUS

LEMMA LeaderActs ==
  ASSUME IInv, Begin \/ SendChunk \/ End
  PROVE  TypeOK' /\ Counted' /\ Reachable'
<1> USE DEF IInv
<1>1. LeaderTypes /\ FollowerTypes /\ FollowerTypes'
  BY TypeParts DEF FollowerTypes, Begin, SendChunk, End, network, member, handling, output
<1>2. Reachable'
  BY DEF Reachable, Begin, SendChunk, End, handling, output
<1>3. CASE Begin
  <2>1. PICK s \in Session : /\ \A r \in Session : r < s <=> r \in ended
                             /\ live' = s /\ TrySend([type |-> "Start", session |-> s])
    BY <1>3 DEF Begin
  <2>2. tee' \in Seq(Event) /\ Len(tee') <= TeeSlots
    <3>1. [type |-> "Start", session |-> s] \in Event
      BY DEF Event
    <3> QED BY <2>1, <3>1, SendTypes
  <2>3. s \notin ended
    BY <2>1, StreamAssumption
  <2>4. LeaderTypes' /\ Counted'
    BY <1>1, <1>3, <2>1, <2>2, <2>3, StreamAssumption DEF LeaderTypes, Begin, fanout, Counted
  <2> QED BY <1>1, <1>2, <2>4, TypeParts DEF TypeOK, LeaderTypes, FollowerTypes, Message
<1>4. CASE SendChunk
  <2> DEFINE e == [type |-> "Chunk", session |-> live, chunk |-> TheChunk]
  <2>1. live \in Session /\ sent' = sent + 1 /\ decoded' = decoded + 1 /\ sent = decoded
        /\ decoded < MaxChunk /\ decoded \in 0..MaxChunk /\ MaxChunk \in Nat
    BY <1>1, <1>4, StreamAssumption DEF SendChunk, LeaderTypes, Counted
  <2>2. e \in Event
    BY <1>1, <2>1 DEF Event, Chunk, TheChunk, LeaderTypes
  <2>3. TrySend(e)
    BY <1>4 DEF SendChunk
  <2>4. tee' \in Seq(Event) /\ Len(tee') <= TeeSlots
    BY <2>2, <2>3, SendTypes
  <2>5. LeaderTypes' /\ Counted'
    BY <1>1, <1>4, <2>1, <2>4 DEF LeaderTypes, SendChunk, fanout, Counted
  <2> QED BY <1>1, <1>2, <2>5 DEF TypeOK, LeaderTypes, FollowerTypes, Message
<1>5. CASE End
  <2>1. live \in Session
    BY <1>1, <1>5 DEF End, LeaderTypes
  <2>2. [type |-> "End", session |-> live] \in Event
    BY <2>1 DEF Event
  <2>3. tee' \in Seq(Event) /\ Len(tee') <= TeeSlots
    BY <1>5, <2>2, SendTypes DEF End
  <2>4. LeaderTypes' /\ Counted'
    BY <1>1, <1>5, <2>1, <2>3, StreamAssumption DEF LeaderTypes, End, fanout, Counted
  <2> QED BY <1>1, <1>2, <2>4 DEF TypeOK, LeaderTypes, FollowerTypes, Message
<1> QED BY <1>3, <1>4, <1>5

LEMMA FanoutActs ==
  ASSUME IInv, Ingest \/ WriteChunk \/ WriteEnd \/ WriteFails \/ Join \/ Lose
  PROVE  TypeOK' /\ Counted' /\ Reachable'
<1> USE DEF IInv
<1>1. LeaderTypes /\ FollowerTypes
  BY TypeParts
<1>2. Reachable' /\ Counted'
  BY DEF Reachable, Counted, Ingest, WriteChunk, WriteEnd, WriteFails, Join, Lose,
         leader, member, handling, output
<1>3. CASE Ingest
  <2>1. /\ Head(tee) \in Event /\ tee' \in Seq(Event) /\ Len(tee') <= TeeSlots
    <3>1. tee \in Seq(Event) /\ Len(tee) <= TeeSlots /\ tee # <<>> /\ tee' = Tail(tee)
          /\ TeeSlots \in Nat
      BY <1>1, <1>3, StreamAssumption DEF LeaderTypes, Ingest
    <3> QED BY <3>1
  <2>2. feed' \in Seq(Event) /\ Len(feed') <= FeedSlots
    BY <1>1, <1>3, <2>1, BroadcastTypes DEF Ingest, LeaderTypes
  <2>3. current' \in Session \cup {0}
    BY <1>1, <1>3, <2>1, ChunkFacts DEF Ingest, LeaderTypes
  <2> QED BY <1>1, <1>2, <1>3, <2>1, <2>2, <2>3
          DEF Ingest, TypeOK, LeaderTypes, FollowerTypes, Message, leader, network, member, handling, output
<1>4. ASSUME feed # <<>>, feed' = Tail(feed) \/ feed' = <<>>
      PROVE  /\ Head(feed) \in Event /\ Head(feed).session \in Session
             /\ feed' \in Seq(Event) /\ Len(feed') <= FeedSlots
  <2>1. feed \in Seq(Event) /\ Len(feed) <= FeedSlots /\ FeedSlots \in Nat
    BY <1>1, StreamAssumption DEF LeaderTypes
  <2>2. Head(feed) \in Event
    BY <1>4, <2>1
  <2>3. CASE feed' = Tail(feed)
    BY <1>4, <2>1, <2>2, <2>3, ChunkFacts
  <2>4. CASE feed' = <<>>
    BY <2>1, <2>2, <2>4, ChunkFacts
  <2> QED BY <1>4, <2>3, <2>4
<1>5. \A s \in Session \cup {0} :
        /\ Finished(s) \subseteq Session
        /\ StopsOf(s) \in Seq(Message)
  <2> SUFFICES ASSUME NEW s \in Session \cup {0}
               PROVE  Finished(s) \subseteq Session /\ StopsOf(s) \in Seq(Message)
    OBVIOUS
  <2>1. CASE s = 0
    BY <1>1, <2>1 DEF Finished, StopsOf, FollowerTypes
  <2>2. CASE s # 0
    <3>1. Msg("StreamStop", s) \in Message
      BY <2>2 DEF Msg, Message
    <3> QED BY <1>1, <2>2, <3>1 DEF Finished, StopsOf, FollowerTypes
  <2> QED BY <2>1, <2>2
<1>6. CASE WriteChunk
  <2> DEFINE s == Head(feed).session  c == Head(feed).chunk
  <2>1. /\ feed' = Tail(feed) /\ feed # <<>> /\ Head(feed).type = "Chunk" /\ writing' = s
        /\ audio' = [audio EXCEPT ![s] = Append(@, c)]
        /\ \/ UNCHANGED <<control, finished>>
           \/ /\ control' = control \o StopsOf(writing) \o <<Msg("StreamStart", s)>>
              /\ finished' = Finished(writing)
    BY <1>6 DEF WriteChunk
  <2>2. s \in Session /\ feed' \in Seq(Event) /\ Len(feed') <= FeedSlots /\ c \in Chunk
    BY <1>4, <2>1, ChunkFacts
  <2>3. Msg("StreamStart", s) \in Message
    BY <2>2 DEF Msg, Message
  <2> HIDE DEF s, c
  <2>4. control' \in Seq(Message)
        /\ finished' \subseteq Session
    <3>1. StopsOf(writing) \in Seq(Message) /\ Finished(writing) \subseteq Session
          /\ control \in Seq(Message) /\ finished \subseteq Session
      BY <1>1, <1>5 DEF FollowerTypes, LeaderTypes
    <3>2. control \o StopsOf(writing) \o <<Msg("StreamStart", s)>> \in Seq(Message)
      BY <2>3, <3>1, JoinTypes
    <3> QED BY <2>1, <3>1, <3>2
  <2>5. audio' \in [Session -> Seq(Chunk)]
    BY <1>1, <2>1, <2>2 DEF FollowerTypes
  <2> QED BY <1>1, <1>2, <1>6, <2>1, <2>2, <2>4, <2>5
          DEF WriteChunk, TypeOK, LeaderTypes, FollowerTypes, Message, leader, member, handling, output
<1>7. CASE WriteEnd
  <2>1. feed' \in Seq(Event) /\ Len(feed') <= FeedSlots
    BY <1>4, <1>7 DEF WriteEnd
  <2>2. /\ writing' \in Session \cup {0} /\ finished' \subseteq Session
        /\ control' \in Seq(Message)
    <3>1. StopsOf(writing) \in Seq(Message) /\ Finished(writing) \subseteq Session
          /\ control \in Seq(Message) /\ finished \subseteq Session /\ writing \in Session \cup {0}
      BY <1>1, <1>5 DEF FollowerTypes, LeaderTypes
    <3>2. \/ /\ writing' = 0 /\ control' = control \o StopsOf(writing)
             /\ finished' = Finished(writing)
          \/ UNCHANGED <<writing, control, finished>>
      BY <1>7 DEF WriteEnd
    <3>3. control \o StopsOf(writing) \in Seq(Message)
      <4>1. \A b \in Seq(Message) : control \o b \in Seq(Message)
        BY <3>1
      <4> QED BY <3>1, <4>1
    <3> QED BY <3>1, <3>2, <3>3
  <2> QED BY <1>1, <1>2, <1>7, <2>1, <2>2
          DEF WriteEnd, TypeOK, LeaderTypes, FollowerTypes, Message, leader, member, handling, output
<1>8. CASE WriteFails
  <2>1. feed' \in Seq(Event) /\ Len(feed') <= FeedSlots
    BY <1>4, <1>8 DEF WriteFails
  <2> QED BY <1>1, <1>2, <1>8, <2>1
          DEF WriteFails, TypeOK, LeaderTypes, FollowerTypes, Message, leader, network, member, handling, output
<1>9. CASE Join
  BY <1>1, <1>2, <1>9 DEF Join, TypeOK, LeaderTypes, FollowerTypes, Message, leader, handling, output
<1>10. CASE Lose
  <2>1. feed' \in Seq(Event) /\ Len(feed') <= FeedSlots
    BY <1>10, StreamAssumption DEF Lose
  <2>2. audio' \in [Session -> Seq(Chunk)]
    BY <1>10 DEF Lose, Nothing
  <2>3. joined' = "Lost" /\ control' \in Seq(Message) /\ writer' = FALSE
        /\ UNCHANGED <<tee, current, writing, finished, refused>>
    BY <1>10 DEF Lose
  <2> QED BY <1>1, <1>2, <1>10, <2>1, <2>2, <2>3
          DEF Lose, TypeOK, LeaderTypes, FollowerTypes, Message, leader, member, handling, output
<1> QED BY <1>3, <1>6, <1>7, <1>8, <1>9, <1>10

LEMMA StoppedFacts ==
  ASSUME IInv, NEW ss \in SUBSET sinks, Stopped(ss), UNCHANGED handler
  PROVE  /\ sinks' \subseteq Session /\ sink' \in [Session -> {"None", "Playing", "Gone"}]
         /\ backlog' \in [Session -> Seq(Chunk)] /\ heard' = heard
         /\ \A s \in Session : backlog'[s] = backlog[s] \/ backlog'[s] = <<>>
         /\ Reachable'
<1> USE DEF IInv
<1>1. FollowerTypes
  BY TypeParts
<1>2. /\ sinks' = sinks \ ss /\ heard' = heard
      /\ sink' \in [Session -> {"None", "Playing", "Gone"}]
      /\ \A s \in Session : sink'[s] = "Playing" => sink[s] = "Playing" /\ s \notin ss
  BY <1>1 DEF Stopped, FollowerTypes
<1>3. /\ backlog' \in [Session -> Seq(Chunk)]
      /\ \A s \in Session : backlog'[s] = backlog[s] \/ backlog'[s] = <<>>
  BY <1>1, EmptyFacts DEF Stopped, FollowerTypes
<1>4. Reachable'
  BY <1>2 DEF Reachable
<1> QED BY <1>1, <1>2, <1>3, <1>4 DEF FollowerTypes

LEMMA ControlActs ==
  ASSUME IInv, ControlStep \/ Sync
  PROVE  TypeOK' /\ Counted' /\ Reachable'
<1> USE DEF IInv
<1>1. LeaderTypes /\ FollowerTypes
  BY TypeParts
<1>2. LeaderTypes' /\ Counted'
  BY <1>1 DEF LeaderTypes, Counted, ControlStep, StreamStart, StreamStop, ControlEnds, Sync,
              leader, fanout
<1>3. control # <<>> => Head(control) \in Message /\ Tail(control) \in Seq(Message)
  BY <1>1 DEF FollowerTypes
<1>4. control # <<>> => Head(control).session \in Session
  BY <1>3 DEF Message
<1>5. CASE StreamStart
  <2>1. Reachable'
    BY <1>5 DEF StreamStart, Reachable, handling, output
  <2> QED BY <1>1, <1>2, <1>3, <1>4, <1>5, <2>1, TypeParts
          DEF StreamStart, FollowerTypes, TypeOK, LeaderTypes, Message, handling, output
<1>6. CASE StreamStop
  <2>1. Stopped(sinks \cap {Head(control).session}) /\ UNCHANGED handler
    BY <1>6 DEF StreamStop, handling
  <2>2. /\ sinks' \subseteq Session /\ sink' \in [Session -> {"None", "Playing", "Gone"}]
        /\ backlog' \in [Session -> Seq(Chunk)] /\ heard' = heard /\ Reachable'
    BY <2>1, StoppedFacts
  <2> QED BY <1>1, <1>2, <1>3, <1>6, <2>2
          DEF StreamStop, FollowerTypes, TypeOK, LeaderTypes, Message, handling
<1>7. CASE ControlEnds
  <2>1. Stopped(sinks) /\ UNCHANGED handler
    BY <1>7 DEF ControlEnds, handling
  <2>2. /\ sinks' \subseteq Session /\ sink' \in [Session -> {"None", "Playing", "Gone"}]
        /\ backlog' \in [Session -> Seq(Chunk)] /\ heard' = heard /\ Reachable'
    BY <2>1, StoppedFacts
  <2> QED BY <1>1, <1>2, <1>7, <2>2
          DEF ControlEnds, FollowerTypes, TypeOK, LeaderTypes, Message, network, handling
<1>8. CASE Sync
  <2>1. Reachable'
    BY <1>8 DEF Sync, Reachable, handling, output
  <2> QED BY <1>1, <1>2, <1>8, <2>1
          DEF Sync, FollowerTypes, TypeOK, LeaderTypes, Message, network, handling, output
<1> QED BY <1>5, <1>6, <1>7, <1>8 DEF ControlStep

LEMMA RoomActs ==
  ASSUME IInv, NEW s \in Session, HandlerStep(s) \/ SinkStep(s) \/ SinkFails(s)
  PROVE  TypeOK' /\ Counted' /\ Reachable'
<1> USE DEF IInv
<1>1. LeaderTypes /\ FollowerTypes
  BY TypeParts
<1>2. LeaderTypes' /\ Counted'
  BY <1>1 DEF LeaderTypes, Counted, HandlerStep, SinkStep, Accept, Found, GiveUp, StartSink,
              InsertSink, Forward, EndOfStream, Play, PlayedOut, SinkFails, leader, fanout
<1>3. ASSUME FollowerTypes', Reachable'
      PROVE  TypeOK' /\ Counted' /\ Reachable'
  BY <1>2, <1>3 DEF TypeOK, LeaderTypes, FollowerTypes, Message
<1>4. \A q \in Seq(Chunk) : q # <<>> => Head(q) \in Chunk /\ Tail(q) \in Seq(Chunk) /\ q[1] \in Chunk
  OBVIOUS
<1>5. /\ audio[s] \in Seq(Chunk) /\ held[s] \in Seq(Chunk) /\ backlog[s] \in Seq(Chunk)
      /\ heard[s] \in Seq(Chunk)
  BY <1>1 DEF FollowerTypes
<1>6. CASE Accept(s)
  <2>1. audio[s] # <<>> /\ audio' = [audio EXCEPT ![s] = Tail(@)]
        /\ held' = [held EXCEPT ![s] = <<Head(audio[s])>>]
    BY <1>6 DEF Accept
  <2>2. audio' \in [Session -> Seq(Chunk)]
    BY <1>1, <1>4, <1>5, <2>1 DEF FollowerTypes
  <2>3. held' \in [Session -> Seq(Chunk)]
    <3>1. <<Head(audio[s])>> \in Seq(Chunk)
      BY <1>4, <1>5, <2>1
    <3> QED BY <1>1, <2>1, <3>1 DEF FollowerTypes
  <2>4. Reachable'
    BY <1>1, <1>6 DEF Accept, Handle, Reachable, FollowerTypes, output
  <2>5. FollowerTypes'
    BY <1>1, <1>6, <2>2, <2>3 DEF Accept, Handle, FollowerTypes, member, output
  <2> QED BY <1>3, <2>4, <2>5
<1>7. CASE Found(s) \/ GiveUp(s)
  <2>1. Reachable'
    BY <1>1, <1>7 DEF Found, GiveUp, Handle, Reachable, FollowerTypes, output
  <2>2. FollowerTypes'
    BY <1>1, <1>7 DEF Found, GiveUp, Handle, FollowerTypes, network, member, output
  <2> QED BY <1>3, <2>1, <2>2
<1>8. CASE StartSink(s) \/ InsertSink(s)
  <2>1. Reachable'
    BY <1>1, <1>8 DEF StartSink, InsertSink, Handle, Reachable, FollowerTypes
  <2>2. FollowerTypes'
    BY <1>1, <1>8 DEF StartSink, InsertSink, Handle, FollowerTypes, network, member
  <2> QED BY <1>3, <2>1, <2>2
<1>9. CASE Forward(s)
  <2>1. ASSUME NEW c \in Chunk, Queue(s, c)
        PROVE  backlog' \in [Session -> Seq(Chunk)]
    <3>1. Append(backlog[s], c) \in Seq(Chunk)
      BY <1>5
    <3> QED BY <1>1, <1>5, <2>1, <3>1 DEF Queue, FollowerTypes
  <2>2. backlog' \in [Session -> Seq(Chunk)]
    BY <1>4, <1>5, <1>9, <2>1 DEF Forward
  <2>3. held' \in [Session -> Seq(Chunk)] /\ audio' \in [Session -> Seq(Chunk)]
    <3>1. CASE held' = [held EXCEPT ![s] = <<>>] /\ UNCHANGED audio
      BY <1>1, <3>1, EmptyFacts DEF FollowerTypes
    <3>2. CASE audio[s] # <<>> /\ audio' = [audio EXCEPT ![s] = Tail(@)] /\ UNCHANGED held
      BY <1>1, <1>4, <1>5, <3>2 DEF FollowerTypes
    <3> QED BY <1>9, <3>1, <3>2 DEF Forward
  <2>4. Reachable'
    BY <1>9 DEF Forward, Reachable
  <2>5. FollowerTypes'
    BY <1>1, <1>9, <2>2, <2>3 DEF Forward, FollowerTypes, member
  <2> QED BY <1>3, <2>4, <2>5
<1>10. CASE EndOfStream(s)
  <2>1. Reachable'
    BY <1>1, <1>10 DEF EndOfStream, Handle, Reachable, FollowerTypes
  <2>2. FollowerTypes'
    BY <1>1, <1>10 DEF EndOfStream, Handle, FollowerTypes, member
  <2> QED BY <1>3, <2>1, <2>2
<1>11. CASE Play(s)
  <2>1. /\ backlog[s] # <<>> /\ backlog' = [backlog EXCEPT ![s] = Tail(@)]
        /\ heard' = [heard EXCEPT ![s] = Append(@, Head(backlog[s]))]
    BY <1>11 DEF Play
  <2>2. backlog' \in [Session -> Seq(Chunk)]
    BY <1>1, <1>4, <1>5, <2>1 DEF FollowerTypes
  <2>3. heard' \in [Session -> Seq(Chunk)]
    <3>1. Append(heard[s], Head(backlog[s])) \in Seq(Chunk)
      BY <1>4, <1>5, <2>1
    <3> QED BY <1>1, <2>1, <3>1 DEF FollowerTypes
  <2>4. Reachable'
    BY <1>11 DEF Play, Reachable, handling
  <2>5. FollowerTypes'
    BY <1>1, <1>11, <2>2, <2>3 DEF Play, FollowerTypes, network, member, handling
  <2> QED BY <1>3, <2>4, <2>5
<1>12. CASE PlayedOut(s)
  <2>1. Reachable'
    BY <1>1, <1>12 DEF PlayedOut, Handle, Reachable, FollowerTypes
  <2>2. FollowerTypes'
    BY <1>1, <1>12 DEF PlayedOut, Handle, FollowerTypes, network, member
  <2> QED BY <1>3, <2>1, <2>2
<1>13. CASE SinkFails(s)
  <2>1. /\ sink' = [sink EXCEPT ![s] = "Gone"] /\ backlog' = [backlog EXCEPT ![s] = <<>>]
        /\ handler' = [handler EXCEPT ![s] = IF @ = "Draining" THEN "Done" ELSE @]
        /\ UNCHANGED <<sinks, heard, held, network, member>>
    BY <1>13 DEF SinkFails
  <2>2. /\ sink' \in [Session -> {"None", "Playing", "Gone"}] /\ sink'[s] = "Gone"
        /\ handler' \in [Session -> {"None", "Waiting", "Clock", "Starting", "Forward",
                                     "Draining", "Done"}]
        /\ backlog' \in [Session -> Seq(Chunk)]
        /\ \A r \in Session : r # s => sink'[r] = sink[r] /\ handler'[r] = handler[r]
    BY <1>1, <2>1, EmptyFacts DEF FollowerTypes
  <2>3. Reachable'
    BY <2>1, <2>2 DEF Reachable
  <2>4. FollowerTypes'
    BY <1>1, <2>1, <2>2 DEF FollowerTypes, network, member
  <2> QED BY <1>3, <2>3, <2>4
<1> QED BY <1>6, <1>7, <1>8, <1>9, <1>10, <1>11, <1>12, <1>13 DEF HandlerStep, SinkStep

-----------------------------------------------------------------------------
(* The order of the chunks.                                                *)

\* A queue that lost some of its chunks, and one that passed its first on.
Less(r, q, s) ==
  /\ Rising(q) => Rising(r)
  /\ Genuine(q, s) => Genuine(r, s)
  /\ Of(r) \subseteq Of(q)

LessIn(r, m, s) ==
  /\ RisingIn(m, s) => RisingIn(r, s)
  /\ GenuineIn(m, s) => GenuineIn(r, s)
  /\ OfIn(r, s) \subseteq OfIn(m, s)

LEMMA LessFacts ==
  /\ \A q, s : Less(q, q, s) /\ LessIn(q, q, s) /\ Less(<<>>, q, s) /\ LessIn(<<>>, q, s)
  /\ \A q \in Seq(Chunk) : q # <<>> /\ Rising(q) => \A s : Less(Tail(q), q, s)
  /\ \A m \in Seq(Event) : m # <<>> => \A s : LessIn(Tail(m), m, s)
<1>1. \A q, s : Less(q, q, s) /\ LessIn(q, q, s)
  BY DEF Less, LessIn
<1>2. \A q, s : Less(<<>>, q, s) /\ LessIn(<<>>, q, s)
  BY EmptyFacts DEF Less, LessIn
<1>3. ASSUME NEW q \in Seq(Chunk), q # <<>>, Rising(q), NEW s
      PROVE  Less(Tail(q), q, s)
  BY <1>3, TailFacts DEF Less
<1>4. ASSUME NEW m \in Seq(Event), m # <<>>, NEW s
      PROVE  LessIn(Tail(m), m, s)
  BY <1>4, TailInFacts DEF LessIn
<1> QED BY <1>1, <1>2, <1>3, <1>4

NextLine(s) == Line(s)'

LEMMA NextLineFacts ==
  ASSUME NEW s
  PROVE  /\ NextLine(s)[1] = Of(heard'[s]) /\ NextLine(s)[2] = Of(backlog'[s])
         /\ NextLine(s)[3] = Of(held'[s]) /\ NextLine(s)[4] = Of(audio'[s])
         /\ NextLine(s)[5] = OfIn(feed', s) /\ NextLine(s)[6] = OfIn(tee', s)
         /\ NextLine(s)[7] = {p \in 0..MaxChunk : live' = s /\ decoded' <= p}
BY DEF NextLine, Line

\* Sessions that were begun stay so, and none is begun again.
GoesOn(s) ==
  /\ live' = s => live = s /\ decoded <= decoded'
  /\ s \in ended \cup {live} => s \in ended' \cup {live'}

LEMMA FlowKeepsSound ==
  ASSUME IInv, NEW s \in Session, Intact(s)', GoesOn(s), Flows(Line(s), NextLine(s))
  PROVE  Sound(s)'
<1>1. \A i \in 1..7 : Line(s)[i] \subseteq Int
  BY LineType DEF IInv
<1>2. InOrder(NextLine(s))
  BY <1>1, FlowKeepsOrder DEF IInv, Sound
<1>3. ASSUME s \notin ended' \cup {live'}
      PROVE  \A i \in 1..7 : NextLine(s)[i] = {}
  <2>1. \A i \in 1..7 : Line(s)[i] = {}
    BY <1>3 DEF GoesOn, IInv, Sound
  <2> QED BY <2>1 DEF Flows
<1> QED BY <1>2, <1>3 DEF Sound, NextLine

\* Steps that only lose chunks.
Fewer(s) ==
  /\ Less(heard'[s], heard[s], s) /\ Less(backlog'[s], backlog[s], s)
  /\ Less(held'[s], held[s], s) /\ Less(audio'[s], audio[s], s)
  /\ LessIn(feed', feed, s) /\ LessIn(tee', tee, s)

LEMMA FewerKeepsSound ==
  ASSUME IInv, TypeOK', NEW s \in Session, Fewer(s), GoesOn(s)
  PROVE  Sound(s)'
<1>1. Sound(s)
  BY DEF IInv
<1>2. Intact(s)'
  BY <1>1 DEF Sound, Intact, Fewer, Less, LessIn
<1>3. {p \in 0..MaxChunk : live' = s /\ decoded' <= p} \subseteq
        {p \in 0..MaxChunk : live = s /\ decoded <= p}
  <2>1. decoded \in 0..MaxChunk /\ decoded' \in 0..MaxChunk
    BY DEF IInv, TypeOK
  <2> QED BY <2>1 DEF GoesOn
<1>4. \A i \in 1..7 : NextLine(s)[i] \subseteq Line(s)[i]
  BY <1>3, LineFacts, NextLineFacts DEF Fewer, Less, LessIn
<1> QED BY <1>2, <1>4, FlowKeepsSound DEF Flows

LEMMA SendLess ==
  ASSUME IInv, NEW s \in Session, NEW e \in Event, TrySend(e), ~Carries(e, s)
  PROVE  LessIn(tee', tee, s)
<1>1. tee \in Seq(Event) /\ RisingIn(tee, s) /\ GenuineIn(tee, s)
  BY DEF IInv, TypeOK, Sound, Intact
<1>2. CASE Fits
  <2>1. tee' = Append(tee, e)
    BY <1>2 DEF TrySend
  <2>2. RisingIn(tee', s) /\ GenuineIn(tee', s) /\ OfIn(tee', s) \subseteq OfIn(tee, s)
    BY <1>1, <2>1, AppendInFacts
  <2> QED BY <2>2 DEF LessIn
<1>3. CASE ~Fits
  BY <1>3, LessFacts DEF TrySend
<1> QED BY <1>2, <1>3

LEMMA BroadcastLess ==
  ASSUME IInv, NEW s \in Session, NEW e \in Event, Broadcast(e), ~Carries(e, s) \/ ~writer
  PROVE  LessIn(feed', feed, s)
<1>1. feed \in Seq(Event) /\ RisingIn(feed, s) /\ GenuineIn(feed, s)
  BY DEF IInv, TypeOK, Sound, Intact
<1>2. CASE writer
  <2> DEFINE m == Append(feed, e)
  <2>1. feed' = Newest(m)
    BY <1>2 DEF Broadcast
  <2>2. /\ m \in Seq(Event) /\ RisingIn(m, s) /\ GenuineIn(m, s)
        /\ OfIn(m, s) \subseteq OfIn(feed, s)
    BY <1>1, <1>2, AppendInFacts
  <2> HIDE DEF m
  <2>3. RisingIn(feed', s) /\ GenuineIn(feed', s) /\ OfIn(feed', s) \subseteq OfIn(m, s)
    BY <2>1, <2>2, NewestFacts
  <2> QED BY <2>2, <2>3 DEF LessIn
<1>3. CASE ~writer
  BY <1>3, LessFacts DEF Broadcast
<1> QED BY <1>2, <1>3

LEMMA BeginSound ==
  ASSUME IInv, TypeOK', Begin, NEW s \in Session
  PROVE  Sound(s)'
<1>1. PICK r \in Session : /\ \A q \in Session : q < r <=> q \in ended
                           /\ live' = r /\ TrySend([type |-> "Start", session |-> r])
  BY DEF Begin
<1>2. live = 0 /\ ended' = ended /\ r \notin ended /\ r # 0 /\ s # 0
  BY <1>1, StreamAssumption DEF Begin
<1>3. LessIn(tee', tee, s)
  <2>1. [type |-> "Start", session |-> r] \in Event /\ ~Carries([type |-> "Start", session |-> r], s)
    BY DEF Event, Carries
  <2> QED BY <1>1, <2>1, SendLess
<1>4. Fewer(s)
  BY <1>3, LessFacts DEF Fewer, Begin, fanout, network, handling, output
<1>5. CASE s # r
  BY <1>1, <1>2, <1>4, <1>5, FewerKeepsSound DEF GoesOn
<1>6. CASE s = r
  <2>1. \A i \in 1..7 : Line(s)[i] = {}
    BY <1>2, <1>6 DEF IInv, Sound
  <2>2. \A i \in 1..6 : NextLine(s)[i] = {}
    <3>1. \A i \in 1..6 : NextLine(s)[i] \subseteq Line(s)[i]
      BY <1>4, LineFacts, NextLineFacts DEF Fewer, Less, LessIn
    <3> QED BY <2>1, <3>1
  <2>3. InOrder(NextLine(s))
    BY <2>2 DEF InOrder
  <2>4. Intact(s)'
    BY <1>4 DEF IInv, Sound, Intact, Fewer, Less, LessIn
  <2> QED BY <1>1, <1>6, <2>3, <2>4 DEF Sound, NextLine
<1> QED BY <1>5, <1>6

LEMMA SendChunkSound ==
  ASSUME IInv, TypeOK', SendChunk, NEW s \in Session
  PROVE  Sound(s)'
<1> DEFINE e == [type |-> "Chunk", session |-> live, chunk |-> TheChunk]
<1>1. /\ live \in Session /\ decoded' = decoded + 1 /\ sent = decoded /\ decoded < MaxChunk
      /\ decoded \in 0..MaxChunk /\ MaxChunk \in Nat /\ live' = live /\ ended' = ended
      /\ TrySend(e)
  BY StreamAssumption DEF SendChunk, IInv, TypeOK, Counted
<1>2. e \in Event /\ e.type = "Chunk" /\ e.session = live /\ e.chunk.session = live
      /\ e.chunk.stamp = decoded /\ e.chunk.pos = decoded
  BY <1>1 DEF Event, Chunk, TheChunk
<1> HIDE DEF e
<1>3. GoesOn(s)
  BY <1>1 DEF GoesOn
<1>4. UNCHANGED <<heard, backlog, held, audio, feed>>
  BY DEF SendChunk, fanout, network, handling, output
<1>5. CASE s # live \/ ~Fits
  <2>1. LessIn(tee', tee, s)
    <3>1. CASE s # live
      BY <1>1, <1>2, <3>1, SendLess DEF Carries
    <3>2. CASE ~Fits
      BY <1>1, <3>2, LessFacts DEF TrySend
    <3> QED BY <1>5, <3>1, <3>2
  <2> QED BY <1>3, <1>4, <2>1, LessFacts, FewerKeepsSound DEF Fewer
<1>6. CASE s = live /\ Fits
  <2>1. Intact(s) /\ InOrder(Line(s)) /\ tee \in Seq(Event)
    BY DEF IInv, Sound, TypeOK
  <2>2. tee' = Append(tee, e)
    BY <1>1, <1>6 DEF TrySend
  <2>3. decoded \in Line(s)[7]
    BY <1>1, <1>6, LineFacts
  <2>4. \A p \in OfIn(tee, s) : p < decoded
    BY <2>1, <2>3, LineFacts DEF InOrder
  <2>5. /\ RisingIn(tee', s) /\ GenuineIn(tee', s)
        /\ OfIn(tee', s) \subseteq OfIn(tee, s) \cup {decoded}
    BY <1>2, <1>6, <2>1, <2>2, <2>4, AppendInFacts DEF Carries, Intact
  <2>6. Intact(s)'
    BY <1>4, <2>1, <2>5 DEF Intact
  <2>7. /\ NextLine(s)[6] \subseteq Line(s)[6] \cup {decoded}
        /\ NextLine(s)[7] \subseteq Line(s)[7] /\ \A y \in NextLine(s)[7] : decoded < y
    BY <1>1, <2>5, LineFacts, NextLineFacts
  <2>8. \A i \in 1..5 : NextLine(s)[i] = Line(s)[i]
    BY <1>4, LineFacts, NextLineFacts
  <2>9. Flows(Line(s), NextLine(s))
    <3>1. \A i \in 1..7 : i \in 1..5 \/ i = 6 \/ i = 7
      OBVIOUS
    <3>2. \A i \in 6 + 1..7 : i = 7
      OBVIOUS
    <3>3. \A i \in 1..7 : i # 6 => NextLine(s)[i] \subseteq Line(s)[i]
      BY <2>7, <2>8, <3>1
    <3>4. \A i \in 6 + 1..7 : \A y \in NextLine(s)[i] : decoded < y
      BY <2>7, <3>2
    <3> QED BY <2>3, <2>7, <3>3, <3>4 DEF Flows
  <2> QED BY <1>3, <2>6, <2>9, FlowKeepsSound
<1> QED BY <1>5, <1>6

LEMMA EndSound ==
  ASSUME IInv, TypeOK', End, NEW s \in Session
  PROVE  Sound(s)'
<1>1. /\ live \in Session /\ s # 0 /\ live' = 0 /\ ended' = ended \cup {live}
      /\ TrySend([type |-> "End", session |-> live])
  BY StreamAssumption DEF End, IInv, TypeOK
<1>2. [type |-> "End", session |-> live] \in Event /\ ~Carries([type |-> "End", session |-> live], s)
  BY <1>1 DEF Event, Carries
<1>3. Fewer(s)
  BY <1>1, <1>2, SendLess, LessFacts DEF Fewer, End, fanout, network, handling, output
<1> QED BY <1>1, <1>3, FewerKeepsSound DEF GoesOn

LEMMA StillGoesOn ==
  ASSUME IInv, UNCHANGED <<live, decoded, ended>>, NEW s \in Session
  PROVE  GoesOn(s)
<1>1. decoded \in Int /\ decoded' = decoded /\ live' = live /\ ended' = ended
  BY DEF IInv, TypeOK
<1> QED BY <1>1 DEF GoesOn

\* A chunk that goes from stage j to stage k of its session.
Passes(s, k, j, x) ==
  /\ x \in Line(s)[j]
  /\ NextLine(s)[k] \subseteq Line(s)[k] \cup {x}
  /\ \A i \in 1..6 : i # k => NextLine(s)[i] \subseteq Line(s)[i]
  /\ \A i \in k + 1..j : \A y \in NextLine(s)[i] : x < y

LEMMA PassKeepsSound ==
  ASSUME IInv, NEW s \in Session, Intact(s)', UNCHANGED <<live, decoded, ended>>,
         NEW k \in 1..6, NEW j \in 1..6, NEW x, k < j, Passes(s, k, j, x)
  PROVE  Sound(s)'
<1>1. live' = live /\ decoded' = decoded
  OBVIOUS
<1>2. NextLine(s)[7] \subseteq Line(s)[7]
  <2>1. /\ NextLine(s)[7] = {p \in 0..MaxChunk : live' = s /\ decoded' <= p}
        /\ Line(s)[7] = {p \in 0..MaxChunk : live = s /\ decoded <= p}
    BY LineFacts, NextLineFacts
  <2> QED BY <1>1, <2>1
<1>3. \A i \in 1..7 : i # k => NextLine(s)[i] \subseteq Line(s)[i]
  <2>1. \A i \in 1..7 : i \in 1..6 \/ i = 7
    OBVIOUS
  <2> QED BY <1>2, <2>1 DEF Passes
<1>4. k \in 1..7 /\ j \in 1..7
  OBVIOUS
<1>5. Flows(Line(s), NextLine(s))
  BY <1>3, <1>4 DEF Flows, Passes
<1> QED BY <1>5, FlowKeepsSound, StillGoesOn

LEMMA IngestSound ==
  ASSUME IInv, TypeOK', Ingest, NEW s \in Session
  PROVE  Sound(s)'
<1> DEFINE e == Head(tee)
<1>1. /\ tee # <<>> /\ tee' = Tail(tee) /\ tee \in Seq(Event) /\ feed \in Seq(Event)
      /\ UNCHANGED <<heard, backlog, held, audio, live, decoded, ended>>
  BY DEF Ingest, IInv, TypeOK, leader, network, handling, output
<1>2. UNCHANGED feed \/ (Broadcast(e) /\ (e.type = "Chunk" => current = e.session))
  BY DEF Ingest
<1>3. Intact(s) /\ InOrder(Line(s))
  BY DEF IInv, Sound
<1>4. /\ e \in Event /\ RisingIn(tee', s) /\ GenuineIn(tee', s) /\ OfIn(tee', s) \subseteq OfIn(tee, s)
      /\ Carries(e, s) => /\ e.chunk.pos \in OfIn(tee, s)
                          /\ \A p \in OfIn(tee', s) : e.chunk.pos < p
                          /\ e.chunk.session = s /\ e.chunk.stamp = e.chunk.pos
  BY <1>1, <1>3, TailInFacts DEF Intact
<1> HIDE DEF e
<1>5. LessIn(tee', tee, s)
  BY <1>4 DEF LessIn
<1>6. CASE UNCHANGED feed \/ ~Carries(e, s) \/ ~writer
  <2>1. LessIn(feed', feed, s)
    BY <1>2, <1>4, <1>6, BroadcastLess, LessFacts
  <2> QED BY <1>1, <1>5, <2>1, LessFacts, FewerKeepsSound, StillGoesOn DEF Fewer
<1>7. CASE Carries(e, s) /\ writer /\ Broadcast(e)
  <2> DEFINE m == Append(feed, e)  x == e.chunk.pos
  <2>1. x \in Line(s)[6]
    BY <1>4, <1>7, LineFacts
  <2>2. \A p \in OfIn(feed, s) : p < x
    BY <1>3, <2>1, LineFacts DEF InOrder
  <2>3. feed' = Newest(m)
    BY <1>7 DEF Broadcast
  <2>4. /\ m \in Seq(Event) /\ RisingIn(m, s) /\ GenuineIn(m, s)
        /\ OfIn(m, s) \subseteq OfIn(feed, s) \cup {x}
    BY <1>1, <1>3, <1>4, <1>7, <2>2, AppendInFacts DEF Intact
  <2> HIDE DEF m, x
  <2>5. RisingIn(feed', s) /\ GenuineIn(feed', s) /\ OfIn(feed', s) \subseteq OfIn(feed, s) \cup {x}
    BY <2>3, <2>4, NewestFacts
  <2>6. Intact(s)'
    BY <1>1, <1>3, <1>4, <2>5 DEF Intact
  <2>7. NextLine(s)[5] \subseteq Line(s)[5] \cup {x}
    BY <2>5, LineFacts, NextLineFacts
  <2>8. \A i \in 1..6 : i # 5 => NextLine(s)[i] \subseteq Line(s)[i]
    BY <1>1, <1>4, LineFacts, NextLineFacts
  <2>9. \A i \in 5 + 1..6 : \A y \in NextLine(s)[i] : x < y
    <3>1. \A i \in 5 + 1..6 : i = 6
      OBVIOUS
    <3>2. \A y \in NextLine(s)[6] : x < y
      BY <1>4, <1>7, NextLineFacts DEF x
    <3> QED BY <3>1, <3>2
  <2>10. Passes(s, 5, 6, x)
    BY <2>1, <2>7, <2>8, <2>9 DEF Passes
  <2> QED BY <1>1, <2>6, <2>10, PassKeepsSound
<1> QED BY <1>2, <1>6, <1>7

LEMMA WriteChunkSound ==
  ASSUME IInv, TypeOK', WriteChunk, NEW s \in Session
  PROVE  Sound(s)'
<1> DEFINE e == Head(feed)
<1>1. /\ feed # <<>> /\ feed' = Tail(feed) /\ feed \in Seq(Event) /\ e.type = "Chunk"
      /\ audio' = [audio EXCEPT ![e.session] = Append(@, e.chunk)]
      /\ audio \in [Session -> Seq(Chunk)]
      /\ UNCHANGED <<heard, backlog, held, tee, live, decoded, ended>>
  BY DEF WriteChunk, IInv, TypeOK, leader, handling, output
<1>2. Intact(s) /\ InOrder(Line(s))
  BY DEF IInv, Sound
<1>3. /\ e \in Event /\ RisingIn(feed', s) /\ GenuineIn(feed', s) /\ OfIn(feed', s) \subseteq OfIn(feed, s)
      /\ Carries(e, s) => /\ e.chunk.pos \in OfIn(feed, s)
                          /\ \A p \in OfIn(feed', s) : e.chunk.pos < p
                          /\ e.chunk.session = s /\ e.chunk.stamp = e.chunk.pos
  BY <1>1, <1>2, TailInFacts DEF Intact
<1> HIDE DEF e
<1>4. CASE e.session # s
  <2>1. audio'[s] = audio[s]
    BY <1>1, <1>4
  <2> QED BY <1>1, <1>2, <1>3, <2>1, LessFacts, FewerKeepsSound, StillGoesOn DEF Fewer, LessIn
<1>5. CASE e.session = s
  <2> DEFINE x == e.chunk.pos
  <2>1. Carries(e, s) /\ e.chunk \in Chunk /\ audio[s] \in Seq(Chunk)
    BY <1>1, <1>3, <1>5, ChunkFacts DEF Carries
  <2>2. x \in Line(s)[5]
    BY <1>3, <2>1, LineFacts
  <2>3. \A p \in Of(audio[s]) : p < x
    BY <1>2, <2>2, LineFacts DEF InOrder
  <2>4. audio'[s] = Append(audio[s], e.chunk)
    BY <1>1, <1>5
  <2>5. Rising(audio'[s]) /\ Genuine(audio'[s], s) /\ Of(audio'[s]) \subseteq Of(audio[s]) \cup {x}
    BY <1>2, <1>3, <2>1, <2>3, <2>4, AppendFacts DEF Intact
  <2> HIDE DEF x
  <2>6. Intact(s)'
    BY <1>1, <1>2, <1>3, <2>5 DEF Intact
  <2>7. NextLine(s)[4] \subseteq Line(s)[4] \cup {x}
    BY <2>5, LineFacts, NextLineFacts
  <2>8. \A i \in 1..6 : i # 4 => NextLine(s)[i] \subseteq Line(s)[i]
    BY <1>1, <1>3, LineFacts, NextLineFacts
  <2>9. \A i \in 4 + 1..5 : \A y \in NextLine(s)[i] : x < y
    <3>1. \A i \in 4 + 1..5 : i = 5
      OBVIOUS
    <3>2. \A y \in NextLine(s)[5] : x < y
      BY <1>3, <2>1, NextLineFacts DEF x
    <3> QED BY <3>1, <3>2
  <2>10. Passes(s, 4, 5, x)
    BY <2>2, <2>7, <2>8, <2>9 DEF Passes
  <2> QED BY <1>1, <2>6, <2>10, PassKeepsSound
<1> QED BY <1>4, <1>5

\* The handler of s takes the first chunk of its stream.
LEMMA AcceptSound ==
  ASSUME IInv, TypeOK', NEW r \in Session, Accept(r), NEW s \in Session
  PROVE  Sound(s)'
<1>1. /\ audio[r] # <<>> /\ audio' = [audio EXCEPT ![r] = Tail(@)]
      /\ held' = [held EXCEPT ![r] = <<Head(audio[r])>>]
      /\ audio \in [Session -> Seq(Chunk)] /\ held \in [Session -> Seq(Chunk)]
      /\ UNCHANGED <<heard, backlog, feed, tee, live, decoded, ended>>
  BY DEF Accept, IInv, TypeOK, leader, fanout, output
<1>2. Intact(s) /\ InOrder(Line(s))
  BY DEF IInv, Sound
<1>3. CASE r # s
  <2>1. audio'[s] = audio[s] /\ held'[s] = held[s]
    BY <1>1, <1>3
  <2> QED BY <1>1, <2>1, LessFacts, FewerKeepsSound, StillGoesOn DEF Fewer
<1>4. CASE r = s
  <2> DEFINE c == Head(audio[s])  x == c.pos
  <2>1. audio[s] \in Seq(Chunk) /\ audio[s] # <<>> /\ audio'[s] = Tail(audio[s])
        /\ held'[s] = <<c>>
    BY <1>1, <1>4
  <2>2. /\ c \in Chunk /\ x \in Of(audio[s]) /\ Rising(audio'[s]) /\ Genuine(audio'[s], s)
        /\ Of(audio'[s]) \subseteq Of(audio[s]) /\ \A p \in Of(audio'[s]) : x < p
        /\ c.session = s /\ c.stamp = x
    BY <1>2, <2>1, TailFacts DEF Intact, Genuine
  <2> HIDE DEF c, x
  <2>3. Rising(held'[s]) /\ Genuine(held'[s], s) /\ Of(held'[s]) = {x}
    BY <2>1, <2>2 DEF Rising, Genuine, Of, x
  <2>4. Intact(s)'
    BY <1>1, <1>2, <2>2, <2>3 DEF Intact
  <2>5. x \in Line(s)[4] /\ NextLine(s)[3] \subseteq Line(s)[3] \cup {x}
    BY <2>2, <2>3, LineFacts, NextLineFacts
  <2>6. \A i \in 1..6 : i # 3 => NextLine(s)[i] \subseteq Line(s)[i]
    BY <1>1, <2>2, LineFacts, NextLineFacts
  <2>7. \A i \in 3 + 1..4 : \A y \in NextLine(s)[i] : x < y
    <3>1. \A i \in 3 + 1..4 : i = 4
      OBVIOUS
    <3>2. \A y \in NextLine(s)[4] : x < y
      BY <2>2, NextLineFacts
    <3> QED BY <3>1, <3>2
  <2>8. Passes(s, 3, 4, x)
    BY <2>5, <2>6, <2>7 DEF Passes
  <2> QED BY <1>1, <2>4, <2>8, PassKeepsSound
<1> QED BY <1>3, <1>4

\* ... and passes chunks on to its sink, which may be full.
LEMMA ForwardSound ==
  ASSUME IInv, TypeOK', NEW r \in Session, Forward(r), NEW s \in Session
  PROVE  Sound(s)'
<1>1. /\ UNCHANGED <<heard, feed, tee, live, decoded, ended>>
      /\ \/ held[r] # <<>> /\ Queue(r, held[r][1]) /\ held' = [held EXCEPT ![r] = <<>>] /\ audio' = audio
         \/ /\ held[r] = <<>> /\ audio[r] # <<>> /\ Queue(r, Head(audio[r]))
            /\ audio' = [audio EXCEPT ![r] = Tail(@)] /\ held' = held
  BY DEF Forward, leader, fanout
<1>2. /\ audio \in [Session -> Seq(Chunk)] /\ held \in [Session -> Seq(Chunk)]
      /\ backlog \in [Session -> Seq(Chunk)]
  BY DEF IInv, TypeOK
<1>3. Intact(s) /\ InOrder(Line(s))
  BY DEF IInv, Sound
<1>4. CASE r # s
  <2>1. audio'[s] = audio[s] /\ held'[s] = held[s] /\ backlog'[s] = backlog[s]
    BY <1>1, <1>2, <1>4 DEF Queue
  <2> QED BY <1>1, <2>1, LessFacts, FewerKeepsSound, StillGoesOn DEF Fewer
<1>5. ASSUME r = s, NEW c \in Chunk, NEW j \in 3..4, Queue(s, c), c.session = s, c.stamp = c.pos,
             c.pos \in Line(s)[j], Less(held'[s], held[s], s), Less(audio'[s], audio[s], s),
             \A i \in 3..j : \A y \in NextLine(s)[i] : c.pos < y
      PROVE  Sound(s)'
  <2>1. backlog'[s] = backlog[s] \/ backlog'[s] = Append(backlog[s], c)
    BY <1>2, <1>5 DEF Queue
  <2>2. CASE backlog'[s] = backlog[s]
    BY <1>1, <1>5, <2>2, LessFacts, FewerKeepsSound, StillGoesOn DEF Fewer
  <2>3. CASE backlog'[s] = Append(backlog[s], c)
    <3>1. \A p \in Of(backlog[s]) : p < c.pos
      BY <1>3, <1>5, LineFacts DEF InOrder
    <3>2. /\ Rising(backlog'[s]) /\ Genuine(backlog'[s], s)
          /\ Of(backlog'[s]) \subseteq Of(backlog[s]) \cup {c.pos}
      <4>1. backlog[s] \in Seq(Chunk) /\ Rising(backlog[s]) /\ Genuine(backlog[s], s)
        BY <1>2, <1>3 DEF Intact
      <4> QED BY <1>5, <2>3, <3>1, <4>1, AppendFacts
    <3>3. Intact(s)'
      BY <1>1, <1>3, <1>5, <3>2 DEF Intact, Less
    <3>4. NextLine(s)[2] \subseteq Line(s)[2] \cup {c.pos}
      BY <3>2, LineFacts, NextLineFacts
    <3>5. \A i \in 1..6 : i # 2 => NextLine(s)[i] \subseteq Line(s)[i]
      BY <1>1, <1>5, LineFacts, NextLineFacts DEF Less
    <3>6. j \in 1..6 /\ 2 < j /\ \A i \in 2 + 1..j : \A y \in NextLine(s)[i] : c.pos < y
      BY <1>5
    <3>7. Passes(s, 2, j, c.pos)
      BY <1>5, <3>4, <3>5, <3>6 DEF Passes
    <3> QED BY <1>1, <3>3, <3>6, <3>7, PassKeepsSound
  <2> QED BY <2>1, <2>2, <2>3
<1>6. CASE r = s /\ held[s] # <<>>
  <2> DEFINE c == held[s][1]
  <2>1. /\ Queue(s, c) /\ held'[s] = <<>> /\ audio'[s] = audio[s] /\ held[s] \in Seq(Chunk)
    BY <1>1, <1>2, <1>6
  <2>2. c \in Chunk /\ c.pos \in Of(held[s]) /\ c.session = s /\ c.stamp = c.pos
    BY <1>3, <1>6, <2>1, TailFacts DEF Intact, Genuine
  <2>3. c.pos \in Line(s)[3] /\ \A i \in 3..3 : NextLine(s)[i] = {}
    BY <2>1, <2>2, LineFacts, NextLineFacts, EmptyFacts
  <2>4. Less(held'[s], held[s], s) /\ Less(audio'[s], audio[s], s)
    BY <2>1, LessFacts
  <2> HIDE DEF c
  <2> QED BY <1>5, <1>6, <2>1, <2>2, <2>3, <2>4
<1>7. CASE r = s /\ held[s] = <<>>
  <2> DEFINE c == Head(audio[s])
  <2>1. /\ Queue(s, c) /\ held'[s] = <<>> /\ audio'[s] = Tail(audio[s]) /\ audio[s] \in Seq(Chunk)
        /\ audio[s] # <<>>
    BY <1>1, <1>2, <1>7
  <2>2. /\ c \in Chunk /\ c.pos \in Of(audio[s]) /\ c.session = s /\ c.stamp = c.pos
        /\ \A p \in Of(audio'[s]) : c.pos < p
    BY <1>3, <2>1, TailFacts DEF Intact, Genuine
  <2>3. Less(held'[s], held[s], s) /\ Less(audio'[s], audio[s], s)
    BY <1>3, <2>1, LessFacts DEF Intact
  <2>4. c.pos \in Line(s)[4] /\ \A i \in 3..4 : \A y \in NextLine(s)[i] : c.pos < y
    <3>1. NextLine(s)[3] = {} /\ NextLine(s)[4] = Of(audio'[s])
      BY <2>1, NextLineFacts, EmptyFacts
    <3>2. \A i \in 3..4 : i = 3 \/ i = 4
      OBVIOUS
    <3> QED BY <2>2, <3>1, <3>2, LineFacts
  <2> HIDE DEF c
  <2> QED BY <1>5, <1>7, <2>1, <2>2, <2>3, <2>4
<1> QED BY <1>4, <1>6, <1>7

LEMMA PlaySound ==
  ASSUME IInv, TypeOK', NEW r \in Session, Play(r), NEW s \in Session
  PROVE  Sound(s)'
<1>1. /\ backlog[r] # <<>> /\ backlog' = [backlog EXCEPT ![r] = Tail(@)]
      /\ heard' = [heard EXCEPT ![r] = Append(@, Head(backlog[r]))]
      /\ backlog \in [Session -> Seq(Chunk)] /\ heard \in [Session -> Seq(Chunk)]
      /\ UNCHANGED <<held, audio, feed, tee, live, decoded, ended>>
  BY DEF Play, IInv, TypeOK, leader, fanout, network, handling
<1>2. Intact(s) /\ InOrder(Line(s))
  BY DEF IInv, Sound
<1>3. CASE r # s
  <2>1. backlog'[s] = backlog[s] /\ heard'[s] = heard[s]
    BY <1>1, <1>3
  <2> QED BY <1>1, <2>1, LessFacts, FewerKeepsSound, StillGoesOn DEF Fewer
<1>4. CASE r = s
  <2> DEFINE c == Head(backlog[s])  x == c.pos
  <2>1. backlog[s] \in Seq(Chunk) /\ heard[s] \in Seq(Chunk) /\ backlog[s] # <<>>
        /\ backlog'[s] = Tail(backlog[s]) /\ heard'[s] = Append(heard[s], c)
    BY <1>1, <1>4
  <2>2. /\ c \in Chunk /\ x \in Of(backlog[s]) /\ Rising(backlog'[s]) /\ Genuine(backlog'[s], s)
        /\ Of(backlog'[s]) \subseteq Of(backlog[s]) /\ \A p \in Of(backlog'[s]) : x < p
        /\ c.session = s /\ c.stamp = x
    BY <1>2, <2>1, TailFacts DEF Intact, Genuine
  <2>3. \A p \in Of(heard[s]) : p < x
    BY <1>2, <2>2, LineFacts DEF InOrder
  <2>4. Rising(heard'[s]) /\ Genuine(heard'[s], s) /\ Of(heard'[s]) \subseteq Of(heard[s]) \cup {x}
    BY <1>2, <2>1, <2>2, <2>3, AppendFacts DEF Intact
  <2> HIDE DEF c, x
  <2>5. Intact(s)'
    BY <1>1, <1>2, <2>2, <2>4 DEF Intact
  <2>6. x \in Line(s)[2] /\ NextLine(s)[1] \subseteq Line(s)[1] \cup {x}
    BY <2>2, <2>4, LineFacts, NextLineFacts
  <2>7. \A i \in 1..6 : i # 1 => NextLine(s)[i] \subseteq Line(s)[i]
    BY <1>1, <2>2, LineFacts, NextLineFacts
  <2>8. \A i \in 1 + 1..2 : \A y \in NextLine(s)[i] : x < y
    <3>1. \A i \in 1 + 1..2 : i = 2
      OBVIOUS
    <3>2. \A y \in NextLine(s)[2] : x < y
      BY <2>2, NextLineFacts
    <3> QED BY <3>1, <3>2
  <2>9. Passes(s, 1, 2, x)
    BY <2>6, <2>7, <2>8 DEF Passes
  <2> QED BY <1>1, <2>5, <2>9, PassKeepsSound
<1> QED BY <1>3, <1>4

\* Every other step of the network only loses chunks, ...
LEMMA FanoutSound ==
  ASSUME IInv, TypeOK', WriteEnd \/ WriteFails \/ Join \/ Lose, NEW s \in Session
  PROVE  Sound(s)'
<1>1. UNCHANGED <<heard, backlog, held, tee, live, decoded, ended>>
  BY DEF WriteEnd, WriteFails, Join, Lose, leader, handling, output
<1>2. audio'[s] = audio[s] \/ audio'[s] = <<>>
  BY DEF WriteEnd, WriteFails, Join, Lose, network, Nothing
<1>3. feed' = feed \/ feed' = <<>> \/ (feed # <<>> /\ feed' = Tail(feed))
  BY DEF WriteEnd, WriteFails, Join, Lose
<1>4. LessIn(feed', feed, s)
  <2>1. feed \in Seq(Event)
    BY DEF IInv, TypeOK
  <2> QED BY <1>3, <2>1, LessFacts
<1>5. Less(audio'[s], audio[s], s)
  BY <1>2, LessFacts
<1> QED BY <1>1, <1>4, <1>5, LessFacts, FewerKeepsSound, StillGoesOn DEF Fewer

\* ... and so do those of the follower's control loop, its handlers and sinks.
LEMMA FollowerSound ==
  ASSUME IInv, TypeOK', NEW s \in Session,
         UNCHANGED <<leader, tee, fanout, held, audio, heard>>,
         backlog'[s] = backlog[s] \/ backlog'[s] = <<>>
  PROVE  Sound(s)'
<1>1. UNCHANGED <<heard, held, audio, feed, tee, live, decoded, ended>>
  BY DEF leader, fanout
<1>2. Less(backlog'[s], backlog[s], s)
  BY LessFacts
<1> QED BY <1>1, <1>2, LessFacts, FewerKeepsSound, StillGoesOn DEF Fewer

LEMMA ControlSound ==
  ASSUME IInv, TypeOK', ControlStep \/ Sync, NEW s \in Session
  PROVE  Sound(s)'
<1>1. CASE StreamStart \/ Sync
  BY <1>1, FollowerSound DEF StreamStart, Sync, network, handling, output
<1>2. CASE StreamStop
  <2>1. Stopped(sinks \cap {Head(control).session})
    BY <1>2 DEF StreamStop
  <2>2. UNCHANGED handler
    BY <1>2 DEF StreamStop, handling
  <2>3. heard' = heard /\ (backlog'[s] = backlog[s] \/ backlog'[s] = <<>>)
    BY <2>1, <2>2, StoppedFacts
  <2> QED BY <1>2, <2>3, FollowerSound DEF StreamStop, handling
<1>3. CASE ControlEnds
  <2>1. Stopped(sinks)
    BY <1>3 DEF ControlEnds
  <2>2. UNCHANGED handler
    BY <1>3 DEF ControlEnds, handling
  <2>3. heard' = heard /\ (backlog'[s] = backlog[s] \/ backlog'[s] = <<>>)
    BY <2>1, <2>2, StoppedFacts
  <2> QED BY <1>3, <2>3, FollowerSound DEF ControlEnds, network, handling
<1> QED BY <1>1, <1>2, <1>3 DEF ControlStep

LEMMA RoomSound ==
  ASSUME IInv, TypeOK', NEW r \in Session, HandlerStep(r) \/ SinkStep(r) \/ SinkFails(r),
         NEW s \in Session
  PROVE  Sound(s)'
<1>1. CASE Found(r) \/ GiveUp(r) \/ StartSink(r) \/ InsertSink(r) \/ EndOfStream(r) \/ PlayedOut(r)
  BY <1>1, FollowerSound
     DEF Found, GiveUp, StartSink, InsertSink, EndOfStream, PlayedOut, network, output
<1>2. CASE SinkFails(r)
  <2>1. backlog'[s] = backlog[s] \/ backlog'[s] = <<>>
    <3>1. backlog \in [Session -> Seq(Chunk)]
      BY DEF IInv, TypeOK
    <3> QED BY <1>2, <3>1 DEF SinkFails
  <2> QED BY <1>2, <2>1, FollowerSound DEF SinkFails, network
<1> QED BY <1>1, <1>2, AcceptSound, ForwardSound, PlaySound DEF HandlerStep, SinkStep

-----------------------------------------------------------------------------
(* The invariant, and what follows from it.                                *)

LEMMA Initially == Init => IInv
<1> SUFFICES ASSUME Init PROVE IInv
  OBVIOUS
<1>1. TypeOK
  <2>1. Nothing \in [Session -> Seq(Chunk)]
    BY EmptyFacts DEF Nothing
  <2>2. /\ <<>> \in Seq(Event) /\ <<>> \in Seq(Message) /\ Len(<<>>) = 0
        /\ 0 \in 0..MaxChunk /\ 0 <= TeeSlots /\ 0 <= FeedSlots
    BY StreamAssumption
  <2>3. LeaderTypes
    BY <2>2 DEF Init, LeaderTypes
  <2>4. FollowerTypes
    <3>1. /\ joined = "No" /\ control = <<>> /\ audio = Nothing /\ finished = {} /\ refused = {}
          /\ listening = FALSE /\ synced = FALSE /\ pending = {} /\ sinks = {}
          /\ held = Nothing /\ backlog = Nothing /\ heard = Nothing
      BY DEF Init
    <3>2. handler = [s \in Session |-> "None"] /\ sink = [s \in Session |-> "None"]
      BY DEF Init
    <3>3. /\ sink \in [Session -> {"None", "Playing", "Gone"}]
          /\ handler \in [Session -> {"None", "Waiting", "Clock", "Starting", "Forward",
                                      "Draining", "Done"}]
      BY <3>2
    <3> QED BY <2>1, <2>2, <3>1, <3>3 DEF FollowerTypes
  <2> QED BY <2>3, <2>4, TypeParts
<1>2. Counted
  BY DEF Init, Counted
<1>3. Reachable
  BY DEF Init, Reachable
<1>4. ASSUME NEW s \in Session
      PROVE  Sound(s)
  <2>1. /\ heard[s] = <<>> /\ backlog[s] = <<>> /\ held[s] = <<>> /\ audio[s] = <<>>
        /\ feed = <<>> /\ tee = <<>> /\ live = 0 /\ s # 0
    BY StreamAssumption DEF Init, Nothing
  <2>2. Intact(s)
    BY <2>1, EmptyFacts DEF Intact
  <2>3. \A i \in 1..7 : Line(s)[i] = {}
    BY <2>1, EmptyFacts, LineFacts
  <2> QED BY <2>2, <2>3 DEF Sound, InOrder
<1> QED BY <1>1, <1>2, <1>3, <1>4 DEF IInv

LEMMA NextKeeps == IInv /\ [Next]_vars => IInv'
<1> SUFFICES ASSUME IInv, [Next]_vars PROVE IInv'
  OBVIOUS
<1>1. CASE UNCHANGED vars
  <2>1. TypeOK' /\ Counted' /\ Reachable'
    BY <1>1 DEF vars, leader, fanout, network, member, handling, output,
                IInv, TypeOK, Counted, Reachable
  <2>2. ASSUME NEW s \in Session PROVE Sound(s)'
    BY <1>1, <2>1, FollowerSound DEF vars, leader, fanout, network, handling, output
  <2> QED BY <2>1, <2>2 DEF IInv
<1>2. CASE Begin \/ SendChunk \/ End
  BY <1>2, LeaderActs, BeginSound, SendChunkSound, EndSound DEF IInv
<1>3. CASE Ingest \/ WriteChunk \/ WriteEnd \/ WriteFails \/ Join \/ Lose
  BY <1>3, FanoutActs, IngestSound, WriteChunkSound, FanoutSound DEF IInv
<1>4. CASE ControlStep \/ Sync
  BY <1>4, ControlActs, ControlSound DEF IInv
<1>5. ASSUME NEW r \in Session, HandlerStep(r) \/ SinkStep(r) \/ SinkFails(r)
      PROVE  IInv'
  <2>1. TypeOK' /\ Counted' /\ Reachable'
    BY <1>5, RoomActs
  <2>2. ASSUME NEW s \in Session PROVE Sound(s)'
    BY <1>5, <2>1, RoomSound
  <2> QED BY <2>1, <2>2 DEF IInv
<1> QED BY <1>1, <1>2, <1>3, <1>4, <1>5 DEF Next

\* The inductive invariant: besides the types, the chunks of a session are in
\* order all the way from the sink back to the decoder, each with the place it
\* was decoded at, and only a session that was begun has any.
THEOREM Invariant == Spec => []IInv
<1>1. Init => IInv
  BY Initially
<1>2. IInv /\ [Next]_vars => IInv'
  BY NextKeeps
<1> QED BY <1>1, <1>2, PTL DEF Spec

\* Whatever the channels lose and whenever a session, a room or a sink comes
\* and goes, a sink plays chunks of its own session only, in order, none twice,
\* each at the time of its own place in the song (tee.rs:173).
THEOREM Heard == Spec => []HeardRight
<1>1. IInv => HeardRight
  <2> SUFFICES ASSUME IInv PROVE HeardRight
    OBVIOUS
  <2>1. \A s \in Session : Rising(heard[s]) /\ Genuine(heard[s], s)
    BY DEF IInv, Sound, Intact
  <2> QED BY <2>1 DEF HeardRight, InTime, OwnSession, Rising, Genuine
<1> QED BY <1>1, Invariant, PTL

\* The control loop of a follower can find every sink that plays, but for those
\* a handler is about to enter or has taken out to drain (follower.rs).
THEOREM Stoppable == Spec => []Reachable
<1>1. IInv => Reachable
  BY DEF IInv
<1> QED BY <1>1, Invariant, PTL
=============================================================================
