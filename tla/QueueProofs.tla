---------------------------- MODULE QueueProofs ----------------------------
(***************************************************************************)
(* Proofs about the queue for every set of songs, every block size and     *)
(* every bound: types, freshness of keys, the lists beside the queue,      *)
(* reordering, the list it implements, the playback thread's advance that  *)
(* overlaps a command, and what a listener hears: "play next" is kept, and *)
(* random mode repeats nothing before the queue is exhausted.              *)
(***************************************************************************)
EXTENDS QueueOrder, QueueRace, QueueListening, WellFoundedInduction, SequenceTheorems, FiniteSetTheorems, TLAPS

-----------------------------------------------------------------------------
(* Facts about numbers that Min, Max and the reservation of ids rest on.   *)

\* A nonempty set of naturals has a least element.
LEMMA LeastNumber ==
  ASSUME NEW S \in SUBSET Nat, S # {}
  PROVE  \E m \in S : \A j \in S : m <= j
<1>1. IsWellFoundedOn(OpToRel(<, Nat), Nat)
  BY NatLessThanWellFounded
<1>2. PICK m \in S : \A j \in S : ~ (<<j, m>> \in OpToRel(<, Nat))
  BY <1>1, WFMin
<1>3. \A j \in S : ~ (j < m)
  BY <1>2 DEF OpToRel
<1> QED BY <1>3

\* A nonempty set of naturals below a bound has a greatest element: the
\* distances to the bound have a least one.
LEMMA GreatestNumber ==
  ASSUME NEW S \in SUBSET Nat, S # {}, NEW b \in Nat, \A j \in S : j <= b
  PROVE  \E m \in S : \A j \in S : m >= j
<1> DEFINE D == {d \in Nat : b - d \in S}
<1>1. \A j \in S : b - j \in D
  OBVIOUS
<1>2. D \in SUBSET Nat /\ D # {}
  BY <1>1
<1>3. PICK d \in D : \A e \in D : d <= e
  BY <1>2, LeastNumber
<1>4. \A j \in S : d <= b - j
  BY <1>1, <1>3
<1>5. b - d \in S /\ \A j \in S : b - d >= j
  BY <1>4
<1> QED BY <1>5

LEMMA MinFacts ==
  ASSUME NEW S \in SUBSET Nat, S # {}
  PROVE  Min(S) \in S /\ \A j \in S : Min(S) <= j
BY LeastNumber DEF Min

LEMMA MaxFacts ==
  ASSUME NEW S \in SUBSET Nat, S # {}, NEW b \in Nat, \A j \in S : j <= b
  PROVE  Max(S) \in S /\ \A j \in S : Max(S) >= j
BY GreatestNumber DEF Max

LEMMA Quotient ==
  ASSUME NEW b \in Nat \ {0}, NEW x \in Nat
  PROVE  x = b * (x \div b) + (x % b) /\ x \div b \in Nat
OBVIOUS

LEMMA Multiple ==
  ASSUME NEW b \in Nat \ {0}, NEW q \in Nat
  PROVE  (b * q) % b = 0
OBVIOUS

\* The next multiple after a multiple.
LEMMA NextMultiple ==
  ASSUME NEW b \in Nat \ {0}, NEW x \in Nat, x % b = 0
  PROVE  (x + b) % b = 0
<1> DEFINE q == x \div b
<1>1. x = b * q /\ q \in Nat
  BY Quotient
<1>2. x + b = b * (q + 1)
  BY <1>1
<1>. HIDE DEF q
<1> QED BY <1>1, <1>2, Multiple

-----------------------------------------------------------------------------
(* Issuing ids.                                                            *)

\* After n ids the reservation is a multiple of the block at or beyond the
\* next id, if it was one before.
LEMMA ReservationFacts ==
  ASSUME NEW n \in Nat, nextId \in Nat, reserved \in Nat,
         nextId <= reserved, reserved % Block = 0
  PROVE  /\ Reservation(n) \in Nat
         /\ nextId + n <= Reservation(n)
         /\ Reservation(n) % Block = 0
<1> DEFINE blockStarts == {i \in nextId..(nextId + n - 1) : i % Block = 0}
<1>0. Block \in Nat \ {0}
  BY QueueAssumption
<1>1. CASE blockStarts = {}
  <2>1. reserved \notin nextId..(nextId + n - 1)
    BY <1>1
  <2>2. nextId + n <= reserved
    BY <2>1
  <2> QED BY <1>1, <2>2 DEF Reservation
<1>2. CASE blockStarts # {}
  <2>1. /\ blockStarts \in SUBSET Nat /\ nextId + n \in Nat
        /\ \A j \in blockStarts : j <= nextId + n
    OBVIOUS
  <2> DEFINE last == Max(blockStarts)
  <2>2. last \in blockStarts /\ \A j \in blockStarts : last >= j
    <3> HIDE DEF blockStarts
    <3> QED BY <2>1, <1>2, MaxFacts
  <2>3. Reservation(n) = last + Block
    BY <1>2 DEF Reservation
  <2>4. last \in Nat /\ last >= nextId /\ last % Block = 0
    BY <2>2
  <2> HIDE DEF last
  <2>5. (last + Block) % Block = 0
    BY <1>0, <2>4, NextMultiple
  <2>6. last + Block \notin blockStarts
    BY <1>0, <2>2, <2>4
  <2>7. nextId + n <= last + Block
    BY <1>0, <2>4, <2>5, <2>6
  <2> QED BY <1>0, <2>3, <2>4, <2>5, <2>7
<1> QED BY <1>1, <1>2

-----------------------------------------------------------------------------
(* The order of the queue.                                                 *)

LEMMA SuccFacts ==
  ASSUME TypeOK, NEW k \in Nat, After(k) # {}
  PROVE  /\ Succ(k) \in Keys /\ Succ(k) \in Nat /\ Succ(k) > k
         /\ \A j \in Keys : j > k => Succ(k) <= j
<1>1. After(k) \in SUBSET Nat
  BY DEF After, TypeOK, Keys
<1>2. Succ(k) \in After(k) /\ \A j \in After(k) : Succ(k) <= j
  BY <1>1, MinFacts DEF Succ
<1> QED BY <1>1, <1>2 DEF After

LEMMA PredFacts ==
  ASSUME TypeOK, NEW k \in Nat, Before(k) # {}
  PROVE  /\ Pred(k) \in Keys /\ Pred(k) \in Nat /\ Pred(k) < k
         /\ \A j \in Keys : j < k => Pred(k) >= j
<1>1. Before(k) \in SUBSET Nat /\ \A j \in Before(k) : j <= k
  BY DEF Before, TypeOK, Keys
<1>2. Pred(k) \in Before(k) /\ \A j \in Before(k) : Pred(k) >= j
  BY <1>1, MaxFacts DEF Pred
<1> QED BY <1>1, <1>2 DEF Before

LEMMA KeyOfFacts ==
  ASSUME TypeOK, NEW s, Queued(s)
  PROVE  KeyOf(s) \in Keys /\ KeyOf(s) \in Nat /\ songs[KeyOf(s)] = s
<1> DEFINE S == {k \in Keys : songs[k] = s}
<1>1. S \in SUBSET Nat /\ S # {}
  BY DEF Queued, TypeOK, Keys
<1>2. Min(S) \in S
  <2> HIDE DEF S
  <2> QED BY <1>1, MinFacts
<1> QED BY <1>1, <1>2 DEF KeyOf

LEMMA CurrentOrFirstFacts ==
  ASSUME TypeOK
  PROVE  /\ CurrentOrFirst \in Keys \cup {current}
         /\ CurrentOrFirst \in Nat \cup {NoKey}
         /\ Keys # {} => CurrentOrFirst # NoKey
<1>1. Keys # {} => Min(Keys) \in Keys /\ Min(Keys) \in Nat
  BY MinFacts DEF TypeOK
<1>2. NoKey \notin Nat
  BY QueueAssumption
<1> QED BY <1>1, <1>2 DEF CurrentOrFirst, TypeOK

\* The new position after a move is an entry of the queue again.
LEMMA NewPositionFacts ==
  ASSUME TypeOK, NEW c \in Keys, NEW f \in Keys, NEW t \in Keys
  PROVE  NewPosition(c, f, t) \in Keys
<1>1. c \in Nat /\ f \in Nat /\ t \in Nat
  BY DEF TypeOK, Keys
<1>2. f < c => Before(c) # {}
  BY DEF Before
<1>3. c < f => After(c) # {}
  BY DEF After
<1> QED BY <1>1, <1>2, <1>3, PredFacts, SuccFacts DEF NewPosition

LEMMA ShiftedFacts ==
  ASSUME TypeOK, NEW f \in Keys, NEW t \in Keys
  PROVE  Shifted(f, t) \in [Keys -> Song]
<1> SUFFICES ASSUME NEW k \in Keys
             PROVE  Shifted(f, t)[k] \in Song
  BY DEF Shifted
<1>1. k \in Nat /\ f \in Nat /\ t \in Nat /\ songs \in [Keys -> Song]
  BY DEF TypeOK, Keys
<1>2. k < t => Succ(k) \in Keys
  BY <1>1, SuccFacts DEF After
<1>3. t < k => Pred(k) \in Keys
  BY <1>1, PredFacts DEF Before
<1> QED BY <1>1, <1>2, <1>3 DEF Shifted

\* The whole effect of a move on what the invariant speaks of.
LEMMA ReorderFacts ==
  ASSUME TypeOK, NEW f \in Keys, NEW t \in Keys, Reorder(f, t)
  PROVE  /\ songs' \in [Keys -> Song] /\ Keys' = Keys
         /\ current' \in Keys \cup {current}
<1>1. songs' \in [Keys -> Song] /\ DOMAIN songs' = Keys
  BY ShiftedFacts DEF Reorder
<1>2. CurrentOrFirst \in Keys => current' \in Keys
  BY NewPositionFacts DEF Reorder
<1>3. CurrentOrFirst \notin Keys => current' = CurrentOrFirst
  BY DEF Reorder
<1> QED BY <1>1, <1>2, <1>3, CurrentOrFirstFacts DEF Keys

-----------------------------------------------------------------------------
(* The priority list.                                                      *)

LEMMA ConcatElements ==
  ASSUME NEW T, NEW s \in Seq(Nat), NEW t \in Seq(Nat),
         \A i \in 1..Len(s) : s[i] \in T, \A i \in 1..Len(t) : t[i] \in T
  PROVE  /\ s \o t \in Seq(Nat)
         /\ \A i \in 1..Len(s \o t) : (s \o t)[i] \in T
<1> DEFINE c == s \o t  m == Len(s)  n == Len(t)
<1>1. c \in Seq(Nat) /\ 1..Len(c) = 1..m + n
  BY ConcatProperties
<1>2. \A i \in 1..m + n : c[i] = IF i <= m THEN s[i] ELSE t[i - m]
  BY ConcatProperties
<1>3. m \in Nat /\ n \in Nat
  OBVIOUS
<1>4. (\A i \in 1..m : s[i] \in T) /\ (\A i \in 1..n : t[i] \in T)
  OBVIOUS
<1> HIDE DEF c, m, n
<1>5. ASSUME NEW i \in 1..m + n
      PROVE  c[i] \in T
  <2>1. CASE i <= m
    <3>1. i \in 1..m
      BY <1>3, <2>1
    <3> QED BY <1>2, <1>4, <2>1, <3>1
  <2>2. CASE ~(i <= m)
    <3>1. i - m \in 1..n
      BY <1>3, <2>2
    <3> QED BY <1>2, <1>4, <2>2, <3>1
  <2> QED BY <2>1, <2>2
<1> QED BY <1>1, <1>5 DEF c

LEMMA WithoutFacts ==
  ASSUME priority \in Seq(Nat), NEW k
  PROVE  /\ Without(k) \in Seq(Nat)
         /\ \A i \in 1..Len(Without(k)) : Without(k)[i] \in ToSet(priority)
<1> DEFINE at == {i \in DOMAIN priority : priority[i] = k}
<1>1. CASE at = {}
  BY <1>1 DEF Without, ToSet
<1>2. CASE at # {}
  <2>1. Min(at) \in at
    <3>1. at \in SUBSET Nat
      OBVIOUS
    <3> HIDE DEF at
    <3> QED BY <3>1, <1>2, MinFacts
  <2> DEFINE m == Min(at)
  <2>2. m \in 1..Len(priority)
    BY <2>1
  <2>3. Without(k) = SubSeq(priority, 1, m - 1) \o SubSeq(priority, m + 1, Len(priority))
    BY <1>2 DEF Without, RemoveAt
  <2> HIDE DEF m
  <2> DEFINE head == SubSeq(priority, 1, m - 1)
             tail == SubSeq(priority, m + 1, Len(priority))
  <2>4. /\ head \in Seq(Nat)
        /\ \A i \in 1..Len(head) : head[i] \in ToSet(priority)
    BY <2>2 DEF ToSet
  <2>5. /\ tail \in Seq(Nat)
        /\ \A i \in 1..Len(tail) : tail[i] \in ToSet(priority)
    BY <2>2, SMTT(30) DEF ToSet
  <2>6. Without(k) = head \o tail
    BY <2>3
  <2> HIDE DEF head, tail
  <2>7. head \o tail \in Seq(Nat)
    BY <2>4, <2>5
  <2>8. \A i \in 1..Len(head \o tail) : (head \o tail)[i] \in ToSet(priority)
    BY <2>4, <2>5
  <2> QED BY <2>6, <2>7, <2>8
<1> QED BY <1>1, <1>2

LEMMA PushFrontFacts ==
  ASSUME priority \in Seq(Nat), NEW k \in Nat
  PROVE  /\ PushFront(k) \in Seq(Nat)
         /\ ToSet(PushFront(k)) \subseteq ToSet(priority) \cup {k}
<1> DEFINE w == Without(k)
<1>1. w \in Seq(Nat) /\ \A i \in 1..Len(w) : w[i] \in ToSet(priority)
  BY WithoutFacts
<1>2. PushFront(k) = <<k>> \o w
  BY DEF PushFront
<1> HIDE DEF w
<1>3. <<k>> \o w \in Seq(Nat)
  BY <1>1
<1>4. \A i \in 1..Len(<<k>> \o w) : (<<k>> \o w)[i] \in ToSet(priority) \cup {k}
  BY <1>1
<1> QED BY <1>2, <1>3, <1>4 DEF ToSet

-----------------------------------------------------------------------------
(* The inductive invariant, and what a step does to the keys: it mentions  *)
(* none but those mentioned before it and those it issues.                 *)

IInv == TypeOK /\ IdsReserved

Issued == nextId..(nextId' - 1)

IdsAdvance ==
  /\ nextId' \in Nat /\ reserved' \in Nat
  /\ nextId <= nextId' /\ nextId' <= reserved' /\ reserved' % Block = 0

SongsGrow ==
  /\ DOMAIN songs' \subseteq Keys \cup Issued
  /\ songs' \in [DOMAIN songs' -> Song]

CurrentKnown == current' \in Mentioned \cup {NoKey}

PriorityKnown ==
  /\ priority' \in Seq(Nat)
  /\ \A i \in DOMAIN priority' : priority'[i] \in Mentioned \cup Issued

RandomKnown ==
  /\ played' \subseteq Mentioned
  /\ DOMAIN history' \in SUBSET Nat
  /\ history' \in [DOMAIN history' -> Nat]
  /\ \A i \in DOMAIN history' : history'[i] \in Mentioned
  /\ historyIndex' \in Nat

KeyStep == IdsAdvance /\ SongsGrow /\ CurrentKnown /\ PriorityKnown /\ RandomKnown

LEMMA MentionedFacts ==
  ASSUME IInv
  PROVE  /\ Mentioned \subseteq Nat
         /\ Keys \subseteq Mentioned /\ played \subseteq Mentioned
         /\ current \in Mentioned \cup {NoKey}
         /\ \A i \in DOMAIN priority : priority[i] \in Mentioned
         /\ \A i \in DOMAIN history : history[i] \in Mentioned
BY DEF IInv, TypeOK, Mentioned, ToSet

\* Such a step keeps the invariant.
LEMMA KeyStepKeepsIInv ==
  ASSUME IInv, KeyStep, mode' \in Modes
  PROVE  IInv'
<1> USE DEF KeyStep
<1>1. Issued \subseteq Nat /\ \A k \in Issued : k < nextId'
  BY DEF IInv, TypeOK, Issued, IdsAdvance
<1>2. \A k \in Mentioned : k \in Nat /\ k < nextId'
  BY MentionedFacts DEF IInv, IdsReserved, IdsAdvance, TypeOK
<1>3. Keys' \in SUBSET Nat /\ songs' \in [Keys' -> Song]
  BY <1>1, MentionedFacts DEF SongsGrow, Keys
<1>4. current' \in Nat \cup {NoKey}
  BY MentionedFacts DEF CurrentKnown
<1>5. played' \in SUBSET Nat
  BY MentionedFacts DEF RandomKnown
<1>6. TypeOK'
  BY <1>3, <1>4, <1>5 DEF TypeOK, IdsAdvance, PriorityKnown, RandomKnown
<1>7. Mentioned' \subseteq Mentioned \cup Issued
  <2>1. Keys' \subseteq Mentioned \cup Issued
    BY MentionedFacts DEF SongsGrow, Keys
  <2>2. ToSet(priority') \subseteq Mentioned \cup Issued
    BY DEF PriorityKnown, ToSet
  <2>3. ToSet(history') \subseteq Mentioned
    BY DEF RandomKnown, ToSet
  <2>4. played' \subseteq Mentioned /\ {current'} \ {NoKey} \subseteq Mentioned
    BY DEF RandomKnown, CurrentKnown
  <2>5. Mentioned' = Keys' \cup ToSet(priority') \cup played' \cup ToSet(history')
                     \cup ({current'} \ {NoKey})
    BY DEF Mentioned
  <2> QED BY <2>1, <2>2, <2>3, <2>4, <2>5
<1>8. \A k \in Mentioned' : k < nextId'
  BY <1>1, <1>2, <1>7
<1>9. IdsReserved'
  BY <1>8 DEF IdsReserved, IdsAdvance
<1> QED BY <1>6, <1>9 DEF IInv

\* What stays as it is stays known.
LEMMA UnchangedKnown ==
  ASSUME IInv
  PROVE  /\ UNCHANGED ids => IdsAdvance
         /\ UNCHANGED songs => SongsGrow
         /\ UNCHANGED current => CurrentKnown
         /\ UNCHANGED priority => PriorityKnown
         /\ UNCHANGED randomState => RandomKnown
         /\ UNCHANGED mode => mode' \in Modes
<1>1. UNCHANGED ids => IdsAdvance
  BY DEF IInv, TypeOK, IdsReserved, IdsAdvance, ids
<1>2. UNCHANGED songs => SongsGrow
  BY DEF IInv, TypeOK, SongsGrow, Keys
<1>3. UNCHANGED current => CurrentKnown
  BY MentionedFacts DEF CurrentKnown
<1>4. UNCHANGED priority => PriorityKnown
  BY MentionedFacts DEF PriorityKnown, IInv, TypeOK
<1>5. UNCHANGED randomState => RandomKnown
  BY MentionedFacts DEF RandomKnown, IInv, TypeOK, randomState
<1>6. UNCHANGED mode => mode' \in Modes
  BY DEF IInv, TypeOK
<1> QED BY <1>1, <1>2, <1>3, <1>4, <1>5, <1>6

LEMMA ResetKnown ==
  ASSUME ResetRandom
  PROVE  RandomKnown
BY DEF ResetRandom, RandomKnown

LEMMA NothingKnown ==
  /\ songs' = <<>> => SongsGrow
  /\ current' = NoKey => CurrentKnown
  /\ priority' = <<>> => PriorityKnown
<1>1. songs' = <<>> => SongsGrow
  BY DEF SongsGrow
<1>2. current' = NoKey => CurrentKnown
  BY DEF CurrentKnown
<1>3. priority' = <<>> => PriorityKnown
  BY DEF PriorityKnown
<1> QED BY <1>1, <1>2, <1>3

LEMMA IssueFacts ==
  ASSUME IInv, NEW n \in Nat, Issue(n)
  PROVE  IdsAdvance /\ Issued = nextId..(nextId + n - 1)
<1>1. nextId \in Nat /\ reserved \in Nat /\ nextId <= reserved /\ reserved % Block = 0
  BY DEF IInv, TypeOK, IdsReserved
<1>2. reserved' = Reservation(n) /\ nextId' = nextId + n
  BY DEF Issue
<1>3. /\ Reservation(n) \in Nat /\ nextId + n <= Reservation(n)
      /\ Reservation(n) % Block = 0
  BY <1>1, ReservationFacts
<1> QED BY <1>1, <1>2, <1>3 DEF IdsAdvance, Issued

LEMMA ExtendFacts ==
  ASSUME IInv, NEW q, DOMAIN q \subseteq Keys, q \in [DOMAIN q -> Song],
         NEW ss \in Seq(Song),
         nextId..(nextId + Len(ss) - 1) \subseteq Issued,
         songs' = Extend(q, nextId, ss)
  PROVE  SongsGrow
<1>1. DOMAIN songs' = DOMAIN q \cup nextId..(nextId + Len(ss) - 1)
  BY DEF Extend
<1>2. ASSUME NEW k \in DOMAIN songs'
      PROVE  songs'[k] \in Song
  <2>1. CASE k \in DOMAIN q
    BY <1>1, <2>1 DEF Extend
  <2>2. CASE k \notin DOMAIN q
    <3>1. k \in nextId..(nextId + Len(ss) - 1) /\ songs'[k] = ss[k - nextId + 1]
      BY <1>1, <2>2 DEF Extend
    <3>2. k - nextId + 1 \in 1..Len(ss)
      BY <3>1 DEF IInv, TypeOK
    <3> QED BY <3>1, <3>2
  <2> QED BY <2>1, <2>2
<1>3. songs' = [k \in DOMAIN songs' |-> songs'[k]]
  BY DEF Extend
<1> QED BY <1>1, <1>2, <1>3 DEF SongsGrow

-----------------------------------------------------------------------------
(* Every step is such a step.                                              *)

Good == KeyStep /\ mode' \in Modes

LEMMA AddingIsGood ==
  ASSUME IInv, NEW ss \in Batches,
         AddSongs(ss) \/ AddSongsAfterCurrent(ss) \/ ReplaceAllSongs(ss)
  PROVE  Good
<1>1. ss \in Seq(Song) /\ Len(ss) \in Nat
  BY QueueAssumption DEF Batches
<1>2. IdsAdvance /\ Issued = nextId..(nextId + Len(ss) - 1)
  BY <1>1, IssueFacts DEF AddSongs, AddSongsAfterCurrent, ReplaceAllSongs
<1>3. songs \in [Keys -> Song]
  BY DEF IInv, TypeOK
<1>4. CASE AddSongs(ss)
  <2>1. SongsGrow
    BY <1>1, <1>2, <1>3, <1>4, ExtendFacts DEF AddSongs, Keys
  <2> QED BY <1>2, <1>4, <2>1, UnchangedKnown DEF AddSongs, Good, KeyStep
<1>5. CASE AddSongsAfterCurrent(ss)
  <2>1. SongsGrow
    BY <1>1, <1>2, <1>3, <1>5, ExtendFacts DEF AddSongsAfterCurrent, Keys
  <2> DEFINE new == [i \in 1..Len(ss) |-> nextId + i - 1]
  <2>2. new \in Seq(Nat) /\ \A i \in 1..Len(new) : new[i] \in Issued
    <3>1. nextId \in Nat
      BY DEF IInv, TypeOK
    <3>2. \A i \in 1..Len(ss) : nextId + i - 1 \in Nat /\ nextId + i - 1 \in Issued
      BY <1>1, <1>2, <3>1
    <3> QED BY <1>1, <3>2
  <2>3. priority' = new \o priority
    BY <1>5 DEF AddSongsAfterCurrent
  <2>4. /\ priority \in Seq(Nat)
        /\ \A i \in 1..Len(priority) : priority[i] \in Mentioned
    BY MentionedFacts DEF IInv, TypeOK
  <2> HIDE DEF new
  <2>5. /\ new \o priority \in Seq(Nat)
        /\ \A i \in 1..Len(new \o priority) : (new \o priority)[i] \in Mentioned \cup Issued
    <3> DEFINE T == Mentioned \cup Issued
    <3>1. \A i \in 1..Len(new) : new[i] \in T
      BY <2>2
    <3>2. \A i \in 1..Len(priority) : priority[i] \in T
      BY <2>4
    <3> HIDE DEF T
    <3>3. /\ new \o priority \in Seq(Nat)
          /\ \A i \in 1..Len(new \o priority) : (new \o priority)[i] \in T
      BY <2>2, <2>4, <3>1, <3>2, ConcatElements
    <3> QED BY <3>3 DEF T
  <2>6. PriorityKnown
    BY <2>3, <2>5 DEF PriorityKnown
  <2> QED BY <1>2, <1>5, <2>1, <2>6, UnchangedKnown
          DEF AddSongsAfterCurrent, Good, KeyStep
<1>6. CASE ReplaceAllSongs(ss)
  <2>1. SongsGrow
    <3>1. /\ songs' = Extend(<<>>, nextId, ss)
          /\ nextId..(nextId + Len(ss) - 1) \subseteq Issued
      BY <1>2, <1>6 DEF ReplaceAllSongs
    <3>2. DOMAIN <<>> \subseteq Keys /\ <<>> \in [DOMAIN <<>> -> Song]
      OBVIOUS
    <3> QED BY <1>1, <3>1, <3>2, ExtendFacts
  <2> QED BY <1>2, <1>6, <2>1, ResetKnown, NothingKnown, UnchangedKnown
          DEF ReplaceAllSongs, Good, KeyStep
<1> QED BY <1>4, <1>5, <1>6

LEMMA CrashIsGood ==
  ASSUME IInv, NEW ss \in Batches, NEW n \in DOMAIN ss, CrashWhileAdding(ss, n)
  PROVE  Good
<1>1. ss \in Seq(Song) /\ n \in 1..Len(ss)
  BY QueueAssumption DEF Batches
<1>2. nextId \in Nat /\ reserved \in Nat /\ nextId <= reserved /\ reserved % Block = 0
  BY DEF IInv, TypeOK, IdsReserved
<1>3. /\ Reservation(n) \in Nat /\ nextId + n <= Reservation(n)
      /\ Reservation(n) % Block = 0
  <2>1. n \in Nat
    BY <1>1
  <2> QED BY <1>2, <2>1, ReservationFacts, SMTT(30)
<1>4. IdsAdvance /\ nextId..(nextId + n - 1) \subseteq Issued
  BY <1>1, <1>2, <1>3 DEF CrashWhileAdding, IdsAdvance, Issued
<1>5. PICK kept \in {n - 1, n} : songs' = Extend(songs, nextId, SubSeq(ss, 1, kept))
  BY DEF CrashWhileAdding
<1> DEFINE done == SubSeq(ss, 1, kept)
<1>6. done \in Seq(Song) /\ Len(done) = kept
  BY <1>1, <1>5
<1>7. SongsGrow
  <2>1. nextId..(nextId + Len(done) - 1) \subseteq Issued
    BY <1>1, <1>2, <1>4, <1>5, <1>6
  <2>2. songs \in [DOMAIN songs -> Song] /\ DOMAIN songs \subseteq Keys
    BY DEF IInv, TypeOK, Keys
  <2> HIDE DEF done
  <2> QED BY <1>5, <1>6, <2>1, <2>2, ExtendFacts DEF done
<1> QED BY <1>4, <1>7, ResetKnown, UnchangedKnown DEF CrashWhileAdding, Good, KeyStep

\* Steps that change the position and nothing else.
LEMMA PositionIsGood ==
  ASSUME IInv, current' \in Keys \cup {current, NoKey},
         UNCHANGED <<songs, priority, mode, ids, randomState>>
  PROVE  Good
<1>1. CurrentKnown
  BY MentionedFacts DEF CurrentKnown
<1> QED BY <1>1, UnchangedKnown DEF Good, KeyStep

LEMMA ShrinkingIsGood ==
  ASSUME IInv, (\E s \in Song : RemoveSong(s)) \/ Clear \/ CycleMode \/ Restart
  PROVE  Good
<1>1. CASE \E s \in Song : RemoveSong(s)
  <2>1. SongsGrow
    BY <1>1 DEF RemoveSong, SongsGrow, IInv, TypeOK, Keys
  <2> QED BY <1>1, <2>1, UnchangedKnown DEF RemoveSong, Good, KeyStep
<1>2. CASE Clear
  BY <1>2, UnchangedKnown, ResetKnown, NothingKnown DEF Clear, Good, KeyStep
<1>3. CASE CycleMode
  <2>1. mode' \in Modes
    BY <1>3 DEF CycleMode, IInv, TypeOK, Modes
  <2> QED BY <1>3, <2>1, UnchangedKnown, ResetKnown DEF CycleMode, Good, KeyStep
<1>4. CASE Restart
  <2>1. IdsAdvance
    BY <1>4 DEF Restart, IdsAdvance, IInv, TypeOK, IdsReserved
  <2> QED BY <1>4, <2>1, UnchangedKnown, ResetKnown DEF Restart, Good, KeyStep
<1> QED BY <1>1, <1>2, <1>3, <1>4

LEMMA PlayPriorityIsGood ==
  ASSUME IInv, PlayPriority
  PROVE  Good
<1>1. priority \in Seq(Nat) /\ \A i \in 1..Len(priority) : priority[i] \in Mentioned
  BY MentionedFacts DEF IInv, TypeOK
<1>2. LivePriority \in SUBSET Nat /\ LivePriority # {}
  BY DEF LivePriority, PlayPriority, IInv, TypeOK
<1> DEFINE first == Min(LivePriority)
<1>3. first \in LivePriority
  BY <1>2, MinFacts
<1>4. first \in 1..Len(priority) /\ priority[first] \in Keys
  BY <1>1, <1>3 DEF LivePriority
<1>5. current' = priority[first] /\ priority' = SubSeq(priority, first + 1, Len(priority))
  BY DEF PlayPriority
<1> HIDE DEF first
<1>6. CurrentKnown
  BY <1>4, <1>5, MentionedFacts DEF CurrentKnown
<1>7. PriorityKnown
  BY <1>1, <1>4, <1>5, SMTT(30) DEF PriorityKnown
<1> QED BY <1>6, <1>7, UnchangedKnown DEF PlayPriority, Good, KeyStep

LEMMA StepForwardFacts ==
  ASSUME TypeOK, StepForward
  PROVE  current' \in Keys \cup {current, NoKey}
<1>1. CurrentOrFirst # NoKey => CurrentOrFirst \in Nat
  BY CurrentOrFirstFacts
<1>2. CurrentOrFirst # NoKey /\ After(CurrentOrFirst) # {} => Succ(CurrentOrFirst) \in Keys
  BY <1>1, SuccFacts
<1>3. Keys # {} => Min(Keys) \in Keys
  BY MinFacts DEF TypeOK
<1> QED BY <1>2, <1>3, CurrentOrFirstFacts DEF StepForward

LEMMA PickRandomFacts ==
  ASSUME IInv, NEW k \in Keys, PickRandom(k)
  PROVE  CurrentKnown /\ RandomKnown
<1>1. k \in Mentioned /\ k \in Nat /\ CurrentOrFirst \in Mentioned
  BY MentionedFacts, CurrentOrFirstFacts DEF IInv
<1>2. played' \subseteq Mentioned
  BY <1>1, MentionedFacts DEF PickRandom
<1>3. historyIndex' \in Nat
  BY DEF PickRandom, IInv, TypeOK
<1>4. /\ DOMAIN history' = DOMAIN history \cup {historyIndex'}
      /\ history' = [i \in DOMAIN history' |-> history'[i]]
      /\ \A i \in DOMAIN history' : history'[i] = IF i = historyIndex' THEN k ELSE history[i]
  BY DEF PickRandom
<1>5. \A i \in DOMAIN history' : history'[i] \in Mentioned
  BY <1>1, <1>4, MentionedFacts
<1>6. \A i \in DOMAIN history' : history'[i] \in Nat
  BY <1>5, MentionedFacts
<1>7. DOMAIN history' \in SUBSET Nat /\ history' \in [DOMAIN history' -> Nat]
  BY <1>3, <1>4, <1>6 DEF IInv, TypeOK
<1>8. current' = k
  BY DEF PickRandom
<1> QED BY <1>1, <1>2, <1>3, <1>5, <1>7, <1>8 DEF CurrentKnown, RandomKnown

LEMMA MoveToNextIsGood ==
  ASSUME IInv, MoveToNext
  PROVE  Good
<1>1. CASE PlayPriority
  BY <1>1, PlayPriorityIsGood
<1>2. CASE /\ priority' = <<>> /\ UNCHANGED <<songs, mode, ids>>
           /\ RepeatSong \/ StepForward \/ NothingToPick
  <2>1. current' \in Keys \cup {current, NoKey}
    BY <1>2, StepForwardFacts, CurrentOrFirstFacts DEF RepeatSong, NothingToPick, IInv
  <2>2. CurrentKnown
    BY <2>1, MentionedFacts DEF CurrentKnown
  <2>3. UNCHANGED randomState
    BY <1>2 DEF RepeatSong, StepForward, NothingToPick
  <2> QED BY <1>2, <2>2, <2>3, UnchangedKnown, NothingKnown DEF Good, KeyStep
<1>3. CASE /\ priority' = <<>> /\ UNCHANGED <<songs, mode, ids>>
           /\ \E k \in Keys : PickRandom(k)
  <2>1. CurrentKnown /\ RandomKnown
    BY <1>3, PickRandomFacts
  <2> QED BY <1>3, <2>1, UnchangedKnown, NothingKnown DEF Good, KeyStep
<1> QED BY <1>1, <1>2, <1>3 DEF MoveToNext

LEMMA MoveToPreviousIsGood ==
  ASSUME IInv, MoveToPrevious
  PROVE  Good
<1>1. CASE BackInHistory
  <2>1. CurrentKnown
    BY <1>1, MentionedFacts DEF BackInHistory, CurrentKnown
  <2>2. historyIndex' \in Nat
    BY <1>1 DEF BackInHistory, IInv, TypeOK
  <2>3. RandomKnown
    BY <1>1, <2>2, MentionedFacts DEF BackInHistory, RandomKnown, IInv, TypeOK
  <2> QED BY <2>1, <2>3, UnchangedKnown DEF MoveToPrevious, Good, KeyStep
<1>2. CASE StepBack
  <2>1. CurrentOrFirst # NoKey => CurrentOrFirst \in Nat
    BY CurrentOrFirstFacts DEF IInv
  <2>2. CurrentOrFirst # NoKey /\ Before(CurrentOrFirst) # {} => Pred(CurrentOrFirst) \in Keys
    BY <2>1, PredFacts DEF IInv
  <2>3. Keys # {} => Max(Keys) \in Keys
    BY MaxFacts, MentionedFacts, SMTT(30) DEF IInv, TypeOK, IdsReserved
  <2>4. current' \in Keys \cup {current, NoKey}
    BY <1>2, <2>2, <2>3, CurrentOrFirstFacts DEF StepBack, IInv
  <2> QED BY <1>2, <2>4, PositionIsGood DEF MoveToPrevious, StepBack
<1> QED BY <1>1, <1>2 DEF MoveToPrevious

LEMMA ReorderingIsGood ==
  ASSUME IInv, NEW s \in Song, NEW t \in Song, MoveItem(s, t) \/ MoveAfterCurrent(s)
  PROVE  Good
<1>1. ASSUME NEW f \in Keys, NEW g \in Keys, Reorder(f, g)
      PROVE  SongsGrow /\ CurrentKnown
  BY <1>1, ReorderFacts, MentionedFacts DEF SongsGrow, CurrentKnown, Keys, IInv
<1>2. CASE MoveItem(s, t)
  <2>1. KeyOf(s) \in Keys /\ KeyOf(t) \in Keys
    BY <1>2, KeyOfFacts DEF MoveItem, IInv
  <2> QED BY <1>1, <1>2, <2>1, UnchangedKnown DEF MoveItem, Good, KeyStep
<1>3. CASE MoveAfterCurrent(s)
  <2> DEFINE from   == KeyOf(s)
             target == IF from < Anchor THEN Anchor ELSE Succ(Anchor)
  <2>1. Queued(s) /\ UNCHANGED <<mode, ids, randomState>>
    BY <1>3 DEF MoveAfterCurrent
  <2>2. from \in Keys /\ from \in Nat
    BY <2>1, KeyOfFacts DEF IInv
  <2>3. Anchor \in Keys /\ Anchor \in Nat
    BY <2>2, MinFacts DEF Anchor, IInv, TypeOK
  <2>4. CASE /\ current' = CurrentOrFirst
             /\ UNCHANGED <<songs, priority>>
    BY <2>1, <2>4, PositionIsGood, CurrentOrFirstFacts DEF IInv
  <2>5. CASE /\ from # Anchor
             /\ Reorder(from, target)
             /\ priority' = PushFront(target)
    <3>1. from > Anchor => Succ(Anchor) \in Keys
      BY <2>2, <2>3, SuccFacts DEF After, IInv
    <3>2. target \in Keys /\ target \in Nat
      BY <2>2, <2>3, <2>5, <3>1 DEF IInv, TypeOK
    <3> HIDE DEF from, target
    <3>3. SongsGrow /\ CurrentKnown
      BY <1>1, <2>2, <2>5, <3>2
    <3>4. priority \in Seq(Nat)
      BY DEF IInv, TypeOK
    <3>5. /\ PushFront(target) \in Seq(Nat)
          /\ ToSet(PushFront(target)) \subseteq ToSet(priority) \cup {target}
      BY <3>2, <3>4, PushFrontFacts
    <3>6. ToSet(priority) \cup {target} \subseteq Mentioned
      BY <3>2 DEF Mentioned
    <3>7. PriorityKnown
      BY <2>5, <3>5, <3>6 DEF PriorityKnown, ToSet
    <3> QED BY <2>1, <3>3, <3>7, UnchangedKnown DEF Good, KeyStep
  <2> QED BY <1>3, <2>4, <2>5 DEF MoveAfterCurrent
<1> QED BY <1>2, <1>3

LEMMA NextIsGood ==
  ASSUME IInv, [Next]_vars
  PROVE  Good
<1>1. CASE \E ss \in Batches : AddSongs(ss) \/ AddSongsAfterCurrent(ss) \/ ReplaceAllSongs(ss)
  BY <1>1, AddingIsGood
<1>2. CASE \E ss \in Batches : \E n \in DOMAIN ss : CrashWhileAdding(ss, n)
  BY <1>2, CrashIsGood
<1>3. CASE \E s \in Song : MoveTo(s)
  BY <1>3, PositionIsGood, KeyOfFacts DEF MoveTo, IInv
<1>4. CASE (\E s \in Song : MoveAfterCurrent(s)) \/ (\E s, t \in Song : MoveItem(s, t))
  BY <1>4, ReorderingIsGood
<1>5. CASE \E k \in Keys : SetCurrent(k)
  BY <1>5, PositionIsGood DEF SetCurrent
<1>6. CASE MoveToLast
  <2>1. Max(Keys) \in Keys
    BY <1>6, MaxFacts, MentionedFacts DEF MoveToLast, IInv, TypeOK, IdsReserved
  <2> QED BY <1>6, <2>1, PositionIsGood DEF MoveToLast
<1>7. CASE SettleCurrent
  BY <1>7, PositionIsGood, CurrentOrFirstFacts DEF SettleCurrent, IInv
<1>8. CASE UNCHANGED vars
  BY <1>8, UnchangedKnown DEF vars, Good, KeyStep
<1> QED BY <1>1, <1>2, <1>3, <1>4, <1>5, <1>6, <1>7, <1>8,
           MoveToNextIsGood, MoveToPreviousIsGood, ShrinkingIsGood DEF Next

-----------------------------------------------------------------------------
(* The theorems.                                                           *)

LEMMA InitIInv == Init => IInv
<1> SUFFICES ASSUME Init PROVE IInv
  OBVIOUS
<1>1. TypeOK
  BY DEF Init, TypeOK, Keys, Modes
<1>2. Mentioned = {}
  BY DEF Init, Mentioned, Keys, ToSet
<1>3. 0 % Block = 0
  BY QueueAssumption
<1> QED BY <1>1, <1>2, <1>3 DEF Init, IInv, IdsReserved

\* In every reachable state the invariant holds: every variable has its type,
\* and every key the queue still mentions is older than the next id, which the
\* stored reservation covers.
THEOREM Invariant == Spec => []IInv
<1>1. Init => IInv
  BY InitIInv
<1>2. IInv /\ [Next]_vars => IInv'
  BY NextIsGood, KeyStepKeepsIInv DEF Good
<1> QED BY <1>1, <1>2, PTL DEF Spec

\* The variables keep their types: in particular what move_current_to_next and
\* the reordering store as the current key is a key, never a missing neighbour.
THEOREM TypeCorrect == Spec => []TypeOK
<1>1. IInv => TypeOK
  BY DEF IInv
<1> QED BY <1>1, Invariant, PTL

\* generate_id never issues an id again that the queue, the position, the
\* priority list or the random history still holds, across crashes and restarts.
THEOREM Reserved == Spec => []IdsReserved
<1>1. IInv => IdsReserved
  BY DEF IInv
<1> QED BY <1>1, Invariant, PTL

\* A song added to the queue lies behind everything the queue knew before.
THEOREM Fresh == Spec => FreshKeys
<1> DEFINE New == \A k \in DOMAIN songs' \ Keys : \A m \in Mentioned : m < k
<1>1. IInv /\ [Next]_vars => [New]_vars
  <2> SUFFICES ASSUME IInv, [Next]_vars
               PROVE  New
    OBVIOUS
  <2>1. SongsGrow
    BY NextIsGood DEF Good, KeyStep
  <2>2. \A m \in Mentioned : m < nextId /\ m \in Nat
    BY MentionedFacts DEF IInv, IdsReserved
  <2>3. \A k \in Issued : k >= nextId /\ k \in Int
    BY DEF Issued
  <2> QED BY <2>1, <2>2, <2>3 DEF SongsGrow, IInv, TypeOK
<1> QED BY <1>1, Invariant, PTL DEF Spec, FreshKeys

-----------------------------------------------------------------------------
(* The lists beside the queue.                                             *)

Once(seq) == \A i, j \in DOMAIN seq : seq[i] = seq[j] => i = j
Whole     == \E n \in Nat : DOMAIN history = 1..n /\ historyIndex <= n
Lists     == Once(priority) /\ Whole

\* Two lists that share nothing make a list that repeats nothing.
LEMMA ConcatOnce ==
  ASSUME NEW s \in Seq(Nat), NEW t \in Seq(Nat), Once(s), Once(t),
         \A i \in 1..Len(s) : \A j \in 1..Len(t) : s[i] # t[j]
  PROVE  Once(s \o t)
<1> DEFINE c == s \o t  m == Len(s)  n == Len(t)
<1>1. c \in Seq(Nat) /\ DOMAIN c = 1..m + n
  BY ConcatProperties
<1>2. \A i \in 1..m + n : c[i] = IF i <= m THEN s[i] ELSE t[i - m]
  BY ConcatProperties
<1>3. m \in Nat /\ n \in Nat
  OBVIOUS
<1>4. /\ \A i, j \in 1..m : s[i] = s[j] => i = j
      /\ \A i, j \in 1..n : t[i] = t[j] => i = j
      /\ \A i \in 1..m : \A j \in 1..n : s[i] # t[j]
  BY DEF Once
<1> HIDE DEF c, m, n
<1>5. ASSUME NEW i \in 1..m + n, NEW j \in 1..m + n, c[i] = c[j]
      PROVE  i = j
  <2>1. CASE i <= m /\ j <= m
    <3>1. i \in 1..m /\ j \in 1..m
      BY <1>3, <2>1
    <3> QED BY <1>2, <1>4, <1>5, <2>1, <3>1
  <2>2. CASE i <= m /\ ~(j <= m)
    <3>1. i \in 1..m /\ j - m \in 1..n
      BY <1>3, <2>2
    <3> QED BY <1>2, <1>4, <1>5, <2>2, <3>1
  <2>3. CASE ~(i <= m) /\ j <= m
    <3>1. i - m \in 1..n /\ j \in 1..m
      BY <1>3, <2>3
    <3> QED BY <1>2, <1>4, <1>5, <2>3, <3>1
  <2>4. CASE ~(i <= m) /\ ~(j <= m)
    <3>1. i - m \in 1..n /\ j - m \in 1..n
      BY <1>3, <2>4
    <3>2. t[i - m] = t[j - m]
      BY <1>2, <1>5, <2>4
    <3>3. i - m = j - m
      BY <1>4, <3>1, <3>2
    <3> QED BY <1>3, <3>3
  <2> QED BY <2>1, <2>2, <2>3, <2>4
<1>6. \A i, j \in DOMAIN c : c[i] = c[j] => i = j
  BY <1>1, <1>5
<1> QED BY <1>6 DEF Once, c

\* The end of a list that repeats nothing, and the list without one of its entries.
LEMMA RestOnce ==
  ASSUME NEW s \in Seq(Nat), Once(s), NEW m \in 1..Len(s)
  PROVE  /\ SubSeq(s, m + 1, Len(s)) \in Seq(Nat) /\ Once(SubSeq(s, m + 1, Len(s)))
         /\ SubSeq(s, 1, m - 1) \in Seq(Nat) /\ Once(SubSeq(s, 1, m - 1))
<1> DEFINE n == Len(s)  tail == SubSeq(s, m + 1, n)  head == SubSeq(s, 1, m - 1)
<1>1. n \in Nat /\ m \in Nat /\ 1 <= m /\ m <= n
  OBVIOUS
<1>2. /\ tail \in Seq(Nat) /\ DOMAIN tail = 1..n - m
      /\ \A i \in 1..n - m : tail[i] = s[i + m]
  BY SMTT(30)
<1>3. /\ head \in Seq(Nat) /\ DOMAIN head = 1..m - 1
      /\ \A i \in 1..m - 1 : head[i] = s[i]
  BY SMTT(30)
<1>4. \A i, j \in 1..n : s[i] = s[j] => i = j
  BY DEF Once
<1> HIDE DEF n, tail, head
<1>5. \A i \in 1..n - m : i + m \in 1..n
  BY <1>1
<1>6. ASSUME NEW i \in DOMAIN tail, NEW j \in DOMAIN tail, tail[i] = tail[j]
      PROVE  i = j
  <2>1. i + m = j + m
    BY <1>2, <1>4, <1>5, <1>6
  <2> QED BY <1>1, <1>2, <2>1
<1>7. \A i \in 1..m - 1 : i \in 1..n
  BY <1>1
<1>8. \A i, j \in DOMAIN head : head[i] = head[j] => i = j
  BY <1>3, <1>4, <1>7
<1> QED BY <1>2, <1>3, <1>6, <1>8 DEF Once, tail, head, n

\* What add_to_priority_queue puts in front is taken out behind.
LEMMA PushFrontOnce ==
  ASSUME priority \in Seq(Nat), Once(priority), NEW k \in Nat
  PROVE  Once(PushFront(k))
<1> DEFINE at == {i \in DOMAIN priority : priority[i] = k}
<1>1. /\ Without(k) \in Seq(Nat) /\ Once(Without(k))
      /\ \A i \in 1..Len(Without(k)) : Without(k)[i] # k
  <2>1. CASE at = {}
    BY <2>1 DEF Without
  <2>2. CASE at # {}
    <3>1. Min(at) \in at
      <4>1. at \in SUBSET Nat
        OBVIOUS
      <4> HIDE DEF at
      <4> QED BY <2>2, <4>1, MinFacts
    <3> DEFINE m == Min(at)
    <3>2. m \in 1..Len(priority) /\ priority[m] = k
      BY <3>1
    <3>3. Without(k) = SubSeq(priority, 1, m - 1) \o SubSeq(priority, m + 1, Len(priority))
      BY <2>2 DEF Without, RemoveAt
    <3> HIDE DEF m
    <3> DEFINE n == Len(priority)
               head == SubSeq(priority, 1, m - 1)
               tail == SubSeq(priority, m + 1, n)
    <3>4. /\ n \in Nat /\ m \in Nat /\ 1 <= m /\ m <= n
          /\ \A i, j \in 1..n : priority[i] = priority[j] => i = j
      BY <3>2 DEF Once
    <3>5. /\ head \in Seq(Nat) /\ Once(head) /\ tail \in Seq(Nat) /\ Once(tail)
      BY <3>2, RestOnce
    <3>6. Len(head) = m - 1 /\ \A i \in 1..m - 1 : head[i] = priority[i]
      BY <3>2, SMTT(30)
    <3>7. Len(tail) = n - m /\ \A i \in 1..n - m : tail[i] = priority[i + m]
      BY <3>2, SMTT(30)
    <3>8. Without(k) = head \o tail
      BY <3>3
    <3> HIDE DEF n, head, tail
    <3>9. ASSUME NEW i \in 1..m - 1, NEW j \in 1..n - m
          PROVE  head[i] # tail[j]
      <4>1. i \in 1..n /\ j + m \in 1..n /\ i # j + m
        BY <3>4
      <4> QED BY <3>4, <3>6, <3>7, <4>1
    <3>10. ASSUME NEW i \in 1..m - 1
           PROVE  head[i] # k
      <4>1. i \in 1..n /\ m \in 1..n /\ i # m
        BY <3>4
      <4> QED BY <3>2, <3>4, <3>6, <4>1
    <3>11. ASSUME NEW i \in 1..n - m
           PROVE  tail[i] # k
      <4>1. i + m \in 1..n /\ m \in 1..n /\ i + m # m
        BY <3>4
      <4> QED BY <3>2, <3>4, <3>7, <4>1
    <3>12. Once(head \o tail)
      BY <3>5, <3>6, <3>7, <3>9, ConcatOnce
    <3>13. \A i \in 1..Len(head \o tail) : (head \o tail)[i] \in Nat \ {k}
      <4>1. \A i \in 1..Len(head) : head[i] \in Nat \ {k}
        BY <3>5, <3>6, <3>10
      <4>2. \A i \in 1..Len(tail) : tail[i] \in Nat \ {k}
        BY <3>5, <3>7, <3>11
      <4> DEFINE T == Nat \ {k}
      <4> HIDE DEF T
      <4>3. \A i \in 1..Len(head \o tail) : (head \o tail)[i] \in T
        BY <3>5, <4>1, <4>2, ConcatElements DEF T
      <4> QED BY <4>3 DEF T
    <3> QED BY <3>5, <3>8, <3>12, <3>13
  <2> QED BY <2>1, <2>2
<1> DEFINE w == Without(k)
<1>2. Once(<<k>>) /\ <<k>> \in Seq(Nat) /\ Len(<<k>>) = 1 /\ <<k>>[1] = k
  BY DEF Once
<1>3. \A i \in 1..Len(<<k>>) : \A j \in 1..Len(w) : <<k>>[i] # w[j]
  BY <1>1, <1>2
<1> HIDE DEF w
<1> QED BY <1>1, <1>2, <1>3, ConcatOnce DEF PushFront, w

\* Without a history there is nothing to be missing in it.
LEMMA ResetWhole ==
  ASSUME ResetRandom
  PROVE  Whole'
<1>1. history' = <<>> /\ historyIndex' = 0
  BY DEF ResetRandom
<1>2. DOMAIN <<>> = 1..0
  OBVIOUS
<1> QED BY <1>1, <1>2 DEF Whole

LEMMA UnchangedLists ==
  ASSUME Lists
  PROVE  /\ UNCHANGED priority => Once(priority)'
         /\ priority' = <<>> => Once(priority)'
         /\ UNCHANGED randomState => Whole'
<1>1. UNCHANGED priority => Once(priority)'
  BY DEF Lists, Once
<1>2. priority' = <<>> => Once(priority)'
  BY DEF Once
<1>3. UNCHANGED randomState => Whole'
  BY DEF Lists, Whole, randomState
<1> QED BY <1>1, <1>2, <1>3

\* The keys of songs added after the current one are new, and each is another.
LEMMA AddingKeepsLists ==
  ASSUME IInv, Lists, NEW ss \in Batches, AddSongsAfterCurrent(ss)
  PROVE  Lists'
<1> DEFINE n   == Len(ss)
           new == [i \in 1..n |-> nextId + i - 1]
<1>1. n \in Nat /\ nextId \in Nat
  BY QueueAssumption DEF Batches, IInv, TypeOK
<1>2. new \in Seq(Nat) /\ Len(new) = n /\ \A i \in 1..n : new[i] = nextId + i - 1
  BY <1>1
<1>3. priority' = new \o priority
  BY DEF AddSongsAfterCurrent
<1>4. priority \in Seq(Nat) /\ \A i \in 1..Len(priority) : priority[i] < nextId
  BY MentionedFacts DEF IInv, TypeOK, IdsReserved
<1> HIDE DEF n, new
<1>5. \A i, j \in 1..n : new[i] = new[j] => i = j
  BY <1>1, <1>2
<1>6. Once(new)
  BY <1>2, <1>5 DEF Once
<1>7. \A i \in 1..Len(new) : \A j \in 1..Len(priority) : new[i] # priority[j]
  BY <1>1, <1>2, <1>4
<1>8. Once(new \o priority)
  BY <1>2, <1>4, <1>6, <1>7, ConcatOnce DEF Lists
<1>9. Once(priority)'
  BY <1>3, <1>8 DEF Once
<1>10. UNCHANGED randomState
  BY DEF AddSongsAfterCurrent
<1> QED BY <1>9, <1>10, UnchangedLists DEF Lists

LEMMA PlayPriorityKeepsLists ==
  ASSUME IInv, Lists, PlayPriority
  PROVE  Lists'
<1>1. priority \in Seq(Nat)
  BY DEF IInv, TypeOK
<1>2. LivePriority \in SUBSET Nat /\ LivePriority # {}
  BY DEF LivePriority, PlayPriority, IInv, TypeOK
<1>3. Min(LivePriority) \in LivePriority
  BY <1>2, MinFacts
<1>4. Min(LivePriority) \in 1..Len(priority)
  BY <1>1, <1>3 DEF LivePriority
<1>5. Once(SubSeq(priority, Min(LivePriority) + 1, Len(priority)))
  BY <1>1, <1>4, RestOnce DEF Lists
<1>6. priority' = SubSeq(priority, Min(LivePriority) + 1, Len(priority))
  BY DEF PlayPriority
<1>7. Once(priority)'
  BY <1>5, <1>6 DEF Once
<1> QED BY <1>7, UnchangedLists DEF PlayPriority, Lists

\* A pick goes right behind the place the history has gone back to.
LEMMA PickRandomKeepsWhole ==
  ASSUME IInv, Lists, NEW k \in Keys, PickRandom(k)
  PROVE  Whole'
<1>1. PICK n \in Nat : DOMAIN history = 1..n /\ historyIndex <= n
  BY DEF Lists, Whole
<1>2. historyIndex \in Nat
  BY DEF IInv, TypeOK
<1>3. historyIndex' = historyIndex + 1 /\ DOMAIN history' = DOMAIN history \cup {historyIndex'}
  BY DEF PickRandom
<1>4. CASE historyIndex = n
  <2>1. DOMAIN history' = 1..n + 1
    BY <1>1, <1>3, <1>4
  <2>2. n + 1 \in Nat /\ historyIndex' <= n + 1
    BY <1>2, <1>3, <1>4
  <2> QED BY <2>1, <2>2 DEF Whole
<1>5. CASE historyIndex # n
  <2>1. historyIndex + 1 \in 1..n
    BY <1>1, <1>2, <1>5
  <2>2. DOMAIN history' = 1..n /\ historyIndex' <= n
    BY <1>1, <1>3, <2>1
  <2> QED BY <2>2 DEF Whole
<1> QED BY <1>4, <1>5

LEMMA MovesKeepLists ==
  ASSUME IInv, Lists, MoveToNext \/ MoveToPrevious
  PROVE  Lists'
<1>1. CASE PlayPriority
  BY <1>1, PlayPriorityKeepsLists
<1>2. CASE priority' = <<>> /\ (RepeatSong \/ StepForward \/ NothingToPick)
  BY <1>2, UnchangedLists DEF RepeatSong, StepForward, NothingToPick, Lists
<1>3. CASE priority' = <<>> /\ \E k \in Keys : PickRandom(k)
  BY <1>3, UnchangedLists, PickRandomKeepsWhole DEF Lists
<1>4. CASE BackInHistory /\ UNCHANGED priority
  <2>1. PICK n \in Nat : DOMAIN history = 1..n /\ historyIndex <= n
    BY DEF Lists, Whole
  <2>2. historyIndex \in Nat /\ historyIndex > 0
    BY <1>4 DEF BackInHistory, IInv, TypeOK
  <2>3. DOMAIN history' = 1..n /\ historyIndex' \in {historyIndex, historyIndex - 1}
    BY <1>4, <2>1 DEF BackInHistory
  <2>4. historyIndex' <= n
    BY <2>1, <2>2, <2>3
  <2>5. Whole'
    BY <2>3, <2>4 DEF Whole
  <2> QED BY <1>4, <2>5, UnchangedLists DEF Lists
<1>5. CASE StepBack /\ UNCHANGED priority
  BY <1>5, UnchangedLists DEF StepBack, Lists
<1> QED BY <1>1, <1>2, <1>3, <1>4, <1>5 DEF MoveToNext, MoveToPrevious

\* "Play next" takes a song that is in the list already out of it first.
LEMMA MoveAfterCurrentKeepsLists ==
  ASSUME IInv, Lists, NEW s \in Song, MoveAfterCurrent(s)
  PROVE  Lists'
<1> DEFINE from   == KeyOf(s)
           target == IF from < Anchor THEN Anchor ELSE Succ(Anchor)
<1>1. UNCHANGED randomState
  BY DEF MoveAfterCurrent
<1>2. CASE UNCHANGED priority
  BY <1>1, <1>2, UnchangedLists DEF Lists
<1>3. CASE from # Anchor /\ priority' = PushFront(target)
  <2>1. from \in Keys /\ from \in Nat
    BY KeyOfFacts DEF MoveAfterCurrent, IInv
  <2>2. Anchor \in Keys /\ Anchor \in Nat
    BY <2>1, MinFacts DEF Anchor, IInv, TypeOK
  <2>3. from > Anchor => Succ(Anchor) \in Nat
    BY <2>1, <2>2, SuccFacts DEF After, IInv
  <2>4. target \in Nat
    BY <1>3, <2>1, <2>2, <2>3
  <2> HIDE DEF from, target
  <2>5. Once(PushFront(target))
    BY <2>4, PushFrontOnce DEF Lists, IInv, TypeOK
  <2>6. Once(priority)'
    BY <1>3, <2>5 DEF Once
  <2> QED BY <1>1, <2>6, UnchangedLists DEF Lists
<1> QED BY <1>2, <1>3 DEF MoveAfterCurrent

LEMMA NextKeepsLists ==
  ASSUME IInv, Lists, [Next]_vars
  PROVE  Lists'
<1>1. CASE \E ss \in Batches : AddSongs(ss) \/ ReplaceAllSongs(ss)
  BY <1>1, UnchangedLists, ResetWhole DEF AddSongs, ReplaceAllSongs, Lists
<1>2. CASE \E ss \in Batches : AddSongsAfterCurrent(ss)
  BY <1>2, AddingKeepsLists
<1>3. CASE \E ss \in Batches : \E n \in DOMAIN ss : CrashWhileAdding(ss, n)
  BY <1>3, UnchangedLists, ResetWhole DEF CrashWhileAdding, Lists
<1>4. CASE \E s \in Song : RemoveSong(s) \/ MoveTo(s)
  BY <1>4, UnchangedLists DEF RemoveSong, MoveTo, Lists
<1>5. CASE \E s, t \in Song : MoveItem(s, t)
  BY <1>5, UnchangedLists DEF MoveItem, Lists
<1>6. CASE (\E k \in Keys : SetCurrent(k)) \/ MoveToLast \/ SettleCurrent
  BY <1>6, UnchangedLists DEF SetCurrent, MoveToLast, SettleCurrent, Lists
<1>7. CASE Clear \/ CycleMode \/ Restart
  BY <1>7, UnchangedLists, ResetWhole DEF Clear, CycleMode, Restart, Lists
<1>8. CASE UNCHANGED vars
  BY <1>8, UnchangedLists DEF vars, Lists
<1> QED BY <1>1, <1>2, <1>3, <1>4, <1>5, <1>6, <1>7, <1>8,
           MovesKeepLists, MoveAfterCurrentKeepsLists DEF Next

LEMMA InitLists == ASSUME Init PROVE Lists
<1>1. priority = <<>> /\ history = <<>> /\ historyIndex = 0
  BY DEF Init
<1>2. DOMAIN <<>> = 1..0
  OBVIOUS
<1> QED BY <1>1, <1>2 DEF Lists, Once, Whole

\* ListsSound holds for any songs, block size and bounds: no song is queued twice to
\* play next, and going back along the random history finds every pick.
THEOREM ListsKept == Spec => []ListsSound
<1>1. Init => Lists
  BY InitLists
<1>2. IInv /\ Lists /\ [Next]_vars => Lists'
  BY NextKeepsLists
<1>3. Lists => ListsSound
  <2> SUFFICES ASSUME Lists PROVE ListsSound
    OBVIOUS
  <2>1. PICK n \in Nat : DOMAIN history = 1..n /\ historyIndex <= n
    BY DEF Lists, Whole
  <2>2. Cardinality(1..n) = n
    BY FS_Interval
  <2> QED BY <2>1, <2>2 DEF ListsSound, Lists, Once
<1> QED BY <1>1, <1>2, <1>3, Invariant, PTL DEF Spec

-----------------------------------------------------------------------------
(* Reordering: every song of the queue is somewhere in it again, once.     *)

\* Where the song comes from that lies under k when the song under f moved to t.
Source(k, f, t) ==
  IF k = t THEN f
  ELSE IF f <= k /\ k < t THEN Succ(k)
  ELSE IF t < k /\ k <= f THEN Pred(k)
  ELSE k

\* The neighbour of a neighbour is the song itself.
LEMMA Neighbours ==
  ASSUME TypeOK, NEW k \in Keys
  PROVE  /\ After(k) # {} => Pred(Succ(k)) = k
         /\ Before(k) # {} => Succ(Pred(k)) = k
<1>1. k \in Nat
  BY DEF TypeOK, Keys
<1>2. ASSUME After(k) # {} PROVE Pred(Succ(k)) = k
  <2>1. PICK n : n = Succ(k)
    OBVIOUS
  <2>2. n \in Nat /\ n \in Keys /\ n > k /\ \A j \in Keys : j > k => n <= j
    BY <1>1, <1>2, <2>1, SuccFacts
  <2>3. Before(n) # {}
    BY <2>2 DEF Before
  <2>4. Pred(n) \in Keys /\ Pred(n) \in Nat /\ Pred(n) < n /\ Pred(n) >= k
    BY <2>2, <2>3, PredFacts
  <2>5. ~(Pred(n) > k)
    BY <1>1, <2>2, <2>4
  <2> QED BY <1>1, <2>1, <2>4, <2>5
<1>3. ASSUME Before(k) # {} PROVE Succ(Pred(k)) = k
  <2>1. PICK n : n = Pred(k)
    OBVIOUS
  <2>2. n \in Nat /\ n \in Keys /\ n < k /\ \A j \in Keys : j < k => n >= j
    BY <1>1, <1>3, <2>1, PredFacts
  <2>3. After(n) # {}
    BY <2>2 DEF After
  <2>4. Succ(n) \in Keys /\ Succ(n) \in Nat /\ Succ(n) > n /\ Succ(n) <= k
    BY <2>2, <2>3, SuccFacts
  <2>5. ~(Succ(n) < k)
    BY <1>1, <2>2, <2>4
  <2> QED BY <1>1, <2>1, <2>4, <2>5
<1> QED BY <1>2, <1>3

\* Source and NewPosition undo each other.
LEMMA SourceOfPosition ==
  ASSUME TypeOK, NEW f \in Keys, NEW t \in Keys, NEW c \in Keys
  PROVE  Source(NewPosition(c, f, t), f, t) = c
<1>1. c \in Nat /\ f \in Nat /\ t \in Nat
  BY DEF TypeOK, Keys
<1>2. CASE c = f
  BY <1>2 DEF Source, NewPosition
<1>3. CASE c # f /\ f < c /\ c <= t
  <2>1. PICK p : p = Pred(c)
    OBVIOUS
  <2>2. Before(c) # {}
    BY <1>3 DEF Before
  <2>3. p \in Nat /\ p < c /\ p >= f /\ Succ(p) = c
    BY <1>1, <1>3, <2>1, <2>2, PredFacts, Neighbours
  <2>4. p # t /\ f <= p /\ p < t
    BY <1>1, <1>3, <2>3
  <2>5. NewPosition(c, f, t) = p
    BY <1>3, <2>1 DEF NewPosition
  <2> QED BY <2>3, <2>4, <2>5 DEF Source
<1>4. CASE c # f /\ ~(f < c /\ c <= t) /\ t <= c /\ c < f
  <2>1. PICK p : p = Succ(c)
    OBVIOUS
  <2>2. After(c) # {}
    BY <1>4 DEF After
  <2>3. p \in Nat /\ p > c /\ p <= f /\ Pred(p) = c
    BY <1>1, <1>4, <2>1, <2>2, SuccFacts, Neighbours
  <2>4. p # t /\ ~(f <= p /\ p < t) /\ t < p /\ p <= f
    BY <1>1, <1>4, <2>3
  <2>5. NewPosition(c, f, t) = p
    BY <1>4, <2>1 DEF NewPosition
  <2> QED BY <2>3, <2>4, <2>5 DEF Source
<1>5. CASE c # f /\ ~(f < c /\ c <= t) /\ ~(t <= c /\ c < f)
  <2>1. c # t /\ ~(f <= c /\ c < t) /\ ~(t < c /\ c <= f)
    BY <1>1, <1>5
  <2> QED BY <1>5, <2>1 DEF Source, NewPosition
<1> QED BY <1>2, <1>3, <1>4, <1>5

LEMMA PositionOfSource ==
  ASSUME TypeOK, NEW f \in Keys, NEW t \in Keys, NEW k \in Keys
  PROVE  Source(k, f, t) \in Keys /\ NewPosition(Source(k, f, t), f, t) = k
<1>1. k \in Nat /\ f \in Nat /\ t \in Nat
  BY DEF TypeOK, Keys
<1>2. CASE k = t
  BY <1>2 DEF Source, NewPosition
<1>3. CASE k # t /\ f <= k /\ k < t
  <2>1. PICK p : p = Succ(k)
    OBVIOUS
  <2>2. After(k) # {}
    BY <1>3 DEF After
  <2>3. p \in Keys /\ p \in Nat /\ p > k /\ p <= t /\ Pred(p) = k
    BY <1>1, <1>3, <2>1, <2>2, SuccFacts, Neighbours
  <2>4. p # f /\ f < p /\ p <= t
    BY <1>1, <1>3, <2>3
  <2>5. Source(k, f, t) = p
    BY <1>3, <2>1 DEF Source
  <2> QED BY <2>3, <2>4, <2>5 DEF NewPosition
<1>4. CASE k # t /\ ~(f <= k /\ k < t) /\ t < k /\ k <= f
  <2>1. PICK p : p = Pred(k)
    OBVIOUS
  <2>2. Before(k) # {}
    BY <1>4 DEF Before
  <2>3. p \in Keys /\ p \in Nat /\ p < k /\ p >= t /\ Succ(p) = k
    BY <1>1, <1>4, <2>1, <2>2, PredFacts, Neighbours
  <2>4. p # f /\ ~(f < p /\ p <= t) /\ t <= p /\ p < f
    BY <1>1, <1>4, <2>3
  <2>5. Source(k, f, t) = p
    BY <1>4, <2>1 DEF Source
  <2> QED BY <2>3, <2>4, <2>5 DEF NewPosition
<1>5. CASE k # t /\ ~(f <= k /\ k < t) /\ ~(t < k /\ k <= f)
  <2>1. k # f /\ ~(f < k /\ k <= t) /\ ~(t <= k /\ k < f)
    BY <1>1, <1>5
  <2> QED BY <1>5, <2>1 DEF Source, NewPosition
<1> QED BY <1>2, <1>3, <1>4, <1>5

\* Entries of the queue that hold song s.
Holding(s) == {k \in Keys : songs[k] = s}

SongKept ==
  /\ CurrentOrFirst \in Keys => songs'[current'] = songs[CurrentOrFirst]
  /\ \A s \in Song : Cardinality({k \in Keys : songs'[k] = s}) = Cardinality(Holding(s))

\* The position goes where its song goes; the entries of a song before and after
\* are matched one to one.
LEMMA ReorderSongs ==
  ASSUME IInv, NEW f \in Keys, NEW t \in Keys, Reorder(f, t)
  PROVE  SongKept
<1>1. TypeOK
  BY DEF IInv
<1>2. \A k \in Keys : songs'[k] = songs[Source(k, f, t)]
  BY DEF Reorder, Shifted, Source
<1>3. \A c \in Keys : /\ NewPosition(c, f, t) \in Keys
                      /\ Source(NewPosition(c, f, t), f, t) = c
  BY <1>1, NewPositionFacts, SourceOfPosition
<1>4. \A k \in Keys : /\ Source(k, f, t) \in Keys
                      /\ NewPosition(Source(k, f, t), f, t) = k
  BY <1>1, PositionOfSource
<1>5. CurrentOrFirst \in Keys => songs'[current'] = songs[CurrentOrFirst]
  <2>1. SUFFICES ASSUME CurrentOrFirst \in Keys
                 PROVE  songs'[current'] = songs[CurrentOrFirst]
    OBVIOUS
  <2>2. current' = NewPosition(CurrentOrFirst, f, t)
    BY <2>1 DEF Reorder
  <2> QED BY <1>2, <1>3, <2>1, <2>2
<1>6. ASSUME NEW s \in Song
      PROVE  Cardinality({k \in Keys : songs'[k] = s}) = Cardinality(Holding(s))
  <2> DEFINE T == {k \in Keys : songs'[k] = s}
             g == [c \in Holding(s) |-> NewPosition(c, f, t)]
  <2>1. g \in [Holding(s) -> T]
    BY <1>2, <1>3 DEF Holding
  <2>2. \A c, d \in Holding(s) : g[c] = g[d] => c = d
    BY <1>3 DEF Holding
  <2>3. \A k \in T : \E c \in Holding(s) : g[c] = k
    <3> TAKE k \in T
    <3>1. Source(k, f, t) \in Holding(s)
      BY <1>2, <1>4 DEF Holding
    <3>2. g[Source(k, f, t)] = k
      BY <1>4, <3>1
    <3> QED BY <3>1, <3>2
  <2> HIDE DEF T, g
  <2>4. g \in Bijection(Holding(s), T)
    BY <2>1, <2>2, <2>3 DEF Bijection, Injection, Surjection, IsInjective
  <2>5. ExistsBijection(Holding(s), T)
    BY <2>4 DEF ExistsBijection
  <2>6. IsFiniteSet(Holding(s))
    <3>1. nextId \in Nat /\ Holding(s) \subseteq 0..nextId
      BY MentionedFacts DEF IInv, TypeOK, IdsReserved, Holding, Keys
    <3>2. IsFiniteSet(0..nextId)
      BY <3>1, FS_Interval
    <3> QED BY <3>1, <3>2, FS_Subset
  <2>7. Cardinality(T) = Cardinality(Holding(s))
    BY <2>5, <2>6, FS_Bijection
  <2> QED BY <2>7 DEF T
<1> QED BY <1>5, <1>6 DEF SongKept

\* Steps that add songs have new keys, or add none.
LEMMA ExtendedKeys ==
  ASSUME IInv, NEW ss \in Seq(Song)
  PROVE  /\ ss # <<>> => \A q : nextId \in DOMAIN Extend(q, nextId, ss)
         /\ ss = <<>> => Extend(songs, nextId, ss) = songs
         /\ nextId \notin Keys
<1>1. nextId \in Nat
  BY DEF IInv, TypeOK
<1>2. nextId \notin Keys
  BY <1>1, MentionedFacts DEF IInv, IdsReserved
<1>3. ASSUME ss # <<>>, NEW q
      PROVE  nextId \in DOMAIN Extend(q, nextId, ss)
  <2>1. Len(ss) \in Nat /\ Len(ss) # 0
    BY <1>3
  <2>2. nextId \in nextId..(nextId + Len(ss) - 1)
    BY <1>1, <2>1
  <2> QED BY <2>2 DEF Extend
<1>4. ASSUME ss = <<>>
      PROVE  Extend(songs, nextId, ss) = songs
  <2>1. nextId..(nextId + Len(ss) - 1) = {}
    BY <1>1, <1>4
  <2>2. Extend(songs, nextId, ss) = [k \in Keys |-> songs[k]]
    BY <2>1 DEF Extend, Keys
  <2>3. songs = [k \in Keys |-> songs[k]]
    BY DEF IInv, TypeOK
  <2> QED BY <2>2, <2>3
<1> QED BY <1>2, <1>3, <1>4

\* No step but a move has songs under the same keys changed.
LEMMA OnlyMovesShift ==
  ASSUME IInv, [Next]_vars, DOMAIN songs' = Keys, songs' # songs
  PROVE  \E f, t \in Keys : Reorder(f, t)
<1>1. ASSUME NEW ss \in Batches,
             AddSongs(ss) \/ AddSongsAfterCurrent(ss) \/ ReplaceAllSongs(ss)
      PROVE  FALSE
  <2>1. ss \in Seq(Song) /\ ss # <<>>
    BY QueueAssumption DEF Batches
  <2>2. \E q : songs' = Extend(q, nextId, ss)
    BY <1>1 DEF AddSongs, AddSongsAfterCurrent, ReplaceAllSongs
  <2> QED BY <2>1, <2>2, ExtendedKeys
<1>2. ASSUME NEW ss \in Batches, NEW n \in DOMAIN ss, CrashWhileAdding(ss, n)
      PROVE  FALSE
  <2>1. ss \in Seq(Song) /\ n \in 1..Len(ss)
    BY QueueAssumption DEF Batches
  <2>2. PICK kept \in {n - 1, n} : songs' = Extend(songs, nextId, SubSeq(ss, 1, kept))
    BY <1>2 DEF CrashWhileAdding
  <2>3. SubSeq(ss, 1, kept) \in Seq(Song)
    BY <2>1, <2>2
  <2> QED BY <2>2, <2>3, ExtendedKeys
<1>3. ASSUME NEW s \in Song, RemoveSong(s)
      PROVE  FALSE
  <2>1. KeyOf(s) \in Keys
    BY <1>3, KeyOfFacts DEF RemoveSong, IInv
  <2> QED BY <1>3, <2>1 DEF RemoveSong
<1>4. ASSUME NEW s \in Song, NEW t \in Song, MoveItem(s, t)
      PROVE  \E f, g \in Keys : Reorder(f, g)
  BY <1>4, KeyOfFacts DEF MoveItem, IInv
<1>5. ASSUME NEW s \in Song, MoveAfterCurrent(s)
      PROVE  \E f, g \in Keys : Reorder(f, g)
  <2> DEFINE from   == KeyOf(s)
             target == IF from < Anchor THEN Anchor ELSE Succ(Anchor)
  <2>1. from # Anchor /\ Reorder(from, target)
    BY <1>5 DEF MoveAfterCurrent
  <2>2. from \in Keys /\ from \in Nat
    BY <1>5, KeyOfFacts DEF MoveAfterCurrent, IInv
  <2>3. Anchor \in Keys /\ Anchor \in Nat
    BY <2>2, MinFacts DEF Anchor, IInv, TypeOK
  <2>4. from > Anchor => Succ(Anchor) \in Keys
    BY <2>2, <2>3, SuccFacts DEF After, IInv
  <2>5. target \in Keys
    BY <2>1, <2>2, <2>3, <2>4
  <2> QED BY <2>1, <2>2, <2>5
<1>6. ASSUME Clear
      PROVE  FALSE
  <2>1. songs' = <<>> /\ Keys = {}
    BY <1>6 DEF Clear
  <2>2. songs = [k \in {} |-> songs[k]]
    BY <2>1 DEF IInv, TypeOK
  <2>3. <<>> = [k \in {} |-> songs[k]]
    OBVIOUS
  <2> QED BY <2>1, <2>2, <2>3
<1>7. ~UNCHANGED songs
  OBVIOUS
<1>8. ~(MoveToNext \/ MoveToPrevious)
  BY <1>7 DEF MoveToNext, PlayPriority, MoveToPrevious
<1>9. /\ ~(\E s \in Song : MoveTo(s)) /\ ~(\E k \in Keys : SetCurrent(k))
      /\ ~MoveToLast /\ ~SettleCurrent /\ ~CycleMode /\ ~Restart /\ ~UNCHANGED vars
  BY <1>7 DEF MoveTo, SetCurrent, MoveToLast, SettleCurrent, CycleMode, Restart, vars
<1> QED BY <1>1, <1>2, <1>3, <1>4, <1>5, <1>6, <1>8, <1>9 DEF Next

\* ReorderKeepsSong holds for any songs and any length of the queue: dragging a song, or
\* "play next", leaves the position on its song and neither loses nor doubles one.
THEOREM Reordered == Spec => ReorderKeepsSong
<1> DEFINE Kept ==
      DOMAIN songs' = Keys /\ songs' # songs =>
        /\ CurrentOrFirst \in Keys => songs'[current'] = songs[CurrentOrFirst]
        /\ \A s \in Song : Cardinality({k \in Keys : songs'[k] = s})
                          = Cardinality({k \in Keys : songs[k] = s})
<1>1. IInv /\ [Next]_vars => [Kept]_vars
  <2> SUFFICES ASSUME IInv, [Next]_vars, DOMAIN songs' = Keys, songs' # songs
               PROVE  SongKept
    BY DEF SongKept, Holding
  <2> QED BY OnlyMovesShift, ReorderSongs
<1> QED BY <1>1, Invariant, PTL DEF Spec, ReorderKeepsSong

-----------------------------------------------------------------------------
(* Sets of keys in their order. The place of a key tells it from the       *)
(* others: there are as many places as keys, so that every place has one.  *)

Rank(S, k) == Cardinality({j \in S : j <= k})

LEMMA RankFacts ==
  ASSUME NEW S \in SUBSET Nat, IsFiniteSet(S)
  PROVE  /\ Cardinality(S) \in Nat
         /\ \A k \in S : Rank(S, k) \in 1..Cardinality(S)
         /\ \A k, j \in S : k < j <=> Rank(S, k) < Rank(S, j)
         /\ \A k, j \in S : Rank(S, k) = Rank(S, j) => k = j
<1>1. Cardinality(S) \in Nat
  BY FS_CardinalityType
<1> DEFINE upTo(k) == {j \in S : j <= k}
<1>2. ASSUME NEW k \in S
      PROVE  /\ IsFiniteSet(upTo(k)) /\ Cardinality(upTo(k)) \in 1..Cardinality(S)
  <2>1. upTo(k) \in SUBSET S /\ k \in upTo(k)
    OBVIOUS
  <2>2. IsFiniteSet(upTo(k)) /\ Cardinality(upTo(k)) <= Cardinality(S)
    BY <2>1, FS_Subset
  <2>3. Cardinality(upTo(k)) \in Nat /\ Cardinality(upTo(k)) # 0
    BY <2>1, <2>2, FS_EmptySet, FS_CardinalityType
  <2> QED BY <1>1, <2>2, <2>3
<1>3. ASSUME NEW k \in S, NEW j \in S, k < j
      PROVE  Cardinality(upTo(k)) < Cardinality(upTo(j))
  <2>1. upTo(k) \in SUBSET upTo(j) /\ j \in upTo(j) /\ j \notin upTo(k)
    <3>1. k \in Nat /\ j \in Nat /\ j <= j /\ ~(j <= k) /\ \A i \in S : i <= k => i <= j
      BY <1>3
    <3> QED BY <3>1
  <2>2. IsFiniteSet(upTo(j)) /\ Cardinality(upTo(j)) \in Nat /\ Cardinality(upTo(k)) \in Nat
    BY <1>1, <1>2
  <2> HIDE DEF upTo
  <2>3. /\ Cardinality(upTo(k)) = Cardinality(upTo(j)) => upTo(k) = upTo(j)
        /\ Cardinality(upTo(k)) <= Cardinality(upTo(j))
    BY <2>1, <2>2, FS_Subset
  <2> QED BY <2>1, <2>2, <2>3
<1>4. \A k, j \in S : k = j \/ k < j \/ j < k
  OBVIOUS
<1>5. \A k, j \in S : k < j => ~(j < k) /\ k # j
  OBVIOUS
<1>6. \A k : Rank(S, k) = Cardinality(upTo(k))
  BY DEF Rank
<1> HIDE DEF upTo
<1>7. \A k \in S : Rank(S, k) \in Nat
  BY <1>1, <1>2, <1>6
<1>8. \A k, j \in S : k < j => Rank(S, k) < Rank(S, j)
  BY <1>3, <1>6
<1>9. \A k, j \in S : Rank(S, k) < Rank(S, j) => k < j
  BY <1>4, <1>7, <1>8
<1>10. \A k, j \in S : Rank(S, k) = Rank(S, j) => k = j
  BY <1>4, <1>7, <1>8
<1> QED BY <1>1, <1>2, <1>6, <1>8, <1>9, <1>10

LEMMA NthFacts ==
  ASSUME NEW S \in SUBSET Nat, IsFiniteSet(S)
  PROVE  /\ \A i \in 1..Cardinality(S) : Nth(S, i) \in S /\ Rank(S, Nth(S, i)) = i
         /\ \A k \in S : Nth(S, Rank(S, k)) = k
<1> DEFINE c == Cardinality(S)
<1>1. /\ c \in Nat /\ \A k \in S : Rank(S, k) \in 1..c
      /\ \A k, j \in S : Rank(S, k) = Rank(S, j) => k = j
  BY RankFacts
<1>2. ASSUME NEW i \in 1..c
      PROVE  \E k \in S : Rank(S, k) = i
  <2> DEFINE f == [k \in S |-> Rank(S, k)]  T == 1..c
  <2>1. f \in Injection(S, T)
    BY <1>1 DEF Injection, IsInjective
  <2>2. IsFiniteSet(T) /\ Cardinality(T) = c
    BY <1>1, FS_Interval
  <2> HIDE DEF f, T
  <2>3. f \in Surjection(S, T)
    BY <2>1, <2>2, FS_Injection
  <2> QED BY <2>3 DEF Surjection, f, T
<1>3. ASSUME NEW i \in 1..c
      PROVE  Nth(S, i) \in S /\ Rank(S, Nth(S, i)) = i
  <2>1. Nth(S, i) = CHOOSE k \in S : Rank(S, k) = i
    BY DEF Nth, Rank
  <2> QED BY <1>2, <2>1
<1> QED BY <1>1, <1>3

\* Of two sets, one behind the other, the places of the second come after the first.
LEMMA JoinRanks ==
  ASSUME NEW A \in SUBSET Nat, NEW B \in SUBSET Nat, IsFiniteSet(A), IsFiniteSet(B),
         \A x \in A, y \in B : x < y
  PROVE  /\ IsFiniteSet(A \cup B) /\ Cardinality(A \cup B) = Cardinality(A) + Cardinality(B)
         /\ \A k \in A : Rank(A \cup B, k) = Rank(A, k)
         /\ \A k \in B : Rank(A \cup B, k) = Cardinality(A) + Rank(B, k)
<1>1. /\ Cardinality(A) \in Nat /\ Cardinality(B) \in Nat
      /\ \A k \in A : Rank(A, k) \in Nat
      /\ \A k \in B : Rank(B, k) \in Nat
  BY FS_CardinalityType, RankFacts
<1>2. \A x \in A, y \in B : x \in Nat /\ y \in Nat /\ x # y /\ ~(y <= x) /\ x <= y
  OBVIOUS
<1>3. A \cap B = {}
  BY <1>2
<1>4. ASSUME NEW C \in SUBSET B
      PROVE  IsFiniteSet(A \cup C) /\ Cardinality(A \cup C) = Cardinality(A) + Cardinality(C)
  <2>1. IsFiniteSet(C) /\ Cardinality(C) \in Nat
    BY FS_Subset, FS_CardinalityType
  <2>2. A \cap C = {} /\ Cardinality({}) = 0
    BY <1>3, FS_EmptySet
  <2>3. /\ IsFiniteSet(A \cup C)
        /\ Cardinality(A \cup C) = Cardinality(A) + Cardinality(C) - Cardinality(A \cap C)
    BY <2>1, FS_Union
  <2>4. Cardinality(A \cap C) = 0
    BY <2>2
  <2> HIDE <2>2
  <2> QED BY <1>1, <2>1, <2>3, <2>4
<1>5. ASSUME NEW k \in A PROVE Rank(A \cup B, k) = Rank(A, k)
  <2>1. {j \in A \cup B : j <= k} = {j \in A : j <= k}
    BY <1>2
  <2> QED BY <2>1 DEF Rank
<1>6. ASSUME NEW k \in B PROVE Rank(A \cup B, k) = Cardinality(A) + Rank(B, k)
  <2> DEFINE C == {j \in B : j <= k}
  <2>1. {j \in A \cup B : j <= k} = A \cup C
    BY <1>2
  <2>2. C \in SUBSET B
    OBVIOUS
  <2>3. Rank(B, k) = Cardinality(C)
    BY DEF Rank
  <2> HIDE DEF C
  <2>4. Cardinality(A \cup C) = Cardinality(A) + Cardinality(C)
    BY <1>4, <2>2
  <2> QED BY <2>1, <2>3, <2>4 DEF Rank
<1>7. IsFiniteSet(A \cup B) /\ Cardinality(A \cup B) = Cardinality(A) + Cardinality(B)
  BY <1>4
<1> QED BY <1>5, <1>6, <1>7

\* Without a key the later places move up.
LEMMA RanksWithout ==
  ASSUME NEW S \in SUBSET Nat, IsFiniteSet(S), NEW k \in S
  PROVE  /\ IsFiniteSet(S \ {k}) /\ Cardinality(S \ {k}) = Cardinality(S) - 1
         /\ \A j \in S : j < k => Rank(S \ {k}, j) = Rank(S, j)
         /\ \A j \in S : j > k => Rank(S \ {k}, j) = Rank(S, j) - 1
<1>1. IsFiniteSet(S \ {k}) /\ Cardinality(S \ {k}) = Cardinality(S) - 1
  BY FS_RemoveElement
<1>2. ASSUME NEW j \in S, j < k PROVE Rank(S \ {k}, j) = Rank(S, j)
  <2>1. j \in Nat /\ k \in Nat /\ ~(k <= j)
    BY <1>2
  <2>2. {i \in S \ {k} : i <= j} = {i \in S : i <= j}
    BY <2>1
  <2> QED BY <2>2 DEF Rank
<1>3. ASSUME NEW j \in S, j > k PROVE Rank(S \ {k}, j) = Rank(S, j) - 1
  <2> DEFINE T == {i \in S : i <= j}
  <2>1. j \in Nat /\ k \in Nat /\ k <= j
    BY <1>3
  <2>2. {i \in S \ {k} : i <= j} = T \ {k} /\ k \in T /\ T \in SUBSET S
    BY <2>1
  <2>3. Rank(S, j) = Cardinality(T)
    BY DEF Rank
  <2> HIDE DEF T
  <2>4. IsFiniteSet(T)
    BY <2>2, FS_Subset
  <2>5. Cardinality(T \ {k}) = Cardinality(T) - 1
    BY <2>2, <2>4, FS_RemoveElement
  <2> QED BY <2>2, <2>3, <2>5 DEF Rank
<1> QED BY <1>1, <1>2, <1>3

LEMMA InOrderTyped ==
  ASSUME NEW q, DOMAIN q \in SUBSET Nat, q \in [DOMAIN q -> Song], NEW S \in SUBSET DOMAIN q, IsFiniteSet(S)
  PROVE  /\ InOrder(q, S) \in Seq(Song) /\ Len(InOrder(q, S)) = Cardinality(S)
         /\ \A i \in 1..Cardinality(S) : InOrder(q, S)[i] = q[Nth(S, i)]
         /\ \A k \in S : InOrder(q, S)[Rank(S, k)] = q[k]
<1>1. S \in SUBSET Nat
  OBVIOUS
<1>2. \A i \in 1..Cardinality(S) : Nth(S, i) \in S
  BY <1>1, NthFacts
<1>3. Cardinality(S) \in Nat
  BY FS_CardinalityType
<1> DEFINE c == Cardinality(S)  s == InOrder(q, S)
<1>4. s = [i \in 1..c |-> q[Nth(S, i)]]
  BY DEF InOrder
<1>5. s \in [1..c -> Song]
  BY <1>2, <1>4
<1>6. \A i \in 1..c : s[i] = q[Nth(S, i)]
  BY <1>4
<1> HIDE DEF c, s
<1>7. s \in Seq(Song) /\ Len(s) = c
  BY <1>3, <1>5 DEF c
<1>8. \A k \in S : Rank(S, k) \in 1..c /\ Nth(S, Rank(S, k)) = k
  BY <1>1, RankFacts, NthFacts DEF c
<1> QED BY <1>6, <1>7, <1>8 DEF c, s

\* Sequences of the same length that agree everywhere are the same.
LEMMA SameSequence ==
  ASSUME NEW T, NEW s \in Seq(T), NEW u \in Seq(T), Len(s) = Len(u), \A i \in 1..Len(s) : s[i] = u[i]
  PROVE  s = u
OBVIOUS

LEMMA InOrderJoin ==
  ASSUME NEW q, DOMAIN q \in SUBSET Nat, q \in [DOMAIN q -> Song],
         NEW A \in SUBSET DOMAIN q, NEW B \in SUBSET DOMAIN q, IsFiniteSet(A), IsFiniteSet(B),
         \A x \in A, y \in B : x < y
  PROVE  InOrder(q, A \cup B) = InOrder(q, A) \o InOrder(q, B)
<1> DEFINE C == A \cup B  s == InOrder(q, A)  t == InOrder(q, B)  u == InOrder(q, C)
           m == Cardinality(A)  n == Cardinality(B)
<1>1. A \in SUBSET Nat /\ B \in SUBSET Nat /\ C \in SUBSET DOMAIN q /\ C \in SUBSET Nat
  OBVIOUS
<1>2. /\ IsFiniteSet(C) /\ Cardinality(C) = m + n
      /\ \A k \in A : Rank(C, k) = Rank(A, k)
      /\ \A k \in B : Rank(C, k) = m + Rank(B, k)
  BY <1>1, JoinRanks
<1>3. m \in Nat /\ n \in Nat
  BY FS_CardinalityType
<1>4. /\ s \in Seq(Song) /\ Len(s) = m /\ \A k \in A : s[Rank(A, k)] = q[k]
      /\ t \in Seq(Song) /\ Len(t) = n /\ \A k \in B : t[Rank(B, k)] = q[k]
  BY InOrderTyped
<1>5. u \in Seq(Song) /\ Len(u) = m + n /\ \A k \in C : u[Rank(C, k)] = q[k]
  BY <1>1, <1>2, InOrderTyped
<1>6. /\ \A i \in 1..m : Nth(A, i) \in A /\ Rank(A, Nth(A, i)) = i
      /\ \A i \in 1..n : Nth(B, i) \in B /\ Rank(B, Nth(B, i)) = i
  BY <1>1, NthFacts
<1>7. A \subseteq C /\ B \subseteq C
  OBVIOUS
<1> HIDE DEF C, s, t, u, m, n
<1>8. \A i \in 1..m : u[i] = s[i]
  <2>1. ASSUME NEW i \in 1..m PROVE u[i] = s[i]
    <3> DEFINE k == Nth(A, i)
    <3>1. k \in A /\ k \in C /\ Rank(A, k) = i /\ Rank(C, k) = i
      BY <1>2, <1>6, <1>7
    <3> HIDE DEF k
    <3> QED BY <3>1, <1>4, <1>5
  <2> QED BY <2>1
<1>9. \A i \in 1..n : u[m + i] = t[i]
  <2>1. ASSUME NEW i \in 1..n PROVE u[m + i] = t[i]
    <3> DEFINE k == Nth(B, i)
    <3>1. k \in B /\ k \in C /\ Rank(B, k) = i /\ Rank(C, k) = m + i
      BY <1>2, <1>6, <1>7
    <3> HIDE DEF k
    <3> QED BY <3>1, <1>4, <1>5
  <2> QED BY <2>1
<1> DEFINE v == s \o t
<1>10. v \in Seq(Song) /\ Len(v) = m + n /\ \A i \in 1..m + n : v[i] = IF i <= m THEN s[i] ELSE t[i - m]
  BY <1>4, ConcatProperties
<1> HIDE DEF v
<1>11. ASSUME NEW i \in 1..m + n PROVE u[i] = v[i]
  <2>1. CASE i <= m
    <3>1. i \in 1..m
      BY <1>3, <2>1
    <3> QED BY <3>1, <2>1, <1>8, <1>10
  <2>2. CASE ~(i <= m)
    <3>1. i - m \in 1..n /\ m + (i - m) = i
      BY <1>3, <2>2
    <3> QED BY <3>1, <2>2, <1>9, <1>10
  <2> QED BY <2>1, <2>2
<1>12. u = v
  BY <1>5, <1>10, <1>11, SameSequence
<1> QED BY <1>12 DEF u, v, s, t, C

LEMMA InOrderAlike ==
  ASSUME NEW q, NEW r, NEW S \in SUBSET Nat, IsFiniteSet(S), \A k \in S : q[k] = r[k]
  PROVE  InOrder(q, S) = InOrder(r, S)
<1>1. \A i \in 1..Cardinality(S) : Nth(S, i) \in S
  BY NthFacts
<1> QED BY <1>1 DEF InOrder

LEMMA InOrderSmall ==
  ASSUME NEW q, NEW c \in Nat, q[c] \in Song
  PROVE  InOrder(q, {c}) = <<q[c]>> /\ InOrder(q, {}) = <<>>
<1>1. IsFiniteSet({c}) /\ Cardinality({c}) = 1 /\ Cardinality({}) = 0
  BY FS_Singleton, FS_EmptySet
<1>2. Nth({c}, 1) = c
  <2>1. {c} \in SUBSET Nat /\ 1 \in 1..1
    OBVIOUS
  <2>2. Nth({c}, 1) \in {c}
    BY <1>1, <2>1, NthFacts
  <2> QED BY <2>2
<1>3. InOrder(q, {c}) = [i \in 1..1 |-> q[Nth({c}, i)]] /\ InOrder(q, {}) = [i \in 1..0 |-> q[Nth({}, i)]]
  BY <1>1 DEF InOrder
<1>4. \A i \in 1..1 : i = 1
  OBVIOUS
<1>5. InOrder(q, {c}) = [i \in 1..1 |-> q[c]]
  BY <1>2, <1>3, <1>4
<1>6. [i \in 1..1 |-> q[c]] = <<q[c]>>
  OBVIOUS
<1>7. [i \in 1..0 |-> q[Nth({}, i)]] = <<>>
  OBVIOUS
<1> QED BY <1>3, <1>5, <1>6, <1>7

LEMMA RemoveAtFacts ==
  ASSUME NEW s \in Seq(Song), NEW a \in 1..Len(s)
  PROVE  /\ RemoveAt(s, a) \in Seq(Song) /\ Len(RemoveAt(s, a)) = Len(s) - 1
         /\ \A p \in 1..Len(s) - 1 : RemoveAt(s, a)[p] = IF p < a THEN s[p] ELSE s[p + 1]
<1> DEFINE n == Len(s)  head == SubSeq(s, 1, a - 1)  tail == SubSeq(s, a + 1, n)
<1>1. n \in Nat /\ a \in Nat /\ 1 <= a /\ a <= n
  OBVIOUS
<1>2. \A i \in 1..n : s[i] \in Song
  OBVIOUS
<1>3. head \in Seq(Song) /\ Len(head) = a - 1 /\ \A i \in 1..a - 1 : head[i] = s[i]
  BY SMTT(30)
<1>4. tail \in Seq(Song) /\ Len(tail) = n - a /\ \A i \in 1..n - a : tail[i] = s[i + a]
  BY SMTT(30)
<1>5. RemoveAt(s, a) = head \o tail
  BY DEF RemoveAt
<1> HIDE DEF n, head, tail
<1> DEFINE r == head \o tail
<1>6. r \in Seq(Song) /\ Len(r) = n - 1 /\ \A p \in 1..(a - 1) + (n - a) : r[p] = IF p <= a - 1 THEN head[p] ELSE tail[p - (a - 1)]
  <2>1. /\ r \in Seq(Song) /\ Len(r) = Len(head) + Len(tail)
        /\ \A p \in 1..Len(head) + Len(tail) : r[p] = IF p <= Len(head) THEN head[p] ELSE tail[p - Len(head)]
    BY <1>3, <1>4, ConcatProperties
  <2>2. (a - 1) + (n - a) = n - 1
    BY <1>1
  <2> HIDE DEF r
  <2>3. Len(head) = a - 1 /\ Len(tail) = n - a
    BY <1>3, <1>4
  <2> QED BY ONLY <2>1, <2>2, <2>3
<1> HIDE DEF r
<1>7. ASSUME NEW p \in 1..n - 1 PROVE r[p] = IF p < a THEN s[p] ELSE s[p + 1]
  <2>1. p \in Nat /\ p \in 1..(a - 1) + (n - a)
    BY <1>1
  <2>2. CASE p < a
    <3>1. p \in 1..a - 1 /\ p <= a - 1
      BY <1>1, <2>1, <2>2
    <3> QED BY <1>3, <1>6, <2>1, <2>2, <3>1
  <2>3. CASE ~(p < a)
    <3>1. p - (a - 1) \in 1..n - a /\ ~(p <= a - 1) /\ p - (a - 1) + a = p + 1
      BY <1>1, <2>1, <2>3
    <3> QED BY <1>4, <1>6, <2>1, <2>3, <3>1
  <2> QED BY <2>2, <2>3
<1> QED BY <1>5, <1>6, <1>7 DEF r, n

\* What moving one element makes of a sequence.
LEMMA MoveOneFacts ==
  ASSUME NEW s \in Seq(Song), NEW a \in 1..Len(s), NEW b \in 1..Len(s)
  PROVE  LET m == InsertAt(RemoveAt(s, a), b, s[a])
         IN  m \in Seq(Song) /\ Len(m) = Len(s) /\ \A p \in 1..Len(s) : m[p] = s[Moved(p, b, a)]
<1> DEFINE n == Len(s)  r == RemoveAt(s, a)  e == s[a]
           head == SubSeq(r, 1, b - 1)  tail == SubSeq(r, b, Len(r))
<1>1. n \in Nat /\ a \in Nat /\ 1 <= a /\ a <= n /\ b \in Nat /\ 1 <= b /\ b <= n /\ e \in Song
  OBVIOUS
<1>2. r \in Seq(Song) /\ Len(r) = n - 1 /\ \A p \in 1..n - 1 : r[p] = IF p < a THEN s[p] ELSE s[p + 1]
  BY RemoveAtFacts
<1> HIDE DEF n, r, e
<1>3. head \in Seq(Song) /\ Len(head) = b - 1 /\ \A i \in 1..b - 1 : head[i] = r[i]
  BY <1>1, <1>2, SMTT(30)
<1>4. tail \in Seq(Song) /\ Len(tail) = n - b /\ \A i \in 1..n - b : tail[i] = r[i + b - 1]
  BY <1>1, <1>2, SMTT(30)
<1>5. InsertAt(r, b, e) = head \o <<e>> \o tail
  BY DEF InsertAt
<1> HIDE DEF head, tail
<1> DEFINE u == head \o <<e>>  m == u \o tail
<1>6. u \in Seq(Song) /\ Len(u) = b /\ u[b] = e /\ \A i \in 1..b - 1 : u[i] = r[i]
  <2>1. <<e>> \in Seq(Song) /\ Len(<<e>>) = 1
    BY <1>1
  <2>2. u \in Seq(Song) /\ Len(u) = (b - 1) + 1 /\ \A i \in 1..(b - 1) + 1 : u[i] = IF i <= b - 1 THEN head[i] ELSE <<e>>[i - (b - 1)]
    BY <1>3, <2>1, ConcatProperties
  <2> HIDE DEF u
  <2>3. b \in 1..(b - 1) + 1 /\ ~(b <= b - 1) /\ b - (b - 1) = 1 /\ (b - 1) + 1 = b
        /\ \A i \in 1..b - 1 : i \in 1..(b - 1) + 1 /\ i <= b - 1
    BY <1>1
  <2> QED BY <1>3, <2>2, <2>3
<1> HIDE DEF u
<1>7. m \in Seq(Song) /\ Len(m) = b + (n - b) /\ \A i \in 1..b + (n - b) : m[i] = IF i <= b THEN u[i] ELSE tail[i - b]
  <2>1. /\ m \in Seq(Song) /\ Len(m) = Len(u) + Len(tail)
        /\ \A i \in 1..Len(u) + Len(tail) : m[i] = IF i <= Len(u) THEN u[i] ELSE tail[i - Len(u)]
    BY <1>4, <1>6, ConcatProperties
  <2> HIDE DEF m
  <2>2. Len(u) = b /\ Len(tail) = n - b
    BY <1>4, <1>6
  <2> QED BY ONLY <2>1, <2>2
<1> HIDE DEF m
<1>8. b + (n - b) = n
  BY <1>1
<1>9. ASSUME NEW p \in 1..n PROVE m[p] = s[Moved(p, b, a)]
  <2>1. p \in Nat /\ 1 <= p /\ p <= n
    BY <1>1
  <2>2. CASE p = b
    <3>1. m[p] = e
      BY <1>1, <1>6, <1>7, <1>8, <2>1, <2>2
    <3> QED BY <2>2, <3>1 DEF Moved, e
  <2>3. CASE p < b
    <3>1. p \in 1..b - 1 /\ p \in 1..n - 1 /\ p <= b
      BY <1>1, <2>1, <2>3
    <3>2. m[p] = r[p]
      BY <1>6, <1>7, <1>8, <3>1
    <3>3. m[p] = IF p < a THEN s[p] ELSE s[p + 1]
      BY <1>2, <3>1, <3>2
    <3>4. Moved(p, b, a) = IF p < a THEN p ELSE p + 1
      BY <1>1, <2>1, <2>3 DEF Moved
    <3> QED BY <3>3, <3>4
  <2>4. CASE p > b
    <3>1. p - b \in 1..n - b /\ ~(p <= b) /\ p - b + b - 1 = p - 1 /\ p - 1 \in 1..n - 1 /\ (p - 1) + 1 = p
      BY <1>1, <2>1, <2>4
    <3>2. m[p] = r[p - 1]
      BY <1>4, <1>7, <1>8, <3>1
    <3>3. m[p] = IF p - 1 < a THEN s[p - 1] ELSE s[p]
      BY <1>2, <3>1, <3>2
    <3>4. Moved(p, b, a) = IF p - 1 < a THEN p - 1 ELSE p
      BY <1>1, <2>1, <2>4 DEF Moved
    <3> QED BY <3>3, <3>4
  <2> QED BY <1>1, <2>1, <2>2, <2>3, <2>4
<1> QED BY <1>5, <1>7, <1>8, <1>9 DEF m, u, n, r, e

-----------------------------------------------------------------------------
(* The list is the whole queue, wherever the position is.                  *)

\* A queue of QueueService: songs under finitely many ids.
Fine(q) == DOMAIN q \in SUBSET Nat /\ IsFiniteSet(DOMAIN q) /\ q \in [DOMAIN q -> Song]

LEMMA PartsTyped ==
  ASSUME NEW q, Fine(q), NEW c \in Nat \cup {NoKey}
  PROVE  /\ Ahead(q, c) \in Seq(Song) /\ Under(q, c) \in Seq(Song) /\ Beyond(q, c) \in Seq(Song)
         /\ c = NoKey => Ahead(q, c) = <<>> /\ Under(q, c) = <<>> /\ Beyond(q, c) = InOrder(q, DOMAIN q)
<1>1. NoKey \notin Nat
  BY QueueAssumption
<1>2. \A S \in SUBSET DOMAIN q : IsFiniteSet(S) /\ InOrder(q, S) \in Seq(Song)
  BY FS_Subset, InOrderTyped DEF Fine
<1>3. Ahead(q, c) \in Seq(Song)
  BY <1>2 DEF Ahead
<1>4. Under(q, c) \in Seq(Song)
  BY DEF Under, Fine
<1>5. Beyond(q, c) \in Seq(Song)
  BY <1>2 DEF Beyond
<1>6. ASSUME c = NoKey PROVE Ahead(q, c) = <<>> /\ Under(q, c) = <<>> /\ Beyond(q, c) = InOrder(q, DOMAIN q)
  <2>1. c \notin DOMAIN q
    BY <1>1, <1>6 DEF Fine
  <2>2. {k \in DOMAIN q : c # NoKey => k > c} = DOMAIN q
    BY <1>6
  <2> QED BY <1>6, <2>1, <2>2 DEF Ahead, Under, Beyond
<1> QED BY <1>3, <1>4, <1>5, <1>6

LEMMA ListWhole ==
  ASSUME NEW q, Fine(q), NEW c \in Nat \cup {NoKey}
  PROVE  Ahead(q, c) \o Under(q, c) \o Beyond(q, c) = InOrder(q, DOMAIN q)
<1>1. DOMAIN q \in SUBSET Nat /\ IsFiniteSet(DOMAIN q) /\ q \in [DOMAIN q -> Song]
  BY DEF Fine
<1>2. NoKey \notin Nat
  BY QueueAssumption
<1>3. /\ Ahead(q, c) \in Seq(Song) /\ Beyond(q, c) \in Seq(Song)
      /\ c = NoKey => Ahead(q, c) = <<>> /\ Under(q, c) = <<>> /\ Beyond(q, c) = InOrder(q, DOMAIN q)
  BY PartsTyped
<1>4. CASE c = NoKey
  <2>1. <<>> \o <<>> \o Beyond(q, c) = Beyond(q, c)
    BY <1>3
  <2> QED BY <1>3, <1>4, <2>1
<1>5. CASE c # NoKey
  <2> DEFINE A == {k \in DOMAIN q : k < c}  B == {k \in DOMAIN q : k > c}
  <2>1. c \in Nat
    BY <1>5
  <2>2. A \in SUBSET DOMAIN q /\ B \in SUBSET DOMAIN q /\ IsFiniteSet(A) /\ IsFiniteSet(B)
    <3>1. A \in SUBSET DOMAIN q /\ B \in SUBSET DOMAIN q
      OBVIOUS
    <3> HIDE DEF A, B
    <3> QED BY <1>1, <3>1, FS_Subset
  <2>3. \A x \in A, y \in B : x < y
    BY <1>1, <2>1
  <2>4. Ahead(q, c) = InOrder(q, A) /\ Beyond(q, c) = InOrder(q, B)
    BY <1>5 DEF Ahead, Beyond
  <2>5. CASE c \in DOMAIN q
    <3> DEFINE AC == A \cup {c}
    <3>1. /\ AC \in SUBSET DOMAIN q /\ IsFiniteSet(AC) /\ {c} \in SUBSET DOMAIN q /\ IsFiniteSet({c})
          /\ \A x \in A, y \in {c} : x < y
      <4>1. AC \in SUBSET DOMAIN q
        BY <2>5
      <4> HIDE DEF AC
      <4> QED BY <1>1, <2>5, <4>1, FS_Subset, FS_Singleton
    <3>2. \A x \in AC, y \in B : x < y
      BY <2>1, <2>3
    <3>3. AC \cup B = DOMAIN q
      BY <1>1, <2>1, <2>5
    <3> HIDE DEF A, B
    <3>4. InOrder(q, AC) = InOrder(q, A) \o InOrder(q, {c})
      BY <1>1, <2>2, <3>1, InOrderJoin
    <3> HIDE DEF AC
    <3>5. InOrder(q, AC \cup B) = InOrder(q, AC) \o InOrder(q, B)
      BY <1>1, <2>2, <3>1, <3>2, InOrderJoin
    <3>6. InOrder(q, {c}) = <<q[c]>> /\ Under(q, c) = <<q[c]>>
      BY <1>1, <2>1, <2>5, InOrderSmall DEF Under
    <3> QED BY <2>4, <3>3, <3>4, <3>5, <3>6
  <2>6. CASE c \notin DOMAIN q
    <3>1. A \cup B = DOMAIN q
      BY <1>1, <2>1, <2>6
    <3> HIDE DEF A, B
    <3>2. InOrder(q, A \cup B) = InOrder(q, A) \o InOrder(q, B)
      BY <1>1, <2>2, <2>3, InOrderJoin
    <3>3. Under(q, c) = <<>> /\ Ahead(q, c) \o <<>> = Ahead(q, c)
      BY <1>3, <2>6 DEF Under
    <3> QED BY <2>4, <3>1, <3>2, <3>3
  <2> QED BY <2>5, <2>6
<1> QED BY <1>4, <1>5

\* Songs added behind everything known come to the end of the list.
LEMMA BeyondGrows ==
  ASSUME NEW q, Fine(q), NEW r, Fine(r), NEW c \in Nat \cup {NoKey},
         DOMAIN q \subseteq DOMAIN r, \A k \in DOMAIN q : r[k] = q[k],
         \A n \in DOMAIN r \ DOMAIN q : (c # NoKey => c < n) /\ \A k \in DOMAIN q : k < n
  PROVE  /\ Ahead(r, c) = Ahead(q, c) /\ Under(r, c) = Under(q, c)
         /\ Beyond(r, c) = Beyond(q, c) \o InOrder(r, DOMAIN r \ DOMAIN q)
<1> DEFINE N == DOMAIN r \ DOMAIN q
           A == {k \in DOMAIN q : k < c}  B == {k \in DOMAIN q : c # NoKey => k > c}
<1>1. /\ DOMAIN q \in SUBSET Nat /\ DOMAIN r \in SUBSET Nat
      /\ q \in [DOMAIN q -> Song] /\ r \in [DOMAIN r -> Song]
      /\ IsFiniteSet(DOMAIN q) /\ IsFiniteSet(DOMAIN r)
  BY DEF Fine
<1>2. /\ A \in SUBSET DOMAIN q /\ B \in SUBSET DOMAIN q /\ N \in SUBSET DOMAIN r
      /\ A \in SUBSET DOMAIN r /\ B \in SUBSET DOMAIN r /\ A \in SUBSET Nat /\ B \in SUBSET Nat
  BY <1>1
<1>3. /\ c # NoKey => {k \in DOMAIN r : k < c} = A
      /\ {k \in DOMAIN r : c # NoKey => k > c} = B \cup N
      /\ \A x \in B, y \in N : x < y
      /\ c \in DOMAIN r => c \in DOMAIN q
  <2>1. \A n \in N : n \in Nat /\ (c # NoKey => c \in Nat /\ c < n /\ ~(n < c) /\ n > c)
    BY <1>1
  <2>2. DOMAIN r = DOMAIN q \cup N /\ N \cap DOMAIN q = {}
    OBVIOUS
  <2>3. c # NoKey => {k \in DOMAIN r : k < c} = A
    BY <2>1, <2>2
  <2>4. {k \in DOMAIN r : c # NoKey => k > c} = B \cup N
    BY <2>1, <2>2
  <2>5. \A x \in B, y \in N : x < y
    OBVIOUS
  <2>6. c \in DOMAIN r => c \in DOMAIN q
    <3>1. NoKey \notin DOMAIN r
      BY <1>1, QueueAssumption
    <3> QED BY <1>1, <2>1, <2>2, <3>1
  <2> QED BY <2>3, <2>4, <2>5, <2>6
<1> HIDE DEF A, B, N
<1>4. IsFiniteSet(A) /\ IsFiniteSet(B) /\ IsFiniteSet(N)
  BY <1>1, <1>2, FS_Subset
<1>5. InOrder(r, A) = InOrder(q, A) /\ InOrder(r, B) = InOrder(q, B)
  <2>1. \A k \in A : r[k] = q[k]
    BY <1>2
  <2>2. \A k \in B : r[k] = q[k]
    BY <1>2
  <2> QED BY <1>2, <1>4, <2>1, <2>2, InOrderAlike
<1>6. InOrder(r, B \cup N) = InOrder(r, B) \o InOrder(r, N)
  BY <1>1, <1>2, <1>3, <1>4, InOrderJoin
<1>7. Ahead(r, c) = Ahead(q, c)
  BY <1>3, <1>5 DEF Ahead, A
<1>8. Under(r, c) = Under(q, c)
  BY <1>3 DEF Under
<1>9. Beyond(r, c) = InOrder(r, B \cup N) /\ Beyond(q, c) = InOrder(q, B)
  BY <1>3 DEF Beyond, B
<1> QED BY <1>5, <1>6, <1>7, <1>8, <1>9 DEF N

\* Taking a key out of the queue takes one place out of the list.
LEMMA InOrderDrop ==
  ASSUME NEW q, Fine(q), NEW S \in SUBSET DOMAIN q, NEW k \in S
  PROVE  \E i \in DOMAIN InOrder(q, S) : InOrder(q, S \ {k}) = RemoveAt(InOrder(q, S), i)
<1> DEFINE s == InOrder(q, S)  u == InOrder(q, S \ {k})  n == Cardinality(S)  a == Rank(S, k)
<1>1. /\ DOMAIN q \in SUBSET Nat /\ q \in [DOMAIN q -> Song] /\ IsFiniteSet(S) /\ S \in SUBSET Nat
      /\ S \ {k} \in SUBSET DOMAIN q /\ S \ {k} \in SUBSET Nat
  BY FS_Subset DEF Fine
<1>2. /\ IsFiniteSet(S \ {k}) /\ Cardinality(S \ {k}) = n - 1
      /\ \A j \in S : j < k => Rank(S \ {k}, j) = Rank(S, j)
      /\ \A j \in S : j > k => Rank(S \ {k}, j) = Rank(S, j) - 1
  BY <1>1, RanksWithout
<1>3. /\ n \in Nat /\ \A j \in S : Rank(S, j) \in 1..n
      /\ \A j, i \in S : j < i <=> Rank(S, j) < Rank(S, i)
  BY <1>1, RankFacts
<1>4. s \in Seq(Song) /\ Len(s) = n /\ \A j \in S : s[Rank(S, j)] = q[j]
  BY <1>1, InOrderTyped
<1>5. u \in Seq(Song) /\ Len(u) = n - 1 /\ \A i \in 1..n - 1 : u[i] = q[Nth(S \ {k}, i)]
  BY <1>1, <1>2, InOrderTyped
<1>6. \A i \in 1..n - 1 : Nth(S \ {k}, i) \in S \ {k} /\ Rank(S \ {k}, Nth(S \ {k}, i)) = i
  BY <1>1, <1>2, NthFacts
<1> HIDE DEF s, u, n
<1>7. a \in 1..n /\ a \in 1..Len(s)
  BY <1>3, <1>4
<1>8. ASSUME NEW i \in 1..n - 1 PROVE u[i] = IF i < a THEN s[i] ELSE s[i + 1]
  <2>1. PICK j : j = Nth(S \ {k}, i)
    OBVIOUS
  <2>2. j \in S /\ j # k /\ j \in Nat /\ k \in Nat /\ Rank(S \ {k}, j) = i /\ u[i] = q[j]
    BY <1>1, <1>5, <1>6, <2>1
  <2>3. CASE j < k
    <3>1. Rank(S, j) = i /\ i < a
      BY <1>2, <1>3, <2>2, <2>3
    <3> HIDE DEF a
    <3> QED BY <1>4, <2>2, <3>1
  <2>4. CASE j > k
    <3>1. Rank(S, j) - 1 = i /\ a < Rank(S, j) /\ Rank(S, j) \in 1..n
      BY <1>2, <1>3, <2>2, <2>4
    <3> HIDE DEF a
    <3>2. Rank(S, j) = i + 1 /\ ~(i < a)
      BY <1>7, <3>1
    <3> QED BY <1>4, <2>2, <3>2
  <2> QED BY <2>2, <2>3, <2>4
<1> HIDE DEF a
<1> DEFINE v == RemoveAt(s, a)
<1>9. v \in Seq(Song) /\ Len(v) = n - 1 /\ \A i \in 1..n - 1 : v[i] = IF i < a THEN s[i] ELSE s[i + 1]
  BY <1>4, <1>7, RemoveAtFacts
<1> HIDE DEF v
<1>10. u = v
  BY <1>5, <1>8, <1>9, SameSequence
<1>11. a \in DOMAIN s
  BY <1>4, <1>7
<1> QED BY <1>10, <1>11 DEF u, v, s

\* An entry is gone from those before the current one, from those after it, or it was the
\* current one.
OneDropped(q, r, c) ==
  \/ /\ \E i \in DOMAIN Ahead(q, c) : Ahead(r, c) = RemoveAt(Ahead(q, c), i)
     /\ Under(r, c) = Under(q, c) /\ Beyond(r, c) = Beyond(q, c)
  \/ /\ \E i \in DOMAIN Beyond(q, c) : Beyond(r, c) = RemoveAt(Beyond(q, c), i)
     /\ Under(r, c) = Under(q, c) /\ Ahead(r, c) = Ahead(q, c)
  \/ /\ Under(q, c) # <<>> /\ Under(r, c) = <<>>
     /\ Ahead(r, c) = Ahead(q, c) /\ Beyond(r, c) = Beyond(q, c)

LEMMA DropParts ==
  ASSUME NEW q, Fine(q), NEW k \in DOMAIN q, NEW c \in Nat \cup {NoKey},
         NEW r, DOMAIN r = DOMAIN q \ {k}, \A j \in DOMAIN r : r[j] = q[j]
  PROVE  OneDropped(q, r, c)
<1> DEFINE A == {j \in DOMAIN q : j < c}  B == {j \in DOMAIN q : c # NoKey => j > c}
<1>1. /\ DOMAIN q \in SUBSET Nat /\ k \in Nat /\ NoKey \notin Nat
  BY QueueAssumption DEF Fine
<1>2. /\ {j \in DOMAIN r : j < c} = A \ {k}
      /\ {j \in DOMAIN r : c # NoKey => j > c} = B \ {k}
      /\ A \in SUBSET DOMAIN q /\ B \in SUBSET DOMAIN q
      /\ k \in A <=> k < c
      /\ k \in B <=> (c # NoKey => k > c)
  BY <1>1
<1> HIDE DEF A, B
<1>3. /\ c # NoKey => Ahead(q, c) = InOrder(q, A) /\ Ahead(r, c) = InOrder(r, A \ {k})
      /\ c = NoKey => Ahead(q, c) = <<>> /\ Ahead(r, c) = <<>>
      /\ Beyond(q, c) = InOrder(q, B) /\ Beyond(r, c) = InOrder(r, B \ {k})
  BY <1>2 DEF Ahead, Beyond, A, B
<1>4. InOrder(r, A \ {k}) = InOrder(q, A \ {k}) /\ InOrder(r, B \ {k}) = InOrder(q, B \ {k})
  <2>1. ASSUME NEW S \in SUBSET DOMAIN q PROVE InOrder(r, S \ {k}) = InOrder(q, S \ {k})
    <3> DEFINE T == S \ {k}
    <3>1. T \in SUBSET DOMAIN q /\ T \in SUBSET Nat /\ \A j \in T : r[j] = q[j]
      BY <1>1
    <3> HIDE DEF T
    <3>2. IsFiniteSet(T)
      BY <3>1, FS_Subset DEF Fine
    <3>3. InOrder(r, T) = InOrder(q, T)
      BY <3>1, <3>2, InOrderAlike
    <3> QED BY <3>3 DEF T
  <2> QED BY <1>2, <2>1
<1>5. /\ c # k => Under(r, c) = Under(q, c)
      /\ c = k => Under(q, c) # <<>> /\ Under(r, c) = <<>>
  <2>1. c # k => (c \in DOMAIN r <=> c \in DOMAIN q)
    BY <1>1
  <2>2. c = k => c \in DOMAIN q /\ c \notin DOMAIN r
    BY <1>1
  <2>3. \A x : <<x>> # <<>>
    OBVIOUS
  <2> QED BY <1>1, <2>1, <2>2, <2>3 DEF Under
<1>6. CASE k \in A /\ c # NoKey
  <2>1. c # k /\ k \notin B
    BY <1>1, <1>2, <1>6
  <2>2. B \ {k} = B
    BY <2>1
  <2>3. \E i \in DOMAIN InOrder(q, A) : InOrder(q, A \ {k}) = RemoveAt(InOrder(q, A), i)
    BY <1>2, <1>6, InOrderDrop
  <2> QED BY <1>3, <1>4, <1>5, <1>6, <2>1, <2>2, <2>3 DEF OneDropped
<1>7. CASE k \in B
  <2>1. c # k
    BY <1>1, <1>2, <1>7
  <2>2. Ahead(r, c) = Ahead(q, c)
    <3>1. c # NoKey => A \ {k} = A
      BY <1>1, <1>2, <1>7
    <3> QED BY <1>3, <1>4, <3>1
  <2>3. \E i \in DOMAIN InOrder(q, B) : InOrder(q, B \ {k}) = RemoveAt(InOrder(q, B), i)
    BY <1>2, <1>7, InOrderDrop
  <2> QED BY <1>3, <1>4, <1>5, <2>1, <2>2, <2>3 DEF OneDropped
<1>8. CASE k \notin B /\ ~(k \in A /\ c # NoKey)
  <2>1. c = k
    BY <1>1, <1>2, <1>8
  <2>2. A \ {k} = A /\ B \ {k} = B /\ c # NoKey
    BY <1>1, <1>8, <2>1
  <2> QED BY <1>3, <1>4, <1>5, <2>1, <2>2 DEF OneDropped
<1> QED BY <1>6, <1>7, <1>8

-----------------------------------------------------------------------------
(* Reordering moves one song of the list.                                  *)

LEMMA BoundedFine ==
  ASSUME NEW q, DOMAIN q \in SUBSET Nat, q \in [DOMAIN q -> Song], NEW n \in Nat, \A k \in DOMAIN q : k < n
  PROVE  Fine(q)
<1>1. IsFiniteSet(0..n)
  <2>1. 0 \in Int /\ n \in Int
    OBVIOUS
  <2> QED BY ONLY <2>1, FS_Interval
<1>2. DOMAIN q \subseteq 0..n
  OBVIOUS
<1>3. IsFiniteSet(DOMAIN q)
  BY <1>1, <1>2, FS_Subset
<1> QED BY <1>3 DEF Fine

LEMMA KeysFine ==
  ASSUME IInv
  PROVE  Fine(songs) /\ Keys = DOMAIN songs
<1>1. nextId \in Nat /\ \A k \in DOMAIN songs : k < nextId
  BY DEF IInv, TypeOK, IdsReserved, Mentioned, Keys
<1> QED BY <1>1, BoundedFine DEF IInv, TypeOK, Keys

LEMMA KeysFineAfter ==
  ASSUME IInv'
  PROVE  Fine(songs') /\ Keys' = DOMAIN songs'
<1>1. nextId' \in Nat /\ \A k \in DOMAIN songs' : k < nextId'
  BY DEF IInv, TypeOK, IdsReserved, Mentioned, Keys
<1>2. DOMAIN songs' \in SUBSET Nat /\ songs' \in [DOMAIN songs' -> Song]
  BY DEF IInv, TypeOK, Keys
<1> QED BY <1>1, <1>2, BoundedFine DEF Keys

LEMMA RankOfNeighbours ==
  ASSUME IInv, NEW k \in Keys
  PROVE  /\ After(k) # {} => Rank(Keys, Succ(k)) = Rank(Keys, k) + 1
         /\ Before(k) # {} => Rank(Keys, Pred(k)) = Rank(Keys, k) - 1
<1>1. TypeOK /\ Keys \in SUBSET Nat /\ IsFiniteSet(Keys)
  BY KeysFine DEF IInv, TypeOK, Fine
<1>2. ASSUME NEW i \in Keys, After(i) # {} PROVE Rank(Keys, Succ(i)) = Rank(Keys, i) + 1
  <2> DEFINE upTo == {j \in Keys : j <= i}
  <2>1. PICK n : n = Succ(i)
    OBVIOUS
  <2>2. i \in Nat /\ n \in Keys /\ n \in Nat /\ n > i /\ \A j \in Keys : j > i => n <= j
    BY <1>1, <1>2, <2>1, SuccFacts
  <2>3. {j \in Keys : j <= n} = upTo \cup {n}
    <3>1. ASSUME NEW j \in Keys PROVE j <= n <=> j <= i \/ j = n
      BY <1>1, <2>2
    <3> QED BY <2>2, <3>1
  <2>4. n \notin upTo /\ upTo \in SUBSET Keys
    BY <1>1, <2>2
  <2>5. Rank(Keys, i) = Cardinality(upTo)
    BY DEF Rank
  <2> HIDE DEF upTo
  <2>6. IsFiniteSet(upTo)
    BY <1>1, <2>4, FS_Subset
  <2>7. Cardinality(upTo \cup {n}) = Cardinality(upTo) + 1
    BY <2>4, <2>6, FS_AddElement
  <2> QED BY <2>1, <2>3, <2>5, <2>7 DEF Rank
<1>3. ASSUME Before(k) # {} PROVE Rank(Keys, Pred(k)) = Rank(Keys, k) - 1
  <2>1. PICK n : n = Pred(k)
    OBVIOUS
  <2>2. k \in Nat /\ n \in Keys /\ n \in Nat /\ n < k
    BY <1>1, <1>3, <2>1, PredFacts
  <2>3. After(n) # {}
    BY <2>2 DEF After
  <2>4. Succ(n) = k
    BY <1>1, <1>3, <2>1, Neighbours
  <2>5. Rank(Keys, k) = Rank(Keys, n) + 1
    BY <1>2, <2>2, <2>3, <2>4
  <2>6. Rank(Keys, n) \in Nat
    BY <1>1, <2>2, RankFacts
  <2> QED BY <2>1, <2>5, <2>6
<1> QED BY <1>2, <1>3

LEMMA RankOfSource ==
  ASSUME IInv, NEW k \in Keys, NEW f \in Keys, NEW t \in Keys
  PROVE  Rank(Keys, Source(k, f, t)) = Moved(Rank(Keys, k), Rank(Keys, t), Rank(Keys, f))
<1>1. k \in Nat /\ f \in Nat /\ t \in Nat /\ Keys \in SUBSET Nat /\ IsFiniteSet(Keys)
  BY KeysFine DEF IInv, TypeOK, Fine
<1> DEFINE R(x) == Rank(Keys, x)
<1>2. R(k) \in Nat /\ R(f) \in Nat /\ R(t) \in Nat
  BY <1>1, RankFacts
<1>3. \A i, j \in Keys : (i < j <=> R(i) < R(j)) /\ (R(i) = R(j) => i = j)
  BY <1>1, RankFacts
<1>4. k < t => After(k) # {} /\ R(Succ(k)) = R(k) + 1
  BY RankOfNeighbours DEF After
<1>5. t < k => Before(k) # {} /\ R(Pred(k)) = R(k) - 1
  BY RankOfNeighbours DEF Before
<1> HIDE DEF R
<1>6. /\ k = t <=> R(k) = R(t)
      /\ k < t <=> R(k) < R(t)
      /\ t < k <=> R(t) < R(k)
      /\ f <= k <=> R(f) <= R(k)
      /\ k <= f <=> R(k) <= R(f)
  BY <1>1, <1>2, <1>3
<1>7. CASE k = t
  <2>1. Moved(R(k), R(t), R(f)) = R(f)
    BY <1>2, <1>6, <1>7 DEF Moved
  <2>2. Source(k, f, t) = f
    BY <1>7 DEF Source
  <2> QED BY <2>1, <2>2 DEF R
<1>8. CASE k # t /\ f <= k /\ k < t
  <2>1. Moved(R(k), R(t), R(f)) = R(k) + 1
    BY <1>2, <1>6, <1>8 DEF Moved
  <2>2. Source(k, f, t) = Succ(k)
    BY <1>8 DEF Source
  <2> QED BY <1>4, <1>8, <2>1, <2>2 DEF R
<1>9. CASE k # t /\ ~(f <= k /\ k < t) /\ t < k /\ k <= f
  <2>1. Moved(R(k), R(t), R(f)) = R(k) - 1
    BY <1>2, <1>6, <1>9 DEF Moved
  <2>2. Source(k, f, t) = Pred(k)
    BY <1>9 DEF Source
  <2> QED BY <1>5, <1>9, <2>1, <2>2 DEF R
<1>10. CASE k # t /\ ~(f <= k /\ k < t) /\ ~(t < k /\ k <= f)
  <2>1. Moved(R(k), R(t), R(f)) = R(k)
    BY <1>2, <1>6, <1>10 DEF Moved
  <2>2. Source(k, f, t) = k
    BY <1>10 DEF Source
  <2> QED BY <2>1, <2>2 DEF R
<1> QED BY <1>7, <1>8, <1>9, <1>10

\* The songs in their order after a move: one song moved.
LEMMA ListAfterMove ==
  ASSUME IInv, NEW f \in Keys, NEW t \in Keys, Reorder(f, t)
  PROVE  LET s == InOrder(songs, Keys)
         IN  \E i, j \in DOMAIN s : InOrder(songs', Keys) = InsertAt(RemoveAt(s, i), j, s[i])
<1> DEFINE n == Cardinality(Keys)  s == InOrder(songs, Keys)  u == InOrder(songs', Keys)
           a == Rank(Keys, f)  b == Rank(Keys, t)
<1>1. /\ TypeOK /\ Keys \in SUBSET Nat /\ IsFiniteSet(Keys) /\ Keys = DOMAIN songs
      /\ songs \in [Keys -> Song]
  BY KeysFine DEF IInv, TypeOK, Fine
<1>2. songs' \in [Keys -> Song] /\ DOMAIN songs' = Keys
  BY <1>1, ReorderFacts
<1>3. \A k \in Keys : songs'[k] = songs[Source(k, f, t)] /\ Source(k, f, t) \in Keys
  BY <1>1, PositionOfSource DEF Reorder, Shifted, Source
<1>4. n \in Nat /\ \A k \in Keys : Rank(Keys, k) \in 1..n
  BY <1>1, RankFacts
<1>5. s \in Seq(Song) /\ Len(s) = n /\ \A k \in Keys : s[Rank(Keys, k)] = songs[k]
  BY <1>1, InOrderTyped
<1>6. u \in Seq(Song) /\ Len(u) = n /\ \A i \in 1..n : u[i] = songs'[Nth(Keys, i)]
  <2> DEFINE q == songs'
  <2>1. DOMAIN q \in SUBSET Nat /\ q \in [DOMAIN q -> Song] /\ Keys \in SUBSET DOMAIN q
    BY <1>1, <1>2
  <2>2. u = InOrder(q, Keys)
    OBVIOUS
  <2> HIDE DEF q, u
  <2>3. u \in Seq(Song) /\ Len(u) = n /\ \A i \in 1..n : u[i] = q[Nth(Keys, i)]
    BY <1>1, <2>1, <2>2, InOrderTyped
  <2> QED BY <2>3 DEF q
<1>7. \A i \in 1..n : Nth(Keys, i) \in Keys /\ Rank(Keys, Nth(Keys, i)) = i
  BY <1>1, NthFacts
<1> HIDE DEF n, s, u
<1>8. ASSUME NEW p \in 1..n PROVE u[p] = s[Moved(p, b, a)]
  <2>1. PICK k : k = Nth(Keys, p)
    OBVIOUS
  <2>2. k \in Keys /\ Rank(Keys, k) = p /\ u[p] = songs'[k]
    BY <1>6, <1>7, <2>1
  <2>3. u[p] = songs[Source(k, f, t)] /\ Source(k, f, t) \in Keys
    BY <1>3, <2>2
  <2>4. Rank(Keys, Source(k, f, t)) = Moved(p, b, a)
    BY <2>2, RankOfSource
  <2>5. u[p] = s[Rank(Keys, Source(k, f, t))]
    BY <1>5, <2>3
  <2> QED BY <2>4, <2>5
<1>9. a \in 1..Len(s) /\ b \in 1..Len(s) /\ a \in DOMAIN s /\ b \in DOMAIN s
  BY <1>4, <1>5
<1> HIDE DEF a, b
<1> DEFINE m == InsertAt(RemoveAt(s, a), b, s[a])
<1>10. m \in Seq(Song) /\ Len(m) = Len(s) /\ \A p \in 1..Len(s) : m[p] = s[Moved(p, b, a)]
  BY <1>5, <1>9, MoveOneFacts
<1> HIDE DEF m
<1>11. u = m
  BY <1>5, <1>6, <1>8, <1>10, SameSequence
<1> QED BY <1>9, <1>11 DEF m, u, s

\* The first of the list is the song under the least key.
LEMMA FirstOfList ==
  ASSUME IInv, Keys # {}
  PROVE  Min(Keys) \in Keys /\ InOrder(songs, Keys)[1] = songs[Min(Keys)]
<1>1. /\ Keys \in SUBSET Nat /\ IsFiniteSet(Keys) /\ Keys = DOMAIN songs /\ songs \in [Keys -> Song]
  BY KeysFine DEF IInv, TypeOK, Fine
<1>2. PICK m : m = Min(Keys)
  OBVIOUS
<1>3. m \in Keys /\ m \in Nat /\ \A j \in Keys : m <= j
  BY <1>1, <1>2, MinFacts
<1>4. {j \in Keys : j <= m} = {m}
  <2>1. \A j \in Keys : j <= m <=> j = m
    BY <1>1, <1>3
  <2> QED BY <1>3, <2>1
<1>5. Rank(Keys, m) = 1
  BY <1>4, FS_Singleton DEF Rank
<1> QED BY <1>1, <1>2, <1>3, <1>5, InOrderTyped

\* The list removes and inserts as the queue's module does.
LEMMA SameEdits ==
  ASSUME NEW s, NEW i
  PROVE  /\ Order!RemoveAt(s, i) = RemoveAt(s, i)
         /\ \A e : Order!InsertAt(s, i, e) = InsertAt(s, i, e)
BY DEF RemoveAt, InsertAt, Order!RemoveAt, Order!InsertAt

LEMMA AddStep ==
  ASSUME IInv, IInv', current' = current, \A k \in Keys : k \in Keys' /\ songs'[k] = songs[k],
         \A n \in Keys' \ Keys : \A m \in Mentioned : m < n
  PROVE  Order!Add
<1> DEFINE q == songs  r == songs'  c == current
<1>1. Fine(q) /\ Fine(r) /\ Keys = DOMAIN q /\ Keys' = DOMAIN r
  BY KeysFine, KeysFineAfter
<1>2. c \in Nat \cup {NoKey} /\ Keys \subseteq Mentioned /\ (c # NoKey => c \in Mentioned)
  BY DEF IInv, TypeOK, Mentioned
<1>3. /\ DOMAIN q \subseteq DOMAIN r /\ \A k \in DOMAIN q : r[k] = q[k]
      /\ \A n \in DOMAIN r \ DOMAIN q : (c # NoKey => c < n) /\ \A k \in DOMAIN q : k < n
  BY <1>1, <1>2
<1> DEFINE N == DOMAIN r \ DOMAIN q
<1>4. /\ Ahead(r, c) = Ahead(q, c) /\ Under(r, c) = Under(q, c)
      /\ Beyond(r, c) = Beyond(q, c) \o InOrder(r, N)
  BY <1>1, <1>2, <1>3, BeyondGrows
<1>5. Beyond(q, c) \in Seq(Song) /\ InOrder(r, N) \in Seq(Song)
  <2>1. IsFiniteSet(N)
    BY <1>1, FS_Subset DEF Fine
  <2> QED BY <1>1, <1>2, <2>1, PartsTyped, InOrderTyped DEF Fine
<1> HIDE DEF q, r, c, N
<1>6. /\ Len(Beyond(r, c)) >= Len(Beyond(q, c))
      /\ SubSeq(Beyond(r, c), 1, Len(Beyond(q, c))) = Beyond(q, c)
  <2> DEFINE x == Beyond(q, c)  y == InOrder(r, N)
  <2>1. x \in Seq(Song) /\ y \in Seq(Song) /\ Beyond(r, c) = x \o y
    BY <1>4, <1>5
  <2> HIDE DEF x, y
  <2> QED BY <2>1, SMTT(30) DEF x
<1>7. /\ Ahead(songs, current)' = Ahead(r, c)
      /\ Under(songs, current)' = Under(r, c)
      /\ Beyond(songs, current)' = Beyond(r, c)
  BY DEF r, c
<1> QED BY <1>4, <1>6, <1>7 DEF Order!Add, q, c

\* The parts of the list after a step are those of the songs and the position after it.
LEMMA PartsAfter ==
  ASSUME IInv'
  PROVE  /\ Order!list' = InOrder(songs', Keys')
         /\ Fine(songs') /\ Keys' = DOMAIN songs' /\ current' \in Nat \cup {NoKey}
<1>1. Fine(songs') /\ Keys' = DOMAIN songs' /\ current' \in Nat \cup {NoKey}
  BY KeysFineAfter DEF IInv, TypeOK
<1>2. Ahead(songs', current') \o Under(songs', current') \o Beyond(songs', current') = InOrder(songs', DOMAIN songs')
  BY <1>1, ListWhole
<1> QED BY <1>1, <1>2 DEF Order!list

LEMMA PartsBefore ==
  ASSUME IInv
  PROVE  /\ Order!list = InOrder(songs, Keys)
         /\ Fine(songs) /\ Keys = DOMAIN songs /\ current \in Nat \cup {NoKey}
<1>1. Fine(songs) /\ Keys = DOMAIN songs /\ current \in Nat \cup {NoKey}
  BY KeysFine DEF IInv, TypeOK
<1>2. Ahead(songs, current) \o Under(songs, current) \o Beyond(songs, current) = InOrder(songs, DOMAIN songs)
  BY <1>1, ListWhole
<1> QED BY <1>1, <1>2 DEF Order!list

LEMMA GoToStep ==
  ASSUME IInv, IInv', UNCHANGED songs
  PROVE  Order!GoTo
BY PartsBefore, PartsAfter DEF Order!GoTo

LEMMA DropStep ==
  ASSUME IInv, NEW s \in Song, RemoveSong(s)
  PROVE  Order!Drop
<1> DEFINE q == songs  r == songs'  c == current
<1>1. Fine(q) /\ Keys = DOMAIN q /\ c \in Nat \cup {NoKey}
  BY PartsBefore
<1>2. PICK k : k = KeyOf(s)
  OBVIOUS
<1>3. k \in DOMAIN q /\ DOMAIN r = DOMAIN q \ {k} /\ \A j \in DOMAIN r : r[j] = q[j]
  BY <1>1, <1>2, KeyOfFacts DEF RemoveSong, IInv
<1>4. /\ Ahead(songs, current)' = Ahead(r, c)
      /\ Under(songs, current)' = Under(r, c)
      /\ Beyond(songs, current)' = Beyond(r, c)
  BY DEF r, c, RemoveSong
<1> HIDE DEF q, r, c
<1>5. OneDropped(q, r, c)
  BY <1>1, <1>3, DropParts
<1> QED BY <1>4, <1>5, SameEdits DEF Order!Drop, OneDropped, q, c

LEMMA LoadStep ==
  ASSUME current' = NoKey, IInv'
  PROVE  Order!Load
<1>1. Ahead(songs', NoKey) = <<>> /\ Under(songs', NoKey) = <<>>
  BY PartsAfter, PartsTyped
<1> QED BY <1>1 DEF Order!Load

LEMMA RearrangeStep ==
  ASSUME IInv, IInv', NEW f \in Keys, NEW t \in Keys, Reorder(f, t)
  PROVE  Order!Rearrange
<1> DEFINE s == Order!list
<1>1. /\ s = InOrder(songs, Keys) /\ Fine(songs) /\ Keys = DOMAIN songs
      /\ s' = InOrder(songs', Keys) /\ Fine(songs') /\ Keys = DOMAIN songs'
  BY PartsBefore, PartsAfter, ReorderFacts DEF IInv
<1>2. \E i, j \in DOMAIN s : s' = InsertAt(RemoveAt(s, i), j, s[i])
  BY <1>1, ListAfterMove
<1> DEFINE before == Ahead(songs, current)  here == Under(songs, current)
<1>3. \/ here' = here /\ (here = <<>> => Len(before') = Len(before))
      \/ before = <<>> /\ here = <<>> /\ here' = <<s[1]>>
  <2>1. TypeOK /\ current \in Nat \cup {NoKey} /\ NoKey \notin Nat /\ Keys \subseteq Nat /\ Keys # {}
    BY QueueAssumption DEF IInv, TypeOK
  <2> HIDE DEF before, here, s
  <2>2. CASE CurrentOrFirst \in Keys
    <3>1. songs'[current'] = songs[CurrentOrFirst] /\ current' \in Keys
      BY <2>1, <2>2, ReorderSongs, NewPositionFacts DEF SongKept, Reorder
    <3>2. here' = <<songs[CurrentOrFirst]>>
      BY <1>1, <3>1 DEF Under, here
    <3>3. CASE current # NoKey
      BY <1>1, <2>2, <3>2, <3>3 DEF CurrentOrFirst, Under, here
    <3>4. CASE current = NoKey
      <4>1. before = <<>> /\ here = <<>>
        BY <1>1, <2>1, <3>4, PartsTyped DEF before, here
      <4>2. CurrentOrFirst = Min(Keys) /\ s[1] = songs[Min(Keys)]
        BY <1>1, <2>1, <3>4, FirstOfList DEF CurrentOrFirst
      <4> QED BY <3>2, <4>1, <4>2
    <3> QED BY <3>3, <3>4
  <2>3. CASE CurrentOrFirst \notin Keys
    <3>1. current # NoKey /\ current = CurrentOrFirst /\ current' = current
      BY <2>1, <2>3, CurrentOrFirstFacts DEF Reorder, CurrentOrFirst
    <3>2. here = <<>> /\ here' = <<>>
      BY <1>1, <2>3, <3>1 DEF Under, here
    <3>3. Len(before') = Len(before)
      <4> DEFINE A == {k \in Keys : k < current}
      <4>1. before = InOrder(songs, A) /\ before' = InOrder(songs', A)
        BY <1>1, <3>1 DEF Ahead, before
      <4>2. A \in SUBSET Keys
        OBVIOUS
      <4> HIDE DEF A
      <4>3. IsFiniteSet(A)
        BY <1>1, <4>2, FS_Subset DEF Fine
      <4>4. Len(InOrder(songs, A)) = Cardinality(A)
        BY <1>1, <4>2, <4>3, InOrderTyped DEF Fine
      <4>5. Len(InOrder(songs', A)) = Cardinality(A)
        BY <1>1, <4>2, <4>3, InOrderTyped DEF Fine
      <4> QED BY <4>1, <4>4, <4>5
    <3> QED BY <3>2, <3>3
  <2> QED BY <2>2, <2>3
<1>4. \E i, j \in DOMAIN s : s' = Order!InsertAt(Order!RemoveAt(s, i), j, s[i])
  BY <1>2, SameEdits
<1> QED BY <1>3, <1>4 DEF Order!Rearrange

\* Songs under new ids are behind everything the program still holds.
LEMMA ExtendStep ==
  ASSUME IInv, IInv', current' = current, NEW ss, songs' = Extend(songs, nextId, ss)
  PROVE  Order!Add
<1>1. nextId \in Nat /\ \A m \in Mentioned : m < nextId
  BY DEF IInv, TypeOK, IdsReserved
<1>2. \A k \in Keys : k \in Keys' /\ songs'[k] = songs[k]
  BY DEF Extend, Keys
<1>3. \A n \in Keys' \ Keys : n >= nextId
  BY <1>1 DEF Extend, Keys
<1>4. Keys' \subseteq Nat /\ Mentioned \subseteq Nat
  BY MentionedFacts DEF IInv, TypeOK
<1>5. \A n \in Keys' \ Keys : \A m \in Mentioned : m < n
  BY <1>1, <1>3, <1>4
<1> QED BY <1>2, <1>5, AddStep

LEMMA OrderStep ==
  ASSUME IInv, IInv', Next
  PROVE  Order!Next
<1>1. ASSUME NEW ss \in Batches, AddSongs(ss) \/ AddSongsAfterCurrent(ss)
      PROVE  Order!Add
  BY <1>1, ExtendStep DEF AddSongs, AddSongsAfterCurrent
<1>2. ASSUME NEW ss \in Batches, ReplaceAllSongs(ss)
      PROVE  Order!Load
  BY <1>2, LoadStep DEF ReplaceAllSongs
<1>3. ASSUME NEW ss \in Batches, NEW n \in DOMAIN ss, CrashWhileAdding(ss, n)
      PROVE  Order!Add
  BY <1>3, ExtendStep DEF CrashWhileAdding
<1>4. ASSUME NEW s \in Song, RemoveSong(s)
      PROVE  Order!Drop
  BY <1>4, DropStep
<1>5. ASSUME NEW s \in Song, NEW t \in Song, MoveItem(s, t)
      PROVE  Order!Rearrange
  <2>1. KeyOf(s) \in Keys /\ KeyOf(t) \in Keys
    BY <1>5, KeyOfFacts DEF MoveItem, IInv
  <2> QED BY <1>5, <2>1, RearrangeStep DEF MoveItem
<1>6. ASSUME NEW s \in Song, MoveAfterCurrent(s)
      PROVE  Order!Rearrange \/ Order!GoTo
  <2>1. CASE UNCHANGED songs
    BY <2>1, GoToStep
  <2>2. CASE ~UNCHANGED songs
    <3>1. \E f, t \in Keys : Reorder(f, t)
      <4>1. [Next]_vars
        BY <1>6 DEF Next
      <4>2. DOMAIN songs' = Keys
        BY <1>6, <2>2 DEF MoveAfterCurrent, Reorder, Shifted
      <4> QED BY <2>2, <4>1, <4>2, OnlyMovesShift
    <3> QED BY <3>1, RearrangeStep
  <2> QED BY <2>1, <2>2
<1>7. ASSUME Clear
      PROVE  Order!Load
  BY <1>7, LoadStep DEF Clear
<1>8. ASSUME \/ MoveToNext \/ MoveToPrevious \/ MoveToLast \/ SettleCurrent \/ CycleMode \/ Restart
             \/ \E s \in Song : MoveTo(s)
             \/ \E k \in Keys : SetCurrent(k)
      PROVE  Order!GoTo
  <2>1. UNCHANGED songs
    BY <1>8 DEF MoveToNext, PlayPriority, MoveToPrevious, MoveToLast, SettleCurrent, CycleMode,
                Restart, MoveTo, SetCurrent
  <2> QED BY <2>1, GoToStep
<1> QED BY <1>1, <1>2, <1>3, <1>4, <1>5, <1>6, <1>7, <1>8 DEF Next, Order!Next

\* ImplementsPlayOrder holds for any songs, any length of the queue and any ids: each call
\* of QueueService is one step of the list with a position, or changes nothing of it.
THEOREM PlayOrderKept == Spec => ImplementsPlayOrder
<1>1. Init => Order!Init
  <2> SUFFICES ASSUME Init PROVE Order!Init
    OBVIOUS
  <2>1. songs = <<>> /\ current = NoKey /\ DOMAIN songs = {}
    BY DEF Init
  <2>2. NoKey \notin DOMAIN songs /\ {k \in DOMAIN songs : current # NoKey => k > current} = {}
    BY <2>1
  <2>3. InOrder(songs, {}) = <<>>
    <3>1. InOrder(songs, {}) = [i \in 1..0 |-> songs[Nth({}, i)]]
      BY FS_EmptySet DEF InOrder
    <3> QED BY <3>1
  <2> QED BY <2>1, <2>2, <2>3 DEF Order!Init, Ahead, Under, Beyond
<1>2. IInv /\ IInv' /\ [Next]_vars => [Order!Next]_(Order!vars)
  <2> SUFFICES ASSUME IInv, IInv', [Next]_vars PROVE [Order!Next]_(Order!vars)
    OBVIOUS
  <2>1. CASE Next
    BY <2>1, OrderStep
  <2>2. CASE UNCHANGED vars
    BY <2>2 DEF vars, Order!vars
  <2> QED BY <2>1, <2>2
<1> QED BY <1>1, <1>2, Invariant, PTL DEF Spec, ImplementsPlayOrder, Order!Spec

-----------------------------------------------------------------------------
(* The queue and the playback thread, when an advance and commands overlap *)
(* (QueueRace).                                                            *)

Bound == QueueLen + edits       \* no key or song is greater

Steps == {"Play", "Priority", "Save", "Mode", "Pick", "Set", "Load", "Read", "Finished"}

RaceTyped ==
  /\ edits \in Nat
  /\ Present \subseteq 1..Bound /\ entries \in [Present -> 1..Bound]
  /\ currentKey \in 0..Bound /\ priorityQueue \in Seq(Nat)
  /\ repeat \in {"Sequential", "LoopQueue", "LoopSingle"}
  /\ player \in [at : Steps, pq : Seq(Nat), key : 0..Bound, song : 1..Bound]
  /\ wanted \subseteq 1..Bound /\ crossed \in BOOLEAN

Asks == [at : {"AskSave"}, key : Present, pq : Seq(Nat)]

\* Each entry is written once, and the last write ends the move.
MoveTyped ==
  /\ command \in [at : {"Shift", "Follow"}, writes : Seq(Present \X (1..Bound)),
                  follow : Present \cup {0}, key : Present, next : BOOLEAN]
  /\ command.at = "Shift" <=> command.writes # <<>>
  /\ \A m, n \in DOMAIN command.writes : command.writes[m][1] = command.writes[n][1] => m = n

PlanTyped ==
  /\ command.from \in 1..Cardinality(Present) /\ command.to \in 1..Cardinality(Present)
  /\ command.next \in BOOLEAN

CommandTyped ==
  \/ command = NoCommand
  \/ command.at = "AskRead" /\ command.key \in Present
  \/ command \in Asks
  \/ command.at = "Plan" /\ PlanTyped
  \/ MoveTyped

\* What the move under way has still to write, and the song that stands under a key
\* when it is done.
Writes     == IF Shifting THEN command.writes ELSE <<>>
Pending(k) == \E n \in DOMAIN Writes : Writes[n][1] = k
Due(k, s)  == IF Pending(k) THEN \E n \in DOMAIN Writes : Writes[n] = <<k, s>>
              ELSE k \in Present /\ entries[k] = s

\* The current key when it is done.
Place == IF Shifting /\ command.follow # 0 THEN command.follow ELSE currentKey

\* No song is due under two keys.
DueOnce == \A k, j \in Present, s \in 1..Bound : Due(k, s) /\ Due(j, s) => k = j

\* The song that plays is due under the current key, if it is still queued.
Placed ==
  /\ player.at = "Play" /\ ~crossed =>
       \A k \in Present : Due(k, player.song) => k = Place
  /\ player.at = "Read" /\ ~crossed => player.key = currentKey

\* Where what was asked for is, and what a move has still to write there.
AskedAt == {k \in Present : entries[k] \in wanted}
Sliding == \A n \in DOMAIN Writes :
              Writes[n][2] \in wanted => entries[Writes[n][1]] = Writes[n][2]

\* What was asked for is in every copy of the list that will be written back.
Listed ==
  /\ AskedAt \subseteq ToSet(priorityQueue) /\ Sliding
  /\ command.at = "AskSave" => AskedAt \cup {command.key} \subseteq ToSet(command.pq)
  /\ player.at = "Priority" => AskedAt \subseteq ToSet(player.pq)
  /\ player.at = "Save" => AskedAt \subseteq ToSet(player.pq) \cup {player.key}

Looping ==
  /\ player.at = "Pick" => repeat # "LoopSingle"
  /\ LoopsOn

RaceInv == RaceTyped /\ CommandTyped /\ DueOnce /\ Placed /\ Listed /\ Looping

LEMMA PresentFinite ==
  ASSUME NEW n \in Nat, Present \subseteq 1..n
  PROVE  Present \in SUBSET Nat /\ IsFiniteSet(Present)
<1>1. Present \subseteq 0..n
  OBVIOUS
<1>2. IsFiniteSet(0..n)
  <2>1. 0 \in Int /\ n \in Int
    OBVIOUS
  <2> QED BY ONLY <2>1, FS_Interval
<1>3. IsFiniteSet(Present)
  BY <1>1, <1>2, FS_Subset
<1> QED BY <1>3

\* The places of the keys of the queue.
LEMMA PositionFacts ==
  ASSUME NEW n \in Nat, Present \subseteq 1..n
  PROVE  /\ Cardinality(Present) \in Nat
         /\ \A k \in Present : Position(k) \in 1..Cardinality(Present)
         /\ \A k, j \in Present : Position(k) = Position(j) => k = j
<1>1. \A k : Position(k) = Rank(Present, k)
  BY DEF Position, Rank
<1> QED BY <1>1, PresentFinite, RankFacts

LEMMA KeysInOrderFacts ==
  ASSUME NEW n \in Nat, Present \subseteq 1..n
  PROVE  /\ DOMAIN KeysInOrder = 1..Cardinality(Present)
         /\ \A i \in 1..Cardinality(Present) :
              KeysInOrder[i] \in Present /\ Position(KeysInOrder[i]) = i
         /\ \A k \in Present : KeysInOrder[Position(k)] = k
<1>1. \A k : Position(k) = Rank(Present, k)
  BY DEF Position, Rank
<1>2. /\ DOMAIN KeysInOrder = 1..Cardinality(Present)
      /\ \A i \in 1..Cardinality(Present) : KeysInOrder[i] = Nth(Present, i)
  BY DEF KeysInOrder, Nth, Position
<1>3. /\ \A i \in 1..Cardinality(Present) :
           Nth(Present, i) \in Present /\ Rank(Present, Nth(Present, i)) = i
      /\ \A k \in Present : Rank(Present, k) \in 1..Cardinality(Present) /\ Nth(Present, Rank(Present, k)) = k
  BY PresentFinite, RankFacts, NthFacts
<1> QED BY <1>1, <1>2, <1>3

\* To move a song back undoes the move, and outside the range nothing moves.
LEMMA MovedFacts ==
  ASSUME NEW n \in Nat, NEW f \in 1..n, NEW t \in 1..n, NEW i \in 1..n
  PROVE  /\ Moved(i, f, t) \in 1..n /\ Moved(Moved(i, f, t), t, f) = i
         /\ i < f /\ i < t => Moved(i, f, t) = i
         /\ i > f /\ i > t => Moved(i, f, t) = i
BY DEF Moved

LEMMA SplitFacts ==
  ASSUME NEW s \in Seq(Nat), NEW m \in 1..Len(s)
  PROVE  LET head == SubSeq(s, 1, m - 1)  tail == SubSeq(s, m + 1, Len(s))
         IN /\ head \in Seq(Nat) /\ Len(head) = m - 1
            /\ \A i \in 1..m - 1 : head[i] = s[i]
            /\ tail \in Seq(Nat) /\ Len(tail) = Len(s) - m
            /\ \A i \in 1..Len(s) - m : tail[i] = s[i + m]
<1> DEFINE n == Len(s)  tail == SubSeq(s, m + 1, n)  head == SubSeq(s, 1, m - 1)
<1>1. /\ tail \in Seq(Nat) /\ Len(tail) = n - m
      /\ \A i \in 1..n - m : tail[i] = s[i + m]
  BY SMTT(30)
<1>2. /\ head \in Seq(Nat) /\ Len(head) = m - 1
      /\ \A i \in 1..m - 1 : head[i] = s[i]
  BY SMTT(30)
<1> QED BY <1>1, <1>2

\* What was asked for stays in the list, and the new key is.
LEMMA PromotedFacts ==
  ASSUME NEW pq \in Seq(Nat), NEW k \in Nat
  PROVE  /\ Promoted(pq, k) \in Seq(Nat)
         /\ ToSet(pq) \cup {k} \subseteq ToSet(Promoted(pq, k))
<1> DEFINE at == {i \in DOMAIN pq : pq[i] = k}
           rest == IF at = {} THEN pq ELSE RemoveAt(pq, Min(at))
           r == <<k>> \o rest
<1>1. Promoted(pq, k) = r
  BY DEF Promoted
<1>2. rest \in Seq(Nat) /\ \A i \in DOMAIN pq : pq[i] = k \/ \E j \in 1..Len(rest) : rest[j] = pq[i]
  <2>1. CASE at = {}
    BY <2>1
  <2>2. CASE at # {}
    <3>1. Min(at) \in at
      <4>1. at \in SUBSET Nat
        OBVIOUS
      <4> HIDE DEF at
      <4> QED BY <4>1, <2>2, MinFacts
    <3> DEFINE m == Min(at)  l == Len(pq)
    <3>2. m \in 1..l /\ l \in Nat /\ pq[m] = k /\ DOMAIN pq = 1..l
      BY <3>1
    <3>3. rest = SubSeq(pq, 1, m - 1) \o SubSeq(pq, m + 1, l)
      BY <2>2 DEF RemoveAt
    <3> HIDE DEF m, rest
    <3> DEFINE head == SubSeq(pq, 1, m - 1)  tail == SubSeq(pq, m + 1, l)
    <3>4. /\ head \in Seq(Nat) /\ Len(head) = m - 1
          /\ \A i \in 1..m - 1 : head[i] = pq[i]
      BY <3>2, SplitFacts
    <3>5. /\ tail \in Seq(Nat) /\ Len(tail) = l - m
          /\ \A i \in 1..l - m : tail[i] = pq[i + m]
      BY <3>2, SplitFacts
    <3>6. rest = head \o tail
      BY <3>3
    <3> HIDE DEF head, tail, l
    <3>7. rest \in Seq(Nat) /\ Len(rest) = l - 1
      BY <3>2, <3>4, <3>5, <3>6
    <3>8. \A i \in 1..m - 1 : rest[i] = pq[i]
      BY <3>2, <3>4, <3>5, <3>6
    <3>9. \A i \in 1..l - m : rest[m - 1 + i] = pq[i + m]
      <4>1. ASSUME NEW i \in 1..l - m PROVE rest[m - 1 + i] = tail[i]
        <5>1. m - 1 + i \in 1..Len(head) + Len(tail) /\ m - 1 + i > Len(head) /\ m - 1 + i - Len(head) = i
          BY <3>2, <3>4, <3>5
        <5> QED BY <5>1, <3>4, <3>5, <3>6, ConcatProperties
      <4> QED BY <4>1, <3>5
    <3>10. ASSUME NEW i \in 1..l, pq[i] # k PROVE \E j \in 1..Len(rest) : rest[j] = pq[i]
      <4>1. CASE i < m
        <5>1. i \in 1..m - 1 /\ i \in 1..l - 1
          BY <3>2, <4>1
        <5> QED BY <5>1, <3>7, <3>8
      <4>2. CASE i > m
        <5>1. i - m \in 1..l - m /\ i - 1 \in 1..l - 1 /\ m - 1 + (i - m) = i - 1 /\ (i - m) + m = i
          BY <3>2, <4>2
        <5>2. rest[i - 1] = pq[i]
          BY <5>1, <3>9
        <5> QED BY <5>1, <5>2, <3>7
      <4> QED BY <3>2, <3>10, <4>1, <4>2
    <3> QED BY <3>2, <3>7, <3>10
  <2> QED BY <2>1, <2>2
<1> HIDE DEF rest, at
<1>3. /\ r \in Seq(Nat) /\ Len(r) = Len(rest) + 1 /\ r[1] = k
      /\ \A j \in 1..Len(rest) : r[j + 1] = rest[j]
  BY <1>2
<1> HIDE DEF r
<1>4. 1 \in DOMAIN r /\ \A j \in 1..Len(rest) : j + 1 \in DOMAIN r
  BY <1>2, <1>3
<1>5. k \in ToSet(r)
  BY <1>3, <1>4 DEF ToSet
<1>6. ASSUME NEW i \in DOMAIN pq PROVE pq[i] \in ToSet(r)
  <2>1. CASE pq[i] = k
    BY <2>1, <1>5
  <2>2. CASE pq[i] # k
    <3>1. PICK j \in 1..Len(rest) : rest[j] = pq[i]
      BY <1>2, <2>2
    <3>2. j + 1 \in DOMAIN r /\ r[j + 1] = pq[i]
      BY <1>3, <1>4, <3>1
    <3> QED BY <3>2 DEF ToSet
  <2> QED BY <2>1, <2>2
<1>7. ToSet(pq) \subseteq ToSet(r)
  BY <1>6 DEF ToSet
<1> QED BY <1>1, <1>3, <1>5, <1>7

\* A step of the thread leaves the songs and the command alone.
LEMMA ThreadStep ==
  ASSUME ThreadKeeps, CommandTyped, DueOnce
  PROVE  /\ CommandTyped' /\ DueOnce' /\ (Shifting' <=> Shifting)
         /\ Bound' = Bound /\ Present' = Present /\ Place' = IF Shifting /\ command.follow # 0 THEN command.follow ELSE currentKey'
         /\ \A k, s : Due(k, s)' <=> Due(k, s)
<1>1. command' = command /\ edits' = edits /\ entries' = entries /\ repeat' = repeat
  BY DEF ThreadKeeps
<1>2. Bound' = Bound /\ Present' = Present /\ Writes' = Writes /\ (Shifting' <=> Shifting)
  BY <1>1 DEF Bound, Present, Writes, Shifting
<1>3. \A k, s : Due(k, s)' <=> Due(k, s)
  BY <1>1, <1>2 DEF Due, Pending
<1>4. CommandTyped'
  BY <1>1, <1>2 DEF CommandTyped, Asks, PlanTyped, MoveTyped
<1>5. DueOnce'
  BY <1>2, <1>3 DEF DueOnce
<1> QED BY <1>1, <1>2, <1>3, <1>4, <1>5 DEF Place

LEMMA SongEndsKeeps ==
  ASSUME RaceInv, SongEnds
  PROVE  RaceInv'
<1>1. ThreadKeeps
  BY DEF SongEnds
<1>2. /\ player.at = "Play" /\ player' = [player EXCEPT !.at = "Priority", !.pq = priorityQueue, !.key = 0]
      /\ UNCHANGED <<currentKey, priorityQueue, wanted, crossed, entries, edits, command, repeat>>
  BY <1>1 DEF SongEnds, ThreadKeeps
<1>3. RaceTyped'
  <2>1. 0 \in 0..Bound /\ priorityQueue \in Seq(Nat)
    BY RaceAssumption DEF RaceInv, RaceTyped, Bound
  <2>2. player' \in [at : Steps, pq : Seq(Nat), key : 0..Bound, song : 1..Bound]
    BY <1>2, <2>1 DEF RaceInv, RaceTyped, Steps
  <2> QED BY <1>2, <2>2 DEF RaceInv, RaceTyped, Bound, Present
<1>4. player'.at = "Priority" /\ player'.pq = priorityQueue
  BY <1>2 DEF RaceInv, RaceTyped
<1>5. Placed' /\ Listed' /\ Looping'
  BY <1>2, <1>4 DEF RaceInv, Placed, Listed, Looping, AskedAt, Sliding, Writes, Shifting, LoopsOn, Present
<1> QED BY <1>1, <1>3, <1>5, ThreadStep DEF RaceInv

\* The rest of a list holds what the list held but its head.
LEMMA RestHolds ==
  ASSUME NEW pq \in Seq(Nat), pq # <<>>
  PROVE  /\ Head(pq) \in Nat /\ Tail(pq) \in Seq(Nat)
         /\ ToSet(pq) \subseteq ToSet(Tail(pq)) \cup {Head(pq)}
<1> DEFINE r == Tail(pq)  n == Len(pq)
<1>1. /\ r \in Seq(Nat) /\ n \in Nat /\ n # 0 /\ Len(r) = n - 1 /\ Head(pq) = pq[1] /\ DOMAIN pq = 1..n
      /\ \A i \in 1..n - 1 : r[i] = pq[i + 1]
  OBVIOUS
<1>2. DOMAIN r = 1..n - 1
  BY <1>1
<1> HIDE DEF r, n
<1>3. ASSUME NEW i \in 1..n PROVE pq[i] = Head(pq) \/ \E j \in DOMAIN r : r[j] = pq[i]
  <2>1. CASE i = 1
    BY <2>1, <1>1
  <2>2. CASE i # 1
    <3>1. i - 1 \in 1..n - 1 /\ (i - 1) + 1 = i
      BY <1>1, <2>2
    <3> QED BY <1>1, <1>2, <3>1
  <2> QED BY <2>1, <2>2
<1>4. ToSet(pq) \subseteq ToSet(r) \cup {Head(pq)}
  BY <1>1, <1>3 DEF ToSet
<1>5. Head(pq) \in Nat
  OBVIOUS
<1> QED BY <1>1, <1>4, <1>5 DEF r

LEMMA TakePriorityKeeps ==
  ASSUME RaceInv, TakePriority
  PROVE  RaceInv'
<1>1. ThreadKeeps
  BY DEF TakePriority
<1>2. /\ player.at = "Priority"
      /\ UNCHANGED <<currentKey, priorityQueue, wanted, crossed, entries, edits, command, repeat>>
  BY <1>1 DEF TakePriority, ThreadKeeps
<1>3. player.pq \in Seq(Nat) /\ AskedAt \subseteq ToSet(player.pq) /\ 0 \notin Present
      /\ AskedAt \subseteq Present
  BY <1>2 DEF RaceInv, RaceTyped, Listed, AskedAt
<1>4. /\ player' \in [at : {"Priority", "Save"}, pq : Seq(Nat), key : 0..Bound, song : 1..Bound]
      /\ player'.at = "Priority" => AskedAt \subseteq ToSet(player'.pq)
      /\ player'.at = "Save" => AskedAt \subseteq ToSet(player'.pq) \cup {player'.key}
  <2>1. CASE player.pq = <<>>
    <3>1. player' = [player EXCEPT !.at = "Save"]
      BY <2>1 DEF TakePriority
    <3> QED BY <1>2, <1>3, <3>1 DEF RaceInv, RaceTyped
  <2>2. CASE player.pq # <<>> /\ Head(player.pq) \in Present
    <3>1. player' = [player EXCEPT !.at = "Save", !.pq = Tail(@), !.key = Head(player.pq)]
      BY <2>2 DEF TakePriority
    <3>2. /\ Tail(player.pq) \in Seq(Nat)
          /\ ToSet(player.pq) \subseteq ToSet(Tail(player.pq)) \cup {Head(player.pq)}
      BY <1>3, <2>2, RestHolds
    <3>3. Head(player.pq) \in 0..Bound
      BY <2>2 DEF RaceInv, RaceTyped, Bound
    <3> QED BY <1>2, <1>3, <3>1, <3>2, <3>3 DEF RaceInv, RaceTyped
  <2>3. CASE player.pq # <<>> /\ Head(player.pq) \notin Present
    <3>1. player' = [player EXCEPT !.pq = Tail(@)]
      BY <2>3 DEF TakePriority
    <3>2. /\ Tail(player.pq) \in Seq(Nat)
          /\ ToSet(player.pq) \subseteq ToSet(Tail(player.pq)) \cup {Head(player.pq)}
      BY <1>3, <2>3, RestHolds
    <3> QED BY <1>2, <1>3, <2>3, <3>1, <3>2 DEF RaceInv, RaceTyped
  <2> QED BY <2>1, <2>2, <2>3
<1>5. RaceTyped'
  BY <1>2, <1>4 DEF RaceInv, RaceTyped, Bound, Present, Steps
<1>6. Placed' /\ Listed' /\ Looping'
  BY <1>2, <1>4 DEF RaceInv, Placed, Listed, Looping, AskedAt, Sliding, Writes, Shifting, LoopsOn, Present
<1> QED BY <1>1, <1>5, <1>6, ThreadStep DEF RaceInv

LEMMA SavePriorityKeeps ==
  ASSUME RaceInv, SavePriority
  PROVE  RaceInv'
<1>1. ThreadKeeps
  BY DEF SavePriority
<1>2. /\ player.at = "Save" /\ priorityQueue' = player.pq
      /\ player' = [player EXCEPT !.at = IF player.key = 0 THEN "Mode" ELSE "Set"]
      /\ wanted' = IF command.at = "AskSave" THEN {}
                   ELSE wanted \ {entries[k] : k \in Present \cap {player.key}}
      /\ UNCHANGED <<currentKey, crossed, entries, edits, command, repeat>>
  BY <1>1 DEF SavePriority, ThreadKeeps
<1>3. RaceTyped'
  BY <1>2 DEF RaceInv, RaceTyped, Bound, Present, Steps
<1>4. player'.at \in {"Mode", "Set"}
  BY <1>2 DEF RaceInv, RaceTyped
<1>5. Placed' /\ Looping'
  BY <1>2, <1>4 DEF RaceInv, Placed, Looping, LoopsOn, Present
<1>6. Listed'
  <2>1. wanted' \subseteq wanted /\ Present' = Present /\ Writes' = Writes
    BY <1>2 DEF Present, Writes, Shifting
  <2>2. AskedAt' \subseteq AskedAt /\ player.key \notin AskedAt'
    BY <1>2, <2>1 DEF AskedAt
  <2>3. command.at = "AskSave" => AskedAt' = {}
    BY <1>2 DEF AskedAt
  <2>4. Sliding'
    BY <1>2, <2>1 DEF RaceInv, Listed, Sliding
  <2> QED BY <1>2, <1>4, <2>2, <2>3, <2>4 DEF RaceInv, Listed
<1> QED BY <1>1, <1>3, <1>5, <1>6, ThreadStep DEF RaceInv

LEMMA ReadModeKeeps ==
  ASSUME RaceInv, ReadMode
  PROVE  RaceInv'
<1>1. ThreadKeeps
  BY DEF ReadMode
<1>2. /\ player.at = "Mode"
      /\ player' = [player EXCEPT !.at = IF repeat = "LoopSingle" THEN "Load" ELSE "Pick", !.key = currentKey]
      /\ UNCHANGED <<currentKey, priorityQueue, wanted, crossed, entries, edits, command, repeat>>
  BY <1>1 DEF ReadMode, ThreadKeeps
<1>3. RaceTyped'
  BY <1>2 DEF RaceInv, RaceTyped, Bound, Present, Steps
<1>4. player'.at \in {"Load", "Pick"} /\ (player'.at = "Pick" => repeat # "LoopSingle")
  BY <1>2 DEF RaceInv, RaceTyped
<1>5. Placed' /\ Listed' /\ Looping'
  BY <1>2, <1>4 DEF RaceInv, Placed, Listed, Looping, AskedAt, Sliding, Writes, Shifting, LoopsOn, Present
<1> QED BY <1>1, <1>3, <1>5, ThreadStep DEF RaceInv

LEMMA PickKeeps ==
  ASSUME RaceInv, Pick
  PROVE  RaceInv'
<1>1. ThreadKeeps
  BY DEF Pick
<1>2. /\ player.at = "Pick"
      /\ UNCHANGED <<currentKey, priorityQueue, wanted, crossed, entries, edits, command, repeat>>
  BY <1>1 DEF Pick, ThreadKeeps
<1>3. \A S \in SUBSET Present : S # {} => Min(S) \in 0..Bound
  <2>1. Present \in SUBSET Nat /\ Present \subseteq 0..Bound
    BY DEF RaceInv, RaceTyped, Bound
  <2> HIDE DEF Present
  <2> QED BY <2>1, MinFacts
<1>4. /\ player' \in [at : {"Set", "Finished"}, pq : Seq(Nat), key : 0..Bound, song : 1..Bound]
      /\ player'.at = "Finished" /\ repeat # "Sequential" => player'.key \notin Present
  <2>1. CASE Behind # {}
    <3>1. Behind \subseteq Present
      BY DEF Behind
    <3>2. player' = [player EXCEPT !.at = "Set", !.key = Min(Behind)]
      BY <2>1 DEF Pick
    <3>3. Min(Behind) \in 0..Bound
      BY <1>3, <2>1, <3>1
    <3> QED BY <3>2, <3>3 DEF RaceInv, RaceTyped
  <2>2. CASE Behind = {} /\ repeat = "LoopQueue" /\ Present # {}
    <3>1. player' = [player EXCEPT !.at = "Set", !.key = Min(Present)]
      BY <2>2 DEF Pick
    <3>2. Min(Present) \in 0..Bound
      BY <1>3, <2>2
    <3> QED BY <3>1, <3>2 DEF RaceInv, RaceTyped
  <2>3. CASE Behind = {} /\ ~(repeat = "LoopQueue" /\ Present # {})
    <3>1. player' = [player EXCEPT !.at = "Finished"]
      BY <2>3 DEF Pick
    <3>2. repeat # "Sequential" => Present = {}
      BY <1>2, <2>3 DEF RaceInv, RaceTyped, Looping
    <3> QED BY <3>1, <3>2 DEF RaceInv, RaceTyped
  <2> QED BY <2>1, <2>2, <2>3
<1>5. RaceTyped'
  BY <1>2, <1>4 DEF RaceInv, RaceTyped, Bound, Present, Steps
<1>6. Placed' /\ Listed' /\ Looping'
  BY <1>2, <1>4 DEF RaceInv, Placed, Listed, Looping, AskedAt, Sliding, Writes, Shifting, LoopsOn, Present
<1> QED BY <1>1, <1>5, <1>6, ThreadStep DEF RaceInv

LEMMA SetCurrentKeyKeeps ==
  ASSUME RaceInv, SetCurrentKey
  PROVE  RaceInv'
<1>1. ThreadKeeps
  BY DEF SetCurrentKey
<1>2. /\ player.at = "Set" /\ currentKey' = player.key /\ player' = [player EXCEPT !.at = "Load"]
      /\ UNCHANGED <<priorityQueue, wanted, crossed, entries, edits, command, repeat>>
  BY <1>1 DEF SetCurrentKey, ThreadKeeps
<1>3. RaceTyped'
  BY <1>2 DEF RaceInv, RaceTyped, Bound, Present, Steps
<1>4. player'.at = "Load"
  BY <1>2 DEF RaceInv, RaceTyped
<1>5. Placed' /\ Listed' /\ Looping'
  BY <1>2, <1>4 DEF RaceInv, Placed, Listed, Looping, AskedAt, Sliding, Writes, Shifting, LoopsOn, Present
<1> QED BY <1>1, <1>3, <1>5, ThreadStep DEF RaceInv

LEMMA LoadKeyKeeps ==
  ASSUME RaceInv, LoadKey
  PROVE  RaceInv'
<1>1. ThreadKeeps
  BY DEF LoadKey
<1>2. /\ player.at = "Load" /\ player' = [player EXCEPT !.at = "Read", !.key = currentKey]
      /\ crossed' = Shifting
      /\ UNCHANGED <<currentKey, priorityQueue, wanted, entries, edits, command, repeat>>
  BY <1>1 DEF LoadKey, ThreadKeeps
<1>3. RaceTyped'
  <2>1. crossed' \in BOOLEAN
    BY <1>2 DEF Shifting
  <2>2. player' \in [at : Steps, pq : Seq(Nat), key : 0..Bound, song : 1..Bound]
    BY <1>2 DEF RaceInv, RaceTyped, Steps
  <2> QED BY <1>2, <2>1, <2>2 DEF RaceInv, RaceTyped, Bound, Present
<1>4. player'.at = "Read" /\ player'.key = currentKey
  BY <1>2 DEF RaceInv, RaceTyped
<1>5. Placed' /\ Listed' /\ Looping'
  BY <1>2, <1>4 DEF RaceInv, Placed, Listed, Looping, AskedAt, Sliding, Writes, Shifting, LoopsOn, Present
<1> QED BY <1>1, <1>3, <1>5, ThreadStep DEF RaceInv

LEMMA ReadSongKeeps ==
  ASSUME RaceInv, ReadSong
  PROVE  RaceInv'
<1>1. ThreadKeeps
  BY DEF ReadSong
<1>2. /\ player.at = "Read" /\ crossed' = (crossed \/ Shifting)
      /\ player' = IF player.key \in Present
                 THEN [player EXCEPT !.at = "Play", !.song = entries[player.key]]
                 ELSE [player EXCEPT !.at = "Finished"]
      /\ UNCHANGED <<currentKey, priorityQueue, wanted, entries, edits, command, repeat>>
  BY <1>1 DEF ReadSong, ThreadKeeps
<1>3. /\ player' \in [at : {"Play", "Finished"}, pq : Seq(Nat), key : 0..Bound, song : 1..Bound]
      /\ player'.at = "Finished" => player'.key \notin Present
      /\ player'.at = "Play" => player.key \in Present /\ player'.song = entries[player.key]
  <2>1. CASE player.key \in Present
    <3>1. entries[player.key] \in 1..Bound
      BY <2>1 DEF RaceInv, RaceTyped
    <3> QED BY <1>2, <2>1, <3>1 DEF RaceInv, RaceTyped
  <2>2. CASE player.key \notin Present
    BY <1>2, <2>2 DEF RaceInv, RaceTyped
  <2> QED BY <2>1, <2>2
<1>4. RaceTyped'
  BY <1>2, <1>3 DEF RaceInv, RaceTyped, Bound, Present, Steps, Shifting
<1>5. Listed' /\ Looping'
  BY <1>2, <1>3 DEF RaceInv, Listed, Looping, AskedAt, Sliding, Writes, Shifting, LoopsOn, Present
<1>6. Placed'
  <2>1. player'.at # "Read"
    BY <1>3
  <2>2. ASSUME player'.at = "Play", ~crossed', NEW k \in Present', Due(k, player.song)' PROVE k = Place'
    <3>1. ~Shifting /\ ~crossed
      BY <1>2, <2>2
    <3>2. player.key = currentKey /\ currentKey \in Present /\ player'.song = entries[currentKey]
      BY <1>2, <1>3, <2>2, <3>1 DEF RaceInv, Placed
    <3>3. Place' = currentKey /\ k \in Present
      BY <1>2, <2>2, <3>1 DEF Place, Shifting, Present
    <3>4. Due(currentKey, player'.song) /\ Due(k, player'.song)
      <4>1. Writes = <<>> /\ Writes' = <<>>
        BY <1>2, <3>1 DEF Writes, Shifting
      <4>2. ~Pending(k) /\ ~Pending(k)' /\ ~Pending(currentKey)
        BY <4>1 DEF Pending
      <4>3. k \in Present /\ entries[k] = player'.song
        BY <1>2, <2>2, <4>2 DEF Due, Present
      <4> QED BY <3>2, <4>2, <4>3 DEF Due
    <3>5. player'.song \in 1..Bound
      BY <1>3
    <3> QED BY <3>2, <3>3, <3>4, <3>5 DEF RaceInv, DueOnce
  <2> QED BY <2>1, <2>2 DEF Placed
<1> QED BY <1>1, <1>4, <1>5, <1>6, ThreadStep DEF RaceInv

-----------------------------------------------------------------------------
(* The commands. But for the steps of a move nothing is due but what is    *)
(* there.                                                                  *)

LEMMA DueAtRest ==
  /\ ~Shifting => /\ \A k, s : Due(k, s) <=> k \in Present /\ entries[k] = s
                  /\ Place = currentKey
  /\ ~Shifting' => /\ \A k, s : Due(k, s)' <=> k \in Present' /\ entries'[k] = s
                   /\ Place' = currentKey'
<1>1. ASSUME ~Shifting
      PROVE  /\ \A k, s : Due(k, s) <=> k \in Present /\ entries[k] = s
             /\ Place = currentKey
  <2>1. Writes = <<>> /\ Place = currentKey
    BY <1>1 DEF Writes, Place
  <2> QED BY <2>1 DEF Due, Pending
<1>2. ASSUME ~Shifting'
      PROVE  /\ \A k, s : Due(k, s)' <=> k \in Present' /\ entries'[k] = s
             /\ Place' = currentKey'
  <2>1. Writes' = <<>> /\ Place' = currentKey'
    BY <1>2 DEF Writes, Place
  <2> QED BY <2>1 DEF Due, Pending
<1> QED BY <1>1, <1>2

LEMMA NumbersGrow ==
  ASSUME edits \in Nat, edits' \in {edits, edits + 1}
  PROVE  /\ Bound \in Nat /\ Bound' \in Nat /\ Bound <= Bound'
         /\ 1..Bound \subseteq 1..Bound' /\ 0..Bound \subseteq 0..Bound'
<1>1. Bound = QueueLen + edits /\ Bound' = QueueLen + edits'
  BY DEF Bound
<1>2. QueueLen \in Nat /\ edits \in Nat /\ edits' \in Nat /\ edits <= edits'
  BY RaceAssumption
<1>3. \A a, b \in Nat : a <= b => 1..a \subseteq 1..b /\ 0..a \subseteq 0..b
  OBVIOUS
<1>4. QueueLen + edits \in Nat /\ QueueLen + edits' \in Nat /\ QueueLen + edits <= QueueLen + edits'
  <2>1. \A x, y, z \in Nat : y <= z => x + y \in Nat /\ x + z \in Nat /\ x + y <= x + z
    OBVIOUS
  <2> QED BY <1>2, <2>1
<1>5. Bound \in Nat /\ Bound' \in Nat /\ Bound <= Bound'
  BY <1>1, <1>4
<1> QED BY <1>3, <1>5

LEMMA PlayerTyped ==
  ASSUME RaceTyped, HandlerKeeps, edits' \in {edits, edits + 1}
  PROVE  player' \in [at : Steps, pq : Seq(Nat), key : 0..Bound', song : 1..Bound'] /\ repeat' = repeat
<1> DEFINE a == 1..Bound  b == 1..Bound'  c == 0..Bound  d == 0..Bound'
<1>1. a \subseteq b /\ c \subseteq d
  BY NumbersGrow DEF RaceTyped
<1>2. player \in [at : Steps, pq : Seq(Nat), key : c, song : a] /\ player' = player /\ repeat' = repeat
  BY DEF RaceTyped, HandlerKeeps
<1> HIDE DEF a, b, c, d
<1>3. player' \in [at : Steps, pq : Seq(Nat), key : d, song : b]
  BY <1>1, <1>2
<1> QED BY <1>2, <1>3 DEF b, d

\* Steps that change no entry, and move nothing.
LEMMA RestingStep ==
  ASSUME RaceInv, HandlerKeeps, edits' \in {edits, edits + 1},
         UNCHANGED <<entries, currentKey, crossed>>, ~Shifting, ~Shifting'
  PROVE  DueOnce' /\ Placed' /\ Looping' /\ Present' = Present
<1>1. /\ Present' = Present /\ entries' = entries /\ currentKey' = currentKey /\ crossed' = crossed
      /\ player' = player /\ repeat' = repeat
  BY DEF Present, HandlerKeeps
<1>2. /\ \A k, s : Due(k, s) <=> k \in Present /\ entries[k] = s
      /\ \A k, s : Due(k, s)' <=> k \in Present /\ entries[k] = s
      /\ Place = currentKey /\ Place' = currentKey
  BY <1>1, DueAtRest
<1>3. DueOnce'
  <2>1. \A k \in Present : entries[k] \in 1..Bound
    BY DEF RaceInv, RaceTyped
  <2>2. \A k, j \in Present, s \in 1..Bound : entries[k] = s /\ entries[j] = s => k = j
    BY <1>2 DEF RaceInv, DueOnce
  <2> QED BY <1>1, <1>2, <2>1, <2>2 DEF DueOnce
<1>4. Placed'
  <2>1. player.at = "Play" /\ ~crossed => \A k \in Present : entries[k] = player.song => k = currentKey
    BY <1>2 DEF RaceInv, Placed
  <2>2. ASSUME player'.at = "Play", ~crossed', NEW k \in Present', Due(k, player.song)' PROVE k = Place'
    <3>1. entries[k] = player.song
      BY <1>1, <2>2, DueAtRest
    <3> QED BY <1>1, <1>2, <2>1, <2>2, <3>1
  <2> QED BY <1>1, <2>2 DEF RaceInv, Placed
<1>5. Looping'
  BY <1>1 DEF RaceInv, Looping, LoopsOn
<1> QED BY <1>1, <1>3, <1>4, <1>5

LEMMA SoonKeeps ==
  ASSUME RaceInv, AskRead
  PROVE  RaceInv'
<1>1. /\ HandlerKeeps /\ edits' \in {edits, edits + 1} /\ command.at = "AskRead"
      /\ UNCHANGED <<edits, entries, currentKey, priorityQueue, repeat, wanted, crossed>>
      /\ command' = [at |-> "AskSave", key |-> command.key, pq |-> Promoted(priorityQueue, command.key)]
  BY DEF AskRead, stored
<1>2. ~Shifting /\ ~Shifting'
  BY <1>1 DEF Shifting
<1>3. /\ command.key \in Present /\ command.key \in 1..Bound
      /\ Bound' = Bound /\ Present' = Present
  <2>1. Bound' = Bound /\ Present' = Present
    BY <1>1 DEF Bound, Present
  <2>2. command.key \in Present
    BY <1>1 DEF RaceInv, CommandTyped, NoCommand, Asks, MoveTyped
  <2> QED BY <2>1, <2>2 DEF RaceInv, RaceTyped
<1>4. /\ command'.pq \in Seq(Nat)
      /\ ToSet(priorityQueue) \cup {command'.key} \subseteq ToSet(command'.pq)
  <2>1. command.key \in Nat /\ priorityQueue \in Seq(Nat)
    BY <1>3 DEF RaceInv, RaceTyped
  <2> QED BY <1>1, <2>1, PromotedFacts
<1>5. CommandTyped'
  <2>1. command' \in [at : {"AskSave"}, key : Present', pq : Seq(Nat)]
    BY <1>1, <1>3, <1>4
  <2> QED BY <2>1 DEF CommandTyped, Asks
<1>6. RaceTyped'
  BY <1>1, <1>3, PlayerTyped DEF RaceInv, RaceTyped
<1>7. Listed'
  BY <1>1, <1>2, <1>3, <1>4 DEF RaceInv, Listed, AskedAt, Sliding, Writes, HandlerKeeps
<1> QED BY <1>1, <1>2, <1>5, <1>6, <1>7, RestingStep DEF RaceInv

LEMMA AskKeeps ==
  ASSUME RaceInv, AskSave
  PROVE  RaceInv'
<1>1. /\ HandlerKeeps /\ edits' \in {edits, edits + 1} /\ command.at = "AskSave"
      /\ UNCHANGED <<edits, entries, currentKey, repeat, crossed>>
      /\ priorityQueue' = command.pq /\ command' = NoCommand
      /\ wanted' = IF Advancing THEN {} ELSE wanted \cup {entries[command.key]}
  BY DEF AskSave, HandlerKeeps
<1>2. ~Shifting /\ ~Shifting'
  BY <1>1 DEF Shifting, NoCommand
<1>3. command \in Asks /\ Bound' = Bound /\ Present' = Present
  BY <1>1 DEF RaceInv, CommandTyped, NoCommand, MoveTyped, Bound, Present
<1>4. CommandTyped'
  BY <1>1 DEF CommandTyped
<1>5. RaceTyped'
  BY <1>1, <1>3, PlayerTyped DEF RaceInv, RaceTyped, Asks
<1>6. Listed'
  <2>1. \A k, j \in Present : entries[k] = entries[j] => k = j
    <3>1. \A k \in Present : entries[k] \in 1..Bound
      BY DEF RaceInv, RaceTyped
    <3> QED BY <1>2, <3>1, DueAtRest DEF RaceInv, DueOnce
  <2>2. AskedAt' \subseteq AskedAt \cup {command.key} /\ (Advancing => AskedAt' = {})
    BY <1>1, <1>3, <2>1 DEF AskedAt, Asks
  <2>3. Sliding'
    BY <1>2 DEF Sliding, Writes
  <2> QED BY <1>1, <1>3, <2>2, <2>3 DEF RaceInv, Listed, HandlerKeeps, NoCommand, Advancing
<1> QED BY <1>1, <1>2, <1>4, <1>5, <1>6, RestingStep DEF RaceInv

LEMMA PositionOfCurrent ==
  ASSUME RaceTyped
  PROVE  /\ Cardinality(Present) \in Nat
         /\ currentKey \in Present => Position(currentKey) \in 1..Cardinality(Present)
<1>1. Bound \in Nat /\ Present \subseteq 1..Bound
  BY RaceAssumption DEF RaceTyped, Bound
<1> QED BY <1>1, PositionFacts

LEMMA MoveKeeps ==
  ASSUME RaceInv, MoveItemByIndex \/ MoveItemAfterCurrent
  PROVE  RaceInv'
<1>1. /\ HandlerKeeps /\ edits' = edits + 1 /\ command = NoCommand
      /\ UNCHANGED <<entries, currentKey, priorityQueue, repeat, wanted, crossed>>
  BY DEF MoveItemByIndex, MoveItemAfterCurrent, stored, Given
<1>2. Cardinality(Present) \in Nat
  BY PositionOfCurrent DEF RaceInv
<1>3. \E f, t \in 1..Cardinality(Present), b \in BOOLEAN :
        command' = [at |-> "Plan", from |-> f, to |-> t, next |-> b]
  <2>1. CASE MoveItemByIndex
    BY <2>1 DEF MoveItemByIndex
  <2>2. CASE MoveItemAfterCurrent
    <3> DEFINE here == IF currentKey \in Present THEN Position(currentKey) ELSE 1
    <3>1. PICK f \in 1..Cardinality(Present) \ {here, here + 1} :
            command' = [at |-> "Plan", from |-> f, to |-> IF f < here THEN here ELSE here + 1,
                        next |-> TRUE]
      BY <2>2 DEF MoveItemAfterCurrent
    <3>2. here \in 1..Cardinality(Present)
      BY <1>2, <3>1, PositionOfCurrent DEF RaceInv
    <3> HIDE DEF here
    <3>3. (IF f < here THEN here ELSE here + 1) \in 1..Cardinality(Present)
      BY <1>2, <3>1, <3>2
    <3> QED BY <3>1, <3>3
  <2> QED BY <2>1, <2>2
<1>4. PICK f \in 1..Cardinality(Present), t \in 1..Cardinality(Present), b \in BOOLEAN :
        command' = [at |-> "Plan", from |-> f, to |-> t, next |-> b]
  BY <1>3
<1>5. ~Shifting /\ ~Shifting' /\ Present' = Present
  BY <1>1, <1>4 DEF Shifting, NoCommand, Present
<1>6. CommandTyped'
  BY <1>4, <1>5 DEF CommandTyped, PlanTyped
<1>7. RaceTyped'
  <2>1. 1..Bound \subseteq 1..Bound' /\ 0..Bound \subseteq 0..Bound' /\ edits' \in Nat
    BY <1>1, NumbersGrow DEF RaceInv, RaceTyped
  <2> QED BY <1>1, <1>5, <2>1, PlayerTyped DEF RaceInv, RaceTyped
<1>8. Listed'
  BY <1>1, <1>4, <1>5 DEF RaceInv, Listed, AskedAt, Sliding, Writes, HandlerKeeps
<1> QED BY <1>1, <1>5, <1>6, <1>7, <1>8, RestingStep DEF RaceInv

\* A new song is none that was known, under a key that nobody knows.
LEMMA AddKeeps ==
  ASSUME RaceInv, AddSong \/ AddSongAfterCurrent
  PROVE  RaceInv'
<1>1. /\ HandlerKeeps /\ edits' = edits + 1 /\ command = NoCommand
      /\ UNCHANGED <<currentKey, priorityQueue, repeat, wanted, crossed>>
      /\ entries' = [k \in Present \cup {NewKey} |-> IF k = NewKey THEN k ELSE entries[k]]
      /\ command' = NoCommand \/ command' = [at |-> "AskRead", key |-> NewKey]
  BY DEF AddSong, AddSongAfterCurrent, HandlerKeeps, Given
<1>2. edits \in Nat /\ Present \subseteq 1..Bound /\ entries \in [Present -> 1..Bound]
  BY DEF RaceInv, RaceTyped
<1>3. /\ Bound \in Nat /\ Bound' \in Nat /\ NewKey = Bound + 1 /\ Bound' = Bound + 1
      /\ NewKey \in 1..Bound' /\ NewKey \notin 0..Bound
      /\ 1..Bound \subseteq 1..Bound' /\ 0..Bound \subseteq 0..Bound' /\ 1..Bound \subseteq 0..Bound
  <2>1. QueueLen \in Nat
    BY RaceAssumption
  <2>2. NewKey = Bound + 1 /\ Bound' = Bound + 1 /\ Bound \in Nat
    BY <1>1, <1>2, <2>1 DEF NewKey, Bound
  <2> QED BY <1>1, <1>2, <2>2, NumbersGrow
<1> DEFINE a == 1..Bound  b == 1..Bound'  c == 0..Bound  d == 0..Bound'
<1>4. /\ NewKey \in b /\ NewKey \notin c /\ NewKey \notin a /\ a \subseteq b /\ c \subseteq d
      /\ Present \subseteq a /\ entries \in [Present -> a]
  BY <1>2, <1>3
<1>5. ~Shifting /\ ~Shifting'
  BY <1>1 DEF Shifting, NoCommand
<1>6. player \in [at : Steps, pq : Seq(Nat), key : c, song : a] /\ wanted \subseteq a /\ currentKey \in c
  BY DEF RaceInv, RaceTyped
<1> HIDE DEF a, b, c, d
<1>7. /\ Present' = Present \cup {NewKey} /\ NewKey \notin Present
      /\ entries'[NewKey] = NewKey /\ \A k \in Present : entries'[k] = entries[k] /\ entries[k] \in a
  BY <1>1, <1>4 DEF Present
<1>8. RaceTyped'
  <2>1. Present' \subseteq b /\ entries' \in [Present' -> b]
    BY <1>1, <1>4, <1>7
  <2>2. edits' \in Nat
    BY <1>1, <1>2
  <2>3. wanted' \subseteq b /\ currentKey' \in d
    BY <1>1, <1>4, <1>6
  <2> QED BY <1>1, <2>1, <2>2, <2>3, PlayerTyped DEF RaceInv, RaceTyped, b, d
<1>9. CommandTyped'
  BY <1>1, <1>7 DEF CommandTyped
<1>10. \A k, s : Due(k, s) <=> k \in Present /\ entries[k] = s
  BY <1>5, DueAtRest
<1>11. \A k, s : Due(k, s)' <=> k \in Present' /\ entries'[k] = s
  BY <1>5, DueAtRest
<1>12. Place = currentKey /\ Place' = currentKey
  BY <1>1, <1>5, DueAtRest
<1>13. \A k, j \in Present : entries[k] = entries[j] => k = j
  BY <1>7, <1>10 DEF RaceInv, DueOnce, a
<1>14. DueOnce'
  <2>1. \A k, j \in Present' : entries'[k] = entries'[j] => k = j
    BY <1>4, <1>7, <1>13
  <2> QED BY <1>11, <2>1 DEF DueOnce
<1>15. Placed'
  <2>1. player.at = "Play" /\ ~crossed => \A k \in Present : entries[k] = player.song => k = currentKey
    BY <1>10, <1>12 DEF RaceInv, Placed
  <2>2. player' = player /\ player.song \in a
    BY <1>1, <1>6 DEF HandlerKeeps
  <2>3. ASSUME player'.at = "Play", ~crossed', NEW k \in Present', Due(k, player.song)' PROVE k = Place'
    <3>1. entries'[k] = player.song
      BY <2>2, <2>3, <1>5, DueAtRest
    <3>2. k \in Present
      BY <1>4, <1>7, <2>2, <2>3, <3>1
    <3> QED BY <1>1, <1>7, <1>12, <2>1, <2>2, <2>3, <3>1, <3>2
  <2> QED BY <1>1, <2>2, <2>3 DEF RaceInv, Placed
<1>16. Listed'
  <2>1. AskedAt' = AskedAt
    BY <1>1, <1>4, <1>6, <1>7 DEF AskedAt
  <2>2. player' = player
    BY <1>1 DEF HandlerKeeps
  <2>3. Sliding'
    BY <1>5 DEF Sliding, Writes
  <2> QED BY <1>1, <2>1, <2>2, <2>3 DEF RaceInv, Listed, NoCommand
<1>17. Looping'
  <2>1. player' = player /\ repeat' = repeat /\ player.key \in c
    BY <1>1, <1>6 DEF HandlerKeeps
  <2> QED BY <1>4, <1>7, <2>1 DEF RaceInv, Looping, LoopsOn
<1> QED BY <1>8, <1>9, <1>14, <1>15, <1>16, <1>17 DEF RaceInv

LEMMA RemoveKeeps ==
  ASSUME RaceInv, RemoveItem
  PROVE  RaceInv'
<1>1. /\ HandlerKeeps /\ edits' = edits + 1 /\ command = NoCommand /\ command' = NoCommand
      /\ UNCHANGED <<currentKey, priorityQueue, repeat, wanted, crossed>>
      /\ \E k \in Present : entries' = [j \in Present \ {k} |-> entries[j]]
  BY DEF RemoveItem, HandlerKeeps, Given
<1>2. Present' \subseteq Present /\ \A k \in Present' : entries'[k] = entries[k]
  BY <1>1 DEF Present
<1>3. ~Shifting /\ ~Shifting'
  BY <1>1 DEF Shifting, NoCommand
<1>4. edits \in Nat /\ Present \subseteq 1..Bound /\ entries \in [Present -> 1..Bound]
  BY DEF RaceInv, RaceTyped
<1>5. 1..Bound \subseteq 1..Bound' /\ 0..Bound \subseteq 0..Bound' /\ edits' \in Nat
  BY <1>1, <1>4, NumbersGrow
<1>6. RaceTyped'
  <2>1. Present' \subseteq 1..Bound'
    BY <1>2, <1>4, <1>5
  <2>2. entries' \in [Present' -> 1..Bound']
    BY <1>1, <1>2, <1>4, <1>5 DEF Present
  <2>3. wanted' \subseteq 1..Bound' /\ currentKey' \in 0..Bound'
    BY <1>1, <1>5 DEF RaceInv, RaceTyped
  <2> QED BY <1>1, <1>5, <2>1, <2>2, <2>3, PlayerTyped DEF RaceInv, RaceTyped
<1>7. CommandTyped'
  BY <1>1 DEF CommandTyped
<1>8. \A k, s : Due(k, s) <=> k \in Present /\ entries[k] = s
  BY <1>3, DueAtRest
<1>9. \A k, s : Due(k, s)' <=> k \in Present' /\ entries'[k] = s
  BY <1>3, DueAtRest
<1>10. Place = currentKey /\ Place' = currentKey
  BY <1>1, <1>3, DueAtRest
<1>11. \A k, j \in Present : entries[k] = entries[j] => k = j
  BY <1>4, <1>8 DEF RaceInv, DueOnce
<1>12. DueOnce'
  <2>1. \A k, j \in Present' : entries'[k] = entries'[j] => k = j
    BY <1>2, <1>11
  <2> QED BY <1>9, <2>1 DEF DueOnce
<1>13. Placed'
  <2>1. player.at = "Play" /\ ~crossed => \A k \in Present : entries[k] = player.song => k = currentKey
    BY <1>8, <1>10 DEF RaceInv, Placed
  <2>2. player' = player
    BY <1>1 DEF HandlerKeeps
  <2>3. ASSUME player'.at = "Play", ~crossed', NEW k \in Present', Due(k, player.song)' PROVE k = Place'
    <3>1. entries'[k] = player.song
      BY <2>2, <2>3, <1>3, DueAtRest
    <3> QED BY <1>1, <1>2, <1>10, <2>1, <2>2, <2>3, <3>1
  <2> QED BY <1>1, <2>2, <2>3 DEF RaceInv, Placed
<1>14. Listed'
  <2>1. player' = player
    BY <1>1 DEF HandlerKeeps
  <2>2. AskedAt' \subseteq AskedAt
    BY <1>1, <1>2 DEF AskedAt
  <2>3. Sliding'
    BY <1>3 DEF Sliding, Writes
  <2> QED BY <1>1, <2>1, <2>2, <2>3 DEF RaceInv, Listed, NoCommand
<1>15. Looping'
  <2>1. player' = player /\ repeat' = repeat
    BY <1>1 DEF HandlerKeeps
  <2> QED BY <1>2, <2>1 DEF RaceInv, Looping, LoopsOn
<1> QED BY <1>6, <1>7, <1>12, <1>13, <1>14, <1>15 DEF RaceInv

LEMMA FollowKeeps ==
  ASSUME RaceInv, Follow
  PROVE  RaceInv'
<1>1. /\ HandlerKeeps /\ edits' \in {edits, edits + 1} /\ command.at = "Follow" /\ Moves(command.key)
      /\ currentKey' = IF command.follow = 0 THEN currentKey ELSE command.follow
      /\ crossed' = (crossed \/ player.at = "Read")
      /\ UNCHANGED <<edits, entries, priorityQueue, repeat, wanted>>
      /\ player' = player /\ repeat' = repeat
  BY DEF Follow, HandlerKeeps
<1>2. MoveTyped
  BY <1>1 DEF RaceInv, CommandTyped, NoCommand, Asks
<1>3. /\ command.writes = <<>> /\ command.follow \in Present \cup {0} /\ command.key \in Present
      /\ command' = NoCommand \/ command' = [at |-> "AskRead", key |-> command.key]
  BY <1>1, <1>2 DEF MoveTyped, Moves
<1>4. Shifting /\ ~Shifting' /\ Bound' = Bound /\ Present' = Present /\ entries' = entries
  BY <1>1, <1>3 DEF Shifting, NoCommand, Bound, Present
<1>5. \A k, s : Due(k, s) <=> k \in Present /\ entries[k] = s
  <2>1. Writes = <<>>
    BY <1>3, <1>4 DEF Writes
  <2> QED BY <2>1 DEF Due, Pending
<1>6. \A k, s : Due(k, s)' <=> k \in Present /\ entries[k] = s
  BY <1>4, DueAtRest
<1>7. Place' = Place
  <2>1. Place' = currentKey'
    BY <1>4, DueAtRest
  <2> QED BY <1>1, <1>4, <2>1 DEF Place
<1>8. Present \subseteq 1..Bound /\ Present \subseteq 0..Bound /\ currentKey \in 0..Bound
  BY DEF RaceInv, RaceTyped, Bound
<1>9. RaceTyped'
  <2>1. currentKey' \in 0..Bound'
    BY <1>1, <1>3, <1>4, <1>8
  <2>2. crossed' \in BOOLEAN
    BY <1>1
  <2> QED BY <1>1, <1>4, <2>1, <2>2, PlayerTyped DEF RaceInv, RaceTyped
<1>10. CommandTyped'
  <2>1. command' = NoCommand \/ (command'.at = "AskRead" /\ command'.key \in Present')
    BY <1>3, <1>4
  <2> QED BY <2>1 DEF CommandTyped
<1>11. DueOnce'
  BY <1>4, <1>5, <1>6 DEF RaceInv, DueOnce
<1>12. Placed'
  <2>1. ASSUME player'.at = "Play", ~crossed', NEW k \in Present', Due(k, player.song)' PROVE k = Place'
    <3>1. k \in Present /\ entries[k] = player.song
      BY <1>1, <1>4, <2>1, DueAtRest
    <3> QED BY <1>1, <1>5, <1>7, <2>1, <3>1 DEF RaceInv, Placed
  <2> QED BY <1>1, <2>1 DEF Placed
<1>13. Listed' /\ Looping'
  BY <1>1, <1>3, <1>4 DEF RaceInv, Listed, AskedAt, Sliding, Writes, Looping, LoopsOn, NoCommand
<1> QED BY <1>9, <1>10, <1>11, <1>12, <1>13 DEF RaceInv

\* A write changes nothing that is due.
LEMMA ShiftKeeps ==
  ASSUME RaceInv, Shift
  PROVE  RaceInv'
<1> DEFINE w == command.writes  r == Tail(w)
<1>1. /\ HandlerKeeps /\ edits' \in {edits, edits + 1} /\ command.at = "Shift"
      /\ entries' = [entries EXCEPT ![Head(w)[1]] = Head(w)[2]]
      /\ command' = [command EXCEPT !.writes = r, !.at = IF Len(w) = 1 THEN "Follow" ELSE "Shift"]
      /\ UNCHANGED <<edits, currentKey, priorityQueue, repeat, wanted, crossed>>
      /\ player' = player /\ repeat' = repeat
  BY DEF Shift, HandlerKeeps
<1>2. MoveTyped
  BY <1>1 DEF RaceInv, CommandTyped, NoCommand, Asks
<1>3. /\ w \in Seq(Present \X (1..Bound)) /\ w # <<>>
      /\ \A m, n \in DOMAIN w : w[m][1] = w[n][1] => m = n
      /\ command.follow \in Present \cup {0} /\ command.key \in Present /\ command.next \in BOOLEAN
  BY <1>1, <1>2 DEF MoveTyped
<1>4. /\ command'.at \in {"Shift", "Follow"} /\ command'.writes = r
      /\ command'.follow = command.follow /\ command'.key = command.key /\ command'.next = command.next
      /\ command'.at = "Follow" <=> Len(w) = 1
  BY <1>1, <1>2 DEF MoveTyped
<1> DEFINE T == Present \X (1..Bound)
<1>5. w \in Seq(T) /\ w # <<>>
  BY <1>3
<1> HIDE DEF T, w
<1>6. /\ Len(w) \in Nat /\ Len(w) # 0 /\ DOMAIN w = 1..Len(w) /\ Head(w) = w[1] /\ Head(w) \in T
      /\ r \in Seq(T) /\ Len(r) = Len(w) - 1 /\ \A n \in 1..Len(w) - 1 : r[n] = w[n + 1]
      /\ \A n \in 1..Len(w) : w[n] \in T
  BY <1>5
<1> HIDE DEF r
<1>7. DOMAIN r = 1..Len(w) - 1 /\ (r = <<>> <=> Len(w) = 1)
  <2>1. DOMAIN r = 1..Len(r) /\ (r = <<>> <=> Len(r) = 0)
    BY <1>6
  <2> QED BY <1>6, <2>1
<1> DEFINE k0 == w[1][1]  s0 == w[1][2]
<1>8. /\ k0 \in Present /\ s0 \in 1..Bound /\ w[1] = <<k0, s0>>
      /\ entries' = [entries EXCEPT ![k0] = s0]
  <2>1. w[1] \in T
    BY <1>6
  <2> QED BY <1>1, <1>6, <2>1 DEF T, w
<1>9. entries \in [Present -> 1..Bound] /\ Present \subseteq 1..Bound
  BY DEF RaceInv, RaceTyped
<1> HIDE DEF k0, s0
<1>10. /\ Present' = Present /\ entries' \in [Present -> 1..Bound] /\ entries'[k0] = s0
       /\ \A k \in Present : k # k0 => entries'[k] = entries[k]
  BY <1>8, <1>9 DEF Present
<1>11. Shifting /\ Shifting' /\ Writes = w /\ Writes' = r /\ Bound' = Bound
  BY <1>1, <1>4 DEF Shifting, Writes, Bound, w
<1>12. Place' = Place
  BY <1>1, <1>4, <1>11 DEF Place
<1>13. \A n \in DOMAIN w : n # 1 => n - 1 \in DOMAIN r /\ r[n - 1] = w[n] /\ w[n][1] # k0
  <2>1. ASSUME NEW n \in DOMAIN w, n # 1 PROVE n - 1 \in DOMAIN r /\ r[n - 1] = w[n] /\ w[n][1] # k0
    <3>1. n - 1 \in 1..Len(w) - 1 /\ (n - 1) + 1 = n /\ 1 \in DOMAIN w
      BY <1>6, <2>1
    <3>2. r[n - 1] = w[n]
      BY <3>1, <1>6
    <3>3. w[n][1] # w[1][1]
      BY <3>1, <2>1, <1>3 DEF w
    <3> QED BY <3>1, <3>2, <3>3, <1>7 DEF k0
  <2> QED BY <2>1
<1>14. \A n \in DOMAIN r : n + 1 \in DOMAIN w /\ n + 1 # 1 /\ r[n] = w[n + 1]
  <2>1. ASSUME NEW n \in 1..Len(w) - 1 PROVE n + 1 \in 1..Len(w) /\ n + 1 # 1 /\ r[n] = w[n + 1]
    BY <1>6
  <2> QED BY <1>6, <1>7, <2>1
<1>15. 1 \in DOMAIN w
  BY <1>6
<1>16. ASSUME NEW k \in Present, NEW s
       PROVE  Due(k, s)' <=> Due(k, s)
  <2>1. CASE k = k0
    <3>1. Pending(k)
      BY <1>11, <1>15, <2>1 DEF Pending, k0
    <3>2. ~Pending(k)'
      BY <1>11, <1>13, <1>14, <2>1 DEF Pending
    <3>3. (\E n \in DOMAIN w : w[n] = <<k, s>>) <=> s = s0
      <4>1. ASSUME NEW n \in DOMAIN w, w[n] = <<k, s>> PROVE n = 1
        BY <1>13, <2>1, <4>1
      <4>2. w[1] = <<k, s>> <=> s = s0
        BY <1>8, <2>1
      <4> QED BY <4>1, <4>2, <1>15
    <3> QED BY <1>10, <1>11, <2>1, <3>1, <3>2, <3>3 DEF Due
  <2>2. CASE k # k0
    <3>1. Pending(k)' <=> Pending(k)
      <4>1. ASSUME NEW n \in DOMAIN w, w[n][1] = k PROVE \E m \in DOMAIN r : r[m][1] = k
        <5>1. n # 1
          BY <2>2, <4>1 DEF k0
        <5> QED BY <5>1, <4>1, <1>13
      <4>2. ASSUME NEW n \in DOMAIN r, r[n][1] = k PROVE \E m \in DOMAIN w : w[m][1] = k
        BY <4>2, <1>14
      <4> QED BY <4>1, <4>2, <1>11 DEF Pending
    <3>2. (\E n \in DOMAIN w : w[n] = <<k, s>>) <=> (\E n \in DOMAIN r : r[n] = <<k, s>>)
      <4>1. ASSUME NEW n \in DOMAIN w, w[n] = <<k, s>> PROVE \E m \in DOMAIN r : r[m] = <<k, s>>
        <5>1. n # 1
          BY <1>8, <2>2, <4>1
        <5> QED BY <5>1, <4>1, <1>13
      <4>2. ASSUME NEW n \in DOMAIN r, r[n] = <<k, s>> PROVE \E m \in DOMAIN w : w[m] = <<k, s>>
        BY <4>2, <1>14
      <4> QED BY <4>1, <4>2
    <3> QED BY <1>10, <1>11, <2>2, <3>1, <3>2 DEF Due
  <2> QED BY <2>1, <2>2
<1>17. RaceTyped'
  BY <1>1, <1>10, <1>11, PlayerTyped DEF RaceInv, RaceTyped
<1>18. CommandTyped'
  <2>1. command' \in [at : {"Shift", "Follow"}, writes : Seq(Present \X (1..Bound)),
                  follow : Present \cup {0}, key : Present, next : BOOLEAN]
    <3>1. r \in Seq(Present \X (1..Bound))
      BY <1>6 DEF T
    <3> QED BY <1>1, <1>2, <3>1 DEF MoveTyped
  <2>2. command'.at = "Shift" <=> command'.writes # <<>>
    BY <1>4, <1>7
  <2>3. \A m, n \in DOMAIN r : r[m][1] = r[n][1] => m = n
    <3>1. ASSUME NEW m \in DOMAIN r, NEW n \in DOMAIN r, r[m][1] = r[n][1] PROVE m = n
      <4>1. m + 1 = n + 1
        BY <1>3, <1>14, <3>1 DEF w
      <4>2. m \in Nat /\ n \in Nat
        BY <1>6, <1>7
      <4> QED BY <4>1, <4>2
    <3> QED BY <3>1
  <2> QED BY <1>4, <1>10, <1>11, <2>1, <2>2, <2>3 DEF CommandTyped, MoveTyped
<1>19. DueOnce'
  BY <1>10, <1>11, <1>16 DEF RaceInv, DueOnce
<1>20. Placed'
  <2>1. ASSUME player'.at = "Play", ~crossed', NEW k \in Present', Due(k, player.song)' PROVE k = Place'
    <3>1. k \in Present
      BY <1>10, <2>1
    <3>2. Due(k, player.song)
      <4>1. \A s : s = player.song => (Due(k, player.song)' => Due(k, s)')
        BY <1>1 DEF Due
      <4> QED BY <4>1, <1>16, <2>1, <3>1
    <3> QED BY <1>1, <1>12, <2>1, <3>1, <3>2 DEF RaceInv, Placed
  <2> QED BY <1>1, <2>1 DEF RaceInv, Placed
<1>21. Listed'
  <2>1. \A n \in DOMAIN w : w[n][2] \in wanted => entries[w[n][1]] = w[n][2]
    BY <1>11 DEF RaceInv, Listed, Sliding
  <2>2. Sliding'
    <3>1. ASSUME NEW n \in DOMAIN r, r[n][2] \in wanted PROVE entries'[r[n][1]] = r[n][2]
      <4>1. n + 1 \in DOMAIN w /\ n + 1 # 1 /\ r[n] = w[n + 1]
        BY <1>14
      <4>2. w[n + 1][1] \in Present /\ w[n + 1][1] # k0
        <5>1. w[n + 1] \in T
          BY <1>6, <4>1
        <5> QED BY <1>13, <4>1, <5>1 DEF T
      <4>3. entries[w[n + 1][1]] = w[n + 1][2]
        BY <2>1, <3>1, <4>1
      <4> QED BY <1>10, <4>1, <4>2, <4>3
    <3> QED BY <1>1, <1>11, <3>1 DEF Sliding
  <2>3. AskedAt' \subseteq AskedAt
    <3>1. s0 \in wanted => entries[k0] = s0
      BY <1>8, <1>15, <2>1
    <3> QED BY <1>1, <1>8, <1>10, <3>1 DEF AskedAt
  <2> QED BY <1>1, <1>4, <2>2, <2>3 DEF RaceInv, Listed
<1>22. Looping'
  BY <1>1, <1>4, <1>10 DEF RaceInv, Looping, LoopsOn
<1> QED BY <1>17, <1>18, <1>19, <1>20, <1>21, <1>22 DEF RaceInv

LEMMA LeastOfTwo ==
  ASSUME NEW f \in Nat, NEW t \in Nat
  PROVE  /\ Min({f, t}) = IF f <= t THEN f ELSE t
         /\ Max({f, t}) = IF f <= t THEN t ELSE f
<1> DEFINE S == {f, t}  b == f + t
<1>1. S \in SUBSET Nat /\ S # {} /\ b \in Nat /\ \A j \in S : j <= b
  OBVIOUS
<1>2. \A j : j \in S <=> j = f \/ j = t
  OBVIOUS
<1> HIDE DEF S, b
<1>3. Min(S) \in S /\ \A j \in S : Min(S) <= j
  BY <1>1, MinFacts
<1>4. Max(S) \in S /\ \A j \in S : Max(S) >= j
  BY <1>1, MaxFacts
<1>5. Min(S) = IF f <= t THEN f ELSE t
  BY <1>2, <1>3
<1>6. Max(S) = IF f <= t THEN t ELSE f
  BY <1>2, <1>4
<1> QED BY <1>5, <1>6 DEF S

\* When a move is planned, the songs of all keys of the range have their new keys, and
\* the current one is among them.
LEMMA PlanKeeps ==
  ASSUME RaceInv, Plan
  PROVE  RaceInv'
<1> DEFINE f == command.from  t == command.to  c == Cardinality(Present)  K == KeysInOrder
           lo == Min({f, t})  hi == Max({f, t})
           song == [i \in DOMAIN K |-> entries[K[Moved(i, t, f)]]]
           here == IF currentKey \in Present THEN Position(currentKey) ELSE 0
           W == [n \in 1..(hi - lo + 1) |-> <<K[lo + n - 1], song[lo + n - 1]>>]
           follow == IF here = 0 \/ Moved(here, f, t) = here THEN 0 ELSE K[Moved(here, f, t)]
<1>1. /\ command' = [at |-> "Shift", writes |-> W, follow |-> follow, key |-> K[t], next |-> command.next]
      /\ HandlerKeeps /\ edits' \in {edits, edits + 1} /\ command.at = "Plan"
      /\ UNCHANGED <<edits, entries, currentKey, priorityQueue, repeat, crossed>>
      /\ player' = player /\ repeat' = repeat
      /\ wanted' = IF f = t THEN wanted ELSE wanted \ {song[i] : i \in lo..hi}
  BY DEF Plan, HandlerKeeps, stored
<1>2. f \in 1..c /\ t \in 1..c /\ command.next \in BOOLEAN
  BY <1>1 DEF RaceInv, CommandTyped, NoCommand, Asks, MoveTyped, PlanTyped
<1>3. Present \subseteq 1..Bound /\ entries \in [Present -> 1..Bound] /\ currentKey \in 0..Bound
  BY DEF RaceInv, RaceTyped
<1>4. Bound \in Nat /\ c \in Nat
  BY PositionOfCurrent, NumbersGrow, <1>1 DEF RaceInv, RaceTyped
<1>5. /\ DOMAIN K = 1..c
      /\ \A i \in 1..c : K[i] \in Present /\ Position(K[i]) = i
      /\ \A k \in Present : Position(k) \in 1..c /\ K[Position(k)] = k
  BY <1>3, <1>4, KeysInOrderFacts, PositionFacts
<1>6. /\ lo \in 1..c /\ hi \in 1..c /\ lo <= hi
      /\ lo = (IF f <= t THEN f ELSE t) /\ hi = IF f <= t THEN t ELSE f
  BY <1>2, <1>4, LeastOfTwo
<1> HIDE DEF c, K, f, t, lo, hi
<1>7. \A i \in 1..c : /\ Moved(i, f, t) \in 1..c /\ Moved(Moved(i, f, t), t, f) = i
                      /\ Moved(i, t, f) \in 1..c /\ Moved(Moved(i, t, f), f, t) = i
                      /\ ~(lo <= i /\ i <= hi) => Moved(i, t, f) = i
  <2>1. ASSUME NEW i \in 1..c, ~(lo <= i /\ i <= hi) PROVE (i < t /\ i < f) \/ (i > t /\ i > f)
    <3>1. i \in Nat /\ f \in Nat /\ t \in Nat /\ (i < lo \/ i > hi)
      BY <1>2, <1>4, <1>6, <2>1
    <3>2. CASE f <= t
      BY <1>6, <3>1, <3>2
    <3>3. CASE ~(f <= t)
      BY <1>6, <3>1, <3>3
    <3> QED BY <3>2, <3>3
  <2> QED BY <1>2, <1>4, <2>1, MovedFacts
<1>8. \A i \in 1..c : song[i] = entries[K[Moved(i, t, f)]] /\ song[i] \in 1..Bound
  BY <1>3, <1>5, <1>7
<1> HIDE DEF song
<1> DEFINE l == hi - lo + 1
<1>9. /\ l \in Nat /\ l # 0
      /\ \A n \in 1..l : lo + n - 1 \in 1..c /\ lo <= lo + n - 1 /\ lo + n - 1 <= hi
      /\ \A i \in 1..c : lo <= i /\ i <= hi => i - lo + 1 \in 1..l /\ lo + (i - lo + 1) - 1 = i
  BY <1>4, <1>6
<1>10. W = [n \in 1..l |-> <<K[lo + n - 1], song[lo + n - 1]>>]
  OBVIOUS
<1> HIDE DEF l, W
<1>11. /\ DOMAIN W = 1..l
       /\ \A n \in 1..l : /\ W[n] = <<K[lo + n - 1], song[lo + n - 1]>>
                          /\ W[n] \in Present \X (1..Bound) /\ Position(W[n][1]) = lo + n - 1
  BY <1>5, <1>8, <1>9, <1>10
<1>12. W \in Seq(Present \X (1..Bound)) /\ W # <<>>
  <2>1. W \in [1..l -> Present \X (1..Bound)]
    BY <1>10, <1>11
  <2>2. W \in Seq(Present \X (1..Bound))
    BY <1>9, <2>1
  <2> QED BY <2>2, <1>9, <1>11
<1>13. \A m, n \in DOMAIN W : W[m][1] = W[n][1] => m = n
  <2>1. ASSUME NEW m \in 1..l, NEW n \in 1..l, W[m][1] = W[n][1] PROVE m = n
    <3>1. lo + m - 1 = lo + n - 1
      BY <1>11, <2>1
    <3> QED BY <3>1, <1>6, <1>9
  <2> QED BY <1>11, <2>1
<1>14. Present' = Present /\ Bound' = Bound /\ entries' = entries
  BY <1>1 DEF Present, Bound
<1>15. ~Shifting /\ Shifting' /\ Writes' = W
  BY <1>1 DEF Shifting, Writes
<1>16. \A k, s : Due(k, s) <=> k \in Present /\ entries[k] = s
  BY <1>15, DueAtRest
<1> DEFINE from(k) == K[Moved(Position(k), t, f)]
<1>17. \A k \in Present : /\ from(k) \in Present /\ Position(from(k)) = Moved(Position(k), t, f)
                          /\ Moved(Position(from(k)), f, t) = Position(k)
  BY <1>5, <1>7
<1>18. ASSUME NEW k \in Present, NEW s
       PROVE  Due(k, s)' <=> entries[from(k)] = s
  <2> DEFINE i == Position(k)
  <2>1. i \in 1..c /\ K[i] = k
    BY <1>5
  <2> HIDE DEF i
  <2>2. CASE lo <= i /\ i <= hi
    <3> DEFINE m == i - lo + 1
    <3>1. m \in 1..l /\ lo + m - 1 = i
      BY <1>9, <2>1, <2>2
    <3> HIDE DEF m
    <3>2. W[m] = <<k, song[i]>> /\ m \in DOMAIN W
      BY <1>11, <2>1, <3>1
    <3>3. \A n \in DOMAIN W : W[n][1] = k => n = m
      BY <1>13, <3>2
    <3>4. Pending(k)'
      BY <1>15, <3>2 DEF Pending
    <3>5. (\E n \in DOMAIN W : W[n] = <<k, s>>) <=> song[i] = s
      <4>1. ASSUME NEW n \in DOMAIN W, W[n] = <<k, s>> PROVE song[i] = s
        <5>1. n = m
          BY <3>3, <4>1
        <5> QED BY <3>2, <4>1, <5>1
      <4>2. ASSUME song[i] = s PROVE W[m] = <<k, s>>
        BY <3>2, <4>2
      <4> QED BY <3>2, <4>1, <4>2
    <3>6. Due(k, s)' <=> song[i] = s
      BY <1>15, <3>4, <3>5 DEF Due
    <3> QED BY <3>6, <1>8, <2>1 DEF i
  <2>3. CASE ~(lo <= i /\ i <= hi)
    <3>1. ~Pending(k)'
      <4>1. ASSUME NEW n \in 1..l PROVE W[n][1] # k
        BY <1>9, <1>11, <2>3 DEF i
      <4> QED BY <1>11, <1>15, <4>1 DEF Pending
    <3>2. from(k) = k
      BY <1>7, <2>1, <2>3 DEF i
    <3>3. Due(k, s)' <=> entries[k] = s
      BY <1>14, <3>1 DEF Due
    <3> QED BY <3>2, <3>3
  <2> QED BY <2>2, <2>3
<1> HIDE DEF from
<1>19. RaceTyped'
  <2>1. wanted' \subseteq wanted
    BY <1>1
  <2> QED BY <1>1, <1>14, <2>1, PlayerTyped DEF RaceInv, RaceTyped
<1>20. follow \in Present \cup {0} /\ K[t] \in Present
  <2>1. currentKey \in Present => Moved(here, f, t) \in 1..c
    BY <1>5, <1>7
  <2> QED BY <1>2, <1>5, <2>1
<1>21. CommandTyped'
  <2>1. command' \in [at : {"Shift", "Follow"}, writes : Seq(Present \X (1..Bound)),
                  follow : Present \cup {0}, key : Present, next : BOOLEAN]
    BY <1>1, <1>2, <1>12, <1>20
  <2>2. command'.at = "Shift" /\ command'.writes = W
    BY <1>1
  <2> QED BY <1>12, <1>13, <1>14, <2>1, <2>2 DEF CommandTyped, MoveTyped
<1>22. DueOnce'
  <2>1. ASSUME NEW k \in Present, NEW j \in Present, NEW s \in 1..Bound, Due(k, s)', Due(j, s)' PROVE k = j
    <3>1. entries[from(k)] = s /\ entries[from(j)] = s
      BY <1>18, <2>1
    <3>2. from(k) = from(j)
      BY <1>16, <1>17, <3>1 DEF RaceInv, DueOnce
    <3>3. Position(k) = Position(j)
      BY <1>17, <3>2
    <3> QED BY <1>5, <3>3
  <2> QED BY <1>14, <2>1 DEF DueOnce
<1>23. Placed'
  <2>1. ASSUME player'.at = "Play", ~crossed', NEW k \in Present', Due(k, player.song)' PROVE k = Place'
    <3>1. k \in Present
      BY <1>14, <2>1
    <3>2. entries[from(k)] = player.song
      <4>1. \A s : s = player.song => (Due(k, player.song)' => Due(k, s)')
        BY <1>1 DEF Due
      <4> QED BY <4>1, <1>18, <2>1, <3>1
    <3>3. from(k) = currentKey
      <4>1. Place = currentKey
        BY <1>15, DueAtRest
      <4>2. Due(from(k), player.song) /\ from(k) \in Present
        BY <1>16, <1>17, <3>1, <3>2
      <4> QED BY <1>1, <2>1, <4>1, <4>2 DEF RaceInv, Placed
    <3>4. here = Position(currentKey) /\ here \in 1..c /\ here # 0 /\ Moved(here, f, t) = Position(k)
      <4>1. currentKey \in Present
        BY <1>17, <3>1, <3>3
      <4>2. Position(currentKey) \in 1..c
        BY <1>5, <4>1
      <4> QED BY <1>17, <3>1, <3>3, <4>1, <4>2
    <3>5. Place' = IF follow # 0 THEN follow ELSE currentKey
      BY <1>1, <1>15 DEF Place
    <3>6. CASE Moved(here, f, t) = here
      <4>1. Position(k) = Position(currentKey) /\ currentKey \in Present
        BY <1>17, <3>1, <3>3, <3>4, <3>6
      <4>2. k = currentKey
        BY <1>5, <3>1, <4>1
      <4> QED BY <3>5, <3>6, <4>2
    <3>7. CASE Moved(here, f, t) # here
      <4>1. follow = K[Position(k)]
        BY <3>4, <3>7
      <4>2. follow = k
        BY <1>5, <3>1, <4>1
      <4>3. k # 0
        BY <1>3, <3>1
      <4> HIDE DEF follow
      <4> QED BY <3>5, <4>2, <4>3
    <3> QED BY <3>6, <3>7
  <2> QED BY <1>1, <2>1 DEF RaceInv, Placed
<1>24. Listed'
  <2>1. wanted' \subseteq wanted
    BY <1>1
  <2>2. AskedAt' \subseteq AskedAt
    BY <1>14, <2>1 DEF AskedAt
  <2>3. ASSUME NEW n \in 1..l, W[n][2] \in wanted' PROVE entries[W[n][1]] = W[n][2]
    <3> DEFINE i == lo + n - 1
    <3>1. i \in 1..c /\ i \in lo..hi /\ W[n] = <<K[i], song[i]>>
      <4>1. i \in 1..c /\ lo <= i /\ i <= hi
        BY <1>9
      <4>2. i \in lo..hi
        BY <1>4, <1>6, <4>1
      <4> QED BY <1>11, <4>1, <4>2
    <3> HIDE DEF i
    <3>2. f = t
      BY <1>1, <2>3, <3>1
    <3>3. i = t /\ Moved(i, t, f) = i
      BY <1>2, <1>4, <1>6, <3>1, <3>2 DEF Moved
    <3> QED BY <1>8, <3>1, <3>3
  <2>4. Sliding'
    BY <1>11, <1>14, <1>15, <2>3 DEF Sliding
  <2> QED BY <1>1, <2>2, <2>4 DEF RaceInv, Listed
<1>25. Looping'
  BY <1>1, <1>14 DEF RaceInv, Looping, LoopsOn
<1> QED BY <1>19, <1>21, <1>22, <1>23, <1>24, <1>25 DEF RaceInv

-----------------------------------------------------------------------------
LEMMA StepKeeps ==
  ASSUME RaceInv, [RaceNext]_raceVars
  PROVE  RaceInv'
<1>1. CASE AdvanceStep
  BY <1>1, SongEndsKeeps, TakePriorityKeeps, SavePriorityKeeps, ReadModeKeeps, PickKeeps,
     SetCurrentKeyKeeps, LoadKeyKeeps, ReadSongKeeps DEF AdvanceStep
<1>2. CASE EditStep
  BY <1>2, AddKeeps, RemoveKeeps, MoveKeeps, SoonKeeps, AskKeeps, PlanKeeps, ShiftKeeps, FollowKeeps
     DEF EditStep
<1>3. CASE UNCHANGED raceVars
  <2>1. ThreadKeeps /\ Place' = Place
    BY <1>3 DEF raceVars, stored, ThreadKeeps, Place, Shifting
  <2>2. UNCHANGED <<entries, currentKey, priorityQueue, repeat, player, command, edits, wanted, crossed>>
    BY <1>3 DEF raceVars, stored
  <2>3. RaceTyped' /\ Listed' /\ Looping'
    BY <2>2 DEF RaceInv, RaceTyped, Bound, Present, Listed, AskedAt, Sliding, Writes, Shifting, Looping, LoopsOn
  <2>4. Placed'
    <3>1. Present' = Present /\ \A k, s : Due(k, s)' <=> Due(k, s)
      BY <2>1, ThreadStep DEF RaceInv
    <3>2. ASSUME NEW k \in Present, Due(k, player.song)' PROVE Due(k, player.song)
      <4>1. \A s : s = player.song => (Due(k, player.song)' => Due(k, s)')
        BY <2>2 DEF Due
      <4> QED BY <4>1, <3>1, <3>2
    <3> QED BY <2>1, <2>2, <3>1, <3>2 DEF RaceInv, Placed
  <2> QED BY <2>1, <2>3, <2>4, ThreadStep DEF RaceInv
<1> QED BY <1>1, <1>2, <1>3 DEF RaceNext

LEMMA RaceStart == RaceInit => RaceInv
<1> SUFFICES ASSUME RaceInit PROVE RaceInv
  OBVIOUS
<1>1. /\ QueueLen \in Nat \ {0} /\ Bound = QueueLen /\ Present = 1..QueueLen
      /\ \A k \in Present : entries[k] = k
  BY RaceAssumption DEF RaceInit, Bound, Present
<1>2. RaceTyped
  <2>1. entries \in [Present -> 1..Bound] /\ currentKey \in 1..Bound /\ edits \in Nat
    BY <1>1 DEF RaceInit
  <2>2. <<>> \in Seq(Nat) /\ currentKey \in 0..Bound
    BY <1>1, <2>1
  <2>3. player \in [at : Steps, pq : Seq(Nat), key : 0..Bound, song : 1..Bound]
    BY <2>1, <2>2 DEF RaceInit, Steps
  <2> QED BY <1>1, <2>1, <2>2, <2>3 DEF RaceInit, RaceTyped
<1>3. CommandTyped /\ ~Shifting
  BY DEF RaceInit, CommandTyped, Shifting, NoCommand
<1>4. (\A k, s : Due(k, s) <=> k \in Present /\ entries[k] = s) /\ Place = currentKey
  BY <1>3, DueAtRest
<1>5. DueOnce /\ Placed
  BY <1>1, <1>4 DEF RaceInit, DueOnce, Placed
<1>6. Listed /\ Looping
  BY <1>3 DEF RaceInit, Listed, AskedAt, Sliding, Writes, Looping, LoopsOn, NoCommand
<1> QED BY <1>2, <1>3, <1>5, <1>6 DEF RaceInv

\* After an advance that overlaps commands the current key names the song that plays,
\* what was asked to play next is still to come, and a queue that loops goes on.
THEOREM Raced == RaceSpec => []RaceSound
<1>1. RaceInv => RaceSound
  <2> SUFFICES ASSUME RaceInv PROVE RaceSound
    OBVIOUS
  <2>1. ASSUME player.at = "Play", command = NoCommand, ~crossed, NEW k \in Present, entries[k] = player.song
        PROVE  k = currentKey
    <3>1. ~Shifting
      BY <2>1 DEF Shifting, NoCommand
    <3>2. Due(k, player.song) /\ Place = currentKey
      BY <2>1, <3>1, DueAtRest
    <3> QED BY <2>1, <3>2 DEF RaceInv, Placed
  <2>2. InPlace
    BY <2>1 DEF InPlace
  <2>3. AskedKept
    BY DEF RaceInv, Listed, AskedAt, AskedKept
  <2> QED BY <2>2, <2>3 DEF RaceInv, RaceSound, Looping
<1> QED BY <1>1, RaceStart, StepKeeps, PTL DEF RaceSpec

-----------------------------------------------------------------------------
(* What the listener does to the queue are calls of QueueService.          *)

LEMMA OneIsABatch ==
  ASSUME NEW s \in Song
  PROVE  <<s>> \in Batches
<1>1. 1 \in 1..MaxBatch
  BY QueueAssumption, ListeningAssumption
<1>2. <<s>> \in [1..1 -> Song]
  OBVIOUS
<1> QED BY <1>1, <1>2 DEF Batches

LEMMA ListenIsNext ==
  ASSUME [ListenNext]_listenVars
  PROVE  [Next]_vars
<1>1. CASE Advance
  BY <1>1 DEF Advance, Next
<1>2. CASE Edit
  BY <1>2, OneIsABatch DEF Edit, Next
<1>3. CASE StartOver
  BY <1>3 DEF StartOver, Next
<1>4. CASE \E s \in Song : Delete(s) \/ PlayNext(s)
  BY <1>4 DEF Delete, PlayNext, Next
<1>5. CASE \E s \in Song : AddNext(s)
  BY <1>5, OneIsABatch DEF AddNext, Next
<1>6. CASE UNCHANGED listenVars
  BY <1>6 DEF listenVars
<1> QED BY <1>1, <1>2, <1>3, <1>4, <1>5, <1>6 DEF ListenNext

-----------------------------------------------------------------------------
(* Play next.  The song asked for heads the priority list: entries before  *)
(* its own are of songs that were removed.                                 *)

\* Position n of the list is the first with a song that is queued.
Heads(n) ==
  /\ n \in DOMAIN priority /\ priority[n] \in Keys
  /\ \A i \in DOMAIN priority : priority[i] \in Keys => n <= i

Asked ==
  asked # None /\ moved => \E n \in Nat : Heads(n) /\ songs[priority[n]] = asked

LEMMA HeadsFacts ==
  ASSUME TypeOK, NEW n \in Nat, Heads(n)
  PROVE  LivePriority # {} /\ Min(LivePriority) = n
<1>1. n \in LivePriority /\ LivePriority \in SUBSET Nat
  BY DEF Heads, LivePriority, TypeOK
<1>2. \A i \in LivePriority : n <= i
  BY DEF Heads, LivePriority
<1>3. Min(LivePriority) \in LivePriority /\ Min(LivePriority) <= n
  BY <1>1, MinFacts
<1>4. n <= Min(LivePriority)
  BY <1>2, <1>3
<1>5. Min(LivePriority) \in Nat
  BY <1>1, <1>3
<1> QED BY <1>1, <1>3, <1>4, <1>5

\* The entry at the head of a list heads it.
LEMMA FirstHeads ==
  ASSUME priority' \in Seq(Nat), Len(priority') > 0, priority'[1] \in DOMAIN songs',
         songs'[priority'[1]] = asked'
  PROVE  Asked'
<1>1. 1 \in DOMAIN priority' /\ \A i \in DOMAIN priority' : 1 <= i
  OBVIOUS
<1> QED BY <1>1 DEF Asked, Heads, Keys

\* Songs that come behind the others, or go, leave the song asked for where it is.
LEMMA StandsStill ==
  ASSUME IInv, Asked, UNCHANGED <<priority, asked, moved>>,
         \A k \in Mentioned : k \in DOMAIN songs' => k \in Keys,
         \A k \in Keys : songs[k] = asked => k \in DOMAIN songs' /\ songs'[k] = songs[k]
  PROVE  Asked'
<1>1. SUFFICES ASSUME asked # None, moved
               PROVE  Asked'
  BY DEF Asked
<1>2. PICK n \in Nat : Heads(n) /\ songs[priority[n]] = asked
  BY <1>1 DEF Asked
<1>3. \A i \in DOMAIN priority : priority[i] \in Mentioned
  BY MentionedFacts
<1>4. priority[n] \in DOMAIN songs' /\ songs'[priority[n]] = asked
  BY <1>2 DEF Heads
<1>5. \A i \in DOMAIN priority : priority[i] \in DOMAIN songs' => n <= i
  BY <1>2, <1>3 DEF Heads
<1>6. Heads(n)'
  BY <1>2, <1>4, <1>5 DEF Heads, Keys
<1> QED BY <1>2, <1>4, <1>6 DEF Asked

\* The song added comes under a key nothing mentions.
LEMMA OneSong ==
  ASSUME IInv, NEW s \in Song
  PROVE  /\ DOMAIN Extend(songs, nextId, <<s>>) = Keys \cup {nextId}
         /\ Extend(songs, nextId, <<s>>)[nextId] = s
         /\ \A k \in Keys : Extend(songs, nextId, <<s>>)[k] = songs[k]
         /\ nextId \notin Mentioned /\ nextId \notin Keys /\ nextId \in Nat
<1>1. nextId \in Nat /\ nextId \notin Mentioned /\ nextId \notin Keys
  BY MentionedFacts DEF IInv, TypeOK, IdsReserved
<1>2. nextId..(nextId + Len(<<s>>) - 1) = {nextId}
  BY <1>1
<1>3. nextId - nextId + 1 = 1 /\ <<s>>[1] = s
  BY <1>1
<1> QED BY <1>1, <1>2, <1>3 DEF Extend, Keys

LEMMA EditKeepsAsked ==
  ASSUME IInv, Asked, Edit
  PROVE  Asked'
<1>1. CASE \E s \in Song : AddSongs(<<s>>)
  <2>1. PICK s \in Song : songs' = Extend(songs, nextId, <<s>>)
    BY <1>1 DEF AddSongs
  <2>2. UNCHANGED <<priority, asked, moved>>
    BY <1>1 DEF Edit, AddSongs
  <2> QED BY <2>1, <2>2, OneSong, StandsStill
<1>2. CASE SettleCurrent
  BY <1>2, StandsStill DEF SettleCurrent, Edit, Keys
<1> QED BY <1>1, <1>2 DEF Edit

LEMMA DeleteKeepsAsked ==
  ASSUME IInv, Asked, NEW s \in Song, Delete(s)
  PROVE  Asked'
<1>1. CASE asked = s
  BY <1>1 DEF Delete, Asked
<1>2. CASE asked # s
  <2>1. songs[KeyOf(s)] = s /\ KeyOf(s) \in Keys
    BY KeyOfFacts DEF Delete, RemoveSong, IInv
  <2>2. UNCHANGED <<priority, asked, moved>>
    BY <1>2 DEF Delete, RemoveSong
  <2>3. songs' = [k \in Keys \ {KeyOf(s)} |-> songs[k]]
    BY DEF Delete, RemoveSong
  <2> QED BY <1>2, <2>1, <2>2, <2>3, StandsStill
<1> QED BY <1>1, <1>2

\* Shifting puts the moved song under the key it was moved to.
LEMMA ShiftedTo ==
  ASSUME NEW f \in Keys, NEW t \in Keys
  PROVE  DOMAIN Shifted(f, t) = Keys /\ Shifted(f, t)[t] = songs[f]
BY DEF Shifted

LEMMA PlayNextKeepsAsked ==
  ASSUME IInv, Asked, NEW s \in Song, PlayNext(s)
  PROVE  Asked'
<1> DEFINE from   == KeyOf(s)
           target == IF from < Anchor THEN Anchor ELSE Succ(Anchor)
<1>1. from \in Keys /\ from \in Nat /\ songs[from] = s
  BY KeyOfFacts DEF PlayNext, MoveAfterCurrent, IInv
<1>2. CASE UNCHANGED songs
  BY <1>2 DEF PlayNext, Asked
<1>3. CASE /\ from # Anchor
           /\ Reorder(from, target)
           /\ priority' = PushFront(target)
  <2>1. Anchor \in Keys /\ Anchor \in Nat
    BY <1>1, MinFacts DEF Anchor, IInv, TypeOK
  <2>2. from > Anchor => Succ(Anchor) \in Keys
    BY <1>1, <2>1, SuccFacts DEF After, IInv
  <2>3. target \in Keys /\ target \in Nat
    BY <1>1, <1>3, <2>1, <2>2 DEF IInv, TypeOK
  <2>4. asked' = s
    BY <1>3 DEF PlayNext
  <2> HIDE DEF target, from
  <2>5. DOMAIN songs' = Keys /\ songs'[target] = s
    BY <1>1, <1>3, <2>3, ShiftedTo DEF Reorder
  <2>6. Without(target) \in Seq(Nat)
    BY WithoutFacts DEF IInv, TypeOK
  <2>7. priority' = <<target>> \o Without(target)
    BY <1>3 DEF PushFront
  <2>8. priority' \in Seq(Nat) /\ Len(priority') > 0 /\ priority'[1] = target
    BY <2>3, <2>6, <2>7
  <2> QED BY <2>3, <2>4, <2>5, <2>8, FirstHeads
<1> QED BY <1>2, <1>3 DEF PlayNext, MoveAfterCurrent

LEMMA AddNextKeepsAsked ==
  ASSUME IInv, Asked, NEW s \in Song, AddNext(s)
  PROVE  Asked'
<1>1. songs' = Extend(songs, nextId, <<s>>) /\ asked' = s
  BY DEF AddNext, AddSongsAfterCurrent
<1>2. nextId \in Nat /\ DOMAIN songs' = Keys \cup {nextId} /\ songs'[nextId] = s
  BY <1>1, OneSong
<1> DEFINE new == [i \in 1..Len(<<s>>) |-> nextId + i - 1]
<1>3. new \in Seq(Nat) /\ Len(new) = 1 /\ new[1] = nextId
  BY <1>2
<1>4. priority' = new \o priority /\ priority \in Seq(Nat)
  BY DEF AddNext, AddSongsAfterCurrent, IInv, TypeOK
<1> HIDE DEF new
<1>5. priority' \in Seq(Nat) /\ Len(priority') > 0 /\ priority'[1] = nextId
  <2>1. /\ Len(new \o priority) = Len(new) + Len(priority)
        /\ \A i \in 1..Len(new) + Len(priority) :
             (new \o priority)[i] = IF i <= Len(new) THEN new[i] ELSE priority[i - Len(new)]
    BY <1>3, <1>4, ConcatProperties
  <2>2. Len(priority) \in Nat
    BY <1>4
  <2>3. 1 \in 1..Len(new) + Len(priority)
    BY <1>3, <2>2
  <2>4. (new \o priority)[1] = nextId /\ Len(new \o priority) > 0
    BY <1>3, <2>1, <2>2, <2>3
  <2>5. new \o priority \in Seq(Nat)
    BY <1>3, <1>4
  <2> QED BY <1>4, <2>4, <2>5
<1> QED BY <1>1, <1>2, <1>5, FirstHeads

LEMMA ListenKeepsAsked ==
  ASSUME IInv, Asked, [ListenNext]_listenVars
  PROVE  Asked'
<1>1. CASE Advance
  BY <1>1 DEF Advance, Asked
<1>2. CASE StartOver
  BY <1>2, StandsStill DEF StartOver, CycleMode, Restart, Keys
<1>3. CASE UNCHANGED listenVars
  BY <1>3, StandsStill DEF listenVars, vars, Keys
<1> QED BY <1>1, <1>2, <1>3, EditKeepsAsked, DeleteKeepsAsked, PlayNextKeepsAsked,
           AddNextKeepsAsked DEF ListenNext

\* Under whatever else the listener does the queue keeps its invariant.
THEOREM ListenInvariant == ListenSpec => []IInv
<1>1. ListenInit => IInv
  BY InitIInv DEF ListenInit
<1>2. IInv /\ [ListenNext]_listenVars => IInv'
  BY ListenIsNext, NextIsGood, KeyStepKeepsIInv DEF Good
<1> QED BY <1>1, <1>2, PTL DEF ListenSpec

\* PlayNextKept holds for any songs and any bounds: what "play next" moved or added is the
\* next song, whatever is added or removed before, in every mode and over a restart.
THEOREM PlaysNextKept == ListenSpec => []PlayNextKept
<1>1. ListenInit => Asked
  BY DEF ListenInit, Asked
<1>2. IInv /\ Asked /\ [ListenNext]_listenVars => Asked'
  BY ListenKeepsAsked
<1>3. IInv /\ Asked => PlayNextKept
  BY HeadsFacts DEF PlayNextKept, PlaysNext, Asked, IInv
<1> QED BY <1>1, <1>2, <1>3, ListenInvariant, PTL DEF ListenSpec

-----------------------------------------------------------------------------
(* Random mode.  What the listener heard is what the service takes for     *)
(* played, as far as it is queued, as long as no song jumped the queue.    *)

Recent == played \cup {CurrentOrFirst}

Matching ==
  /\ heard \subseteq Nat /\ \A k \in heard : k < nextId
  /\ current = NoKey => heard = {} /\ played = {}
  /\ ~jumped => \A i \in DOMAIN priority : priority[i] \notin Keys
  /\ mode = "Random" /\ ~jumped =>
       /\ heard \cap Keys \subseteq Recent
       /\ played \cap Keys \subseteq heard \cup {CurrentOrFirst}

LEMMA LiveMeans ==
  LivePriority = {} <=> \A i \in DOMAIN priority : priority[i] \notin Keys
BY DEF LivePriority

\* Steps that leave the listener's place, or settle it.
LEMMA PlaceKept ==
  ASSUME IInv, Matching, UNCHANGED <<heard, played, mode, jumped, priority>>,
         nextId' \in Nat, nextId <= nextId',
         \A k \in Mentioned \cup heard : k \in DOMAIN songs' => k \in Keys,
         current' = current \/ (current' = CurrentOrFirst /\ UNCHANGED songs)
  PROVE  Matching'
<1>1. heard' \subseteq Nat /\ \A k \in heard' : k < nextId'
  BY DEF Matching, IInv, TypeOK
<1>2. current' = NoKey => heard' = {} /\ played' = {}
  BY DEF Matching, CurrentOrFirst
<1>3. ~jumped' => \A i \in DOMAIN priority' : priority'[i] \notin Keys'
  BY MentionedFacts DEF Matching, Keys
<1>4. ASSUME mode' = "Random", ~jumped'
      PROVE  /\ heard' \cap Keys' \subseteq Recent'
             /\ played' \cap Keys' \subseteq heard' \cup {CurrentOrFirst'}
  <2>1. /\ heard \cap Keys \subseteq played \cup {CurrentOrFirst}
        /\ played \cap Keys \subseteq heard \cup {CurrentOrFirst}
    BY <1>4 DEF Matching, Recent
  <2>2. heard \cap Keys' \subseteq Keys /\ played \cap Keys' \subseteq Keys
    BY MentionedFacts DEF Keys
  <2>3. CASE current = NoKey
    BY <2>3 DEF Matching
  <2>4. CASE current # NoKey
    <3>1. CurrentOrFirst = current /\ CurrentOrFirst' = current
      BY <2>4 DEF CurrentOrFirst
    <3> QED BY <2>1, <2>2, <3>1 DEF Recent
  <2> QED BY <2>3, <2>4
<1> QED BY <1>1, <1>2, <1>3, <1>4 DEF Matching

\* Random mode starts over.
LEMMA FreshStart ==
  ASSUME Matching, heard' = {}, played' = {},
         ~jumped' => \A i \in DOMAIN priority' : priority'[i] \notin Keys'
  PROVE  Matching'
BY DEF Matching

\* A pick while nothing jumped the queue: both records grow by the same keys, or
\* both start over.
LEMMA PickMatches ==
  ASSUME IInv, Matching, LivePriority = {}, NEW k \in Keys, PickRandom(k), ~jumped
  PROVE  /\ Exhausted <=> Unplayed = {}
         /\ k \notin heard \/ Exhausted
<1>1. mode = "Random" /\ k \in Candidates
  BY DEF PickRandom
<1>2. /\ heard \cap Keys \subseteq played \cup {CurrentOrFirst}
      /\ played \cap Keys \subseteq heard \cup {CurrentOrFirst}
  BY <1>1 DEF Matching, Recent
<1>3. Exhausted <=> Unplayed = {}
  BY <1>2 DEF Exhausted, Unplayed
<1>4. Unplayed # {} => k \notin played \cup {CurrentOrFirst}
  BY <1>1 DEF Candidates, Unplayed
<1> QED BY <1>2, <1>3, <1>4

LEMMA PickKeepsMatching ==
  ASSUME IInv, Matching, Advance, LivePriority = {}, priority' = <<>>,
         UNCHANGED <<songs, mode, ids>>, NEW k \in Keys, PickRandom(k)
  PROVE  Matching'
<1>1. /\ k \in Nat /\ k # NoKey /\ k < nextId
      /\ CurrentOrFirst # NoKey => CurrentOrFirst \in Nat /\ CurrentOrFirst < nextId
  BY MentionedFacts, CurrentOrFirstFacts, QueueAssumption DEF IInv, IdsReserved
<1>2. Picked /\ current' = k
  BY DEF Picked, PickRandom, IInv, TypeOK
<1>3. heard' = ({CurrentOrFirst, k} \ {NoKey}) \cup (IF Exhausted THEN {} ELSE heard)
  BY <1>2 DEF Advance, Left
<1>4. played' = {k, CurrentOrFirst} \cup (IF Unplayed # {} THEN played ELSE {})
  BY DEF PickRandom
<1>5. UNCHANGED <<jumped, Keys, nextId>>
  BY DEF Advance, Keys, ids
<1>6. heard' \subseteq Nat /\ \A j \in heard' : j < nextId'
  BY <1>1, <1>3, <1>5 DEF Matching
<1>7. CurrentOrFirst' = k
  BY <1>1, <1>2 DEF CurrentOrFirst
<1>8. CurrentOrFirst # NoKey
  BY CurrentOrFirstFacts DEF IInv
<1>9. ASSUME mode' = "Random", ~jumped'
      PROVE  /\ heard' \cap Keys' \subseteq Recent'
             /\ played' \cap Keys' \subseteq heard' \cup {CurrentOrFirst'}
  <2>1. ~jumped /\ mode = "Random"
    BY <1>5, <1>9
  <2>2. /\ heard \cap Keys \subseteq played \cup {CurrentOrFirst}
        /\ played \cap Keys \subseteq heard \cup {CurrentOrFirst}
    BY <2>1 DEF Matching, Recent
  <2>3. Exhausted <=> Unplayed = {}
    BY <2>1, PickMatches
  <2>4. heard' \cap Keys \subseteq played'
    BY <1>3, <1>4, <2>2, <2>3
  <2>5. played' \cap Keys \subseteq heard'
    BY <1>1, <1>3, <1>4, <1>8, <2>2, <2>3
  <2> QED BY <1>5, <2>4, <2>5 DEF Recent
<1> QED BY <1>1, <1>2, <1>6, <1>9 DEF Matching

\* The queue moves on without a pick.
LEMMA NoPickKeepsMatching ==
  ASSUME IInv, Matching, Advance, UNCHANGED <<songs, mode, ids, randomState>>,
         current' \in Mentioned \cup {NoKey}, current # NoKey => current' # NoKey,
         jumped \/ LivePriority = {},
         jumped \/ \A i \in DOMAIN priority' : priority'[i] \notin Keys,
         mode = "Random" /\ ~jumped => UNCHANGED current
  PROVE  Matching'
<1>1. ~Picked
  BY DEF Picked, randomState, IInv, TypeOK
<1>2. heard' = ({current, current'} \ {NoKey}) \cup heard /\ UNCHANGED <<jumped, played, nextId>>
  BY <1>1 DEF Advance, Left, randomState, ids
<1>3. heard' \subseteq Nat /\ \A j \in heard' : j < nextId'
  BY <1>2, MentionedFacts DEF Matching, IInv, IdsReserved
<1>4. current' = NoKey => heard' = {} /\ played' = {}
  BY <1>2 DEF Matching
<1>5. ~jumped' => \A i \in DOMAIN priority' : priority'[i] \notin Keys'
  BY <1>2 DEF Keys
<1>6. ASSUME mode' = "Random", ~jumped'
      PROVE  /\ heard' \cap Keys' \subseteq Recent'
             /\ played' \cap Keys' \subseteq heard' \cup {CurrentOrFirst'}
  <2>1. UNCHANGED <<current, songs, CurrentOrFirst>>
    BY <1>2, <1>6 DEF CurrentOrFirst, Keys
  <2>2. /\ heard \cap Keys \subseteq played \cup {CurrentOrFirst}
        /\ played \cap Keys \subseteq heard \cup {CurrentOrFirst}
    BY <1>2, <1>6 DEF Matching, Recent
  <2>3. heard' \subseteq heard \cup {CurrentOrFirst} /\ heard \subseteq heard'
    BY <1>2, <2>1 DEF CurrentOrFirst
  <2> QED BY <1>2, <2>1, <2>2, <2>3 DEF Recent, Keys
<1> QED BY <1>3, <1>4, <1>5, <1>6 DEF Matching

\* A step forward goes to a song of the queue, unless there is none.
LEMMA ForwardFacts ==
  ASSUME IInv, RepeatSong \/ StepForward \/ NothingToPick
  PROVE  /\ current' \in Mentioned \cup {NoKey}
         /\ current # NoKey => current' # NoKey
         /\ mode = "Random" => UNCHANGED current
         /\ UNCHANGED randomState
<1>1. NoKey \notin Nat /\ Keys \subseteq Nat
  BY QueueAssumption, MentionedFacts
<1>2. CurrentOrFirst \in Mentioned \cup {NoKey} /\ (current # NoKey => CurrentOrFirst = current)
  BY MentionedFacts, CurrentOrFirstFacts DEF IInv, CurrentOrFirst
<1>3. CASE RepeatSong
  BY <1>2, <1>3 DEF RepeatSong
<1>4. CASE NothingToPick
  BY <1>4, MentionedFacts DEF NothingToPick
<1>5. CASE StepForward
  <2>1. CurrentOrFirst # NoKey /\ After(CurrentOrFirst) # {} => Succ(CurrentOrFirst) \in Keys
    BY CurrentOrFirstFacts, SuccFacts DEF IInv
  <2>2. Keys # {} => Min(Keys) \in Keys
    BY MinFacts, MentionedFacts DEF IInv, TypeOK
  <2>3. current' \in Keys \cup {CurrentOrFirst}
    BY <1>5, <2>1, <2>2 DEF StepForward
  <2>4. current # NoKey => current' # NoKey
    BY <1>1, <1>2, <2>3
  <2>5. mode # "Random" /\ UNCHANGED randomState
    BY <1>5 DEF StepForward
  <2> QED BY <1>2, <2>3, <2>4, <2>5, MentionedFacts
<1> QED BY <1>3, <1>4, <1>5

LEMMA AdvanceKeepsMatching ==
  ASSUME IInv, Matching, Advance
  PROVE  Matching'
<1>1. ~jumped => LivePriority = {}
  BY LiveMeans DEF Matching
<1>2. CASE PlayPriority
  <2>1. jumped
    BY <1>1, <1>2 DEF PlayPriority
  <2>2. LivePriority \in SUBSET Nat /\ LivePriority # {}
    BY <1>2 DEF LivePriority, PlayPriority, IInv, TypeOK
  <2>3. Min(LivePriority) \in LivePriority
    BY <2>2, MinFacts
  <2>4. current' \in Keys
    BY <1>2, <2>3 DEF PlayPriority, LivePriority
  <2>5. current' \in Mentioned /\ current' # NoKey
    BY <2>4, MentionedFacts, QueueAssumption DEF IInv
  <2> QED BY <1>2, <2>1, <2>5, NoPickKeepsMatching DEF PlayPriority
<1>3. CASE /\ LivePriority = {} /\ priority' = <<>> /\ UNCHANGED <<songs, mode, ids>>
           /\ RepeatSong \/ StepForward \/ NothingToPick
  <2>1. \A i \in DOMAIN priority' : priority'[i] \notin Keys
    BY <1>3
  <2>2. /\ current' \in Mentioned \cup {NoKey}
        /\ current # NoKey => current' # NoKey
        /\ mode = "Random" => UNCHANGED current
        /\ UNCHANGED randomState
    BY <1>3, ForwardFacts
  <2>3. /\ UNCHANGED <<songs, mode, ids, randomState>>
        /\ jumped \/ LivePriority = {}
        /\ jumped \/ \A i \in DOMAIN priority' : priority'[i] \notin Keys
        /\ mode = "Random" /\ ~jumped => UNCHANGED current
    BY <1>3, <2>1, <2>2
  <2> QED BY <2>2, <2>3, NoPickKeepsMatching
<1>4. CASE /\ LivePriority = {} /\ priority' = <<>> /\ UNCHANGED <<songs, mode, ids>>
           /\ \E k \in Keys : PickRandom(k)
  BY <1>4, PickKeepsMatching
<1> QED BY <1>2, <1>3, <1>4 DEF Advance, MoveToNext

\* Songs asked to be played next have jumped the queue; until random mode starts over
\* it promises nothing.
LEMMA JumpKeepsMatching ==
  ASSUME IInv, Matching, NEW s \in Song, PlayNext(s) \/ AddNext(s)
  PROVE  Matching'
<1>1. jumped' /\ UNCHANGED <<heard, played>>
  BY DEF PlayNext, AddNext, MoveAfterCurrent, AddSongsAfterCurrent, randomState
<1>2. nextId' \in Nat /\ nextId <= nextId'
  <2>1. [Next]_vars
    BY ListenIsNext DEF ListenNext
  <2> QED BY <2>1, NextIsGood DEF Good, KeyStep, IdsAdvance
<1>3. heard' \subseteq Nat /\ \A k \in heard' : k < nextId'
  BY <1>1, <1>2 DEF Matching, IInv, TypeOK
<1>4. current # NoKey => current' # NoKey
  <2>1. CASE PlayNext(s)
    <3>1. current # NoKey => CurrentOrFirst = current
      BY DEF CurrentOrFirst
    <3>2. CASE current' = CurrentOrFirst
      BY <3>1, <3>2
    <3>3. CASE \E f, t \in Keys : Reorder(f, t)
      <4>1. PICK f \in Keys, t \in Keys : Reorder(f, t)
        BY <3>3
      <4>2. CurrentOrFirst \in Keys => current' \in Keys
        BY <4>1, NewPositionFacts DEF Reorder, IInv
      <4>3. CurrentOrFirst \notin Keys => current' = CurrentOrFirst
        BY <4>1 DEF Reorder
      <4>4. NoKey \notin Keys
        BY MentionedFacts, QueueAssumption
      <4> QED BY <3>1, <4>2, <4>3, <4>4
    <3>4. current' = CurrentOrFirst \/ \E f, t \in Keys : Reorder(f, t)
      <4> DEFINE from   == KeyOf(s)
                 target == IF from < Anchor THEN Anchor ELSE Succ(Anchor)
      <4>1. from \in Keys /\ from \in Nat
        BY <2>1, KeyOfFacts DEF PlayNext, MoveAfterCurrent, IInv
      <4>2. Anchor \in Keys /\ Anchor \in Nat
        BY <4>1, MinFacts DEF Anchor, IInv, TypeOK
      <4>3. from > Anchor => Succ(Anchor) \in Keys
        BY <4>1, <4>2, SuccFacts DEF After, IInv
      <4>4. from # Anchor => target \in Keys
        BY <4>1, <4>2, <4>3
      <4>5. current' = CurrentOrFirst \/ (from # Anchor /\ Reorder(from, target))
        BY <2>1 DEF PlayNext, MoveAfterCurrent
      <4> HIDE DEF from, target
      <4> QED BY <4>1, <4>4, <4>5
    <3> QED BY <3>2, <3>3, <3>4
  <2>2. CASE AddNext(s)
    BY <2>2 DEF AddNext, AddSongsAfterCurrent
  <2> QED BY <2>1, <2>2
<1>5. current' = NoKey => heard' = {} /\ played' = {}
  BY <1>1, <1>4 DEF Matching
<1> QED BY <1>1, <1>3, <1>5 DEF Matching

LEMMA ListenKeepsMatching ==
  ASSUME IInv, Matching, [ListenNext]_listenVars
  PROVE  Matching'
<1>1. nextId \in Nat
  BY DEF IInv, TypeOK
<1>2. CASE Edit
  <2>1. CASE SettleCurrent
    BY <1>1, <1>2, <2>1, PlaceKept DEF SettleCurrent, Edit, ids, randomState, Keys
  <2>2. CASE \E s \in Song : AddSongs(<<s>>)
    <3>1. PICK s \in Song : AddSongs(<<s>>)
      BY <2>2
    <3>2. UNCHANGED <<heard, played, mode, jumped, priority, current>>
      BY <1>2, <3>1 DEF Edit, AddSongs, randomState
    <3>3. nextId' = nextId + 1
      BY <3>1 DEF AddSongs, Issue
    <3>4. DOMAIN songs' = Keys \cup {nextId} /\ nextId \notin Mentioned
      BY <3>1, OneSong DEF AddSongs
    <3>5. nextId \notin heard
      BY <1>1 DEF Matching
    <3> QED BY <1>1, <3>2, <3>3, <3>4, <3>5, PlaceKept
  <2> QED BY <1>2, <2>1, <2>2 DEF Edit
<1>3. CASE \E s \in Song : Delete(s)
  <2>1. UNCHANGED <<heard, played, mode, jumped, priority, current, nextId>>
    BY <1>3 DEF Delete, RemoveSong, ids, randomState
  <2>2. DOMAIN songs' \subseteq Keys
    BY <1>3 DEF Delete, RemoveSong
  <2> QED BY <1>1, <2>1, <2>2, PlaceKept
<1>4. CASE StartOver
  <2>1. heard' = {} /\ played' = {} /\ UNCHANGED <<songs, priority>>
    BY <1>4 DEF StartOver, CycleMode, Restart, ResetRandom
  <2>2. jumped' = (LivePriority # {})
    BY <1>4 DEF StartOver
  <2> QED BY <2>1, <2>2, LiveMeans, FreshStart DEF Keys
<1>5. CASE UNCHANGED listenVars
  BY <1>1, <1>5, PlaceKept DEF listenVars, vars, ids, randomState, Keys
<1> QED BY <1>2, <1>3, <1>4, <1>5, AdvanceKeepsMatching, JumpKeepsMatching DEF ListenNext

\* What the service takes for played is what the listener heard, whatever songs come and
\* go meanwhile.
THEOREM HeardIsPlayed == ListenSpec => []Matching
<1>1. ListenInit => Matching
  BY DEF ListenInit, Init, Matching
<1>2. IInv /\ Matching /\ [ListenNext]_listenVars => Matching'
  BY ListenKeepsMatching
<1> QED BY <1>1, <1>2, ListenInvariant, PTL DEF ListenSpec

\* NoRepeat holds for any songs and any bounds: a random pick was not heard since random
\* mode last started over, or the whole queue was, unless a song jumped the queue.
THEOREM NothingRepeats == ListenSpec => NoRepeat
<1> DEFINE New == Picked /\ ~jumped => current' \notin heard \/ Exhausted
<1>1. IInv /\ Matching /\ [ListenNext]_listenVars => [New]_listenVars
  <2> SUFFICES ASSUME IInv, Matching, [ListenNext]_listenVars, Picked, ~jumped
               PROVE  current' \notin heard \/ Exhausted
    OBVIOUS
  <2>1. historyIndex \in Nat /\ historyIndex' # historyIndex /\ historyIndex' # 0
    BY DEF Picked, IInv, TypeOK
  <2>2. ~UNCHANGED randomState /\ ~ResetRandom
    BY <2>1 DEF randomState, ResetRandom
  <2>3. MoveToNext
    BY <2>2 DEF ListenNext, Advance, Edit, AddSongs, SettleCurrent, Delete, RemoveSong, StartOver,
                CycleMode, Restart, PlayNext, MoveAfterCurrent, AddNext, AddSongsAfterCurrent,
                listenVars, vars
  <2>4. PICK k \in Keys : LivePriority = {} /\ PickRandom(k)
    BY <2>2, <2>3 DEF MoveToNext, PlayPriority, RepeatSong, StepForward, NothingToPick
  <2>5. current' = k
    BY <2>4 DEF PickRandom
  <2> QED BY <2>4, <2>5, PickMatches
<1> QED BY <1>1, ListenInvariant, HeardIsPlayed, PTL DEF ListenSpec, NoRepeat

=============================================================================
