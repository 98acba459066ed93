---------------------------- MODULE PlayerProofs ----------------------------
(***************************************************************************)
(* Proofs about playback control for any lists, lengths, event channels    *)
(* and numbers of requests and threads: a thread that plays is never out   *)
(* of hand, and, as long as no leader takes over, there is one at most and *)
(* a stop is remembered.                                                   *)
(***************************************************************************)
EXTENDS Player, FiniteSetTheorems, SequenceTheorems, TLAPS

-----------------------------------------------------------------------------
(* The calls of a request.                                                 *)

Work == Seq([call : Calls, arg : Nat])

\* Who takes the handle waits for the thread, who starts a thread stores its handle ...
Linked(q) ==
  \A i \in DOMAIN q :
    /\ q[i].call = "Take" => i + 1 \in DOMAIN q /\ q[i + 1].call = "Join"
    /\ q[i].call = "Spawn" => i + 1 \in DOMAIN q /\ q[i + 1].call = "Store"
    /\ q[i].call = "Replace" => q[i].arg \in DOMAIN Lists

\* ... and is then done, and who clears the pause flag starts a thread.
Proper(q) ==
  /\ Linked(q)
  /\ \A i \in DOMAIN q :
       /\ q[i].call = "Store" => i = Len(q)
       /\ q[i].call = "Unpause" => \E j \in DOMAIN q : i < j /\ q[j].call = "Spawn"

\* Nobody starts a thread before the handle was taken or found idle.
Prepared(q) ==
  \A i \in DOMAIN q :
    q[i].call \in {"Join", "Spawn", "Store"} =>
      \E j \in 1..i - 1 : q[j].call \in {"Take", "Check"}

-----------------------------------------------------------------------------
(* The invariant.                                                          *)

Tally ==
  /\ count \in [commands : Nat, hellos : 0..MaxHellos]
  /\ mirrors <= count.hellos

\* Only the command handler starts threads.
Lined ==
  /\ \A a \in Actors : Proper(todo[a])
  /\ \A i \in DOMAIN todo["multiroom"] : todo["multiroom"][i].call \notin {"Spawn", "Store"}

\* The handle is free when the command handler overwrites it.
FreeHandle == handle \in Alive => Prepared(todo["commands"])

InHand ==
  \A a \in Actors :
    grip[a] \in Alive => todo[a] # <<>> /\ Head(todo[a]).call \in {"Join", "Store"}

\* Every thread is the handle's or in an actor's hands.
Held == \A t \in Alive : t = handle \/ \E a \in Actors : grip[a] = t

Alone ==
  ~Grouping => /\ todo["multiroom"] = <<>> /\ grip["multiroom"] = 0
               /\ mirrors = 0

IInv == TypeOK /\ Tally /\ Lined /\ FreeHandle /\ InHand /\ Held /\ Alone

-----------------------------------------------------------------------------
(* The requests.                                                           *)

Takes(q)  == \E i \in DOMAIN q : q[i].call = "Take"
Starts(q) == \E i \in DOMAIN q : q[i].call = "Spawn"
Quiet(q)  == \A i \in DOMAIN q : q[i].call \notin {"Spawn", "Store", "Unpause"}

\* What may come before the calls that start a thread.
Opening(q) ==
  q \in Work /\ Linked(q) /\ Prepared(q) /\ \A i \in DOMAIN q : q[i].call \notin {"Spawn", "Store"}

Joined(p, q, r, m, n) ==
  /\ r \in Work /\ m \in Nat /\ n \in Nat /\ Len(r) = m + n
  /\ DOMAIN p = 1..m /\ DOMAIN q = 1..n /\ n = Len(q) /\ DOMAIN r = 1..m + n
  /\ \A i \in 1..m : r[i] = p[i] /\ i \in 1..m + n
  /\ \A i \in 1..n : r[m + i] = q[i] /\ m + i \in 1..m + n
  /\ \A i \in 1..m + n : i \in 1..m \/ (i - m \in 1..n /\ r[i] = q[i - m])

LEMMA ConcatFacts ==
  ASSUME NEW p \in Work, NEW q \in Work
  PROVE  Joined(p, q, p \o q, Len(p), Len(q))
<1> DEFINE r == p \o q  m == Len(p)  n == Len(q)
<1>1. /\ r \in Work /\ m \in Nat /\ n \in Nat /\ DOMAIN p = 1..m /\ DOMAIN q = 1..n
      /\ DOMAIN r = 1..m + n /\ Len(r) = m + n /\ \A i \in 1..m : r[i] = p[i]
      /\ \A i \in 1..n : r[m + i] = q[i]
      /\ \A i \in 1..m + n : i \in 1..m \/ i - m \in 1..n
  BY DEF Work
<1>2. n = Len(q)
  OBVIOUS
<1> HIDE DEF r, m, n
<1>3. \A i \in 1..m : i \in 1..m + n
  BY <1>1
<1>4. \A i \in 1..n : m + i \in 1..m + n
  BY <1>1
<1>5. ASSUME NEW i \in 1..m + n, i - m \in 1..n
      PROVE  r[i] = q[i - m]
  <2>1. m + (i - m) = i
    BY <1>1
  <2>2. r[m + (i - m)] = q[i - m]
    BY <1>1, <1>5
  <2> QED BY <2>1, <2>2
<1> QED BY <1>1, <1>2, <1>3, <1>4, <1>5 DEF Joined, r, m, n

LEMMA OpeningGoesOn ==
  ASSUME NEW p, NEW q, Opening(p), q \in Work, Linked(q), Takes(p) \/ Prepared(q),
         \A i \in DOMAIN q : q[i].call \notin {"Spawn", "Store"}
  PROVE  /\ Opening(p \o q) /\ (Takes(p) => Takes(p \o q))
         /\ Quiet(p) /\ Quiet(q) => Quiet(p \o q)
<1> DEFINE r == p \o q  m == Len(p)  n == Len(q)
<1>0. Joined(p, q, r, m, n)
  BY ConcatFacts DEF Opening
<1> HIDE DEF r, m, n
<1>1. /\ r \in Work /\ m \in Nat /\ n \in Nat /\ Len(r) = m + n
      /\ DOMAIN p = 1..m /\ DOMAIN q = 1..n /\ n = Len(q) /\ DOMAIN r = 1..m + n
      /\ \A i \in 1..m : r[i] = p[i] /\ i \in 1..m + n
      /\ \A i \in 1..n : r[m + i] = q[i] /\ m + i \in 1..m + n
      /\ \A i \in 1..m + n : i \in 1..m \/ (i - m \in 1..n /\ r[i] = q[i - m])
  BY <1>0 DEF Joined
<1>2. Linked(r)
  <2> SUFFICES ASSUME NEW i \in 1..m + n
               PROVE  /\ r[i].call = "Take" => i + 1 \in 1..m + n /\ r[i + 1].call = "Join"
                      /\ r[i].call = "Spawn" => i + 1 \in 1..m + n /\ r[i + 1].call = "Store"
                      /\ r[i].call = "Replace" => r[i].arg \in DOMAIN Lists
    BY <1>1 DEF Linked
  <2>1. CASE i \in 1..m
    BY <1>1, <2>1 DEF Opening, Linked
  <2>2. CASE i - m \in 1..n /\ r[i] = q[i - m]
    <3>1. i - m + 1 \in 1..n => r[i + 1] = q[i - m + 1] /\ i + 1 \in 1..m + n
      BY <1>1, <2>2
    <3> QED BY <1>1, <2>2, <3>1 DEF Linked
  <2> QED BY <1>1, <2>1, <2>2
<1>3. Prepared(r)
  <2> SUFFICES ASSUME NEW i \in 1..m + n, r[i].call \in {"Join", "Spawn", "Store"}
               PROVE  \E j \in 1..i - 1 : r[j].call \in {"Take", "Check"}
    BY <1>1 DEF Prepared
  <2>1. CASE i \in 1..m
    <3>1. PICK j \in 1..i - 1 : p[j].call \in {"Take", "Check"}
      BY <1>1, <2>1 DEF Opening, Prepared
    <3>2. j \in 1..m
      BY <1>1, <2>1
    <3> QED BY <1>1, <3>1, <3>2
  <2>2. CASE i - m \in 1..n /\ r[i] = q[i - m] /\ Takes(p)
    <3>1. PICK j \in 1..m : p[j].call = "Take"
      BY <1>1, <2>2 DEF Takes
    <3>2. j \in 1..i - 1
      BY <1>1, <2>2
    <3> QED BY <1>1, <3>1, <3>2
  <2>3. CASE i - m \in 1..n /\ r[i] = q[i - m] /\ Prepared(q)
    <3>1. PICK j \in 1..(i - m) - 1 : q[j].call \in {"Take", "Check"}
      BY <1>1, <2>3 DEF Prepared
    <3>2. j \in 1..n /\ m + j \in 1..i - 1
      BY <1>1, <2>3
    <3> QED BY <1>1, <3>1, <3>2
  <2> QED BY <1>1, <2>1, <2>2, <2>3
<1>4. \A i \in 1..m + n : r[i].call \notin {"Spawn", "Store"}
  BY <1>1 DEF Opening
<1>5. Takes(p) => Takes(r)
  BY <1>1 DEF Takes
<1>6. Quiet(p) /\ Quiet(q) => Quiet(r)
  BY <1>1 DEF Quiet
<1> QED BY <1>1, <1>2, <1>3, <1>4, <1>5, <1>6 DEF Opening, r

LEMMA OpeningEnds ==
  ASSUME NEW p, NEW q, Opening(p), q \in Work, Proper(q), Takes(p), Starts(q)
  PROVE  p \o q \in Work /\ Proper(p \o q) /\ Prepared(p \o q) /\ Starts(p \o q)
<1> DEFINE r == p \o q  m == Len(p)  n == Len(q)
<1>0. Joined(p, q, r, m, n)
  BY ConcatFacts DEF Opening
<1> HIDE DEF r, m, n
<1>1. /\ r \in Work /\ m \in Nat /\ n \in Nat /\ Len(r) = m + n
      /\ DOMAIN p = 1..m /\ DOMAIN q = 1..n /\ n = Len(q) /\ DOMAIN r = 1..m + n
      /\ \A i \in 1..m : r[i] = p[i] /\ i \in 1..m + n
      /\ \A i \in 1..n : r[m + i] = q[i] /\ m + i \in 1..m + n
      /\ \A i \in 1..m + n : i \in 1..m \/ (i - m \in 1..n /\ r[i] = q[i - m])
  BY <1>0 DEF Joined
<1>2. PICK k \in 1..n : q[k].call = "Spawn"
  BY <1>1 DEF Starts
<1>3. m + k \in 1..m + n /\ r[m + k].call = "Spawn"
  BY <1>1, <1>2
<1>4. ASSUME NEW i \in 1..m + n
      PROVE  /\ r[i].call = "Take" => i + 1 \in 1..m + n /\ r[i + 1].call = "Join"
             /\ r[i].call = "Spawn" => i + 1 \in 1..m + n /\ r[i + 1].call = "Store"
             /\ r[i].call = "Replace" => r[i].arg \in DOMAIN Lists
             /\ r[i].call = "Store" => i = m + n
             /\ r[i].call = "Unpause" => \E j \in 1..m + n : i < j /\ r[j].call = "Spawn"
             /\ r[i].call \in {"Join", "Spawn", "Store"} =>
                  \E j \in 1..i - 1 : r[j].call \in {"Take", "Check"}
  <2>1. CASE i \in 1..m
    <3>1. /\ r[i].call = "Take" => i + 1 \in 1..m + n /\ r[i + 1].call = "Join"
          /\ r[i].call \notin {"Spawn", "Store"}
          /\ r[i].call = "Replace" => r[i].arg \in DOMAIN Lists
      BY <1>1, <2>1 DEF Opening, Linked
    <3>2. i < m + k
      BY <1>1, <1>2, <2>1
    <3>3. ASSUME r[i].call = "Join"
          PROVE  \E j \in 1..i - 1 : r[j].call \in {"Take", "Check"}
      <4>1. PICK j \in 1..i - 1 : p[j].call \in {"Take", "Check"}
        BY <1>1, <2>1, <3>3 DEF Opening, Prepared
      <4>2. j \in 1..m
        BY <1>1, <2>1
      <4> QED BY <1>1, <4>1, <4>2
    <3> QED BY <1>3, <3>1, <3>2, <3>3
  <2>2. CASE i - m \in 1..n /\ r[i] = q[i - m]
    <3> DEFINE k1 == i - m
    <3>1. k1 \in 1..n /\ r[i] = q[k1] /\ (k1 + 1 \in 1..n => r[i + 1] = q[k1 + 1] /\ i + 1 \in 1..m + n)
      <4>1. m + (k1 + 1) = i + 1
        BY <1>1, <2>2
      <4> QED BY <1>1, <2>2, <4>1
    <3> HIDE DEF k1
    <3>2. /\ r[i].call = "Take" => i + 1 \in 1..m + n /\ r[i + 1].call = "Join"
          /\ r[i].call = "Spawn" => i + 1 \in 1..m + n /\ r[i + 1].call = "Store"
          /\ r[i].call = "Replace" => r[i].arg \in DOMAIN Lists
      <4>1. Linked(q) /\ DOMAIN q = 1..n
        BY <1>1 DEF Proper
      <4> QED BY <3>1, <4>1 DEF Linked
    <3>3. r[i].call = "Store" => i = m + n
      <4>1. r[i].call = "Store" => i - m = n
        BY <1>1, <2>2 DEF Proper
      <4> QED BY <1>1, <4>1
    <3>4. ASSUME r[i].call = "Unpause"
          PROVE  \E j \in 1..m + n : i < j /\ r[j].call = "Spawn"
      <4>1. PICK j \in 1..n : i - m < j /\ q[j].call = "Spawn"
        BY <1>1, <2>2, <3>4 DEF Proper
      <4>2. m + j \in 1..m + n /\ i < m + j /\ r[m + j].call = "Spawn"
        BY <1>1, <4>1
      <4> QED BY <4>2
    <3>5. \E j \in 1..i - 1 : r[j].call \in {"Take", "Check"}
      <4>1. PICK j \in 1..m : p[j].call = "Take"
        BY <1>1 DEF Takes
      <4>2. j \in 1..i - 1
        BY <1>1, <2>2
      <4> QED BY <1>1, <4>1, <4>2
    <3> QED BY <3>2, <3>3, <3>4, <3>5
  <2> QED BY <1>1, <2>1, <2>2
<1>5. Linked(r)
  BY <1>1, <1>4 DEF Linked
<1>6. Proper(r)
  <2> SUFFICES ASSUME NEW i \in DOMAIN r
               PROVE  /\ r[i].call = "Store" => i = Len(r)
                      /\ r[i].call = "Unpause" => \E j \in DOMAIN r : i < j /\ r[j].call = "Spawn"
    BY <1>5 DEF Proper
  <2>1. i \in 1..m + n
    BY <1>1
  <2>2. r[i].call = "Unpause" => \E j \in 1..m + n : i < j /\ r[j].call = "Spawn"
    BY <1>4, <2>1
  <2>3. r[i].call = "Store" => i = m + n
    BY <1>4, <2>1
  <2> QED BY <1>1, <2>2, <2>3
<1>7. Prepared(r)
  BY <1>1, <1>4 DEF Prepared
<1>8. Starts(r)
  BY <1>1, <1>3 DEF Starts
<1> QED BY <1>1, <1>6, <1>7, <1>8 DEF r

LEMMA StopOpens == Opening(StopCalls) /\ Takes(StopCalls) /\ Quiet(StopCalls)
<1> DEFINE q == StopCalls
<1>1. q \in Work /\ DOMAIN q = 1..3
  BY DEF StopCalls, C, Work, Calls
<1>2. q[1].call = "Signal" /\ q[2].call = "Take" /\ q[3].call = "Join"
  BY DEF StopCalls, C
<1> HIDE DEF q
<1>3. \A i \in 1..3 : i = 1 \/ i = 2 \/ i = 3
  OBVIOUS
<1>4. Linked(q)
  BY <1>1, <1>2, <1>3 DEF Linked
<1>5. Prepared(q)
  <2>1. 2 \in 1..3 - 1
    OBVIOUS
  <2> QED BY <1>1, <1>2, <1>3, <2>1 DEF Prepared
<1>6. Takes(q) /\ Quiet(q)
  BY <1>1, <1>2, <1>3 DEF Takes, Quiet
<1> QED BY <1>1, <1>4, <1>5, <1>6 DEF Opening, Quiet, q

LEMMA PlayStarts == /\ PlayCalls \in Work /\ Proper(PlayCalls)
                    /\ Prepared(PlayCalls) /\ Starts(PlayCalls)
<1> DEFINE q == PlayCalls
<1>1. q \in Work /\ DOMAIN q = 1..4 /\ Len(q) = 4
  BY DEF PlayCalls, C, Work, Calls
<1>2. q[1].call = "Check" /\ q[2].call = "Resume" /\ q[3].call = "Spawn" /\ q[4].call = "Store"
  BY DEF PlayCalls, C
<1> HIDE DEF q
<1>3. \A i \in 1..4 : i = 1 \/ i = 2 \/ i = 3 \/ i = 4
  OBVIOUS
<1>4. Proper(q) /\ Starts(q)
  BY <1>1, <1>2, <1>3 DEF Proper, Linked, Starts
<1>5. Prepared(q)
  <2>1. 1 \in 1..3 - 1 /\ 1 \in 1..4 - 1
    OBVIOUS
  <2> QED BY <1>1, <1>2, <1>3, <2>1 DEF Prepared
<1> QED BY <1>1, <1>4, <1>5 DEF q

LEMMA LoadStarts == LoadCalls \in Work /\ Proper(LoadCalls) /\ Starts(LoadCalls)
<1> DEFINE q == <<C("Unpause"), C("Spawn"), C("Store")>>
<1>1. q \in Work /\ DOMAIN q = 1..3 /\ Len(q) = 3
  BY DEF C, Work, Calls
<1>2. q[1].call = "Unpause" /\ q[2].call = "Spawn" /\ q[3].call = "Store"
  BY DEF C
<1> HIDE DEF q
<1>3. \A i \in 1..3 : i = 1 \/ i = 2 \/ i = 3
  OBVIOUS
<1>4. Proper(q) /\ Starts(q)
  BY <1>1, <1>2, <1>3 DEF Proper, Linked, Starts
<1>5. LoadCalls = StopCalls \o q
  BY DEF LoadCalls, q
<1> QED BY <1>1, <1>4, <1>5, StopOpens, OpeningEnds

\* The calls that change the queue.
LEMMA Moves ==
  /\ \A c \in {"Clear", "Lock", "Follow"} :
       <<C(c)>> \in Work /\ Linked(<<C(c)>>) /\ Prepared(<<C(c)>>) /\ Quiet(<<C(c)>>)
  /\ \A i \in Nat : <<CA("Goto", i)>> \in Work /\ Linked(<<CA("Goto", i)>>) /\ Quiet(<<CA("Goto", i)>>)
  /\ \A i \in DOMAIN Lists :
       <<CA("Replace", i)>> \in Work /\ Linked(<<CA("Replace", i)>>) /\ Quiet(<<CA("Replace", i)>>)
<1>1. ASSUME NEW c \in {"Clear", "Lock", "Follow"}
      PROVE  <<C(c)>> \in Work /\ Linked(<<C(c)>>) /\ Prepared(<<C(c)>>) /\ Quiet(<<C(c)>>)
  BY DEF C, Work, Calls, Linked, Prepared, Quiet
<1>2. ASSUME NEW i \in Nat
      PROVE  <<CA("Goto", i)>> \in Work /\ Linked(<<CA("Goto", i)>>) /\ Quiet(<<CA("Goto", i)>>)
  BY DEF CA, Work, Calls, Linked, Quiet
<1>3. ASSUME NEW i \in DOMAIN Lists
      PROVE  <<CA("Replace", i)>> \in Work /\ Linked(<<CA("Replace", i)>>) /\ Quiet(<<CA("Replace", i)>>)
  <2>1. i \in Nat
    BY PlayerAssumption
  <2> QED BY <2>1 DEF CA, Work, Calls, Linked, Quiet
<1> QED BY <1>1, <1>2, <1>3

\* A request of the command handler.
LEMMA Requests ==
  ASSUME TypeOK, NEW q \in QueueCommands \cup Transport
  PROVE  q \in Work /\ Proper(q) /\ Prepared(q)
<1>1. DOMAIN queue \subseteq Nat
  <2>1. \A i \in DOMAIN Lists : Lists[i] \in Seq(Nat \ {0})
    BY PlayerAssumption
  <2> QED BY <2>1 DEF TypeOK
<1>2. ASSUME NEW x, x \in Work, Linked(x), Quiet(x)
      PROVE  /\ Opening(StopCalls \o x) /\ Takes(StopCalls \o x) /\ Quiet(StopCalls \o x)
  <2>1. \A i \in DOMAIN x : x[i].call \notin {"Spawn", "Store"}
    BY <1>2 DEF Quiet
  <2> QED BY <1>2, <2>1, StopOpens, OpeningGoesOn
<1>3. ASSUME NEW x, Opening(x), Quiet(x)
      PROVE  x \in Work /\ Proper(x) /\ Prepared(x)
  BY <1>3 DEF Opening, Quiet, Proper
<1>4. CASE q = StopCalls \o PlayCalls \/ q = StopCalls
  BY <1>3, <1>4, StopOpens, PlayStarts, OpeningEnds
<1>5. CASE q = PlayCalls
  BY <1>5, PlayStarts
<1>6. ASSUME NEW x, q = StopCalls \o x \o PlayCalls, x \in Work, Linked(x),
             \A i \in DOMAIN x : x[i].call \notin {"Spawn", "Store"}
      PROVE  q \in Work /\ Proper(q) /\ Prepared(q)
  <2>1. Opening(StopCalls \o x) /\ Takes(StopCalls \o x)
    BY <1>6, StopOpens, OpeningGoesOn
  <2> QED BY <1>6, <2>1, PlayStarts, OpeningEnds
<1>7. ASSUME NEW move \in {"Next", "Prev"}, q = StopCalls \o <<C(move), C("Unpause")>> \o PlayCalls
      PROVE  q \in Work /\ Proper(q) /\ Prepared(q)
  <2> DEFINE x == <<C(move), C("Unpause")>>
  <2>1. x \in Work /\ Linked(x) /\ \A i \in DOMAIN x : x[i].call \notin {"Spawn", "Store"}
    BY DEF C, Work, Calls, Linked
  <2> HIDE DEF x
  <2> QED BY <1>6, <1>7, <2>1 DEF x
<1>8. ASSUME NEW i \in DOMAIN queue, q = StopCalls \o <<CA("Goto", i), C("Unpause")>> \o PlayCalls
      PROVE  q \in Work /\ Proper(q) /\ Prepared(q)
  <2> DEFINE x == <<CA("Goto", i), C("Unpause")>>
  <2>1. x \in Work /\ Linked(x) /\ \A j \in DOMAIN x : x[j].call \notin {"Spawn", "Store"}
    BY <1>1 DEF C, CA, Work, Calls, Linked
  <2> HIDE DEF x
  <2> QED BY <1>6, <1>8, <2>1 DEF x
<1>9. ASSUME NEW x, q = StopCalls \o x \o LoadCalls, x \in Work, Linked(x), Quiet(x)
      PROVE  q \in Work /\ Proper(q) /\ Prepared(q)
  BY <1>2, <1>9, LoadStarts, OpeningEnds
<1>10. ASSUME NEW i \in DOMAIN Lists, q = StopCalls \o <<CA("Replace", i)>> \o LoadCalls
       PROVE  q \in Work /\ Proper(q) /\ Prepared(q)
  BY <1>9, <1>10, Moves
<1>11. ASSUME NEW i \in DOMAIN queue, q = StopCalls \o <<CA("Goto", i)>> \o LoadCalls
       PROVE  q \in Work /\ Proper(q) /\ Prepared(q)
  BY <1>1, <1>9, <1>11, Moves
<1>12. CASE q = StopCalls \o <<C("Clear")>>
  BY <1>2, <1>3, <1>12, Moves
<1> QED BY <1>4, <1>5, <1>7, <1>8, <1>10, <1>11, <1>12 DEF QueueCommands, Transport

\* The request of the multiroom loop starts no thread.
LEMMA Hello ==
  LET q == <<C("Lock")>> \o StopCalls \o <<C("Follow")>>
  IN  q \in Work /\ Proper(q) /\ \A i \in DOMAIN q : q[i].call \notin {"Spawn", "Store"}
<1> DEFINE l == <<C("Lock")>>  f == <<C("Follow")>>
<1>1. /\ l \in Work /\ Linked(l) /\ Prepared(l) /\ Quiet(l)
      /\ f \in Work /\ Linked(f) /\ Prepared(f) /\ Quiet(f)
  BY Moves
<1> HIDE DEF l, f
<1>2. Opening(l)
  BY <1>1 DEF Opening, Quiet
<1>3. Opening(l \o StopCalls) /\ Quiet(l \o StopCalls)
  BY <1>1, <1>2, StopOpens, OpeningGoesOn DEF Opening
<1>4. Opening(l \o StopCalls \o f) /\ Quiet(l \o StopCalls \o f)
  <2>1. \A i \in DOMAIN f : f[i].call \notin {"Spawn", "Store"}
    BY <1>1 DEF Quiet
  <2> QED BY <1>1, <1>3, <2>1, OpeningGoesOn
<1> QED BY <1>4 DEF Opening, Quiet, Proper, l, f

LEMMA TailFacts ==
  ASSUME NEW S, NEW q \in Seq(S), q # <<>>
  PROVE  /\ Tail(q) \in Seq(S) /\ Len(q) \in Nat \ {0}
         /\ DOMAIN q = 1..Len(q) /\ DOMAIN Tail(q) = 1..Len(q) - 1 /\ Len(Tail(q)) = Len(q) - 1
         /\ Head(q) = q[1] /\ q[1] \in S
         /\ \A i \in 1..Len(q) - 1 : i + 1 \in 1..Len(q) /\ Tail(q)[i] = q[i + 1]
         /\ Tail(q) # <<>> => Head(Tail(q)) = Tail(q)[1]
         /\ Tail(q) = <<>> <=> Len(q) = 1
<1>1. /\ Tail(q) \in Seq(S) /\ Len(q) \in Nat \ {0}
      /\ DOMAIN q = 1..Len(q) /\ DOMAIN Tail(q) = 1..Len(q) - 1 /\ Len(Tail(q)) = Len(q) - 1
      /\ Head(q) = q[1] /\ q[1] \in S
      /\ \A i \in 1..Len(q) - 1 : i + 1 \in 1..Len(q) /\ Tail(q)[i] = q[i + 1]
  OBVIOUS
<1>2. Tail(q) # <<>> => Head(Tail(q)) = Tail(q)[1]
  BY <1>1
<1>3. Tail(q) = <<>> <=> Len(q) = 1
  <2>1. Tail(q) = <<>> <=> Len(Tail(q)) = 0
    BY <1>1, EmptySeq
  <2> QED BY <1>1, <2>1
<1> QED BY <1>1, <1>2, <1>3

\* What is left of a request after its first call.
LEMMA TailWork ==
  ASSUME NEW q \in Work, q # <<>>, Proper(q)
  PROVE  /\ Tail(q) \in Work /\ Head(q) = q[1] /\ Head(q) \in [call : Calls, arg : Nat]
         /\ Proper(Tail(q))
         /\ Prepared(q) /\ Head(q).call \notin {"Take", "Check"} => Prepared(Tail(q))
         /\ Prepared(q) => Head(q).call \notin {"Join", "Spawn", "Store"}
         /\ Head(q).call = "Take" => Tail(q) # <<>> /\ Head(Tail(q)).call = "Join"
         /\ Head(q).call = "Spawn" => Tail(q) # <<>> /\ Head(Tail(q)).call = "Store"
         /\ Head(q).call = "Store" => Tail(q) = <<>>
         /\ Head(q).call = "Unpause" => Starts(Tail(q))
         /\ Head(q).call = "Replace" => Head(q).arg \in DOMAIN Lists
         /\ \A i \in DOMAIN Tail(q) : \E j \in DOMAIN q : Tail(q)[i] = q[j]
         /\ Starts(q) => Head(q).call = "Spawn" \/ Starts(Tail(q))
<1> DEFINE r == Tail(q)  k == Len(q)
<1>1. /\ r \in Work /\ k \in Nat \ {0} /\ DOMAIN q = 1..k /\ DOMAIN r = 1..k - 1 /\ Len(r) = k - 1
      /\ Head(q) = q[1] /\ q[1] \in [call : Calls, arg : Nat] /\ k = Len(q)
      /\ \A i \in 1..k - 1 : i + 1 \in 1..k /\ r[i] = q[i + 1]
      /\ (r # <<>> => Head(r) = r[1]) /\ (r = <<>> <=> k = 1)
  BY TailFacts DEF Work
<1> HIDE DEF r, k
<1>2. 1 + 1 \in 1..k => r # <<>> /\ r[1] = q[1 + 1]
  <2>1. 1 + 1 \in 1..k => 1 \in 1..k - 1
    BY <1>1
  <2>2. 1 + 1 \in 1..k => k # 1
    BY <1>1
  <2> QED BY <1>1, <2>1, <2>2
<1>3. \A j \in 1..k : j > 1 => j - 1 \in 1..k - 1 /\ r[j - 1] = q[j]
  <2> SUFFICES ASSUME NEW j \in 1..k, j > 1 PROVE j - 1 \in 1..k - 1 /\ r[j - 1] = q[j]
    OBVIOUS
  <2>1. j - 1 \in 1..k - 1 /\ (j - 1) + 1 = j
    BY <1>1
  <2> QED BY <1>1, <2>1
<1>4. Linked(r)
  <2> SUFFICES ASSUME NEW i \in 1..k - 1
               PROVE  /\ r[i].call = "Take" => i + 1 \in 1..k - 1 /\ r[i + 1].call = "Join"
                      /\ r[i].call = "Spawn" => i + 1 \in 1..k - 1 /\ r[i + 1].call = "Store"
                      /\ r[i].call = "Replace" => r[i].arg \in DOMAIN Lists
    BY <1>1 DEF Linked
  <2> DEFINE h == i + 1
  <2>1. h \in 1..k /\ r[i] = q[h] /\ (h + 1 \in 1..k => i + 1 \in 1..k - 1 /\ r[i + 1] = q[h + 1])
    BY <1>1
  <2> HIDE DEF h
  <2> QED BY <1>1, <2>1 DEF Proper, Linked
<1>5. Proper(r)
  <2> SUFFICES ASSUME NEW i \in 1..k - 1
               PROVE  /\ r[i].call = "Store" => i = k - 1
                      /\ r[i].call = "Unpause" => \E j \in 1..k - 1 : i < j /\ r[j].call = "Spawn"
    BY <1>1, <1>4 DEF Proper
  <2>1. r[i].call = "Store" => i = k - 1
    <3>1. r[i] = q[i + 1] /\ i + 1 \in DOMAIN q
      BY <1>1
    <3>2. q[i + 1].call = "Store" => i + 1 = k
      BY <1>1, <3>1 DEF Proper
    <3>3. i + 1 = k => i = k - 1
      <4>1. i \in Int /\ k \in Int
        BY <1>1
      <4> QED BY <4>1
    <3> QED BY <3>1, <3>2, <3>3
  <2>2. ASSUME r[i].call = "Unpause"
        PROVE  \E j \in 1..k - 1 : i < j /\ r[j].call = "Spawn"
    <3>1. PICK j \in 1..k : i + 1 < j /\ q[j].call = "Spawn"
      BY <1>1, <2>2 DEF Proper
    <3>2. j - 1 \in 1..k - 1 /\ i < j - 1 /\ r[j - 1].call = "Spawn"
      BY <1>1, <1>3, <3>1
    <3> QED BY <3>2
  <2> QED BY <1>1, <2>1, <2>2
<1>6. ASSUME Prepared(q), q[1].call \notin {"Take", "Check"}
      PROVE  Prepared(r)
  <2> SUFFICES ASSUME NEW i \in 1..k - 1, r[i].call \in {"Join", "Spawn", "Store"}
               PROVE  \E j \in 1..i - 1 : r[j].call \in {"Take", "Check"}
    BY <1>1 DEF Prepared
  <2>1. PICK j \in 1..(i + 1) - 1 : q[j].call \in {"Take", "Check"}
    BY <1>1, <1>6 DEF Prepared
  <2>2. j - 1 \in 1..i - 1 /\ j \in 1..k /\ j > 1
    BY <1>1, <1>6, <2>1
  <2> QED BY <1>3, <2>1, <2>2
<1>7. Prepared(q) => q[1].call \notin {"Join", "Spawn", "Store"}
  BY <1>1 DEF Prepared
<1>8. /\ q[1].call = "Take" => r # <<>> /\ Head(r).call = "Join"
      /\ q[1].call = "Spawn" => r # <<>> /\ Head(r).call = "Store"
      /\ q[1].call = "Store" => r = <<>>
      /\ q[1].call = "Replace" => q[1].arg \in DOMAIN Lists
  <2>1. 1 \in DOMAIN q
    BY <1>1
  <2>2. /\ q[1].call = "Take" => 1 + 1 \in 1..k /\ q[1 + 1].call = "Join"
        /\ q[1].call = "Spawn" => 1 + 1 \in 1..k /\ q[1 + 1].call = "Store"
        /\ q[1].call = "Store" => 1 = k
        /\ q[1].call = "Replace" => q[1].arg \in DOMAIN Lists
    BY <1>1, <2>1 DEF Proper, Linked
  <2> QED BY <1>1, <1>2, <2>2
<1>9. q[1].call = "Unpause" => Starts(r)
  <2>1. q[1].call = "Unpause" => \E j \in 1..k : 1 < j /\ q[j].call = "Spawn"
    BY <1>1 DEF Proper
  <2> QED BY <1>1, <1>3, <2>1 DEF Starts
<1>10. ASSUME Starts(q)
       PROVE  q[1].call = "Spawn" \/ Starts(r)
  <2>1. PICK j \in 1..k : q[j].call = "Spawn"
    BY <1>1, <1>10 DEF Starts
  <2>2. CASE j = 1
    BY <2>1, <2>2
  <2>3. CASE j > 1
    BY <1>1, <1>3, <2>1, <2>3 DEF Starts
  <2> QED BY <1>1, <2>2, <2>3
<1>11. \A i \in DOMAIN r : \E j \in DOMAIN q : r[i] = q[j]
  BY <1>1
<1> QED BY <1>1, <1>5, <1>6, <1>7, <1>8, <1>9, <1>10, <1>11 DEF r

-----------------------------------------------------------------------------
(* Types.                                                                  *)

Thread == [pc : {"Top", "Open", "Play", "Finished", "Retry", "Ended"},
           song : Songs \cup {Remote}, at : 0..Length, retries : 0..MaxRetries]
Event  == [type : {"PLAYING", "STOPPED", "ERROR"}] \cup [type : {"TIME"}, time : Positions]

ListTypes ==
  /\ queue \in {Lists[i] : i \in DOMAIN Lists} \cup {<<>>}
  /\ pos \in Nat /\ (queue # <<>> => pos \in DOMAIN queue)

StoreTypes ==
  /\ stop \in BOOLEAN /\ skip \in Positions /\ crossed \subseteq Actors
  /\ paused \in BOOLEAN /\ progress \in Positions
  /\ follower \in BOOLEAN /\ grouped \in BOOLEAN /\ mirrors \in 0..MaxHellos
  /\ shown \in {"PLAYING", "STOPPED", "ERROR"}

ThreadTypes ==
  handle \in Threads \cup {0} /\ grip \in [Actors -> Threads \cup {0}] /\ thread \in Seq(Thread)

LEMMA TypeParts ==
  TypeOK <=> /\ ListTypes /\ StoreTypes /\ ThreadTypes
             /\ events \in Seq(Event) /\ todo \in [Actors -> Work]
BY DEF TypeOK, ListTypes, StoreTypes, ThreadTypes, Thread, Event, Work

LEMMA NextTypes ==
  ASSUME ListTypes', StoreTypes', ThreadTypes', events' \in Seq(Event), todo' \in [Actors -> Work]
  PROVE  TypeOK'
BY DEF TypeOK, ListTypes, StoreTypes, ThreadTypes, Thread, Event, Work

LEMMA ListFacts ==
  /\ \A i \in DOMAIN Lists : /\ Lists[i] \in Seq(Nat \ {0}) /\ Lists[i] # <<>>
                             /\ 1 \in DOMAIN Lists[i] /\ \A j \in DOMAIN Lists[i] : Lists[i][j] \in Songs
  /\ Length \in Nat \ {0} /\ Saved \in 0..Length /\ MaxRetries \in Nat /\ MaxHellos \in Nat
  /\ EventSlots \in Nat \ {0}
<1>1. ASSUME NEW i \in DOMAIN Lists
      PROVE  /\ Lists[i] \in Seq(Nat \ {0}) /\ Lists[i] # <<>> /\ 1 \in DOMAIN Lists[i]
             /\ \A j \in DOMAIN Lists[i] : Lists[i][j] \in Songs
  <2>1. Lists[i] \in Seq(Nat \ {0}) /\ Lists[i] # <<>>
    BY PlayerAssumption
  <2>2. 1 \in DOMAIN Lists[i]
    BY <2>1, EmptySeq
  <2> QED BY <2>1, <2>2 DEF Songs
<1> QED BY <1>1, PlayerAssumption

LEMMA QueueFacts ==
  ASSUME ListTypes
  PROVE  /\ queue \in Seq(Nat \ {0}) /\ DOMAIN queue = 1..Len(queue) /\ Len(queue) \in Nat
         /\ queue # <<>> => queue[pos] \in Songs /\ pos \in 1..Len(queue)
<1>1. queue \in Seq(Nat \ {0})
  <2>1. <<>> \in Seq(Nat \ {0})
    OBVIOUS
  <2>2. queue = <<>> \/ \E i \in DOMAIN Lists : queue = Lists[i]
    BY DEF ListTypes
  <2> QED BY <2>1, <2>2, ListFacts
<1>2. queue # <<>> => queue[pos] \in Songs /\ pos \in DOMAIN queue
  BY ListFacts DEF ListTypes
<1> QED BY <1>1, <1>2

LEMMA TellFacts ==
  ASSUME TypeOK, NEW e \in Event, Tell(e)
  PROVE  events' \in Seq(Event) /\ events' # <<>> /\ events'[Len(events')] = e
<1> DEFINE q == Append(events, e)
<1>1. /\ q \in Seq(Event) /\ Len(q) \in Nat \ {0} /\ q[Len(q)] = e /\ q # <<>>
      /\ EventSlots \in Nat \ {0} /\ events' = Newest(q)
  <2>1. events \in Seq(Event)
    BY TypeParts
  <2>2. q \in Seq(Event) /\ Len(q) \in Nat \ {0} /\ q[Len(q)] = e
    BY <2>1
  <2> QED BY <2>2, ListFacts, EmptySeq DEF Tell
<1> HIDE DEF q
<1>2. CASE Len(q) <= EventSlots
  BY <1>1, <1>2 DEF Newest
<1>3. CASE Len(q) > EventSlots
  <2> DEFINE n == Len(q) - EventSlots  r == SubSeq(q, n + 1, Len(q))
  <2>1. n \in Nat /\ n + 1 \in 1..Len(q) /\ events' = r
    BY <1>1, <1>3 DEF Newest
  <2>2. r \in Seq(Event) /\ Len(r) = EventSlots /\ r[EventSlots] = q[Len(q)]
    BY <1>1, <2>1
  <2> QED BY <1>1, <2>1, <2>2, EmptySeq
<1> QED BY <1>1, <1>2, <1>3

LEMMA EventFacts ==
  /\ \A s \in {"PLAYING", "STOPPED", "ERROR"} : [type |-> s] \in Event
  /\ \A p \in Positions : [type |-> "TIME", time |-> p] \in Event
  /\ \A e \in Event : e.type = "TIME" => e.time \in Positions
BY DEF Event

-----------------------------------------------------------------------------
(* Playback threads.                                                       *)

LEMMA AliveFacts == /\ \A t : t \in Alive <=> t \in Threads /\ thread[t].pc # "Ended"
                    /\ (0 \in Alive => 0 \in Threads)
BY DEF Alive

\* A step of a thread that is alive leaves all else as it is.
LEMMA Rewritten ==
  ASSUME IInv, NEW t \in Threads, thread[t].pc # "Ended", NEW new \in Thread, Become(t, new),
         UNCHANGED <<handle, work, mirrors>>
  PROVE  /\ ThreadTypes' /\ Threads' = Threads /\ Alive' \subseteq Alive /\ t \in Alive
         /\ \A r \in Threads : thread'[r] = IF r = t THEN new ELSE thread[r]
         /\ todo' \in [Actors -> Work]
         /\ Tally' /\ Lined' /\ FreeHandle' /\ InHand' /\ Held' /\ Alone'
<1>1. /\ ThreadTypes /\ todo \in [Actors -> Work]
      /\ UNCHANGED <<handle, grip, todo, count, mirrors>>
  BY TypeParts DEF IInv, work
<1>2. /\ thread' \in Seq(Thread) /\ Threads' = Threads
      /\ \A r \in Threads : thread'[r] = IF r = t THEN new ELSE thread[r]
  BY <1>1 DEF ThreadTypes, Become, Threads
<1>3. ThreadTypes'
  BY <1>1, <1>2 DEF ThreadTypes
<1>4. Alive' \subseteq Alive /\ t \in Alive
  BY <1>2 DEF Alive
<1>5. Tally' /\ Lined' /\ Alone'
  BY <1>1 DEF IInv, Tally, Lined, Alone
<1>6. FreeHandle' /\ InHand' /\ Held'
  BY <1>1, <1>4 DEF IInv, FreeHandle, InHand, Held
<1> QED BY <1>1, <1>2, <1>3, <1>4, <1>5, <1>6

LEMMA SetFacts ==
  ASSUME TypeOK, NEW t \in Threads
  PROVE  /\ thread[t] \in Thread
         /\ \A pc \in {"Top", "Open", "Play", "Finished", "Retry", "Ended"} :
              Set(t, pc) \in Thread /\ Set(t, pc).pc = pc
<1>1. thread[t] \in Thread
  BY TypeParts DEF ThreadTypes, Threads
<1> QED BY <1>1 DEF Set, Thread

LEMMA ThreadActs ==
  ASSUME IInv, NEW t \in Threads, ThreadStep(t)
  PROVE  IInv'
<1>1. /\ TypeOK /\ ListTypes /\ StoreTypes /\ ThreadTypes /\ events \in Seq(Event)
      /\ thread[t] \in Thread
  BY TypeParts, SetFacts DEF IInv
<1>2. ASSUME NEW new \in Thread, Become(t, new), thread[t].pc # "Ended",
             UNCHANGED <<handle, work, mirrors>>, ListTypes', StoreTypes', events' \in Seq(Event)
      PROVE  IInv'
  <2>1. /\ ThreadTypes' /\ todo' \in [Actors -> Work]
        /\ Tally' /\ Lined' /\ FreeHandle' /\ InHand' /\ Held' /\ Alone'
    BY <1>2, Rewritten
  <2>2. TypeOK'
    BY <1>2, <2>1, NextTypes
  <2> QED BY <2>1, <2>2 DEF IInv
<1>3. ASSUME NEW s \in {"PLAYING", "STOPPED", "ERROR"}, TellState(s)
      PROVE  events' \in Seq(Event) /\ shown' \in {"PLAYING", "STOPPED", "ERROR"}
  BY <1>1, <1>3, TellFacts, EventFacts DEF TellState
<1>4. UNCHANGED <<queue, pos>> => ListTypes'
  BY <1>1 DEF ListTypes
<1>5. UNCHANGED <<stop, skip, crossed, store, group>> /\ shown' \in {"PLAYING", "STOPPED", "ERROR"}
        => StoreTypes'
  BY <1>1 DEF StoreTypes, store, group
<1>6. shown \in {"PLAYING", "STOPPED", "ERROR"}
  BY <1>1 DEF StoreTypes
<1>7. CASE Begin(t)
  <2>1. UNCHANGED <<queue, pos, handle, work, mirrors, stop, skip, crossed, store, group>>
    BY <1>7 DEF Begin, control, group
  <2>2. CASE queue = <<>>
    BY <1>2, <1>3, <1>4, <1>5, <1>7, <2>1, <2>2, SetFacts, <1>1 DEF Begin
  <2>3. CASE queue # <<>>
    <3> DEFINE new == [Set(t, "Open") EXCEPT !.song = queue[pos], !.at = 0]
    <3>1. new \in Thread
      <4>1. queue[pos] \in Songs /\ Set(t, "Open") \in Thread /\ 0 \in 0..Length
        BY <1>1, <2>3, QueueFacts, SetFacts, ListFacts
      <4> QED BY <4>1 DEF Thread
    <3>2. Become(t, new) /\ TellState("PLAYING") /\ thread[t].pc # "Ended"
      BY <1>7, <2>3 DEF Begin
    <3> HIDE DEF new
    <3> QED BY <1>2, <1>3, <1>4, <1>5, <2>1, <3>1, <3>2
  <2> QED BY <2>2, <2>3
<1>8. CASE Open(t) \/ Drain(t)
  <2>1. /\ UNCHANGED <<queue, pos, handle, work, mirrors, stop, skip, crossed, store, group, events, shown>>
        /\ thread[t].pc # "Ended" /\ (Become(t, Set(t, "Play")) \/ Become(t, Set(t, "Finished")))
    BY <1>8 DEF Open, Drain, control, group
  <2> QED BY <1>1, <1>2, <1>4, <1>5, <1>6, <2>1, SetFacts
<1>9. CASE Fail(t)
  <2>1. UNCHANGED <<queue, pos, handle, work, mirrors, stop, skip, crossed, store, group>>
        /\ thread[t].pc # "Ended"
    BY <1>9 DEF Fail, control, group
  <2>2. CASE thread[t].retries < MaxRetries /\ ~stop
    <3> DEFINE new == [Set(t, "Retry") EXCEPT !.retries = @ + 1]
    <3>1. new \in Thread
      <4>1. Set(t, "Retry") \in Thread /\ Set(t, "Retry").retries = thread[t].retries
        BY <1>1, SetFacts DEF Set, Thread
      <4>2. thread[t].retries + 1 \in 0..MaxRetries
        <5>1. thread[t].retries \in 0..MaxRetries /\ MaxRetries \in Nat
          BY <1>1, ListFacts DEF Thread
        <5> QED BY <2>2, <5>1
      <4> QED BY <4>1, <4>2 DEF Thread
    <3>2. Become(t, new) /\ UNCHANGED <<events, shown>>
      BY <1>9, <2>2 DEF Fail
    <3> HIDE DEF new
    <3> QED BY <1>1, <1>2, <1>4, <1>5, <1>6, <2>1, <3>1, <3>2
  <2>3. CASE ~(thread[t].retries < MaxRetries /\ ~stop)
    BY <1>1, <1>2, <1>3, <1>4, <1>5, <1>9, <2>1, <2>3, SetFacts DEF Fail
  <2> QED BY <2>2, <2>3
<1>10. CASE Retry(t)
  <2>1. UNCHANGED <<queue, pos, handle, work, mirrors, stop, skip, crossed, store, group>>
        /\ thread[t].pc # "Ended"
    BY <1>10 DEF Retry, control, group
  <2>2. CASE stop
    BY <1>1, <1>2, <1>3, <1>4, <1>5, <1>10, <2>1, <2>2, SetFacts DEF Retry
  <2>3. CASE ~stop
    BY <1>1, <1>2, <1>4, <1>5, <1>6, <1>10, <2>1, <2>3, SetFacts DEF Retry
  <2> QED BY <2>2, <2>3
<1>11. CASE Stopped(t)
  <2>1. UNCHANGED <<queue, pos, handle, work, mirrors, stop, skip, crossed, store, group>>
        /\ thread[t].pc # "Ended" /\ Become(t, Set(t, "Ended")) /\ TellState("STOPPED")
    BY <1>11 DEF Stopped, control, group
  <2> QED BY <1>1, <1>2, <1>3, <1>4, <1>5, <2>1, SetFacts
<1>12. CASE SeekTo(t)
  <2>1. /\ UNCHANGED <<queue, pos, handle, work, mirrors, stop, crossed, store, group, events, shown>>
        /\ thread[t].pc # "Ended" /\ Become(t, [thread[t] EXCEPT !.at = skip.at])
        /\ skip' = [skip EXCEPT !.at = 0]
    BY <1>12 DEF SeekTo, group
  <2>2. [thread[t] EXCEPT !.at = skip.at] \in Thread /\ skip' \in Positions
    <3>1. skip \in Positions /\ 0 \in 0..Length
      BY <1>1, ListFacts DEF StoreTypes
    <3> QED BY <1>1, <2>1, <3>1 DEF Thread, Positions
  <2>3. StoreTypes'
    BY <1>1, <2>1, <2>2 DEF StoreTypes, store, group
  <2> QED BY <1>1, <1>2, <1>4, <2>1, <2>2, <2>3
<1>13. CASE PlayOn(t)
  <2> DEFINE new == [thread[t] EXCEPT !.at = @ + 1]
             e == [type |-> "TIME", time |-> [at |-> thread'[t].at, of |-> thread[t].song]]
  <2>1. /\ UNCHANGED <<queue, pos, handle, work, mirrors, stop, skip, crossed, store, group, shown>>
        /\ thread[t].pc # "Ended" /\ Become(t, new) /\ Tell(e) /\ thread[t].at < Length
    BY <1>13 DEF PlayOn, control, group
  <2>2. new \in Thread
    <3>1. thread[t].at \in 0..Length /\ Length \in Nat
      BY <1>1, ListFacts DEF Thread
    <3>2. thread[t].at + 1 \in 0..Length
      BY <2>1, <3>1
    <3> QED BY <1>1, <3>2 DEF Thread
  <2> HIDE DEF new
  <2>3. e \in Event
    <3>1. thread'[t] = new
      BY <1>1, <2>1, <2>2 DEF Become, ThreadTypes, Threads
    <3>2. [at |-> thread'[t].at, of |-> thread[t].song] \in Positions
      BY <1>1, <2>2, <3>1 DEF Thread, Positions
    <3> QED BY <3>2, EventFacts
  <2> HIDE DEF e
  <2>4. events' \in Seq(Event)
    BY <1>1, <2>1, <2>3, TellFacts
  <2> QED BY <1>2, <1>4, <1>5, <1>6, <2>1, <2>2, <2>4
<1>14. CASE Advance(t)
  <2>1. UNCHANGED <<queue, handle, work, mirrors, stop, skip, crossed, store, group, events, shown>>
        /\ thread[t].pc # "Ended"
    BY <1>14 DEF Advance, control, group
  <2>2. CASE queue # <<>> /\ pos < Len(queue)
    <3> DEFINE new == [Set(t, "Top") EXCEPT !.retries = 0]
    <3>1. new \in Thread
      <4>1. Set(t, "Top") \in Thread /\ 0 \in 0..MaxRetries
        BY <1>1, SetFacts, ListFacts
      <4> QED BY <4>1 DEF Thread
    <3>2. Become(t, new) /\ pos' = pos + 1
      BY <1>14, <2>2 DEF Advance
    <3> HIDE DEF new
    <3>3. ListTypes'
      <4>1. pos \in 1..Len(queue) /\ DOMAIN queue = 1..Len(queue) /\ Len(queue) \in Nat
        BY <1>1, <2>2, QueueFacts
      <4>2. pos + 1 \in 1..Len(queue)
        BY <2>2, <4>1
      <4> QED BY <1>1, <2>1, <3>2, <4>1, <4>2 DEF ListTypes
    <3> QED BY <1>1, <1>2, <1>5, <1>6, <2>1, <3>1, <3>2, <3>3
  <2>3. CASE ~(queue # <<>> /\ pos < Len(queue))
    BY <1>1, <1>2, <1>4, <1>5, <1>6, <1>14, <2>1, <2>3, SetFacts DEF Advance
  <2> QED BY <2>2, <2>3
<1> QED BY <1>7, <1>8, <1>9, <1>10, <1>11, <1>12, <1>13, <1>14 DEF ThreadStep

-----------------------------------------------------------------------------
(* Calls.                                                                  *)

LEMMA DoneFacts ==
  ASSUME IInv, NEW a \in Actors, todo[a] # <<>>, UNCHANGED <<count, mirrors>>,
         todo' = [todo EXCEPT ![a] = Tail(@)] \/ todo' = [todo EXCEPT ![a] = <<>>]
  PROVE  /\ todo' \in [Actors -> Work] /\ \A b \in Actors \ {a} : todo'[b] = todo[b]
         /\ todo'[a] = Tail(todo[a]) \/ todo'[a] = <<>>
         /\ Tally' /\ Lined'
         /\ grip'["multiroom"] = grip["multiroom"] \/ a = "multiroom" => Alone'
         /\ ~Grouping => a # "multiroom"
<1> DEFINE q == todo[a]
<1>1. todo \in [Actors -> Work] /\ q \in Work /\ q # <<>> /\ Proper(q)
  BY TypeParts DEF IInv, Lined
<1>2. /\ Tail(q) \in Work /\ Proper(Tail(q))
      /\ \A i \in DOMAIN Tail(q) : \E j \in DOMAIN q : Tail(q)[i] = q[j]
  BY <1>1, TailWork
<1>3. <<>> \in Work /\ Proper(<<>>) /\ DOMAIN <<>> = {}
  BY DEF Work, Proper, Linked
<1>4. /\ todo' \in [Actors -> Work] /\ \A b \in Actors \ {a} : todo'[b] = todo[b]
      /\ todo'[a] = Tail(q) \/ todo'[a] = <<>>
  BY <1>1, <1>2, <1>3
<1> HIDE DEF q
<1>5. \A b \in Actors : Proper(todo'[b])
  BY <1>2, <1>3, <1>4 DEF IInv, Lined
<1>6. \A i \in DOMAIN todo'["multiroom"] : todo'["multiroom"][i].call \notin {"Spawn", "Store"}
  <2>1. "multiroom" \in Actors
    BY DEF Actors
  <2>2. CASE a = "multiroom"
    BY <1>2, <1>3, <1>4, <2>2 DEF IInv, Lined, q
  <2>3. CASE a # "multiroom"
    BY <1>4, <2>1, <2>3 DEF IInv, Lined
  <2> QED BY <2>2, <2>3
<1>7. ~Grouping => a # "multiroom" /\ todo'["multiroom"] = <<>>
  BY <1>4 DEF IInv, Alone, Actors
<1>8. grip'["multiroom"] = grip["multiroom"] \/ a = "multiroom" => Alone'
  BY <1>7 DEF IInv, Alone
<1> QED BY <1>4, <1>5, <1>6, <1>7, <1>8 DEF Lined, Tally, IInv, q

\* Calls that leave threads and handles alone.
LEMMA PlainCall ==
  ASSUME IInv, NEW a \in Actors, todo[a] # <<>>, Done(a),
         UNCHANGED <<handle, grip, thread, mirrors>>,
         Head(todo[a]).call \notin {"Take", "Check", "Join", "Spawn", "Store"}
  PROVE  /\ ThreadTypes' /\ todo' \in [Actors -> Work]
         /\ Tally' /\ Lined' /\ FreeHandle' /\ InHand' /\ Held' /\ Alone'
<1>1. /\ todo' \in [Actors -> Work] /\ \A b \in Actors \ {a} : todo'[b] = todo[b]
      /\ Tally' /\ Lined' /\ Alone'
  BY DoneFacts DEF Done
<1>2. todo'[a] = Tail(todo[a]) /\ todo[a] \in Work /\ Proper(todo[a])
  BY TypeParts DEF IInv, Done, Lined
<1>3. ThreadTypes' /\ Alive' = Alive
  BY TypeParts DEF IInv, ThreadTypes, Threads, Alive
<1>4. FreeHandle'
  <2>1. Prepared(todo["commands"]) => Prepared(todo'["commands"])
    <3>1. CASE a = "commands"
      BY <1>2, <3>1, TailWork
    <3>2. CASE a # "commands"
      BY <1>1, <3>2 DEF Actors
    <3> QED BY <3>1, <3>2
  <2> QED BY <1>3, <2>1 DEF FreeHandle, IInv
<1>5. InHand'
  BY <1>1, <1>3 DEF InHand, IInv
<1>6. Held'
  BY <1>3 DEF Held, IInv
<1> QED BY <1>1, <1>3, <1>4, <1>5, <1>6

LEMMA CallFacts ==
  ASSUME IInv, NEW a \in Actors, NEW c, Calling(a, c)
  PROVE  /\ todo[a] # <<>> /\ Head(todo[a]).call = c /\ todo[a] \in Work /\ Proper(todo[a])
         /\ c \notin {"Join", "Store"} => grip[a] \notin Alive
         /\ c \in {"Spawn", "Store"} => a = "commands"
         /\ a = "commands" /\ c \in {"Join", "Spawn", "Store"} => handle \notin Alive
<1>1. todo[a] # <<>> /\ Head(todo[a]).call = c /\ todo[a] \in Work /\ Proper(todo[a])
  BY TypeParts DEF IInv, Calling, Lined
<1>2. c \notin {"Join", "Store"} => grip[a] \notin Alive
  BY <1>1 DEF IInv, InHand
<1>3. c \in {"Spawn", "Store"} => a = "commands"
  <2>1. 1 \in DOMAIN todo[a] /\ Head(todo[a]) = todo[a][1]
    BY <1>1, TailFacts DEF Work
  <2> QED BY <1>1, <2>1 DEF IInv, Lined, Actors
<1>4. a = "commands" /\ c \in {"Join", "Spawn", "Store"} => handle \notin Alive
  BY <1>1, TailWork DEF IInv, FreeHandle
<1> QED BY <1>1, <1>2, <1>3, <1>4

LEMMA Plain ==
  ASSUME IInv, NEW a \in Actors,
         Signal(a) \/ ChangeQueue(a) \/ Unpause(a) \/ Resume(a) \/ LockOut(a) \/ Follow(a)
  PROVE  IInv'
<1>1. TypeOK /\ ListTypes /\ StoreTypes /\ events \in Seq(Event)
  BY TypeParts DEF IInv
<1>2. ASSUME NEW c, Calling(a, c), Done(a), UNCHANGED <<handle, grip, thread, mirrors, events>>,
             c \notin {"Take", "Check", "Join", "Spawn", "Store"}, ListTypes', StoreTypes'
      PROVE  IInv'
  <2>1. /\ ThreadTypes' /\ todo' \in [Actors -> Work]
        /\ Tally' /\ Lined' /\ FreeHandle' /\ InHand' /\ Held' /\ Alone'
    BY <1>2, CallFacts, PlainCall
  <2>2. TypeOK'
    BY <1>1, <1>2, <2>1, NextTypes
  <2> QED BY <2>1, <2>2 DEF IInv
<1>3. UNCHANGED <<queue, pos>> => ListTypes'
  BY <1>1 DEF ListTypes
<1>4. CASE Signal(a)
  <2>1. StoreTypes' /\ ListTypes'
    BY <1>1, <1>3, <1>4 DEF Signal, StoreTypes, store, group
  <2> QED BY <1>2, <1>4, <2>1 DEF Signal, group
<1>5. CASE ChangeQueue(a)
  <2>1. PICK c \in {"Next", "Prev", "Goto", "Replace", "Clear"} : Calling(a, c)
    BY <1>5 DEF ChangeQueue
  <2>2. StoreTypes'
    BY <1>1, <1>5 DEF ChangeQueue, StoreTypes, control, store, group
  <2>3. ListTypes'
    <3>1. /\ pos \in Nat /\ DOMAIN queue = 1..Len(queue) /\ Len(queue) \in Nat
          /\ (queue # <<>> => pos \in 1..Len(queue))
      BY <1>1, QueueFacts DEF ListTypes
    <3>2. CASE UNCHANGED queue
      <4>1. \/ pos' = IF queue # <<>> /\ pos < Len(queue) THEN pos + 1 ELSE pos
            \/ pos' = IF pos > 1 THEN pos - 1 ELSE pos
            \/ pos' = IF Arg(a) \in DOMAIN queue THEN Arg(a) ELSE pos
            \/ pos' = 1
        BY <1>5 DEF ChangeQueue
      <4>2. CASE pos' = 1
        BY <1>1, <3>1, <3>2, <4>2 DEF ListTypes
      <4>3. CASE pos' = IF Arg(a) \in DOMAIN queue THEN Arg(a) ELSE pos
        BY <1>1, <3>1, <3>2, <4>3 DEF ListTypes
      <4>4. CASE \/ pos' = IF queue # <<>> /\ pos < Len(queue) THEN pos + 1 ELSE pos
                 \/ pos' = IF pos > 1 THEN pos - 1 ELSE pos
        <5>1. pos' \in Nat /\ (queue # <<>> => pos' \in 1..Len(queue))
          BY <3>1, <4>4
        <5> QED BY <1>1, <3>1, <3>2, <5>1 DEF ListTypes
      <4> QED BY <4>1, <4>2, <4>3, <4>4
    <3>3. CASE Calling(a, "Replace") /\ queue' = Lists[Arg(a)] /\ pos' = 1
      <4>1. Arg(a) \in DOMAIN Lists
        BY <3>3, CallFacts, TailWork DEF Arg
      <4> QED BY <3>3, <4>1, ListFacts DEF ListTypes
    <3>4. CASE queue' = <<>> /\ pos' = 1
      BY <3>4 DEF ListTypes
    <3> QED BY <1>5, <3>2, <3>3, <3>4 DEF ChangeQueue
  <2> QED BY <1>2, <1>5, <2>1, <2>2, <2>3 DEF ChangeQueue, control, group
<1>6. CASE Unpause(a)
  <2>1. StoreTypes' /\ ListTypes'
    BY <1>1, <1>3, <1>6 DEF Unpause, StoreTypes, control, group
  <2> QED BY <1>2, <1>6, <2>1 DEF Unpause, control, group
<1>7. CASE Resume(a)
  <2>1. StoreTypes' /\ ListTypes'
    BY <1>1, <1>3, <1>7 DEF Resume, StoreTypes, store, group
  <2> QED BY <1>2, <1>7, <2>1 DEF Resume, group
<1>8. CASE LockOut(a)
  <2>1. StoreTypes' /\ ListTypes'
    BY <1>1, <1>3, <1>8 DEF LockOut, StoreTypes, control, store
  <2> QED BY <1>2, <1>8, <2>1 DEF LockOut, control
<1>9. CASE Follow(a)
  <2>1. StoreTypes' /\ ListTypes'
    BY <1>1, <1>3, <1>9 DEF Follow, StoreTypes, control, store
  <2> QED BY <1>2, <1>9, <2>1 DEF Follow, control
<1> QED BY <1>4, <1>5, <1>6, <1>7, <1>8, <1>9

LEMMA ThreadsFacts ==
  ASSUME ThreadTypes
  PROVE  /\ Threads = 1..Len(thread) /\ Len(thread) \in Nat /\ 0 \notin Alive
         /\ Len(thread) + 1 \notin Threads \cup {0}
         /\ handle \in Threads \cup {0} /\ \A a \in Actors : grip[a] \in Threads \cup {0}
<1>1. Threads = 1..Len(thread) /\ Len(thread) \in Nat
  BY DEF ThreadTypes, Threads
<1> QED BY <1>1 DEF ThreadTypes, Alive

\* Calls that take the handle, wait, or look at it.
LEMMA Taking ==
  ASSUME IInv, NEW a \in Actors, Take(a) \/ Join(a) \/ Check(a)
  PROVE  IInv'
<1>1. /\ TypeOK /\ ListTypes /\ StoreTypes /\ ThreadTypes /\ events \in Seq(Event)
      /\ todo[a] # <<>>
  BY TypeParts DEF IInv, Take, Join, Check, Calling
<1>2. /\ UNCHANGED <<queue, pos, stop, skip, crossed, store, group, thread, events, shown, count>>
      /\ todo' = [todo EXCEPT ![a] = Tail(@)] \/ todo' = [todo EXCEPT ![a] = <<>>]
  BY DEF Take, Join, Check, Done, control
<1>3. /\ todo' \in [Actors -> Work] /\ \A b \in Actors \ {a} : todo'[b] = todo[b]
      /\ Tally' /\ Lined' /\ (grip'["multiroom"] = grip["multiroom"] \/ a = "multiroom" => Alone')
      /\ (~Grouping => a # "multiroom")
  BY <1>1, <1>2, DoneFacts DEF group
<1>4. grip \in [Actors -> Threads \cup {0}] /\ Threads' = Threads /\ Alive' = Alive /\ 0 \notin Alive
  BY <1>1, <1>2, ThreadsFacts DEF ThreadTypes, Threads, Alive
<1>5. ASSUME ThreadTypes', FreeHandle', InHand', Held',
             grip'["multiroom"] = grip["multiroom"] \/ a = "multiroom"
      PROVE  IInv'
  <2>1. ListTypes' /\ StoreTypes' /\ events' \in Seq(Event)
    BY <1>1, <1>2 DEF ListTypes, StoreTypes, store, group
  <2>2. TypeOK'
    BY <1>3, <1>5, <2>1, NextTypes
  <2> QED BY <1>3, <1>5, <2>2 DEF IInv
<1>6. \A b \in Actors \ {a} : grip[b] \in Alive =>
        todo'[b] # <<>> /\ Head(todo'[b]).call \in {"Join", "Store"}
  BY <1>3 DEF IInv, InHand
<1>7. "multiroom" \in Actors /\ "commands" \in Actors
  BY DEF Actors
<1>8. CASE Take(a)
  <2>1. /\ Calling(a, "Take") /\ todo'[a] = Tail(todo[a])
        /\ handle' = 0 /\ grip' = [grip EXCEPT ![a] = handle]
    BY <1>8, TypeParts DEF IInv, Take, Done, Gripping
  <2>2. grip[a] \notin Alive /\ todo'[a] # <<>> /\ Head(todo'[a]).call = "Join"
    BY <2>1, CallFacts, TailWork
  <2>3. ThreadTypes'
    BY <1>1, <1>2, <1>4, <2>1 DEF ThreadTypes
  <2>4. FreeHandle'
    BY <1>4, <2>1 DEF FreeHandle
  <2>5. grip'[a] = handle /\ \A b \in Actors \ {a} : grip'[b] = grip[b]
    BY <1>4, <2>1
  <2>6. InHand'
    BY <1>4, <1>6, <2>2, <2>5 DEF InHand
  <2>7. Held'
    BY <1>4, <2>2, <2>5 DEF Held, IInv
  <2> QED BY <1>5, <1>7, <2>3, <2>4, <2>5, <2>6, <2>7
<1>9. CASE Join(a)
  <2>1. /\ Calling(a, "Join") /\ todo'[a] = Tail(todo[a]) /\ grip[a] \notin Alive
        /\ handle' = handle /\ grip' = [grip EXCEPT ![a] = 0]
    BY <1>9, TypeParts DEF IInv, Join, Done, Gripping, control
  <2>2. a = "commands" => handle \notin Alive
    BY <2>1, CallFacts
  <2>3. ThreadTypes'
    BY <1>1, <1>2, <1>4, <2>1 DEF ThreadTypes
  <2>4. FreeHandle'
    BY <1>3, <1>4, <1>7, <2>1, <2>2 DEF FreeHandle, IInv
  <2>5. grip'[a] = 0 /\ \A b \in Actors \ {a} : grip'[b] = grip[b]
    BY <1>4, <2>1
  <2>6. InHand'
    BY <1>4, <1>6, <2>5 DEF InHand
  <2>7. Held'
    BY <1>4, <2>1, <2>5 DEF Held, IInv
  <2>8. grip'["multiroom"] = grip["multiroom"] \/ a = "multiroom"
    BY <1>7, <2>5
  <2> QED BY <1>5, <2>3, <2>4, <2>6, <2>7, <2>8
<1>10. CASE Check(a)
  <2>1. /\ Calling(a, "Check") /\ UNCHANGED <<handle, grip>>
        /\ todo'[a] = IF IsPlaying THEN <<>> ELSE Tail(todo[a])
    BY <1>10, TypeParts DEF IInv, Check, control
  <2>2. grip[a] \notin Alive
    BY <2>1, CallFacts
  <2>3. ThreadTypes'
    BY <1>1, <1>2, <1>4, <2>1 DEF ThreadTypes
  <2>4. FreeHandle'
    <3>1. CASE a = "commands"
      <4>1. handle \in Alive => Prepared(todo'["commands"])
        BY <2>1, <3>1 DEF IsPlaying, Prepared
      <4> QED BY <1>4, <2>1, <4>1 DEF FreeHandle
    <3>2. CASE a # "commands"
      BY <1>3, <1>4, <1>7, <2>1, <3>2 DEF FreeHandle, IInv
    <3> QED BY <3>1, <3>2
  <2>5. InHand'
    BY <1>4, <1>6, <2>1, <2>2 DEF InHand
  <2>6. Held'
    BY <1>4, <2>1 DEF Held, IInv
  <2> QED BY <1>5, <2>1, <2>3, <2>4, <2>5, <2>6
<1> QED BY <1>8, <1>9, <1>10

\* The command handler starts a thread, ...
LEMMA Spawning ==
  ASSUME IInv, NEW a \in Actors, Spawn(a)
  PROVE  IInv' /\ a = "commands" /\ Alive' = Alive \cup {Len(thread) + 1}
         /\ thread'[Len(thread) + 1].pc = "Top" /\ \A t \in Threads : thread'[t] = thread[t]
<1> DEFINE n == Len(thread) + 1
           new == [pc |-> "Top", song |-> Remote, at |-> 0, retries |-> 0]
<1>1. /\ TypeOK /\ ListTypes /\ StoreTypes /\ ThreadTypes /\ events \in Seq(Event)
      /\ todo[a] # <<>> /\ Calling(a, "Spawn") /\ stop' = FALSE
      /\ crossed' = crossed \cup {b \in Actors \ {a} : Stopping(b)}
      /\ thread' = Append(thread, new) /\ grip' = [grip EXCEPT ![a] = n]
      /\ todo' = [todo EXCEPT ![a] = Tail(@)]
      /\ UNCHANGED <<queue, pos, handle, skip, store, group, events, shown, count>>
  BY TypeParts DEF IInv, Spawn, Calling, Done, Gripping
<1>2. /\ a = "commands" /\ grip[a] \notin Alive /\ handle \notin Alive
      /\ todo[a] \in Work /\ Proper(todo[a]) /\ Head(todo[a]).call = "Spawn"
  BY <1>1, CallFacts
<1>3. /\ todo' \in [Actors -> Work] /\ \A b \in Actors \ {a} : todo'[b] = todo[b]
      /\ Tally' /\ Lined' /\ (grip'["multiroom"] = grip["multiroom"] \/ a = "multiroom" => Alone')
  BY <1>1, DoneFacts DEF group
<1>4. todo'[a] # <<>> /\ Head(todo'[a]).call = "Store"
  <2>1. todo'[a] = Tail(todo[a])
    BY <1>1, TypeParts
  <2> QED BY <1>1, <1>2, <2>1, TailWork
<1>5. /\ Threads = 1..Len(thread) /\ n \notin Threads \cup {0} /\ n \in Nat
      /\ handle \in Threads \cup {0} /\ \A b \in Actors : grip[b] \in Threads \cup {0}
      /\ 0 \notin Alive
  BY <1>1, ThreadsFacts
<1>6. /\ thread' \in Seq(Thread) /\ Threads' = Threads \cup {n} /\ thread'[n] = new
      /\ \A t \in Threads : thread'[t] = thread[t]
  <2>1. thread \in Seq(Thread)
    BY <1>1 DEF ThreadTypes
  <2>2. new \in Thread
    BY ListFacts DEF Thread
  <2> HIDE DEF new
  <2>3. thread' \in Seq(Thread) /\ DOMAIN thread' = 1..n /\ thread'[n] = new
        /\ \A t \in 1..Len(thread) : thread'[t] = thread[t]
    BY <1>1, <2>1, <2>2
  <2>4. 1..n = 1..Len(thread) \cup {n}
    BY <1>5
  <2> QED BY <1>5, <2>3, <2>4 DEF Threads
<1>7. Alive' = Alive \cup {n} /\ thread'[n].pc = "Top"
  BY <1>6 DEF Alive
<1> HIDE DEF n, new
<1>8. grip'[a] = n /\ \A b \in Actors \ {a} : grip'[b] = grip[b]
  BY <1>1 DEF ThreadTypes
<1>9. ThreadTypes'
  BY <1>1, <1>5, <1>6, <1>8 DEF ThreadTypes
<1>10. FreeHandle'
  BY <1>1, <1>2, <1>5, <1>7 DEF FreeHandle
<1>11. InHand'
  <2> SUFFICES ASSUME NEW b \in Actors, grip'[b] \in Alive'
               PROVE  todo'[b] # <<>> /\ Head(todo'[b]).call \in {"Join", "Store"}
    BY DEF InHand
  <2>1. CASE b # a
    BY <1>3, <1>5, <1>7, <1>8, <2>1 DEF IInv, InHand
  <2> QED BY <1>4, <2>1
<1>12. Held'
  BY <1>1, <1>2, <1>7, <1>8 DEF IInv, Held
<1>13. ListTypes' /\ StoreTypes' /\ events' \in Seq(Event)
  BY <1>1 DEF ListTypes, StoreTypes, store, group
<1>14. TypeOK'
  BY <1>3, <1>9, <1>13, NextTypes
<1>15. Alone'
  BY <1>2, <1>3, <1>8 DEF Actors
<1> QED BY <1>2, <1>3, <1>6, <1>7, <1>10, <1>11, <1>12, <1>14, <1>15 DEF IInv, n

\* ... and stores its handle, in place of one that is idle.
LEMMA Storing ==
  ASSUME IInv, NEW a \in Actors, StoreHandle(a)
  PROVE  IInv'
<1>1. /\ TypeOK /\ ListTypes /\ StoreTypes /\ ThreadTypes /\ events \in Seq(Event)
      /\ todo[a] # <<>> /\ Calling(a, "Store")
      /\ handle' = grip[a] /\ grip' = [grip EXCEPT ![a] = 0]
      /\ todo' = [todo EXCEPT ![a] = Tail(@)]
      /\ UNCHANGED <<queue, pos, stop, skip, crossed, store, group, thread, events, shown, count>>
  BY TypeParts DEF IInv, StoreHandle, Calling, Done, Gripping
<1>2. /\ a = "commands" /\ handle \notin Alive
      /\ todo[a] \in Work /\ Proper(todo[a]) /\ Head(todo[a]).call = "Store"
  BY <1>1, CallFacts
<1>3. /\ todo' \in [Actors -> Work] /\ \A b \in Actors \ {a} : todo'[b] = todo[b]
      /\ Tally' /\ Lined' /\ (grip'["multiroom"] = grip["multiroom"] \/ a = "multiroom" => Alone')
  BY <1>1, DoneFacts DEF group
<1>4. todo'[a] = <<>>
  BY <1>1, <1>2, TypeParts, TailWork
<1>5. Threads' = Threads /\ Alive' = Alive /\ 0 \notin Alive
  BY <1>1, ThreadsFacts DEF Threads, Alive
<1>6. grip'[a] = 0 /\ (\A b \in Actors \ {a} : grip'[b] = grip[b]) /\ grip[a] \in Threads \cup {0}
  BY <1>1 DEF ThreadTypes
<1>7. ThreadTypes'
  BY <1>1, <1>5, <1>6 DEF ThreadTypes
<1>8. FreeHandle'
  BY <1>2, <1>4 DEF FreeHandle, Prepared
<1>9. InHand'
  BY <1>3, <1>5, <1>6 DEF IInv, InHand
<1>10. Held'
  BY <1>1, <1>2, <1>5, <1>6 DEF IInv, Held
<1>11. ListTypes' /\ StoreTypes' /\ events' \in Seq(Event)
  BY <1>1 DEF ListTypes, StoreTypes, store, group
<1>12. TypeOK'
  BY <1>3, <1>7, <1>11, NextTypes
<1>13. Alone'
  BY <1>2, <1>3, <1>6 DEF Actors
<1> QED BY <1>3, <1>8, <1>9, <1>10, <1>12, <1>13 DEF IInv

-----------------------------------------------------------------------------
(* Requests, the leader and the storing task.                              *)

\* Steps that touch no thread and no handle, and begin no call.
LEMMA Elsewhere ==
  ASSUME IInv, UNCHANGED <<handle, thread, grip, todo>>,
         ListTypes', StoreTypes', events' \in Seq(Event), Tally', Grouping \/ mirrors' = mirrors
  PROVE  IInv'
<1>1. ThreadTypes /\ todo \in [Actors -> Work]
  BY TypeParts DEF IInv
<1>2. Alive' = Alive /\ ThreadTypes'
  BY <1>1 DEF Threads, Alive, ThreadTypes
<1>3. Lined' /\ FreeHandle' /\ InHand' /\ Held' /\ Alone'
  BY <1>2 DEF IInv, Lined, FreeHandle, InHand, Held, Alone
<1>4. TypeOK'
  BY <1>1, <1>2, NextTypes
<1> QED BY <1>3, <1>4 DEF IInv

\* The actor begins the calls of a request.
LEMMA Asked ==
  ASSUME IInv, NEW a \in Actors, todo[a] = <<>>, NEW q \in Work, Proper(q),
         todo' = [todo EXCEPT ![a] = q],
         a = "commands" => Prepared(q),
         a = "multiroom" => Grouping /\ \A i \in DOMAIN q : q[i].call \notin {"Spawn", "Store"},
         UNCHANGED <<queue, pos, control, store, follower, grouped, thread, events, grip, shown>>,
         mirrors' \in 0..MaxHellos, Tally', Grouping \/ mirrors' = mirrors
  PROVE  IInv'
<1>1. /\ ListTypes /\ StoreTypes /\ ThreadTypes /\ events \in Seq(Event)
      /\ todo \in [Actors -> Work]
  BY TypeParts DEF IInv
<1>2. UNCHANGED <<handle, stop, skip, crossed, paused, progress>>
  BY DEF control, store
<1>3. Alive' = Alive /\ ThreadTypes' /\ ListTypes' /\ StoreTypes'
  BY <1>1, <1>2 DEF Threads, Alive, ThreadTypes, ListTypes, StoreTypes
<1>4. /\ todo' \in [Actors -> Work] /\ todo'[a] = q
      /\ \A b \in Actors \ {a} : todo'[b] = todo[b]
  BY <1>1
<1>5. grip[a] \notin Alive
  BY DEF IInv, InHand
<1>6. Lined'
  BY <1>4 DEF Lined, IInv, Actors
<1>7. FreeHandle'
  BY <1>2, <1>3, <1>4 DEF FreeHandle, IInv, Actors
<1>8. InHand'
  BY <1>3, <1>4, <1>5 DEF InHand, IInv
<1>9. Held'
  BY <1>2, <1>3 DEF Held, IInv
<1>10. Alone'
  BY <1>4 DEF Alone, IInv, Actors
<1>11. TypeOK'
  BY <1>1, <1>3, <1>4, NextTypes
<1> QED BY <1>6, <1>7, <1>8, <1>9, <1>10, <1>11 DEF IInv

LEMMA Asking ==
  ASSUME IInv, Request \/ LeaderHello
  PROVE  IInv'
<1>1. TypeOK /\ mirrors \in 0..MaxHellos /\ MaxHellos \in Nat
  BY TypeParts, ListFacts DEF IInv, StoreTypes
<1>2. count \in [commands : Nat, hellos : 0..MaxHellos] /\ mirrors <= count.hellos
  BY DEF IInv, Tally
<1>3. CASE Request
  <2>1. PICK q \in QueueCommands \cup Transport : todo' = [todo EXCEPT !["commands"] = q]
    BY <1>3 DEF Request
  <2>2. q \in Work /\ Proper(q) /\ Prepared(q)
    BY <1>1, Requests
  <2>3. /\ UNCHANGED <<queue, pos, control, store, follower, grouped, thread, events, grip, shown>>
        /\ mirrors' = mirrors /\ todo["commands"] = <<>>
        /\ count' = [count EXCEPT !["commands"] = @ + 1]
    BY <1>3 DEF Request, group, Counted, Idle
  <2>4. Tally'
    BY <1>2, <2>3 DEF Tally
  <2> QED BY <1>1, <2>1, <2>2, <2>3, <2>4, Asked DEF Actors
<1>4. CASE LeaderHello
  <2> DEFINE q == <<C("Lock")>> \o StopCalls \o <<C("Follow")>>
  <2>1. /\ UNCHANGED <<queue, pos, control, store, follower, grouped, thread, events, grip, shown>>
        /\ Grouping /\ mirrors' = mirrors + 1 /\ todo["multiroom"] = <<>>
        /\ count.hellos < MaxHellos /\ count' = [count EXCEPT !["hellos"] = @ + 1]
        /\ todo' = [todo EXCEPT !["multiroom"] = q]
    BY <1>4 DEF LeaderHello, Counted, Idle
  <2>2. q \in Work /\ Proper(q) /\ \A i \in DOMAIN q : q[i].call \notin {"Spawn", "Store"}
    BY Hello
  <2> HIDE DEF q
  <2>3. Tally' /\ mirrors' \in 0..MaxHellos
    <3>1. count'.hellos = count.hellos + 1 /\ count'.commands = count.commands
          /\ count' \in [commands : Nat, hellos : 0..MaxHellos]
      BY <1>1, <1>2, <2>1
    <3> QED BY <1>1, <1>2, <2>1, <3>1 DEF Tally
  <2> QED BY <2>1, <2>2, <2>3, Asked DEF Actors
<1> QED BY <1>3, <1>4

LEMMA Others ==
  ASSUME IInv, StoreEvent \/ Seek \/ Mirror \/ MirrorEnds \/ LeaveGroup \/ UNCHANGED vars
  PROVE  IInv'
<1>1. TypeOK /\ ListTypes /\ StoreTypes /\ events \in Seq(Event)
  BY TypeParts DEF IInv
<1>2. count \in [commands : Nat, hellos : 0..MaxHellos] /\ mirrors <= count.hellos /\ Tally
      /\ mirrors \in 0..MaxHellos /\ MaxHellos \in Nat
  BY <1>1, ListFacts DEF IInv, Tally, StoreTypes
<1>3. UNCHANGED <<queue, pos>> => ListTypes'
  BY <1>1 DEF ListTypes
<1>4. UNCHANGED <<count, mirrors>> => Tally'
  BY <1>2 DEF Tally
<1>5. CASE StoreEvent
  <2>1. /\ events # <<>> /\ events' = Tail(events)
        /\ paused' = CASE Head(events).type = "PLAYING" -> FALSE
                       [] Head(events).type = "STOPPED" -> TRUE
                       [] OTHER                         -> paused
        /\ progress' = IF Head(events).type = "TIME" THEN Head(events).time ELSE progress
        /\ UNCHANGED <<queue, pos, control, group, thread, work, shown>>
    BY <1>5 DEF StoreEvent
  <2>2. Head(events) \in Event /\ events' \in Seq(Event)
    BY <1>1, <2>1
  <2>3. paused' \in BOOLEAN /\ progress' \in Positions
    <3>1. paused' \in {TRUE, FALSE, paused}
      BY <2>1
    <3>2. progress' \in Positions
      BY <1>1, <2>1, <2>2, EventFacts DEF StoreTypes
    <3> QED BY <1>1, <3>1, <3>2 DEF StoreTypes
  <2>4. UNCHANGED <<queue, pos, handle, stop, skip, crossed, follower, grouped, mirrors, thread, todo,
                    grip, count, shown>>
    BY <2>1 DEF control, group, work
  <2>5. StoreTypes'
    BY <1>1, <2>3, <2>4 DEF StoreTypes
  <2> QED BY <1>3, <1>4, <2>2, <2>4, <2>5, Elsewhere
<1>6. CASE Seek
  <2>1. PICK t \in 1..Length : skip' = [at |-> t, of |-> IF queue = <<>> THEN Remote ELSE queue[pos]]
    BY <1>6 DEF Seek
  <2>2. /\ UNCHANGED <<queue, pos, handle, stop, crossed, store, group, thread, events, todo, grip,
                      shown>>
        /\ count' = [count EXCEPT !["commands"] = @ + 1]
    BY <1>6 DEF Seek, Counted
  <2>3. skip' \in Positions
    BY <1>1, <2>1, <2>2, QueueFacts, ListFacts DEF Positions
  <2>4. StoreTypes'
    BY <1>1, <2>2, <2>3 DEF StoreTypes, store, group
  <2>5. Tally'
    BY <1>2, <2>2 DEF Tally, group
  <2> QED BY <1>1, <1>3, <2>2, <2>4, <2>5, Elsewhere DEF group
<1>7. CASE Mirror \/ MirrorEnds
  <2>1. /\ UNCHANGED <<queue, pos, control, store, follower, grouped, thread, work>> /\ mirrors > 0
        /\ mirrors' = mirrors \/ mirrors' = mirrors - 1
    BY <1>7 DEF Mirror, MirrorEnds, group
  <2>2. events' \in Seq(Event) /\ shown' \in {"PLAYING", "STOPPED", "ERROR"}
    <3>1. ASSUME NEW s \in {"PLAYING", "STOPPED", "ERROR"}, TellState(s)
          PROVE  events' \in Seq(Event) /\ shown' \in {"PLAYING", "STOPPED", "ERROR"}
      BY <1>1, <3>1, TellFacts, EventFacts DEF TellState
    <3>2. ASSUME NEW t \in 1..Length, Tell([type |-> "TIME", time |-> [at |-> t, of |-> Remote]])
          PROVE  events' \in Seq(Event)
      <4>1. [at |-> t, of |-> Remote] \in Positions
        BY ListFacts DEF Positions
      <4> QED BY <1>1, <3>2, <4>1, TellFacts, EventFacts
    <3> QED BY <1>1, <1>7, <3>1, <3>2 DEF Mirror, MirrorEnds, StoreTypes
  <2>3. Grouping
    BY <1>2, <2>1 DEF IInv, Alone
  <2>4. UNCHANGED <<handle, stop, skip, crossed, paused, progress, todo, grip, count>>
    BY <2>1 DEF control, store, work
  <2>5. StoreTypes'
    BY <1>1, <1>2, <2>1, <2>2, <2>4 DEF StoreTypes
  <2>6. Tally'
    BY <1>2, <2>1, <2>4 DEF Tally
  <2> QED BY <1>3, <2>1, <2>2, <2>3, <2>4, <2>5, <2>6, Elsewhere
<1>8. CASE LeaveGroup
  <2>1. UNCHANGED <<queue, pos, handle, stop, skip, crossed, paused, progress, mirrors, thread, events,
                    todo, grip, count, shown>> /\ grouped' = FALSE /\ follower' = FALSE
    BY <1>8 DEF LeaveGroup, control, store, work
  <2>2. StoreTypes'
    BY <1>1, <2>1 DEF StoreTypes
  <2> QED BY <1>1, <1>3, <1>4, <2>1, <2>2, Elsewhere
<1>9. CASE UNCHANGED vars
  <2>1. UNCHANGED <<queue, pos, handle, stop, skip, crossed, paused, progress, follower, grouped, mirrors,
                    thread, events, todo, grip, count, shown>>
    BY <1>9 DEF vars, control, store, group, work
  <2>2. StoreTypes'
    BY <1>1, <2>1 DEF StoreTypes
  <2> QED BY <1>1, <1>3, <1>4, <2>1, <2>2, Elsewhere
<1> QED BY <1>5, <1>6, <1>7, <1>8, <1>9

-----------------------------------------------------------------------------
(* The invariant holds.                                                    *)

LEMMA Initially == Init => IInv
<1> SUFFICES ASSUME Init PROVE IInv
  OBVIOUS
<1>1. /\ (\E i \in DOMAIN Lists : queue = Lists[i]) /\ pos = 1 /\ handle = 0 /\ stop = FALSE /\ crossed = {}
      /\ thread = <<>> /\ events = <<>> /\ progress = [at |-> Saved, of |-> queue[1]]
      /\ skip = progress /\ paused \in BOOLEAN /\ follower = FALSE /\ grouped = FALSE /\ mirrors = 0
      /\ grip = [a \in Actors |-> 0] /\ shown = "STOPPED"
      /\ count = [commands |-> 0, hellos |-> 0]
  BY DEF Init
<1>2. ListTypes /\ queue[1] \in Songs
  <2>1. PICK i \in DOMAIN Lists : queue = Lists[i]
    BY <1>1
  <2> QED BY <1>1, <2>1, ListFacts DEF ListTypes
<1>3. StoreTypes /\ Tally
  <2>1. progress \in Positions
    BY <1>1, <1>2, ListFacts DEF Positions
  <2>2. 0 \in 0..MaxHellos /\ 0 \in Nat
    BY ListFacts
  <2>3. StoreTypes
    BY <1>1, <2>1, <2>2 DEF StoreTypes
  <2>4. count \in [commands : Nat, hellos : 0..MaxHellos] /\ count.hellos = 0
    BY <1>1, <2>2
  <2> QED BY <1>1, <2>3, <2>4 DEF Tally
<1>4. Threads = {} /\ Alive = {} /\ ThreadTypes /\ events \in Seq(Event)
  BY <1>1 DEF Threads, Alive, ThreadTypes
<1>5. PICK resume \in {<<>>, PlayCalls} :
        todo = [a \in Actors |-> IF a = "commands" THEN resume ELSE <<>>]
  BY DEF Init
<1>6. <<>> \in Work /\ Proper(<<>>) /\ DOMAIN <<>> = {}
  BY DEF Work, Proper, Linked
<1>7. todo \in [Actors -> Work] /\ Lined
  BY <1>5, <1>6, PlayStarts DEF Lined, Actors
<1>8. FreeHandle /\ InHand /\ Held
  BY <1>4 DEF FreeHandle, InHand, Held
<1>9. Alone
  BY <1>1, <1>5 DEF Alone, Actors
<1> QED BY <1>2, <1>3, <1>4, <1>7, <1>8, <1>9, TypeParts DEF IInv

LEMMA NextKeeps == IInv /\ [Next]_vars => IInv'
<1> SUFFICES ASSUME IInv, [Next]_vars PROVE IInv'
  OBVIOUS
<1>1. ASSUME NEW t \in Threads, ThreadStep(t) PROVE IInv'
  BY <1>1, ThreadActs
<1>2. ASSUME NEW a \in Actors, CallStep(a) PROVE IInv'
  BY <1>2, Plain, Taking, Spawning, Storing DEF CallStep
<1>3. CASE Request \/ LeaderHello
  BY <1>3, Asking
<1>4. CASE StoreEvent \/ Seek \/ Mirror \/ MirrorEnds \/ LeaveGroup \/ UNCHANGED vars
  BY <1>4, Others
<1> QED BY <1>1, <1>2, <1>3, <1>4 DEF Next

\* The inductive invariant: besides the types, every list of calls waits after
\* taking the handle and stores the handle of the thread it starts, the handle
\* is idle when it is overwritten, and who holds a thread is about to let it go.
THEOREM Invariant == Spec => []IInv
<1> QED BY Initially, NextKeeps, PTL DEF Spec

-----------------------------------------------------------------------------
(* Who waits for a thread has told it to stop.                             *)

\* The handle is taken after the signal is raised, and waited for after it is taken.
Led(q) ==
  \A i \in DOMAIN q : i + 1 \in DOMAIN q =>
    /\ q[i + 1].call = "Take" => q[i].call = "Signal"
    /\ q[i + 1].call = "Join" => q[i].call = "Take"

Fresh(q) == q \in Work /\ q # <<>> /\ Led(q) /\ q[1].call \notin {"Take", "Join"}

Raised ==
  \A a \in Actors : Led(todo[a]) /\ (Stopping(a) /\ a \notin crossed => stop)

LEMMA FreshJoined ==
  ASSUME NEW p, NEW q, Fresh(p), Fresh(q)
  PROVE  Fresh(p \o q)
<1> DEFINE r == p \o q  m == Len(p)  n == Len(q)
<1>0. Joined(p, q, r, m, n) /\ m # 0 /\ n # 0
  BY ConcatFacts, EmptySeq DEF Fresh, Work
<1> HIDE DEF r, m, n
<1>1. /\ r \in Work /\ m \in Nat \ {0} /\ n \in Nat \ {0} /\ Len(r) = m + n
      /\ DOMAIN p = 1..m /\ DOMAIN q = 1..n /\ DOMAIN r = 1..m + n
      /\ \A i \in 1..m : r[i] = p[i] /\ i \in 1..m + n
      /\ \A i \in 1..n : r[m + i] = q[i] /\ m + i \in 1..m + n
      /\ \A i \in 1..m + n : i \in 1..m \/ (i - m \in 1..n /\ r[i] = q[i - m])
  BY <1>0 DEF Joined
<1>2. Led(r)
  <2> SUFFICES ASSUME NEW i \in 1..m + n, i + 1 \in 1..m + n
               PROVE  /\ r[i + 1].call = "Take" => r[i].call = "Signal"
                      /\ r[i + 1].call = "Join" => r[i].call = "Take"
    BY <1>1 DEF Led
  <2>1. CASE i \in 1..m /\ i + 1 \in 1..m
    BY <1>1, <2>1 DEF Fresh, Led
  <2>2. CASE i = m
    <3>1. r[i + 1] = q[1]
      BY <1>1, <2>2
    <3> QED BY <3>1 DEF Fresh
  <2>3. CASE i - m \in 1..n /\ r[i] = q[i - m]
    <3> DEFINE k == i - m
    <3>1. k \in 1..n /\ k + 1 \in 1..n /\ r[i] = q[k]
      BY <1>1, <2>3
    <3>2. m + (k + 1) = i + 1
      BY <1>1
    <3>3. r[i + 1] = q[k + 1]
      BY <1>1, <3>1, <3>2
    <3>4. Led(q) /\ DOMAIN q = 1..n
      BY <1>1 DEF Fresh
    <3> HIDE DEF k
    <3> QED BY <3>1, <3>3, <3>4 DEF Led
  <2>4. i \in 1..m => i = m \/ i + 1 \in 1..m
    BY <1>1
  <2> QED BY <1>1, <2>1, <2>2, <2>3, <2>4
<1>3. r # <<>> /\ r[1] = p[1]
  <2>1. 1 \in 1..m
    BY <1>1
  <2> QED BY <1>1, <2>1
<1> QED BY <1>1, <1>2, <1>3 DEF Fresh, r

LEMMA Freshness ==
  /\ Fresh(StopCalls) /\ Fresh(PlayCalls) /\ Fresh(LoadCalls)
  /\ \A c \in {"Clear", "Lock", "Follow"} : Fresh(<<C(c)>>)
  /\ \A c \in {"Next", "Prev"} : Fresh(<<C(c), C("Unpause")>>)
  /\ \A i \in Nat : /\ Fresh(<<CA("Goto", i)>>) /\ Fresh(<<CA("Goto", i), C("Unpause")>>)
                    /\ Fresh(<<CA("Replace", i)>>)
<1>1. Fresh(StopCalls)
  <2> DEFINE q == StopCalls
  <2>1. q \in Work /\ DOMAIN q = 1..3 /\ q # <<>>
    BY DEF StopCalls, C, Work, Calls
  <2>2. q[1].call = "Signal" /\ q[2].call = "Take" /\ q[3].call = "Join"
    BY DEF StopCalls, C
  <2> HIDE DEF q
  <2>3. \A i \in 1..3 : i = 1 \/ i = 2 \/ i = 3
    OBVIOUS
  <2> QED BY <2>1, <2>2, <2>3 DEF Fresh, Led, q
<1>2. Fresh(PlayCalls)
  <2> DEFINE q == PlayCalls
  <2>1. q \in Work /\ DOMAIN q = 1..4 /\ q # <<>>
    BY DEF PlayCalls, C, Work, Calls
  <2>2. q[1].call = "Check" /\ q[2].call = "Resume" /\ q[3].call = "Spawn" /\ q[4].call = "Store"
    BY DEF PlayCalls, C
  <2> HIDE DEF q
  <2>3. \A i \in 1..4 : i = 1 \/ i = 2 \/ i = 3 \/ i = 4
    OBVIOUS
  <2> QED BY <2>1, <2>2, <2>3 DEF Fresh, Led, q
<1>3. Fresh(LoadCalls)
  <2> DEFINE q == <<C("Unpause"), C("Spawn"), C("Store")>>
  <2>1. q \in Work /\ DOMAIN q = 1..3 /\ q # <<>>
    BY DEF C, Work, Calls
  <2>2. q[1].call = "Unpause" /\ q[2].call = "Spawn" /\ q[3].call = "Store"
    BY DEF C
  <2> HIDE DEF q
  <2>3. \A i \in 1..3 : i = 1 \/ i = 2 \/ i = 3
    OBVIOUS
  <2>4. Fresh(q)
    BY <2>1, <2>2, <2>3 DEF Fresh, Led
  <2> QED BY <1>1, <2>4, FreshJoined DEF LoadCalls, q
<1>4. ASSUME NEW x \in [call : Calls, arg : Nat], x.call \notin {"Take", "Join"}
      PROVE  Fresh(<<x>>)
  BY <1>4 DEF Fresh, Led, Work
<1>5. ASSUME NEW x \in [call : Calls, arg : Nat], x.call \notin {"Take", "Join"},
             NEW y \in [call : Calls, arg : Nat], y.call \notin {"Take", "Join"}
      PROVE  Fresh(<<x, y>>)
  BY <1>5 DEF Fresh, Led, Work
<1>6. /\ \A c \in Calls : C(c) \in [call : Calls, arg : Nat] /\ C(c).call = c
      /\ \A c \in Calls : \A i \in Nat : CA(c, i) \in [call : Calls, arg : Nat] /\ CA(c, i).call = c
  BY DEF C, CA
<1>7. {"Clear", "Lock", "Follow", "Next", "Prev", "Goto", "Replace", "Unpause"} \subseteq Calls
  BY DEF Calls
<1> QED BY <1>1, <1>2, <1>3, <1>4, <1>5, <1>6, <1>7

LEMMA RequestsFresh ==
  ASSUME TypeOK, NEW q \in QueueCommands \cup Transport
  PROVE  Fresh(q)
<1>1. DOMAIN queue \subseteq Nat /\ DOMAIN Lists \subseteq Nat
  <2>1. DOMAIN Lists = 1..Len(Lists) /\ Len(Lists) \in Nat
    <3> DEFINE S == Seq(Nat \ {0}) \ {<<>>}
    <3>1. Lists \in Seq(S)
      BY PlayerAssumption
    <3> HIDE DEF S
    <3> QED BY <3>1
  <2>2. DOMAIN queue = 1..Len(queue) /\ Len(queue) \in Nat
    BY TypeParts, QueueFacts
  <2> QED BY <2>1, <2>2
<1>2. \A x : Fresh(x) => Fresh(StopCalls \o x) /\ Fresh(StopCalls \o x \o PlayCalls)
                         /\ Fresh(StopCalls \o x \o LoadCalls)
  BY Freshness, FreshJoined
<1>3. CASE q \in Transport
  <2>1. CASE q \in {StopCalls \o PlayCalls, StopCalls, PlayCalls}
    BY <1>2, <2>1, Freshness
  <2>2. ASSUME NEW move \in {"Next", "Prev"}, q = StopCalls \o <<C(move), C("Unpause")>> \o PlayCalls
        PROVE  Fresh(q)
    BY <1>2, <2>2, Freshness
  <2>3. ASSUME NEW i \in DOMAIN queue, q = StopCalls \o <<CA("Goto", i), C("Unpause")>> \o PlayCalls
        PROVE  Fresh(q)
    BY <1>1, <1>2, <2>3, Freshness
  <2> QED BY <1>3, <2>1, <2>2, <2>3 DEF Transport
<1>4. CASE q \in QueueCommands
  <2>1. ASSUME NEW i \in DOMAIN Lists, q = StopCalls \o <<CA("Replace", i)>> \o LoadCalls
        PROVE  Fresh(q)
    BY <1>1, <1>2, <2>1, Freshness
  <2>2. ASSUME NEW i \in DOMAIN queue, q = StopCalls \o <<CA("Goto", i)>> \o LoadCalls
        PROVE  Fresh(q)
    BY <1>1, <1>2, <2>2, Freshness
  <2>3. CASE q = StopCalls \o <<C("Clear")>>
    BY <1>2, <2>3, Freshness
  <2> QED BY <1>4, <2>1, <2>2, <2>3 DEF QueueCommands
<1> QED BY <1>3, <1>4

\* What is left of a list of calls, and what it begins with.
LEMMA LedTail ==
  ASSUME NEW q \in Work, q # <<>>, Led(q)
  PROVE  /\ Led(Tail(q))
         /\ Tail(q) # <<>> /\ Head(Tail(q)).call = "Take" => Head(q).call = "Signal"
         /\ Tail(q) # <<>> /\ Head(Tail(q)).call = "Join" => Head(q).call = "Take"
<1> DEFINE r == Tail(q)  k == Len(q)
<1>1. /\ k \in Nat \ {0} /\ DOMAIN q = 1..k /\ DOMAIN r = 1..k - 1 /\ Head(q) = q[1]
      /\ \A i \in 1..k - 1 : i + 1 \in 1..k /\ r[i] = q[i + 1]
      /\ (r # <<>> => Head(r) = r[1]) /\ (r = <<>> <=> k = 1)
  BY TailFacts DEF Work
<1> HIDE DEF r, k
<1>2. Led(r)
  <2> SUFFICES ASSUME NEW i \in 1..k - 1, i + 1 \in 1..k - 1
               PROVE  /\ r[i + 1].call = "Take" => r[i].call = "Signal"
                      /\ r[i + 1].call = "Join" => r[i].call = "Take"
    BY <1>1 DEF Led
  <2> DEFINE h == i + 1
  <2>1. h \in 1..k /\ h + 1 \in 1..k /\ r[i] = q[h] /\ r[i + 1] = q[h + 1]
    BY <1>1
  <2> HIDE DEF h
  <2> QED BY <1>1, <2>1 DEF Led
<1>3. r # <<>> => Head(r) = q[1 + 1] /\ 1 \in 1..k /\ 1 + 1 \in 1..k
  <2>1. r # <<>> => 1 \in 1..k - 1
    BY <1>1
  <2> QED BY <1>1, <2>1
<1> QED BY <1>1, <1>2, <1>3 DEF Led, r

LEMMA Calmly ==
  ASSUME Raised, UNCHANGED <<todo, stop, crossed>>
  PROVE  Raised'
BY DEF Raised, Stopping, Calling

\* The actor goes on to its next call.
LEMMA LedOn ==
  ASSUME IInv, Raised, NEW a \in Actors, todo[a] # <<>>,
         todo' = [todo EXCEPT ![a] = Tail(@)] \/ todo' = [todo EXCEPT ![a] = <<>>]
  PROVE  /\ \A b \in Actors : Led(todo'[b])
         /\ \A b \in Actors \ {a} : (Stopping(b))' <=> Stopping(b)
         /\ (Stopping(a))' => Head(todo[a]).call = "Signal" \/ Stopping(a)
<1>1. todo \in [Actors -> Work] /\ todo[a] \in Work /\ Led(todo[a])
  BY TypeParts DEF IInv, Raised
<1>2. /\ \A b \in Actors \ {a} : todo'[b] = todo[b]
      /\ todo'[a] = Tail(todo[a]) \/ todo'[a] = <<>>
  BY <1>1
<1>3. Led(<<>>)
  BY DEF Led
<1>4. \A b \in Actors : Led(todo'[b])
  BY <1>1, <1>2, <1>3, LedTail DEF Raised
<1>5. \A b \in Actors \ {a} : (Stopping(b))' <=> Stopping(b)
  BY <1>2 DEF Stopping, Calling
<1>6. (Stopping(a))' => Head(todo[a]).call = "Signal" \/ Stopping(a)
  BY <1>1, <1>2, LedTail DEF Stopping, Calling
<1> QED BY <1>4, <1>5, <1>6

LEMMA CallsRaise ==
  ASSUME IInv, Raised, NEW a \in Actors, CallStep(a)
  PROVE  Raised'
<1>1. CASE Signal(a)
  <2>1. todo[a] # <<>> /\ todo' = [todo EXCEPT ![a] = Tail(@)] /\ stop'
    BY <1>1 DEF Signal, Calling, Done
  <2> QED BY <2>1, LedOn DEF Raised
<1>2. CASE Spawn(a)
  <2>1. /\ todo[a] # <<>> /\ Head(todo[a]).call = "Spawn" /\ todo' = [todo EXCEPT ![a] = Tail(@)]
        /\ crossed' = crossed \cup {b \in Actors \ {a} : Stopping(b)}
    BY <1>2 DEF Spawn, Calling, Done
  <2>2. ~(Stopping(a))'
    BY <2>1, LedOn DEF Stopping, Calling
  <2>3. \A b \in Actors \ {a} : (Stopping(b))' => b \in crossed'
    BY <2>1, LedOn
  <2> QED BY <2>1, <2>2, <2>3, LedOn DEF Raised
<1>3. CASE \/ Take(a) \/ Join(a) \/ ChangeQueue(a) \/ Unpause(a) \/ Check(a)
           \/ Resume(a) \/ StoreHandle(a) \/ LockOut(a) \/ Follow(a)
  <2>1. /\ todo[a] # <<>> /\ UNCHANGED <<stop, crossed>>
        /\ todo' = [todo EXCEPT ![a] = Tail(@)] \/ todo' = [todo EXCEPT ![a] = <<>>]
        /\ Head(todo[a]).call # "Signal"
    BY <1>3 DEF Take, Join, ChangeQueue, Unpause, Check, Resume, StoreHandle, LockOut, Follow,
                Calling, Done, control
  <2> QED BY <2>1, LedOn DEF Raised
<1> QED BY <1>1, <1>2, <1>3 DEF CallStep

LEMMA AskedRaised ==
  ASSUME IInv, Raised, NEW a \in Actors, NEW q, Fresh(q), todo' = [todo EXCEPT ![a] = q],
         UNCHANGED control
  PROVE  Raised'
<1>1. todo \in [Actors -> Work] /\ UNCHANGED <<stop, crossed>>
  BY TypeParts DEF IInv, control
<1>2. todo'[a] = q /\ \A b \in Actors \ {a} : todo'[b] = todo[b]
  BY <1>1
<1>3. ~(Stopping(a))'
  <2>1. q \in Work /\ q # <<>> /\ Head(q) = q[1]
    BY TailFacts DEF Fresh, Work
  <2> QED BY <1>2, <2>1 DEF Fresh, Stopping, Calling
<1>4. \A b \in Actors \ {a} : (Stopping(b))' <=> Stopping(b)
  BY <1>2 DEF Stopping, Calling
<1> QED BY <1>1, <1>2, <1>3, <1>4 DEF Raised, Fresh

LEMMA NextRaises == IInv /\ Raised /\ [Next]_vars => Raised'
<1> SUFFICES ASSUME IInv, Raised, [Next]_vars PROVE Raised'
  OBVIOUS
<1>1. ASSUME NEW t \in Threads, ThreadStep(t) PROVE Raised'
  <2>1. UNCHANGED <<todo, stop, crossed>>
    BY <1>1 DEF ThreadStep, Begin, Open, Fail, Retry, Stopped, SeekTo, PlayOn, Drain, Advance,
                control, work
  <2> QED BY <2>1, Calmly
<1>2. ASSUME NEW a \in Actors, CallStep(a) PROVE Raised'
  BY <1>2, CallsRaise
<1>3. CASE Request
  <2>1. PICK q \in QueueCommands \cup Transport : todo' = [todo EXCEPT !["commands"] = q]
    BY <1>3 DEF Request
  <2>2. Fresh(q) /\ UNCHANGED control
    BY <1>3, RequestsFresh DEF IInv, Request
  <2> QED BY <2>1, <2>2, AskedRaised DEF Actors
<1>4. CASE LeaderHello
  <2> DEFINE q == <<C("Lock")>> \o StopCalls \o <<C("Follow")>>
  <2>1. todo' = [todo EXCEPT !["multiroom"] = q] /\ UNCHANGED control
    BY <1>4 DEF LeaderHello
  <2>2. Fresh(q)
    <3>1. Fresh(<<C("Lock")>>) /\ Fresh(StopCalls) /\ Fresh(<<C("Follow")>>)
      BY Freshness
    <3> QED BY <3>1, FreshJoined
  <2> HIDE DEF q
  <2> QED BY <2>1, <2>2, AskedRaised DEF Actors
<1>5. CASE StoreEvent \/ Seek \/ Mirror \/ MirrorEnds \/ LeaveGroup \/ UNCHANGED vars
  <2>1. UNCHANGED <<todo, stop, crossed>>
    BY <1>5 DEF StoreEvent, Seek, Mirror, MirrorEnds, LeaveGroup, vars, control, work
  <2> QED BY <2>1, Calmly
<1> QED BY <1>1, <1>2, <1>3, <1>4, <1>5 DEF Next

LEMMA InitRaised == Init => Raised
<1> SUFFICES ASSUME Init PROVE Raised
  OBVIOUS
<1>1. PICK resume \in {<<>>, PlayCalls} :
        todo = [a \in Actors |-> IF a = "commands" THEN resume ELSE <<>>]
  BY DEF Init
<1>2. Led(<<>>)
  BY DEF Led
<1>3. Led(PlayCalls) /\ PlayCalls # <<>> /\ Head(PlayCalls).call \notin {"Take", "Join"}
  <2> DEFINE q == PlayCalls
  <2>1. Fresh(q)
    BY Freshness
  <2> HIDE DEF q
  <2>2. q \in Seq([call : Calls, arg : Nat]) /\ q # <<>> /\ Led(q)
        /\ q[1].call \notin {"Take", "Join"}
    BY <2>1 DEF Fresh, Work
  <2>3. Head(q) = q[1]
    BY <2>2, TailFacts
  <2>4. q # <<>> /\ Led(q) /\ Head(q).call \notin {"Take", "Join"}
    BY <2>2, <2>3
  <2> QED BY <2>4 DEF q
<1> QED BY <1>1, <1>2, <1>3 DEF Raised, Stopping, Calling

\* A playback thread that is alive is attended to, whatever the command handler
\* and a leader that takes over do at the same time (player_service.rs:249): its
\* handle is there, or about to be stored, or somebody waits for it whose stop is
\* in force unless a start has crossed it.
THEOREM InControl == Spec => []Controlled
<1>1. Init => IInv /\ Raised
  BY Initially, InitRaised
<1>2. IInv /\ Raised /\ [Next]_vars => IInv' /\ Raised'
  BY NextKeeps, NextRaises
<1>3. IInv /\ Raised => Controlled
  <2> SUFFICES ASSUME IInv, Raised, NEW t \in Alive, t # handle
               PROVE  \E a \in Actors :
                        /\ grip[a] = t
                        /\ Calling(a, "Store") \/ (Calling(a, "Join") /\ (stop \/ a \in crossed))
    BY DEF Controlled
  <2>1. PICK a \in Actors : grip[a] = t
    BY DEF IInv, Held
  <2>2. Calling(a, "Store") \/ Calling(a, "Join")
    BY <2>1 DEF IInv, InHand, Calling
  <2> QED BY <2>1, <2>2 DEF Raised, Stopping
<1> QED BY <1>1, <1>2, <1>3, PTL DEF Spec

-----------------------------------------------------------------------------
(* Without a leader.                                                       *)

\* The command handler waits for a thread, or starts one, only when the handle
\* is idle.
LEMMA Single ==
  ASSUME IInv, ~Grouping
  PROVE  \A t, r \in Alive : t = r
<1>1. grip["multiroom"] = 0 /\ 0 \notin Alive
  BY TypeParts, ThreadsFacts DEF IInv, Alone
<1>2. \A t \in Alive : t = handle \/ t = grip["commands"]
  BY <1>1 DEF IInv, Held, Actors
<1>3. grip["commands"] \in Alive => handle \notin Alive
  <2> SUFFICES ASSUME grip["commands"] \in Alive PROVE handle \notin Alive
    OBVIOUS
  <2>1. PICK c \in {"Join", "Store"} : Calling("commands", c)
    BY DEF IInv, InHand, Actors, Calling
  <2> QED BY <2>1, CallFacts DEF Actors
<1> QED BY <1>2, <1>3

\* There is one playback thread at most, as long as no leader takes the instance
\* over: play on a player that plays starts none (player_service.rs:202).
THEOREM OneAtMost == ASSUME ~Grouping PROVE Spec => []OneThread
<1>1. IInv => OneThread
  <2> SUFFICES ASSUME IInv PROVE OneThread
    OBVIOUS
  <2>1. CASE Alive = {}
    BY <2>1, FS_EmptySet DEF OneThread
  <2>2. CASE Alive # {}
    <3>1. PICK t : t \in Alive
      BY <2>2
    <3>2. Alive = {t}
      BY <3>1, Single
    <3>3. Cardinality({t}) = 1
      BY FS_Singleton
    <3>4. Cardinality(Alive) = 1
      BY <3>2, <3>3
    <3> QED BY <3>4 DEF OneThread
  <2> QED BY <2>1, <2>2
<1> QED BY <1>1, Invariant, PTL

\* What a stop needs to be remembered: a thread past its announcement has told
\* that it plays, and the last state told is stored, about to be, or obsolete.
Announced == \A t \in Alive : thread[t].pc # "Top" => shown = "PLAYING"

LastStopped == events # <<>> /\ events[Len(events)].type = "STOPPED"

Kept ==
  shown = "STOPPED" /\ thread # <<>> /\ Alive = {} =>
    LastStopped \/ (events = <<>> /\ paused) \/ Starts(todo["commands"])

LEMMA ThreadRemembers ==
  ASSUME ~Grouping, IInv, NEW t \in Threads, thread[t].pc # "Ended", NEW new, Become(t, new),
         new.pc \in {"Ended", "Top"} \/ shown' = "PLAYING",
         new.pc = "Ended" => shown' # "STOPPED" \/ LastStopped'
  PROVE  Announced' /\ Kept'
<1>1. Threads' = Threads /\ \A r \in Threads : thread'[r] = IF r = t THEN new ELSE thread[r]
  BY TypeParts DEF IInv, ThreadTypes, Become, Threads
<1>2. \A r \in Alive : r = t
  BY Single DEF Alive
<1>3. \A r \in Alive' : r = t /\ thread'[r] = new /\ new.pc # "Ended"
  BY <1>1, <1>2 DEF Alive
<1>4. Announced'
  BY <1>3 DEF Announced
<1>5. Alive' = {} => new.pc = "Ended"
  BY <1>1 DEF Alive
<1> QED BY <1>4, <1>5 DEF Kept

LEMMA ThreadActsRemember ==
  ASSUME ~Grouping, IInv, Announced, NEW t \in Threads, ThreadStep(t)
  PROVE  Announced' /\ Kept'
<1>1. TypeOK /\ thread[t] \in Thread
  BY TypeParts, SetFacts DEF IInv
<1>2. thread[t].pc \notin {"Ended", "Top"} => shown = "PLAYING"
  BY DEF Announced, Alive
<1>3. TellState("STOPPED") => LastStopped'
  BY <1>1, TellFacts, EventFacts DEF TellState, LastStopped
<1>4. \A pc : Set(t, pc).pc = pc /\ Set(t, pc) = [thread[t] EXCEPT !.pc = pc]
  BY <1>1 DEF Set, Thread
<1>5. CASE Begin(t)
  <2>1. CASE queue = <<>>
    BY <1>3, <1>4, <1>5, <2>1, ThreadRemembers DEF Begin
  <2>2. CASE queue # <<>>
    <3> DEFINE new == [Set(t, "Open") EXCEPT !.song = queue[pos], !.at = 0]
    <3>1. Become(t, new) /\ shown' = "PLAYING" /\ thread[t].pc # "Ended"
      BY <1>5, <2>2 DEF Begin, TellState
    <3>2. new.pc = "Open"
      BY <1>1, <1>4 DEF Thread
    <3> HIDE DEF new
    <3> QED BY <3>1, <3>2, ThreadRemembers
  <2> QED BY <2>1, <2>2
<1>6. CASE Open(t) \/ Drain(t)
  BY <1>2, <1>4, <1>6, ThreadRemembers DEF Open, Drain
<1>7. CASE Fail(t)
  <2>1. CASE thread[t].retries < MaxRetries /\ ~stop
    <3> DEFINE new == [Set(t, "Retry") EXCEPT !.retries = @ + 1]
    <3>1. Become(t, new) /\ shown' = shown /\ thread[t].pc = "Open"
      BY <1>7, <2>1 DEF Fail
    <3>2. new.pc = "Retry"
      BY <1>1, <1>4 DEF Thread
    <3> HIDE DEF new
    <3> QED BY <1>2, <3>1, <3>2, ThreadRemembers
  <2>2. CASE ~(thread[t].retries < MaxRetries /\ ~stop)
    BY <1>4, <1>7, <2>2, ThreadRemembers DEF Fail, TellState
  <2> QED BY <2>1, <2>2
<1>8. CASE Retry(t)
  BY <1>3, <1>4, <1>8, ThreadRemembers DEF Retry
<1>9. CASE Stopped(t)
  BY <1>3, <1>4, <1>9, ThreadRemembers DEF Stopped
<1>10. CASE SeekTo(t)
  <2> DEFINE new == [thread[t] EXCEPT !.at = skip.at]
  <2>1. Become(t, new) /\ shown' = shown /\ thread[t].pc = "Play"
    BY <1>10 DEF SeekTo
  <2>2. new.pc = "Play"
    BY <1>1, <2>1 DEF Thread
  <2> HIDE DEF new
  <2> QED BY <1>2, <2>1, <2>2, ThreadRemembers
<1>11. CASE PlayOn(t)
  <2> DEFINE new == [thread[t] EXCEPT !.at = @ + 1]
  <2>1. Become(t, new) /\ shown' = shown /\ thread[t].pc = "Play"
    BY <1>11 DEF PlayOn
  <2>2. new.pc = "Play"
    BY <1>1, <2>1 DEF Thread
  <2> HIDE DEF new
  <2> QED BY <1>2, <2>1, <2>2, ThreadRemembers
<1>12. CASE Advance(t)
  <2>1. CASE queue # <<>> /\ pos < Len(queue)
    <3> DEFINE new == [Set(t, "Top") EXCEPT !.retries = 0]
    <3>1. Become(t, new) /\ thread[t].pc = "Finished"
      BY <1>12, <2>1 DEF Advance
    <3>2. new.pc = "Top"
      BY <1>1, <1>4 DEF Thread
    <3> HIDE DEF new
    <3> QED BY <3>1, <3>2, ThreadRemembers
  <2>2. CASE ~(queue # <<>> /\ pos < Len(queue))
    BY <1>2, <1>4, <1>12, <2>2, ThreadRemembers DEF Advance
  <2> QED BY <2>1, <2>2
<1> QED BY <1>5, <1>6, <1>7, <1>8, <1>9, <1>10, <1>11, <1>12 DEF ThreadStep

LEMMA CallsRemember ==
  ASSUME ~Grouping, IInv, Announced, Kept, NEW a \in Actors, CallStep(a)
  PROVE  Announced' /\ Kept'
<1>1. TypeOK /\ ThreadTypes /\ todo \in [Actors -> Work]
  BY TypeParts DEF IInv
<1>2. CASE Spawn(a)
  <2>1. /\ Alive' = Alive \cup {Len(thread) + 1}
        /\ thread'[Len(thread) + 1].pc = "Top" /\ \A t \in Threads : thread'[t] = thread[t]
    BY <1>2, Spawning
  <2>2. shown' = shown /\ Alive \subseteq Threads
    BY <1>2 DEF Spawn, Alive
  <2>3. Announced'
    BY <2>1, <2>2 DEF Announced
  <2> QED BY <2>1, <2>3 DEF Kept
<1>3. CASE ~Spawn(a)
  <2>1. PICK c : /\ c # "Spawn" /\ Calling(a, c) /\ UNCHANGED <<thread, events, shown>>
                 /\ \/ Done(a)
                    \/ /\ c = "Check"
                       /\ todo' = [todo EXCEPT ![a] = IF IsPlaying THEN <<>> ELSE Tail(@)]
                       /\ UNCHANGED count
                 /\ (UNCHANGED paused \/ c = "Unpause")
    BY <1>3 DEF CallStep, Signal, Take, Join, ChangeQueue, Unpause, Check, Resume, StoreHandle,
                LockOut, Follow, store
  <2>2. todo[a] # <<>> /\ Head(todo[a]).call = c /\ todo[a] \in Work /\ Proper(todo[a])
    BY <2>1, CallFacts
  <2>3. a = "commands"
    BY <2>2 DEF IInv, Alone, Actors
  <2>4. Alive' = Alive /\ UNCHANGED <<thread, events, shown>>
    BY <2>1 DEF Alive, Threads
  <2>5. Announced'
    BY <2>4 DEF Announced
  <2>6. ASSUME Alive = {} PROVE todo'["commands"] = Tail(todo["commands"])
    BY <1>1, <2>1, <2>3, <2>6 DEF Done, IsPlaying
  <2>7. Starts(todo["commands"]) => Starts(Tail(todo["commands"]))
    BY <2>1, <2>2, <2>3, TailWork
  <2>8. c = "Unpause" => Starts(Tail(todo["commands"]))
    BY <2>2, <2>3, TailWork
  <2>9. Kept'
    <3> SUFFICES ASSUME shown = "STOPPED", thread # <<>>, Alive = {}
                 PROVE  LastStopped \/ (events = <<>> /\ paused') \/ Starts(todo'["commands"])
      BY <2>4 DEF Kept, LastStopped
    <3> QED BY <2>1, <2>6, <2>7, <2>8 DEF Kept
  <2> QED BY <2>5, <2>9
<1> QED BY <1>2, <1>3

LEMMA OthersRemember ==
  ASSUME ~Grouping, IInv, Announced, Kept,
         \/ StoreEvent \/ Request \/ Seek \/ LeaderHello \/ Mirror \/ MirrorEnds \/ LeaveGroup
         \/ UNCHANGED vars
  PROVE  Announced' /\ Kept'
<1>1. mirrors = 0 /\ events \in Seq(Event)
  BY TypeParts DEF IInv, Alone
<1>2. UNCHANGED <<thread, shown>>
  <2>1. ~Mirror /\ ~MirrorEnds /\ ~LeaderHello
    BY <1>1 DEF Mirror, MirrorEnds, LeaderHello
  <2> QED BY <2>1 DEF StoreEvent, Request, Seek, LeaveGroup, vars
<1>3. Alive' = Alive /\ Announced'
  BY <1>2 DEF Alive, Threads, Announced
<1>4. CASE StoreEvent
  <2>1. /\ events # <<>> /\ events' = Tail(events) /\ todo' = todo
        /\ Head(events).type = "STOPPED" => paused' = TRUE
    BY <1>4 DEF StoreEvent, work
  <2>2. LastStopped => LastStopped' \/ (events' = <<>> /\ paused')
    <3> SUFFICES ASSUME LastStopped PROVE LastStopped' \/ (events' = <<>> /\ paused')
      OBVIOUS
    <3> DEFINE k == Len(events)
    <3>1. /\ k \in Nat \ {0} /\ Len(events') = k - 1 /\ Head(events) = events[1]
          /\ \A i \in 1..k - 1 : events'[i] = events[i + 1]
          /\ events' = <<>> <=> k = 1
      BY <1>1, <2>1, TailFacts
    <3> HIDE DEF k
    <3>2. events[k].type = "STOPPED"
      BY DEF LastStopped, k
    <3>3. CASE k = 1
      BY <2>1, <3>1, <3>2, <3>3
    <3>4. CASE k > 1
      <4>1. k - 1 \in 1..k - 1 /\ (k - 1) + 1 = k
        BY <3>1, <3>4
      <4>2. events'[k - 1] = events[k]
        BY <3>1, <4>1
      <4> QED BY <3>1, <3>2, <3>4, <4>2 DEF LastStopped
    <3> QED BY <3>1, <3>3, <3>4
  <2> QED BY <1>2, <1>3, <2>1, <2>2 DEF Kept
<1>5. CASE ~StoreEvent
  <2>1. UNCHANGED <<events, paused>> /\ (todo' = todo \/ todo["commands"] = <<>>)
    <3>1. ~Mirror /\ ~MirrorEnds /\ ~LeaderHello
      BY <1>1 DEF Mirror, MirrorEnds, LeaderHello
    <3> QED BY <1>5, <3>1 DEF Request, Seek, LeaveGroup, vars, store, work, Idle
  <2>2. Starts(todo["commands"]) => todo' = todo
    BY <2>1 DEF Starts
  <2> QED BY <1>2, <1>3, <2>1, <2>2 DEF Kept, LastStopped
<1> QED BY <1>4, <1>5

\* A player at rest that told it stopped has its pause flag stored, whichever
\* events the storing task missed, so that the next play goes on from there
\* (player_service.rs:106 and 205).
THEOREM Remembers == ASSUME ~Grouping PROVE Spec => []StopRemembered
<1> DEFINE RInv == IInv /\ Announced /\ Kept
<1>1. Init => RInv
  <2> SUFFICES ASSUME Init PROVE RInv
    OBVIOUS
  <2>1. thread = <<>> /\ Alive = {}
    BY DEF Init, Alive, Threads
  <2> QED BY <2>1, Initially DEF Announced, Kept
<1>2. RInv /\ [Next]_vars => RInv'
  <2> SUFFICES ASSUME RInv, [Next]_vars PROVE RInv'
    OBVIOUS
  <2>1. IInv'
    BY NextKeeps
  <2>2. ASSUME NEW t \in Threads, ThreadStep(t) PROVE Announced' /\ Kept'
    BY <2>2, ThreadActsRemember
  <2>3. ASSUME NEW a \in Actors, CallStep(a) PROVE Announced' /\ Kept'
    BY <2>3, CallsRemember
  <2>4. ASSUME \/ StoreEvent \/ Request \/ Seek \/ LeaderHello \/ Mirror \/ MirrorEnds
               \/ LeaveGroup \/ UNCHANGED vars
        PROVE  Announced' /\ Kept'
    BY <2>4, OthersRemember
  <2> QED BY <2>1, <2>2, <2>3, <2>4 DEF Next
<1>3. RInv => StopRemembered
  <2> SUFFICES ASSUME RInv PROVE StopRemembered
    OBVIOUS
  <2>1. Idle("commands") => ~Starts(todo["commands"])
    BY DEF Idle, Starts
  <2> QED BY <2>1 DEF StopRemembered, Kept, LastStopped, Actors
<1> QED BY <1>1, <1>2, <1>3, PTL DEF Spec
=============================================================================
