--------------------------- MODULE SettingsProofs ---------------------------
(***************************************************************************)
(* Proofs about the settings for any shares, devices, pages, commands and  *)
(* posts under way: shares and directories stay together, memory and disk  *)
(* agree, and volume and mute are kept, as far as Settings promises.       *)
(***************************************************************************)
EXTENDS Settings, FiniteSetTheorems, SequenceTheorems, TLAPS

-----------------------------------------------------------------------------
(* The inductive invariant.                                                *)

Sources(s)  == s.mounts \subseteq Range(s.dirs)

\* Whoever has a copy of the settings has a sound one: until a page takes away the
\* line of a share, every share is listed.
Sound(s)    == ~slipped => Sources(s)
ServerSound == \A s \in {cache, stored, system.new, user.new} : Sound(s)
PagesSound  == \A p \in Page : Sound(page[p].copy)
PostsSound  == \A post \in posts : Sound(post.new)

\* What is to go to the disk is in memory, and one writer at most is about to
\* bring it there, unless two were on the way at once.  What is filled in for a page
\* is not counted.
Agree(s, t) == Chosen(s) = Chosen(t)
OnDisk == {post \in posts : post.at = "Disk"}

Pending ==
  /\ system.at = "Disk" => user.at # "Disk" /\ OnDisk = {} /\ Agree(cache, system.new)
  /\ user.at = "Disk" => OnDisk = {} /\ Agree(cache, user.new)
  /\ \A post \in OnDisk : Agree(cache, post.new) /\ OnDisk = {post}
  /\ ~Midway => Agree(cache, stored)

OneWriter == ~crossed => Pending

\* Only system commands change a volume.
Volumeless ==
  /\ Volumes(user.new) = Volumes(user.base)
  /\ \A p \in Page : Volumes(page[p].copy) = Volumes(page[p].base)
  /\ \A post \in posts : Volumes(post.new) = Volumes(post.base)

\* Reports come from the firmware, the last one is the level it has, unless it
\* missed something since.
Reported ==
  /\ device # "Firmware" => reports = <<>>
  /\ reports # <<>> /\ ~missed => reports[Len(reports)] = level

\* The volumes that will be in memory when the system command is over.
Ahead == IF system.at = "Cache" THEN Volumes(system.new) ELSE Volumes(cache)

Clamped == Ahead[1] # NoLevel => Clamp(Ahead[1]) = level
Told    == IF system.at = "Idle" THEN shown # NoLevel => shown = level
           ELSE system.show = level

Heeded ==
  /\ ~lost /\ ~missed /\ reports = <<>> /\ level > 0
     /\ device \in {"Software", "Pipewire", "Firmware"}
       => Clamped
  /\ device \in {"Software", "Pipewire"} /\ level > 0 => Told

Remembered ==
  mutedAt # NoLevel =>
    /\ mutedAt \in Level /\ device \notin {"Off", "Firmware"}
    /\ ~lost => Ahead[2] = mutedAt

Core == TypeOK /\ ServerSound /\ PagesSound /\ PostsSound /\ OneWriter /\ Volumeless
Loud == Reported /\ Heeded /\ Remembered
IInv == Core /\ Loud

-----------------------------------------------------------------------------
(* Lists of directories.                                                   *)

LEMMA AppendFacts ==
  ASSUME NEW S, NEW q \in Seq(S), NEW d \in S
  PROVE  /\ Append(q, d) \in Seq(S)
         /\ Range(Append(q, d)) = Range(q) \cup {d}
<1>1. /\ Append(q, d) \in Seq(S) /\ Len(q) \in Nat /\ DOMAIN q = 1..Len(q)
      /\ DOMAIN Append(q, d) = 1..Len(q) + 1
      /\ \A i \in 1..Len(q) + 1 : Append(q, d)[i] = IF i = Len(q) + 1 THEN d ELSE q[i]
  OBVIOUS
<1> QED BY <1>1 DEF Range

LEMMA RemoveAtFacts ==
  ASSUME NEW S, NEW q \in Seq(S), NEW i \in DOMAIN q
  PROVE  /\ RemoveAt(q, i) \in Seq(S)
         /\ Range(q) \subseteq Range(RemoveAt(q, i)) \cup {q[i]}
<1> DEFINE front == SubSeq(q, 1, i - 1)
           back  == SubSeq(q, i + 1, Len(q))
           r     == RemoveAt(q, i)
<1>1. Len(q) \in Nat /\ DOMAIN q = 1..Len(q) /\ i \in 1..Len(q) /\ \A k \in 1..Len(q) : q[k] \in S
  OBVIOUS
<1>2. /\ front \in Seq(S) /\ Len(front) = i - 1
      /\ \A k \in 1..i - 1 : front[k] = q[k]
  BY <1>1, SubSeqProperties
<1>3. /\ back \in Seq(S) /\ Len(back) = Len(q) - i
      /\ \A k \in 1..Len(q) - i : back[k] = q[i + k]
  <2>1. /\ back \in Seq(S) /\ Len(back) = IF i + 1 <= Len(q) THEN Len(q) - (i + 1) + 1 ELSE 0
        /\ \A k \in 1..Len(q) - (i + 1) + 1 : back[k] = q[i + 1 + k - 1]
    BY <1>1, SubSeqProperties
  <2>2. Len(back) = Len(q) - i
    BY <1>1, <2>1
  <2>3. ASSUME NEW k \in 1..Len(q) - i PROVE back[k] = q[i + k]
    <3>1. k \in 1..Len(q) - (i + 1) + 1 /\ i + 1 + k - 1 = i + k
      BY <1>1
    <3> HIDE DEF back
    <3> QED BY <2>1, <3>1
  <2> HIDE DEF back
  <2> QED BY <2>1, <2>2, <2>3
<1>4. /\ r \in Seq(S) /\ DOMAIN r = 1..Len(q) - 1
      /\ \A k \in 1..Len(q) - 1 : r[k] = IF k < i THEN q[k] ELSE q[k + 1]
  <2> HIDE DEF front, back
  <2>1. r = front \o back
    BY DEF RemoveAt, front, back
  <2>2. /\ r \in Seq(S) /\ Len(r) = Len(q) - 1
        /\ \A k \in 1..Len(q) - 1 : r[k] = IF k <= i - 1 THEN front[k] ELSE back[k - (i - 1)]
    <3>1. /\ front \o back \in Seq(S) /\ Len(front \o back) = Len(front) + Len(back)
          /\ \A k \in 1..Len(front) + Len(back) :
               (front \o back)[k] = IF k <= Len(front) THEN front[k] ELSE back[k - Len(front)]
      BY <1>2, <1>3, ConcatProperties
    <3>2. Len(front) + Len(back) = Len(q) - 1 /\ Len(front) = i - 1
      BY <1>1, <1>2, <1>3
    <3> QED BY <2>1, <3>1, <3>2
  <2>3. ASSUME NEW k \in 1..Len(q) - 1 PROVE r[k] = IF k < i THEN q[k] ELSE q[k + 1]
    <3>1. CASE k < i
      BY <1>1, <1>2, <2>2, <3>1
    <3>2. CASE ~(k < i)
      <4>1. k - (i - 1) \in 1..Len(q) - i /\ i + (k - (i - 1)) = k + 1
        BY <1>1, <3>2
      <4>2. ~(k <= i - 1)
        BY <1>1, <3>2
      <4>3. r[k] = back[k - (i - 1)]
        BY <2>2, <4>2
      <4>4. back[k - (i - 1)] = q[i + (k - (i - 1))]
        BY <1>3, <4>1
      <4> QED BY <3>2, <4>1, <4>3, <4>4
    <3> QED BY <3>1, <3>2
  <2> QED BY <1>1, <2>2, <2>3
<1> HIDE DEF r
<1>5. Range(q) \subseteq Range(r) \cup {q[i]}
  <2> SUFFICES ASSUME NEW k \in 1..Len(q), k # i PROVE q[k] \in Range(r)
    BY <1>1 DEF Range
  <2>1. CASE k < i
    <3>1. k \in 1..Len(q) - 1 /\ r[k] = q[k]
      BY <1>1, <1>4, <2>1
    <3> QED BY <1>4, <3>1 DEF Range
  <2>2. CASE k > i
    <3>1. k - 1 \in 1..Len(q) - 1 /\ ~(k - 1 < i) /\ (k - 1) + 1 = k
      BY <1>1, <2>2
    <3>2. r[k - 1] = q[k]
      BY <1>4, <3>1
    <3> QED BY <1>4, <3>1, <3>2 DEF Range
  <2> QED BY <1>1, <2>1, <2>2
<1> QED BY <1>4, <1>5 DEF r

\* The lines left are numbered by how many are left up to each.
LEMMA WithoutFacts ==
  ASSUME NEW S, NEW q \in Seq(S), NEW d
  PROVE  /\ Without(q, d) \in Seq(S)
         /\ Range(q) \ {d} \subseteq Range(Without(q, d))
<1> DEFINE kept    == {i \in DOMAIN q : q[i] # d}
           upto(i) == {j \in kept : j <= i}
           n       == Cardinality(kept)
           rank    == [i \in kept |-> Cardinality(upto(i))]
           line(k) == CHOOSE i \in kept : Cardinality(upto(i)) = k
           r       == [k \in 1..n |-> q[line(k)]]
<1>1. Len(q) \in Nat /\ DOMAIN q = 1..Len(q) /\ \A i \in DOMAIN q : q[i] \in S
  OBVIOUS
<1>2. IsFiniteSet(kept) /\ n \in Nat /\ kept \subseteq Nat /\ kept \subseteq DOMAIN q
  <2>1. kept \subseteq 1..Len(q) /\ IsFiniteSet(1..Len(q))
    BY <1>1, FS_Interval
  <2>2. IsFiniteSet(kept)
    BY <2>1, FS_Subset
  <2> QED BY <2>1, <2>2, <1>1, FS_CardinalityType
<1>3. Without(q, d) = r
  BY DEF Without
<1>4. \A i \in kept : q[i] # d
  OBVIOUS
<1>5. \A i \in DOMAIN q : q[i] # d => i \in kept
  OBVIOUS
<1> HIDE DEF kept
<1>6. ASSUME NEW i \in kept
      PROVE  IsFiniteSet(upto(i)) /\ Cardinality(upto(i)) \in 1..n
  <2>1. upto(i) \subseteq kept /\ i \in upto(i)
    BY <1>2
  <2>2. IsFiniteSet(upto(i)) /\ Cardinality(upto(i)) <= n
    BY <1>2, <2>1, FS_Subset
  <2>3. Cardinality(upto(i)) \in Nat /\ Cardinality(upto(i)) # 0
    <3> HIDE DEF upto
    <3> QED BY <2>1, <2>2, FS_CardinalityType, FS_EmptySet
  <2> QED BY <1>2, <2>2, <2>3
<1>7. ASSUME NEW i \in kept, NEW j \in kept, i < j
      PROVE  Cardinality(upto(i)) # Cardinality(upto(j))
  <2>0. i \in Nat /\ j \in Nat /\ (\A x \in kept : x \in Nat)
    BY <1>2
  <2>1. upto(i) \subseteq upto(j) /\ j \in upto(j) /\ j \notin upto(i)
    <3>1. \A x \in kept : x <= i => x <= j
      BY <1>7, <2>0
    <3>2. j <= j /\ ~(j <= i)
      BY <1>7, <2>0
    <3> QED BY <3>1, <3>2
  <2>2. IsFiniteSet(upto(j))
    BY <1>6
  <2> HIDE DEF upto
  <2> QED BY <2>1, <2>2, FS_Subset
<1>8. \A i, j \in kept : Cardinality(upto(i)) = Cardinality(upto(j)) => i = j
  <2> SUFFICES ASSUME NEW i \in kept, NEW j \in kept, i # j
               PROVE  Cardinality(upto(i)) # Cardinality(upto(j))
    OBVIOUS
  <2>1. i < j \/ j < i
    BY <1>2
  <2> QED BY <1>7, <2>1
<1> HIDE DEF upto
<1>9. rank \in [kept -> 1..n] /\ \A i \in kept : rank[i] = Cardinality(upto(i))
  BY <1>6
<1>10. rank \in Surjection(kept, 1..n)
  <2>1. IsFiniteSet(1..n) /\ Cardinality(1..n) = n
    BY <1>2, FS_Interval
  <2>2. rank \in Injection(kept, 1..n)
    BY <1>8, <1>9 DEF Injection, IsInjective
  <2> HIDE DEF rank
  <2> QED BY <1>2, <2>1, <2>2, FS_Injection
<1>11. \A k \in 1..n : \E i \in kept : Cardinality(upto(i)) = k
  BY <1>9, <1>10 DEF Surjection
<1>12. \A k \in 1..n : line(k) \in kept /\ Cardinality(upto(line(k))) = k
  BY <1>11
<1>13. \A i \in kept : line(Cardinality(upto(i))) = i
  BY <1>6, <1>8, <1>12
<1> HIDE DEF line
<1>14. r \in Seq(S)
  <2>1. \A k \in 1..n : q[line(k)] \in S
    BY <1>1, <1>2, <1>12
  <2>2. r \in [1..n -> S]
    BY <2>1
  <2> QED BY <1>2, <2>2
<1>15. ASSUME NEW i \in DOMAIN q, q[i] # d PROVE q[i] \in Range(r)
  <2>1. i \in kept
    BY <1>5, <1>15
  <2>2. Cardinality(upto(i)) \in DOMAIN r /\ r[Cardinality(upto(i))] = q[i]
    BY <1>6, <1>13, <2>1
  <2> HIDE DEF r
  <2> QED BY <2>2 DEF Range
<1> HIDE DEF r
<1> QED BY <1>3, <1>14, <1>15 DEF Range

\* The order SetToSeq chooses lists a finite set.
LEMMA SetToSeqFacts ==
  ASSUME NEW S, IsFiniteSet(S)
  PROVE  SetToSeq(S) \in Seq(S) /\ Range(SetToSeq(S)) = S
<1> DEFINE n == Cardinality(S)
           f == SetToSeq(S)
<1>1. n \in Nat /\ ExistsBijection(1..n, S)
  BY FS_CardinalityType
<1>2. f \in [1..n -> S] /\ IsInjective(f)
  BY <1>1 DEF SetToSeq, ExistsBijection, Bijection, Injection
<1>3. IsFiniteSet(1..n) /\ Cardinality(1..n) = n
  BY <1>1, FS_Interval
<1>4. f \in Surjection(1..n, S)
  BY <1>2, <1>3, FS_Injection DEF Injection
<1>5. f \in Seq(S)
  BY <1>1, <1>2
<1> QED BY <1>2, <1>4, <1>5 DEF Range, Surjection

-----------------------------------------------------------------------------
(* What is done to a level, and to settings.                               *)

LEMMA Levels ==
  /\ Level \subseteq Asked /\ Level \subseteq Nat /\ Asked \subseteq Saved
  /\ NoLevel \in Saved /\ NoLevel \notin Asked
  /\ MaxLevel \in Level /\ MaxLevel \div 2 \in Asked /\ 0 \in Level
  /\ \A v \in Saved : v # NoLevel => v \in Asked
  /\ \A v \in Asked : Clamp(v) \in Level
  /\ \A v \in Level : Clamp(v) = v
BY SettingsAssumption DEF Level, Asked, Saved, NoLevel, Clamp

LEMMA DeviceFacts ==
  ASSUME level \in Level
  PROVE  /\ UpOf \in Level /\ DownOf \in Level /\ Current \in Level
         /\ \A v \in Asked : Returned(v) \in Saved
         /\ \A v \in Level : Stepped(v) \in Saved
<1>1. UpOf \in Level /\ DownOf \in Level /\ Current \in Level
  BY SettingsAssumption DEF Level, UpOf, DownOf, Current, Clamp
<1>2. \A v \in Asked : Returned(v) \in Saved
  BY Levels DEF Returned
<1>3. \A v \in Level : Stepped(v) \in Saved
  BY Levels DEF Stepped
<1> QED BY <1>1, <1>2, <1>3

\* t is s with other volumes, or with all but its volumes edited.
Revolumed(s, t) == t \in Setting /\ t.mounts = s.mounts /\ t.dirs = s.dirs

Edited(s, t) ==
  /\ t \in Setting /\ Volumes(t) = Volumes(s)
  /\ Sources(s) => Sources(t)

\* What is filled in touches neither volumes nor shares.
LEMMA ChosenFacts ==
  ASSUME NEW s \in Setting, NEW t \in Setting, Agree(s, t)
  PROVE  Volumes(s) = Volumes(t) /\ s.mounts = t.mounts /\ s.dirs = t.dirs
<1>1. \A x \in Setting : /\ Chosen(x).volume = x.volume /\ Chosen(x).before = x.before
                          /\ Chosen(x).mounts = x.mounts /\ Chosen(x).dirs = x.dirs
  BY DEF Chosen, Setting
<1> QED BY <1>1 DEF Agree, Volumes

LEMMA ProbeFacts ==
  ASSUME NEW s \in Setting
  PROVE  [s EXCEPT !.probed = TRUE] \in Setting /\ Agree([s EXCEPT !.probed = TRUE], s)
BY DEF Setting, Agree, Chosen

LEMMA RevolumeFacts ==
  ASSUME NEW s \in Setting, NEW v \in Saved, NEW w \in Saved
  PROVE  /\ Revolumed(s, s)
         /\ Revolumed(s, [s EXCEPT !.volume = v])
         /\ Revolumed(s, [s EXCEPT !.before = v])
         /\ Revolumed(s, [s EXCEPT !.before = v, !.volume = w])
BY DEF Revolumed, Setting

LEMMA AddedFacts ==
  ASSUME NEW s \in Setting, NEW m \in Mount
  PROVE  Edited(s, Added(s, m))
<1> DEFINE t == Added(s, m)
<1>1. s.dirs \in Seq(Mount \cup Local) /\ m \in Mount \cup Local
  BY DEF Setting
<1>2. t.dirs = Listed(s.dirs, m) /\ t.mounts = s.mounts \cup {m} /\ Volumes(t) = Volumes(s)
  BY DEF Added, Setting, Volumes
<1>3. /\ Listed(s.dirs, m) \in Seq(Mount \cup Local)
      /\ Range(Listed(s.dirs, m)) = Range(s.dirs) \cup {m}
  BY <1>1, AppendFacts DEF Listed
<1>4. t \in Setting
  BY <1>3 DEF Added, Setting
<1>5. Sources(s) => Sources(t)
  BY <1>2, <1>3 DEF Sources
<1> HIDE DEF t
<1> QED BY <1>2, <1>3, <1>4, <1>5 DEF Edited, t

LEMMA RemovedFacts ==
  ASSUME NEW s \in Setting, NEW m \in Mount
  PROVE  Edited(s, Removed(s, m))
<1> DEFINE t == Removed(s, m)
<1>1. s.dirs \in Seq(Mount \cup Local)
  BY DEF Setting
<1>2. t.dirs = Without(s.dirs, m) /\ t.mounts = s.mounts \ {m} /\ Volumes(t) = Volumes(s)
  BY DEF Removed, Setting, Volumes
<1>3. /\ Without(s.dirs, m) \in Seq(Mount \cup Local)
      /\ Range(s.dirs) \ {m} \subseteq Range(Without(s.dirs, m))
  BY <1>1, WithoutFacts
<1>4. t \in Setting
  BY <1>3 DEF Removed, Setting
<1>5. Sources(s) => Sources(t)
  BY <1>2, <1>3 DEF Sources
<1> HIDE DEF t
<1> QED BY <1>2, <1>3, <1>4, <1>5 DEF Edited, t

LEMMA SwitchFacts ==
  ASSUME NEW s \in Setting, NEW b \in BOOLEAN
  PROVE  Edited(s, [s EXCEPT !.dsp = b]) /\ Edited(s, [s EXCEPT !.other = b])
BY DEF Edited, Setting, Volumes, Sources

LEMMA DirectoryFacts ==
  ASSUME NEW s \in Setting
  PROVE  /\ \A d \in Mount \cup Local : Edited(s, [s EXCEPT !.dirs = Append(@, d)])
         /\ \A i \in DOMAIN s.dirs :
              LET t == [s EXCEPT !.dirs = RemoveAt(@, i)]
              IN /\ t \in Setting /\ Volumes(t) = Volumes(s)
                 /\ s.dirs[i] \notin s.mounts /\ Sources(s) => Sources(t)
<1>1. s.dirs \in Seq(Mount \cup Local)
  BY DEF Setting
<1>2. ASSUME NEW d \in Mount \cup Local
      PROVE  Edited(s, [s EXCEPT !.dirs = Append(@, d)])
  <2> DEFINE q == Append(s.dirs, d)
             t == [s EXCEPT !.dirs = q]
  <2>1. q \in Seq(Mount \cup Local) /\ Range(q) = Range(s.dirs) \cup {d}
    BY <1>1, <1>2, AppendFacts
  <2> HIDE DEF q
  <2>2. t \in Setting /\ Volumes(t) = Volumes(s) /\ t.dirs = q /\ t.mounts = s.mounts
    BY <2>1 DEF Setting, Volumes
  <2>3. Sources(s) => Sources(t)
    BY <2>1, <2>2 DEF Sources
  <2>4. Edited(s, t)
    BY <2>1, <2>2, <2>3 DEF Edited
  <2> QED BY <2>4 DEF q
<1>3. ASSUME NEW i \in DOMAIN s.dirs
      PROVE  LET t == [s EXCEPT !.dirs = RemoveAt(@, i)]
             IN /\ t \in Setting /\ Volumes(t) = Volumes(s)
                /\ s.dirs[i] \notin s.mounts /\ Sources(s) => Sources(t)
  <2> DEFINE q == RemoveAt(s.dirs, i)
             t == [s EXCEPT !.dirs = q]
  <2>1. /\ q \in Seq(Mount \cup Local)
        /\ Range(s.dirs) \subseteq Range(q) \cup {s.dirs[i]}
    BY <1>1, RemoveAtFacts
  <2> HIDE DEF q
  <2>2. t \in Setting /\ Volumes(t) = Volumes(s) /\ t.dirs = q /\ t.mounts = s.mounts
    BY <2>1 DEF Setting, Volumes
  <2>3. s.dirs[i] \notin s.mounts /\ Sources(s) => Sources(t)
    BY <2>1, <2>2 DEF Sources
  <2>4. /\ t \in Setting /\ Volumes(t) = Volumes(s)
        /\ s.dirs[i] \notin s.mounts /\ Sources(s) => Sources(t)
    BY <2>2, <2>3
  <2> QED BY <2>4 DEF q
<1> QED BY <1>2, <1>3

-----------------------------------------------------------------------------
(* System commands.                                                        *)

Begins(new, show) ==
  /\ system.at = "Idle"
  /\ system' = [at |-> "Cache", new |-> new, base |-> cache, show |-> show]
  /\ Revolumed(cache, new) /\ show \in Saved

SoundStep ==
  /\ UNCHANGED <<device, settings, mounted, commands, user, page, posts, lost, crossed, slipped>>
  /\ level' \in Level /\ reports' \in Seq(Level)
  /\ moves' \in 0..MaxMoves /\ mutedAt' \in Saved /\ shown' \in Saved
  /\ plugged' \in BOOLEAN /\ missed' \in BOOLEAN
  /\ UNCHANGED system \/ \E new, show : Begins(new, show)

LEMMA SoundStepKeeps == Core /\ SoundStep => Core'
<1> SUFFICES ASSUME Core, SoundStep PROVE Core'
  OBVIOUS
<1>1. TypeOK
  BY DEF Core
<1>2. /\ cache' = cache /\ stored' = stored /\ device' = device /\ mounted' = mounted
      /\ commands' = commands /\ user' = user /\ page' = page /\ posts' = posts
      /\ lost' = lost /\ crossed' = crossed /\ slipped' = slipped
  BY DEF SoundStep, settings
<1>3. /\ system' \in [at : {"Idle", "Cache", "Disk"}, new : Setting, base : Setting, show : Saved]
      /\ system.at = "Disk" <=> system'.at = "Disk"
      /\ system.at = "Disk" => system' = system
      /\ Revolumed(cache, system'.new) \/ system'.new = system.new
  <2>1. CASE UNCHANGED system
    BY <1>1, <2>1 DEF TypeOK
  <2>2. CASE \E new, show : Begins(new, show)
    <3>1. PICK new, show : Begins(new, show)
      BY <2>2
    <3>2. new \in Setting /\ show \in Saved /\ cache \in Setting
      BY <1>1, <3>1 DEF Begins, Revolumed, TypeOK
    <3> QED BY <3>1, <3>2 DEF Begins
  <2> QED BY <2>1, <2>2 DEF SoundStep
<1>4. TypeOK'
  BY <1>1, <1>2, <1>3 DEF TypeOK, SoundStep
<1>5. ServerSound' /\ PagesSound' /\ PostsSound'
  BY <1>2, <1>3 DEF Core, ServerSound, PagesSound, PostsSound, Sound, Sources, Revolumed
<1>6. OneWriter'
  <2>1. OnDisk' = OnDisk
    BY <1>2 DEF OnDisk
  <2>2. Midway' <=> Midway
    BY <1>1, <1>2, <1>3 DEF Midway, TypeOK
  <2> QED BY <1>2, <1>3, <2>1, <2>2 DEF Core, OneWriter, Pending
<1>7. Volumeless'
  BY <1>2 DEF Core, Volumeless, Volumes
<1> QED BY <1>4, <1>5, <1>6, <1>7 DEF Core

LEMMA MoveFacts == moves \in 0..MaxMoves /\ Move => moves' \in 0..MaxMoves
BY SettingsAssumption DEF Move

\* What is sent to a device arrives, or is missed by the firmware.
Arrived(v, queue) ==
  /\ level' = IF device = "Off" THEN level ELSE v
  /\ reports' = IF device = "Firmware" THEN Append(queue, v) ELSE queue
  /\ missed' = FALSE
Missed(queue) ==
  device = "Firmware" /\ level' = level /\ reports' = queue /\ missed' = TRUE

LEMMA SetFacts ==
  ASSUME NEW v \in Level, NEW queue \in Seq(Level), level \in Level, plugged \in BOOLEAN,
         SetFrom(v, queue)
  PROVE  /\ Arrived(v, queue) \/ Missed(queue)
         /\ device' = device /\ level' \in Level /\ reports' \in Seq(Level)
         /\ plugged' \in BOOLEAN /\ missed' \in BOOLEAN
         /\ Append(queue, v) # <<>> /\ Append(queue, v)[Len(Append(queue, v))] = v
<1>1. /\ Append(queue, v) \in Seq(Level) /\ Append(queue, v) # <<>>
      /\ Append(queue, v)[Len(Append(queue, v))] = v
  OBVIOUS
<1>2. Arrived(v, queue) \/ Missed(queue)
  BY DEF SetFrom, Lost, Sent, Arrived, Missed
<1>3. device' = device /\ plugged' = plugged
  BY DEF SetFrom
<1> QED BY <1>1, <1>2, <1>3 DEF Arrived, Missed

\* A volume command: the device is set to v, and new is saved and shown.
LEMMA VolumeSteps ==
  ASSUME IInv, NEW v \in Level, NEW new, NEW show \in Saved,
         system.at = "Idle", SetTo(v), Volume(new, show), Revolumed(cache, new),
         moves' \in 0..MaxMoves, mutedAt' \in Saved
  PROVE  SoundStep
<1>1. reports \in Seq(Level) /\ level \in Level /\ shown \in Saved /\ plugged \in BOOLEAN
  BY DEF IInv, Core, TypeOK
<1>2. /\ level' \in Level /\ reports' \in Seq(Level) /\ device' = device
      /\ plugged' \in BOOLEAN /\ missed' \in BOOLEAN
  BY <1>1, SetFacts DEF SetTo
<1>3. Begins(new, show)
  BY DEF Volume, Begins
<1>4. shown' = shown
  BY DEF Volume
<1>5. UNCHANGED <<settings, mounted, commands, user, page, posts, lost, crossed, slipped>>
  BY DEF Volume
<1> QED BY <1>1, <1>2, <1>3, <1>4, <1>5 DEF SoundStep

\* After it the level is the one saved, and the one shown.
LEMMA VolumeLoud ==
  ASSUME IInv, NEW v \in Level, NEW new, NEW show \in Saved,
         system.at = "Idle", SetTo(v), Volume(new, show), Revolumed(cache, new),
         device \in {"Software", "Pipewire", "Firmware"} /\ v > 0 => Clamp(new.volume) = v,
         device \in {"Software", "Pipewire"} /\ v > 0 => show = v,
         mutedAt' # NoLevel => /\ mutedAt' \in Level /\ device \notin {"Off", "Firmware"}
                               /\ new.before = mutedAt'
  PROVE  Loud'
<1>1. reports \in Seq(Level) /\ level \in Level /\ plugged \in BOOLEAN
  BY DEF IInv, Core, TypeOK
<1>2. /\ Arrived(v, reports) \/ Missed(reports)
      /\ Append(reports, v) # <<>> /\ Append(reports, v)[Len(Append(reports, v))] = v
      /\ device' = device
  BY <1>1, SetFacts DEF SetTo
<1>3. system' = [at |-> "Cache", new |-> new, base |-> cache, show |-> show] /\ lost' = lost
  BY DEF Volume
<1>4. Reported'
  BY <1>2 DEF Reported, IInv, Loud, Arrived, Missed
<1>5. Ahead' = <<new.volume, new.before>>
  BY <1>3 DEF Ahead, Volumes
<1>6. Heeded'
  <2>1. ASSUME ~missed', device \in {"Software", "Pipewire", "Firmware"}, level' > 0 PROVE Clamped'
    BY <1>2, <1>5, <2>1 DEF Clamped, Clamp, Arrived, Missed
  <2>2. ASSUME device \in {"Software", "Pipewire"}, level' > 0 PROVE Told'
    BY <1>2, <1>3, <2>2 DEF Told, Arrived, Missed
  <2> QED BY <1>2, <2>1, <2>2 DEF Heeded
<1>7. Remembered'
  BY <1>2, <1>5 DEF Remembered
<1> QED BY <1>4, <1>6, <1>7 DEF Loud

LEMMA SetVolKeeps == ASSUME IInv, NEW v \in Asked, SetVol(v) PROVE IInv'
<1> DEFINE new == [cache EXCEPT !.volume = v]
<1>1. cache \in Setting /\ level \in Level /\ moves \in 0..MaxMoves
  BY DEF IInv, Core, TypeOK
<1>2. v \in Saved /\ Clamp(v) \in Level /\ Returned(v) \in Saved /\ NoLevel \in Saved
  BY <1>1, Levels, DeviceFacts
<1>3. Revolumed(cache, new) /\ new.volume = v
  BY <1>1, <1>2, RevolumeFacts DEF Setting
<1> HIDE DEF new
<1>4. /\ system.at = "Idle" /\ SetTo(Clamp(v)) /\ Volume(new, Returned(v)) /\ mutedAt' = NoLevel
      /\ moves' \in 0..MaxMoves /\ (device = "Alsa" => v \in Level)
  BY <1>1, MoveFacts DEF SetVol, new
<1>5. SoundStep
  BY <1>2, <1>3, <1>4, VolumeSteps
<1>6. device \in {"Software", "Pipewire"} => Returned(v) = Clamp(v)
  BY DEF Returned
<1>7. Loud'
  BY <1>2, <1>3, <1>4, <1>6, VolumeLoud
<1> QED BY <1>5, <1>7, SoundStepKeeps DEF IInv

LEMMA MuteKeeps == ASSUME IInv, Mute PROVE IInv'
<1> DEFINE new == [cache EXCEPT !.before = level]
<1>1. cache \in Setting /\ level \in Level /\ moves \in 0..MaxMoves
  BY DEF IInv, Core, TypeOK
<1>2. level \in Saved /\ 0 \in Level /\ 0 \in Asked /\ Returned(0) \in Saved
  BY <1>1, Levels, DeviceFacts
<1>3. Revolumed(cache, new) /\ new.before = level
  BY <1>1, <1>2, RevolumeFacts DEF Setting
<1> HIDE DEF new
<1>4. /\ system.at = "Idle" /\ SetTo(0) /\ Volume(new, Returned(0)) /\ mutedAt' = level
      /\ moves' \in 0..MaxMoves
  BY <1>1, MoveFacts DEF Mute, new
<1>5. device \notin {"Off", "Firmware"}
  BY DEF Mute, Current
<1>6. SoundStep
  BY <1>2, <1>3, <1>4, VolumeSteps
<1>7. Loud'
  BY <1>1, <1>2, <1>3, <1>4, <1>5, VolumeLoud
<1> QED BY <1>6, <1>7, SoundStepKeeps DEF IInv

LEMMA UnmuteKeeps == ASSUME IInv, Unmute PROVE IInv'
<1> DEFINE v == IF cache.before = NoLevel THEN MaxLevel \div 2 ELSE cache.before
           new == [cache EXCEPT !.before = NoLevel, !.volume = v]
<1>1. cache \in Setting /\ level \in Level /\ moves \in 0..MaxMoves
  BY DEF IInv, Core, TypeOK
<1>2. v \in Asked
  BY <1>1, Levels DEF Setting
<1> HIDE DEF v
<1>3. v \in Saved /\ Clamp(v) \in Level /\ Returned(v) \in Saved /\ NoLevel \in Saved
  BY <1>1, <1>2, Levels, DeviceFacts
<1>4. Revolumed(cache, new) /\ new.volume = v
  BY <1>1, <1>3, RevolumeFacts DEF Setting
<1> HIDE DEF new
<1>5. /\ system.at = "Idle" /\ SetTo(Clamp(v)) /\ Volume(new, Returned(v)) /\ mutedAt' = NoLevel
      /\ moves' \in 0..MaxMoves
  BY <1>1, MoveFacts DEF Unmute, new, v
<1>6. SoundStep
  BY <1>3, <1>4, <1>5, VolumeSteps
<1>7. device \in {"Software", "Pipewire"} => Returned(v) = Clamp(v)
  BY DEF Returned
<1>8. Loud'
  BY <1>3, <1>4, <1>5, <1>7, VolumeLoud
<1> QED BY <1>6, <1>8, SoundStepKeeps DEF IInv

LEMMA StepToKeeps == ASSUME IInv, NEW v \in Level, StepTo(v) PROVE IInv'
<1>1. /\ cache \in Setting /\ level \in Level /\ moves \in 0..MaxMoves
      /\ reports \in Seq(Level) /\ shown \in Saved
  BY DEF IInv, Core, TypeOK
<1>2. Stepped(v) \in Saved /\ NoLevel \in Saved /\ Clamp(v) = v
  BY <1>1, Levels, DeviceFacts
<1>3. system.at = "Idle" /\ SetTo(v) /\ mutedAt' = NoLevel /\ moves' \in 0..MaxMoves
  BY <1>1, MoveFacts DEF StepTo
<1>4. CASE Stepped(v) > 0
  <2> DEFINE new == [cache EXCEPT !.volume = Stepped(v)]
  <2>1. Revolumed(cache, new) /\ new.volume = Stepped(v)
    BY <1>1, <1>2, RevolumeFacts DEF Setting
  <2> HIDE DEF new
  <2>2. Volume(new, Stepped(v))
    BY <1>4 DEF StepTo, new
  <2>3. SoundStep
    BY <1>2, <1>3, <2>1, <2>2, VolumeSteps
  <2>4. device \in {"Software", "Pipewire", "Firmware"} => Stepped(v) = v
    BY <1>4 DEF Stepped
  <2>5. Loud'
    BY <1>2, <1>3, <2>1, <2>2, <2>4, VolumeLoud
  <2> QED BY <2>3, <2>5, SoundStepKeeps DEF IInv
<1>5. CASE ~(Stepped(v) > 0)
  <2>1. UNCHANGED <<settings, mounted, system, commands, user, page, posts, shown, lost,
                    crossed, slipped>>
    BY <1>5 DEF StepTo
  <2>2. plugged \in BOOLEAN
    BY DEF IInv, Core, TypeOK
  <2>3. /\ Arrived(v, reports) \/ Missed(reports)
        /\ Append(reports, v) # <<>> /\ Append(reports, v)[Len(Append(reports, v))] = v
        /\ device' = device /\ level' \in Level /\ reports' \in Seq(Level)
        /\ plugged' \in BOOLEAN /\ missed' \in BOOLEAN
    BY <1>1, <1>3, <2>2, SetFacts DEF SetTo
  <2>4. SoundStep
    BY <1>1, <1>2, <1>3, <2>1, <2>3 DEF SoundStep
  <2>5. Reported'
    BY <2>3 DEF Reported, IInv, Loud, Arrived, Missed
  <2>6. device \in {"Software", "Pipewire"} => v = 0
    BY <1>5, Levels DEF Stepped, Level
  <2>7. Heeded' /\ Remembered'
    BY <1>3, <2>3, <2>6 DEF Heeded, Remembered, Arrived, Missed
  <2> QED BY <2>4, <2>5, <2>7, SoundStepKeeps DEF IInv, Loud
<1> QED BY <1>4, <1>5

LEMMA ReportVolumeKeeps == ASSUME IInv, ReportVolume PROVE IInv'
<1> DEFINE v == Head(reports)
           new == [cache EXCEPT !.volume = v]
<1>1. /\ cache \in Setting /\ level \in Level /\ moves \in 0..MaxMoves
      /\ reports \in Seq(Level) /\ reports # <<>> /\ mutedAt \in Saved /\ shown \in Saved
      /\ plugged \in BOOLEAN /\ missed \in BOOLEAN
  BY DEF IInv, Core, TypeOK, ReportVolume
<1>2. v \in Level /\ v \in Saved /\ Tail(reports) \in Seq(Level)
  BY <1>1, Levels, HeadTailProperties
<1>3. /\ Tail(reports) = <<>> => v = reports[Len(reports)]
      /\ Tail(reports) # <<>> => Tail(reports)[Len(Tail(reports))] = reports[Len(reports)]
  <2>1. /\ Len(reports) \in Nat \ {0} /\ Len(Tail(reports)) = Len(reports) - 1
        /\ v = reports[1]
        /\ \A i \in 1..Len(Tail(reports)) : Tail(reports)[i] = reports[i + 1]
    BY <1>1, EmptySeq, HeadTailProperties
  <2>2. Tail(reports) = <<>> => Len(reports) = 1
    <3>1. Tail(reports) = <<>> => Len(Tail(reports)) = 0
      BY EmptySeq
    <3> QED BY <2>1, <3>1
  <2>3. Tail(reports) # <<>> => Len(Tail(reports)) \in Nat \ {0}
    BY <1>2, EmptySeq
  <2> QED BY <2>1, <2>2, <2>3
<1> HIDE DEF v
<1>4. Revolumed(cache, new) /\ new.volume = v
  BY <1>1, <1>2, RevolumeFacts DEF Setting
<1> HIDE DEF new
<1>5. /\ system.at = "Idle" /\ Volume(new, v) /\ reports' = Tail(reports)
      /\ device' = device /\ level' = level /\ moves' = moves /\ mutedAt' = mutedAt
      /\ plugged' = plugged /\ missed' = missed
  BY DEF ReportVolume, new, v
<1>6. Begins(new, v)
  BY <1>2, <1>4, <1>5 DEF Volume, Begins
<1>7. SoundStep
  BY <1>1, <1>2, <1>5, <1>6 DEF SoundStep, Volume
<1>8. device = "Firmware"
  BY <1>1 DEF IInv, Loud, Reported
<1>9. Reported'
  BY <1>1, <1>3, <1>5, <1>8 DEF Reported, IInv, Loud
<1>10. Ahead'[1] = v
  BY <1>4, <1>6 DEF Begins, Ahead, Volumes
<1>11. Heeded'
  <2>1. reports' = <<>> /\ ~missed' => v = level
    BY <1>1, <1>3, <1>5 DEF IInv, Loud, Reported
  <2>2. reports' = <<>> /\ ~missed' => Clamped'
    BY <1>2, <1>5, <1>10, <2>1, Levels DEF Clamped, Clamp
  <2> QED BY <1>5, <1>8, <2>2 DEF Heeded
<1>12. Remembered'
  BY <1>5, <1>8 DEF IInv, Loud, Remembered
<1> QED BY <1>7, <1>9, <1>11, <1>12, SoundStepKeeps DEF IInv, Loud

\* What the panel does by itself, and the question for its level: the reports that
\* come are its level, or it has missed something.
PanelStep ==
  /\ UNCHANGED <<device, settings, mounted, system, commands, user, page, posts, mutedAt,
                 lost, crossed, slipped>>
  /\ device = "Firmware"
  /\ level' \in Level /\ reports' \in Seq(Level) /\ shown' \in Saved
  /\ moves' \in 0..MaxMoves /\ plugged' \in BOOLEAN /\ missed' \in BOOLEAN
  /\ ~missed' => \/ reports' # <<>> /\ reports'[Len(reports')] = level'
                 \/ UNCHANGED <<level, reports, missed>>

LEMMA PanelKeeps == IInv /\ PanelStep => IInv'
<1> SUFFICES ASSUME IInv, PanelStep PROVE IInv'
  OBVIOUS
<1>1. SoundStep
  BY DEF PanelStep, SoundStep, IInv, Core, TypeOK
<1>2. /\ device' = device /\ device = "Firmware" /\ lost' = lost /\ Ahead' = Ahead
      /\ mutedAt' = mutedAt
  BY DEF PanelStep, settings, Ahead
<1>3. Reported'
  BY <1>2 DEF PanelStep, IInv, Loud, Reported
<1>4. Heeded'
  BY <1>2 DEF PanelStep, IInv, Loud, Heeded, Clamped, Clamp
<1>5. Remembered'
  BY <1>2 DEF IInv, Loud, Remembered
<1> QED BY <1>1, <1>3, <1>4, <1>5, SoundStepKeeps DEF IInv, Loud

LEMMA PanelTypes ==
  IInv => /\ level \in Level /\ moves \in 0..MaxMoves /\ reports \in Seq(Level)
          /\ mutedAt \in Saved /\ shown \in Saved /\ plugged \in BOOLEAN
          /\ missed \in BOOLEAN /\ Current \in Saved
BY DeviceFacts, Levels DEF IInv, Core, TypeOK

LEMMA HeardFacts ==
  ASSUME NEW queue \in Seq(Level), NEW v \in Level
  PROVE  /\ queue \o <<>> = queue
         /\ queue \o <<v>> \in Seq(Level) /\ queue \o <<v>> # <<>>
         /\ (queue \o <<v>>)[Len(queue \o <<v>>)] = v
         /\ <<v>> # <<>>
<1>1. <<v>> \in Seq(Level) /\ Len(<<v>>) = 1 /\ <<v>>[1] = v
  OBVIOUS
<1>2. /\ queue \o <<v>> \in Seq(Level) /\ Len(queue \o <<v>>) = Len(queue) + 1
      /\ \A i \in 1..Len(queue) + 1 :
           (queue \o <<v>>)[i] = IF i <= Len(queue) THEN queue[i] ELSE <<v>>[i - Len(queue)]
  BY <1>1, ConcatProperties
<1>3. Len(queue) \in Nat
  OBVIOUS
<1> QED BY <1>1, <1>2, <1>3, EmptySeq, ConcatEmptySeq

LEMMA KnobKeeps == ASSUME IInv, Knob PROVE IInv'
<1>1. PICK v \in Level : level' = v /\ reports' = Append(reports, v)
  BY DEF Knob
<1>2. reports' \in Seq(Level) /\ reports' # <<>> /\ reports'[Len(reports')] = level'
  BY <1>1, PanelTypes
<1>3. PanelStep
  BY <1>1, <1>2, PanelTypes, MoveFacts DEF Knob, PanelStep
<1> QED BY <1>3, PanelKeeps

LEMMA UnplugKeeps == ASSUME IInv, Unplug PROVE IInv'
<1>1. PICK kept \in 0..Len(reports) : reports' = SubSeq(reports, 1, kept)
  BY DEF Unplug
<1>2. reports' \in Seq(Level)
  <2>1. Len(reports) \in Nat /\ kept \in Int /\ (kept >= 1 => kept \in 1..Len(reports))
    BY PanelTypes
  <2>2. \A i \in 1..kept : reports[i] \in Level
    BY <2>1, PanelTypes
  <2> QED BY <1>1, <2>1, <2>2, PanelTypes, SubSeqProperties
<1>3. PanelStep
  BY <1>2, PanelTypes, MoveFacts DEF Unplug, PanelStep
<1> QED BY <1>3, PanelKeeps

LEMMA PlugKeeps == ASSUME IInv, Plug PROVE IInv'
<1>1. level' \in Level /\ reports \in Seq(Level)
  BY PanelTypes DEF Plug
<1>2. PICK heard \in {<<>>, <<level'>>} : reports' = reports \o heard /\ missed' = (heard = <<>>)
  BY DEF Plug
<1>3. /\ reports' \in Seq(Level) /\ missed' \in BOOLEAN
      /\ ~missed' => reports' # <<>> /\ reports'[Len(reports')] = level'
  BY <1>1, <1>2, HeardFacts
<1>4. PanelStep
  BY <1>1, <1>3, PanelTypes, MoveFacts DEF Plug, PanelStep
<1> QED BY <1>4, PanelKeeps

LEMMA QueryKeeps == ASSUME IInv, QueryCurrentVolume PROVE IInv'
<1>1. PICK heard \in Answers : reports' = reports \o heard /\ missed' = (missed /\ heard = <<>>)
  BY DEF QueryCurrentVolume
<1>2. /\ system.at = "Idle" /\ shown' = Current /\ moves' \in 0..MaxMoves
      /\ UNCHANGED <<device, level, plugged, settings, mounted, system, commands, user, page,
                     posts, mutedAt, lost, crossed, slipped>>
  BY PanelTypes, MoveFacts DEF QueryCurrentVolume
<1>3. heard \in {<<>>, <<level>>} /\ (heard # <<>> => device = "Firmware")
  BY <1>1 DEF Answers
<1>4. /\ reports' \in Seq(Level) /\ missed' \in BOOLEAN
      /\ ~missed' => \/ reports' # <<>> /\ reports'[Len(reports')] = level'
                     \/ UNCHANGED <<level, reports, missed>>
  BY <1>1, <1>2, <1>3, PanelTypes, HeardFacts
<1>5. CASE device = "Firmware"
  <2>1. PanelStep
    BY <1>2, <1>4, <1>5, PanelTypes DEF PanelStep
  <2> QED BY <2>1, PanelKeeps
<1>6. CASE device # "Firmware"
  <2>1. reports' = reports /\ missed' = missed
    BY <1>1, <1>3, <1>6, PanelTypes, HeardFacts
  <2>2. SoundStep
    BY <1>2, <2>1, PanelTypes DEF SoundStep
  <2>3. Reported'
    BY <1>2, <2>1 DEF IInv, Loud, Reported
  <2>4. Ahead' = Ahead /\ lost' = lost /\ mutedAt' = mutedAt
    BY <1>2 DEF Ahead, settings
  <2>5. device \in {"Software", "Pipewire"} => Told'
    BY <1>2 DEF Told, Current
  <2>6. Heeded'
    BY <1>2, <2>1, <2>4, <2>5 DEF IInv, Loud, Heeded, Clamped, Clamp
  <2>7. Remembered'
    BY <1>2, <2>4 DEF IInv, Loud, Remembered
  <2> QED BY <2>2, <2>3, <2>6, <2>7, SoundStepKeeps DEF IInv, Loud
<1> QED BY <1>5, <1>6

-----------------------------------------------------------------------------
(* The writers.                                                            *)

LEMMA FirstFacts == First \in Setting /\ Sources(First)
<1>1. <<>> \in Seq(Mount \cup Local)
  BY EmptySeq
<1> QED BY <1>1, Levels DEF First, Setting, Sources

LEMMA IdleFacts ==
  /\ IdleSystem \in [at : {"Idle", "Cache", "Disk"}, new : Setting, base : Setting, show : Saved]
  /\ IdleUser \in [at : {"Idle", "Cache", "Disk"}, new : Setting, base : Setting,
                   refresh : BOOLEAN]
  /\ IdleSystem.at = "Idle" /\ IdleSystem.new = First
  /\ IdleUser.at = "Idle" /\ IdleUser.new = First /\ IdleUser.base = First
BY FirstFacts, Levels DEF IdleSystem, IdleUser

\* Steps that leave the device and system commands alone.
Hushed ==
  /\ UNCHANGED <<device, level, reports, system, shown, mutedAt, missed>>
  /\ ~lost' => ~lost /\ Volumes(cache') = Volumes(cache)

LEMMA HushedKeeps == Loud /\ Hushed => Loud'
<1> SUFFICES ASSUME Loud, Hushed PROVE Loud'
  OBVIOUS
<1>1. /\ device' = device /\ level' = level /\ reports' = reports /\ system' = system
      /\ shown' = shown /\ mutedAt' = mutedAt /\ missed' = missed
  BY DEF Hushed
<1>2. ~lost' => ~lost /\ Ahead' = Ahead
  BY <1>1 DEF Hushed, Ahead
<1>3. Reported'
  BY <1>1 DEF Loud, Reported
<1>4. Heeded'
  BY <1>1, <1>2 DEF Loud, Heeded, Clamped, Clamp, Told
<1>5. Remembered'
  BY <1>1, <1>2 DEF Loud, Remembered
<1> QED BY <1>3, <1>4, <1>5 DEF Loud

\* Who writes a copy with the volumes it was made from changes none, unless that
\* copy was older than the volume it overwrites.
LEMMA WriteHushed ==
  ASSUME NEW base, NEW new, WriteCache(base, new), Volumes(new) = Volumes(base),
         lost \in BOOLEAN, UNCHANGED <<device, level, reports, system, shown>>
  PROVE  Hushed
BY DEF WriteCache, Hushed

LEMMA SystemCachesKeeps == ASSUME IInv, SystemCaches PROVE IInv'
<1>1. TypeOK /\ ServerSound /\ PagesSound /\ PostsSound /\ OneWriter /\ Volumeless /\ Loud
  BY DEF IInv, Core
<1>2. /\ system.at = "Cache" /\ WriteCache(system.base, system.new)
      /\ system' = [system EXCEPT !.at = "Disk"]
      /\ device' = device /\ level' = level /\ reports' = reports /\ plugged' = plugged
      /\ mounted' = mounted
      /\ commands' = commands /\ user' = user /\ page' = page /\ posts' = posts
      /\ shown' = shown /\ moves' = moves
  BY DEF SystemCaches, sound
<1>3. /\ cache' = system.new /\ stored' = stored /\ mutedAt' = mutedAt /\ slipped' = slipped
      /\ missed' = missed
      /\ crossed' = (crossed \/ Midway) /\ lost' \in BOOLEAN /\ (~lost' => ~lost)
  BY <1>1, <1>2 DEF WriteCache, TypeOK
<1>4. /\ system'.at = "Disk" /\ system'.new = system.new /\ system'.show = system.show
      /\ system' \in [at : {"Idle", "Cache", "Disk"}, new : Setting, base : Setting, show : Saved]
      /\ system.new \in Setting
  BY <1>1, <1>2 DEF TypeOK
<1>5. TypeOK'
  BY <1>1, <1>2, <1>3, <1>4 DEF TypeOK, Midway
<1>6. ServerSound' /\ PagesSound' /\ PostsSound'
  BY <1>1, <1>2, <1>3, <1>4 DEF ServerSound, PagesSound, PostsSound, Sound, Sources
<1>7. OneWriter'
  <2> SUFFICES ASSUME ~crossed' PROVE Pending'
    BY DEF OneWriter
  <2>1. ~Midway
    BY <1>3
  <2>2. user.at # "Disk" /\ OnDisk = {}
    BY <2>1 DEF Midway, OnDisk
  <2>3. user'.at # "Disk" /\ OnDisk' = {} /\ Midway'
    BY <1>2, <1>4, <2>2 DEF OnDisk, Midway
  <2> QED BY <1>3, <1>4, <2>3 DEF Pending, Agree
<1>8. Volumeless'
  BY <1>1, <1>2 DEF Volumeless, Volumes
<1>9. Ahead' = Ahead
  BY <1>2, <1>3, <1>4 DEF Ahead, Volumes
<1>10. Loud'
  BY <1>1, <1>2, <1>3, <1>4, <1>9 DEF Loud, Reported, Heeded, Clamped, Clamp, Told, Remembered
<1> QED BY <1>5, <1>6, <1>7, <1>8, <1>10 DEF IInv, Core

LEMMA SystemStoresKeeps == ASSUME IInv, SystemStores PROVE IInv'
<1>1. TypeOK /\ ServerSound /\ PagesSound /\ PostsSound /\ OneWriter /\ Volumeless /\ Loud
  BY DEF IInv, Core
<1>2. /\ system.at = "Disk" /\ stored' = system.new /\ cache' = cache
      /\ system' = IdleSystem /\ shown' = system.show
      /\ device' = device /\ level' = level /\ reports' = reports /\ plugged' = plugged
      /\ mounted' = mounted
      /\ commands' = commands /\ user' = user /\ page' = page /\ posts' = posts
      /\ moves' = moves /\ mutedAt' = mutedAt /\ lost' = lost /\ crossed' = crossed
      /\ slipped' = slipped /\ missed' = missed
  BY DEF SystemStores, WriteDisk, sound, ghosts
<1>3. system.new \in Setting /\ system.show \in Saved
  BY <1>1 DEF TypeOK
<1>4. TypeOK'
  BY <1>1, <1>2, <1>3, IdleFacts DEF TypeOK
<1>5. ServerSound' /\ PagesSound' /\ PostsSound'
  BY <1>1, <1>2, IdleFacts, FirstFacts DEF ServerSound, PagesSound, PostsSound, Sound, Sources
<1>6. OneWriter'
  <2> SUFFICES ASSUME ~crossed' PROVE Pending'
    BY DEF OneWriter
  <2>1. user.at # "Disk" /\ OnDisk = {} /\ Agree(cache, system.new)
    BY <1>1, <1>2 DEF OneWriter, Pending, Agree
  <2>2. system'.at # "Disk" /\ user'.at # "Disk" /\ OnDisk' = {}
    BY <1>2, <2>1, IdleFacts DEF OnDisk
  <2> QED BY <1>2, <2>1, <2>2 DEF Pending, Agree
<1>7. Volumeless'
  BY <1>1, <1>2 DEF Volumeless, Volumes
<1>8. Ahead' = Ahead
  BY <1>2, IdleFacts DEF Ahead, Volumes
<1>9. Loud'
  BY <1>1, <1>2, <1>8, IdleFacts DEF Loud, Reported, Heeded, Clamped, Clamp, Told, Remembered
<1> QED BY <1>4, <1>5, <1>6, <1>7, <1>9 DEF IInv, Core

LEMMA UserCachesKeeps == ASSUME IInv, UserCaches PROVE IInv'
<1>1. TypeOK /\ ServerSound /\ PagesSound /\ PostsSound /\ OneWriter /\ Volumeless /\ Loud
  BY DEF IInv, Core
<1>2. /\ user.at = "Cache" /\ WriteCache(user.base, user.new)
      /\ user' = [user EXCEPT !.at = "Disk"]
      /\ device' = device /\ level' = level /\ reports' = reports /\ plugged' = plugged
      /\ mounted' = mounted
      /\ commands' = commands /\ system' = system /\ page' = page /\ posts' = posts
      /\ shown' = shown /\ moves' = moves
  BY DEF UserCaches, sound
<1>3. /\ cache' = user.new /\ stored' = stored /\ mutedAt' = mutedAt /\ slipped' = slipped
      /\ missed' = missed
      /\ crossed' = (crossed \/ Midway) /\ lost' \in BOOLEAN
  BY <1>1, <1>2 DEF WriteCache, TypeOK
<1>4. /\ user'.at = "Disk" /\ user'.new = user.new /\ user'.base = user.base
      /\ user' \in [at : {"Idle", "Cache", "Disk"}, new : Setting, base : Setting,
                    refresh : BOOLEAN]
      /\ user.new \in Setting /\ lost \in BOOLEAN
  BY <1>1, <1>2 DEF TypeOK
<1>5. TypeOK'
  BY <1>1, <1>2, <1>3, <1>4 DEF TypeOK, Midway
<1>6. ServerSound' /\ PagesSound' /\ PostsSound'
  BY <1>1, <1>2, <1>3, <1>4 DEF ServerSound, PagesSound, PostsSound, Sound, Sources
<1>7. OneWriter'
  <2> SUFFICES ASSUME ~crossed' PROVE Pending'
    BY DEF OneWriter
  <2>1. ~Midway
    BY <1>3
  <2>2. system.at # "Disk" /\ OnDisk = {}
    BY <2>1 DEF Midway, OnDisk
  <2>3. system'.at # "Disk" /\ OnDisk' = {} /\ Midway'
    BY <1>2, <1>4, <2>2 DEF OnDisk, Midway
  <2> QED BY <1>3, <1>4, <2>3 DEF Pending, Agree
<1>8. Volumeless'
  BY <1>1, <1>2, <1>4 DEF Volumeless, Volumes
<1>9. Volumes(user.new) = Volumes(user.base)
  BY <1>1 DEF Volumeless
<1>10. Loud'
  BY <1>1, <1>2, <1>4, <1>9, WriteHushed, HushedKeeps
<1> QED BY <1>5, <1>6, <1>7, <1>8, <1>10 DEF IInv, Core

\* The pages, when they are asked to fetch the settings again.
Shown == [loaded : BOOLEAN, copy : Setting, base : Setting, asked : BOOLEAN, click : Nat]

LEMMA RefetchFacts ==
  ASSUME TypeOK, page' = page \/ page' = Refetch
  PROVE  /\ page' \in [Page -> [loaded : BOOLEAN, copy : Setting, base : Setting,
                                asked : BOOLEAN, click : Nat]]
         /\ \A p \in Page : /\ page'[p].copy = page[p].copy /\ page'[p].base = page[p].base
                            /\ page'[p].click = page[p].click
<1>1. page \in [Page -> Shown]
  BY DEF TypeOK, Shown
<1>2. CASE page' = page
  BY <1>1, <1>2 DEF Shown
<1>3. CASE page' = Refetch
  <2>1. ASSUME NEW p \in Page
        PROVE  /\ page'[p] \in Shown
               /\ page'[p].copy = page[p].copy /\ page'[p].base = page[p].base
               /\ page'[p].click = page[p].click
    <3>1. page[p] \in Shown
      BY <1>1
    <3>2. \A b \in BOOLEAN :
            /\ [page[p] EXCEPT !.asked = b] \in Shown
            /\ [page[p] EXCEPT !.asked = b].copy = page[p].copy
            /\ [page[p] EXCEPT !.asked = b].base = page[p].base
            /\ [page[p] EXCEPT !.asked = b].click = page[p].click
      BY <3>1 DEF Shown
    <3>3. page[p].asked \in BOOLEAN /\ page[p].loaded \in BOOLEAN
      BY <3>1 DEF Shown
    <3>4. (page[p].asked \/ page[p].loaded) \in BOOLEAN
      OBVIOUS
    <3>5. page'[p] = [page[p] EXCEPT !.asked = page[p].asked \/ page[p].loaded]
      BY <1>3 DEF Refetch
    <3> QED BY <3>2, <3>4, <3>5
  <2>2. DOMAIN page' = Page /\ page' = [p \in Page |-> page'[p]]
    BY <1>3 DEF Refetch
  <2> QED BY <2>1, <2>2 DEF Shown
<1> QED BY <1>2, <1>3

LEMMA UserStoresKeeps == ASSUME IInv, UserStores PROVE IInv'
<1>1. TypeOK /\ ServerSound /\ PagesSound /\ PostsSound /\ OneWriter /\ Volumeless /\ Loud
  BY DEF IInv, Core
<1>2. /\ user.at = "Disk" /\ stored' = user.new /\ cache' = cache /\ user' = IdleUser
      /\ page' = page \/ page' = Refetch
      /\ device' = device /\ level' = level /\ reports' = reports /\ plugged' = plugged
      /\ mounted' = mounted
      /\ commands' = commands /\ system' = system /\ posts' = posts /\ shown' = shown
      /\ moves' = moves /\ mutedAt' = mutedAt /\ lost' = lost /\ crossed' = crossed
      /\ slipped' = slipped /\ missed' = missed
  BY DEF UserStores, Over, WriteDisk, sound, ghosts
<1>3. user.new \in Setting
  BY <1>1 DEF TypeOK
<1>4. TypeOK'
  BY <1>1, <1>2, <1>3, IdleFacts, RefetchFacts DEF TypeOK
<1>5. ServerSound' /\ PagesSound' /\ PostsSound'
  BY <1>1, <1>2, IdleFacts, FirstFacts, RefetchFacts
  DEF ServerSound, PagesSound, PostsSound, Sound, Sources
<1>6. OneWriter'
  <2> SUFFICES ASSUME ~crossed' PROVE Pending'
    BY DEF OneWriter
  <2>1. system.at # "Disk" /\ OnDisk = {} /\ Agree(cache, user.new)
    BY <1>1, <1>2 DEF OneWriter, Pending, Agree
  <2>2. system'.at # "Disk" /\ user'.at # "Disk" /\ OnDisk' = {}
    BY <1>2, <2>1, IdleFacts DEF OnDisk
  <2> QED BY <1>2, <2>1, <2>2 DEF Pending, Agree
<1>7. Volumeless'
  BY <1>1, <1>2, IdleFacts, RefetchFacts DEF Volumeless
<1>8. Loud'
  BY <1>1, <1>2, HushedKeeps DEF Hushed
<1> QED BY <1>4, <1>5, <1>6, <1>7, <1>8 DEF IInv, Core

LEMMA PostCachesKeeps == ASSUME IInv, NEW post \in posts, PostCaches(post) PROVE IInv'
<1> DEFINE next == [post EXCEPT !.at = "Disk"]
<1>1. TypeOK /\ ServerSound /\ PagesSound /\ PostsSound /\ OneWriter /\ Volumeless /\ Loud
  BY DEF IInv, Core
<1>2. /\ post.at = "Cache" /\ WriteCache(post.base, post.new)
      /\ posts' = (posts \ {post}) \cup {next}
      /\ device' = device /\ level' = level /\ reports' = reports /\ plugged' = plugged
      /\ mounted' = mounted
      /\ commands' = commands /\ system' = system /\ user' = user /\ page' = page
      /\ shown' = shown /\ moves' = moves
  BY DEF PostCaches, sound
<1>3. /\ cache' = post.new /\ stored' = stored /\ mutedAt' = mutedAt /\ slipped' = slipped
      /\ missed' = missed
      /\ crossed' = (crossed \/ Midway) /\ lost' \in BOOLEAN
  BY <1>1, <1>2 DEF WriteCache, TypeOK
<1>4. /\ next \in Post /\ next.at = "Disk" /\ next.new = post.new /\ next.base = post.base
      /\ post.new \in Setting /\ lost \in BOOLEAN
  BY <1>1 DEF TypeOK, Post
<1> HIDE DEF next
<1>5. TypeOK'
  BY <1>1, <1>2, <1>3, <1>4 DEF TypeOK, Midway
<1>6. ServerSound' /\ PagesSound' /\ PostsSound'
  BY <1>1, <1>2, <1>3, <1>4 DEF ServerSound, PagesSound, PostsSound, Sound, Sources
<1>7. OneWriter'
  <2> SUFFICES ASSUME ~crossed' PROVE Pending'
    BY DEF OneWriter
  <2>1. ~Midway
    BY <1>3
  <2>2. system.at # "Disk" /\ user.at # "Disk" /\ OnDisk = {}
    BY <2>1 DEF Midway, OnDisk
  <2>3. system'.at # "Disk" /\ user'.at # "Disk" /\ OnDisk' = {next} /\ Midway'
    BY <1>2, <1>4, <2>2 DEF OnDisk, Midway
  <2> QED BY <1>3, <1>4, <2>3 DEF Pending, Agree
<1>8. Volumeless'
  BY <1>1, <1>2, <1>4 DEF Volumeless
<1>9. Volumes(post.new) = Volumes(post.base)
  BY <1>1 DEF Volumeless
<1>10. Loud'
  BY <1>1, <1>2, <1>4, <1>9, WriteHushed, HushedKeeps
<1> QED BY <1>5, <1>6, <1>7, <1>8, <1>10 DEF IInv, Core

LEMMA PostStoresKeeps == ASSUME IInv, NEW post \in posts, PostStores(post) PROVE IInv'
<1>1. TypeOK /\ ServerSound /\ PagesSound /\ PostsSound /\ OneWriter /\ Volumeless /\ Loud
  BY DEF IInv, Core
<1>2. /\ post.at = "Disk" /\ stored' = post.new /\ cache' = cache /\ posts' = posts \ {post}
      /\ device' = device /\ level' = level /\ reports' = reports /\ plugged' = plugged
      /\ mounted' = mounted
      /\ commands' = commands /\ system' = system /\ user' = user /\ page' = page
      /\ shown' = shown /\ moves' = moves /\ mutedAt' = mutedAt /\ lost' = lost
      /\ crossed' = crossed /\ slipped' = slipped /\ missed' = missed
  BY DEF PostStores, WriteDisk, sound, ghosts
<1>3. post.new \in Setting
  BY <1>1 DEF TypeOK, Post
<1>4. TypeOK'
  BY <1>1, <1>2, <1>3 DEF TypeOK
<1>5. ServerSound' /\ PagesSound' /\ PostsSound'
  BY <1>1, <1>2 DEF ServerSound, PagesSound, PostsSound, Sound, Sources
<1>6. OneWriter'
  <2> SUFFICES ASSUME ~crossed' PROVE Pending'
    BY DEF OneWriter
  <2>1. post \in OnDisk
    BY <1>2 DEF OnDisk
  <2>2. /\ system.at # "Disk" /\ user.at # "Disk" /\ OnDisk = {post} /\ Agree(cache, post.new)
    BY <1>1, <1>2, <2>1 DEF OneWriter, Pending, Agree
  <2>3. system'.at # "Disk" /\ user'.at # "Disk" /\ OnDisk' = {}
    BY <1>2, <2>2 DEF OnDisk
  <2> QED BY <1>2, <2>2, <2>3 DEF Pending, Agree
<1>7. Volumeless'
  BY <1>1, <1>2 DEF Volumeless
<1>8. Loud'
  BY <1>1, <1>2, HushedKeeps DEF Hushed
<1> QED BY <1>4, <1>5, <1>6, <1>7, <1>8 DEF IInv, Core

-----------------------------------------------------------------------------
(* User commands.                                                          *)

LEMMA PerformFacts ==
  ASSUME TypeOK, NEW c \in Command, Perform(c)
  PROVE  /\ mounted' \in SUBSET Mount
         /\ \/ user' = IdleUser /\ (page' = page \/ page' = Refetch)
            \/ \E new \in Setting, refresh \in BOOLEAN :
                 /\ Edited(cache, new) /\ page' = page
                 /\ user' = [at |-> "Cache", new |-> new, base |-> cache, refresh |-> refresh]
<1> DEFINE Ends == user' = IdleUser /\ (page' = page \/ page' = Refetch)
           Goes == \E new \in Setting, refresh \in BOOLEAN :
                     /\ Edited(cache, new) /\ page' = page
                     /\ user' = [at |-> "Cache", new |-> new, base |-> cache,
                                 refresh |-> refresh]
<1>1. cache \in Setting /\ mounted \in SUBSET Mount /\ External \subseteq Mount
  BY DEF TypeOK, Mount
<1>2. \A refresh \in BOOLEAN : Over(refresh) => Ends
  BY DEF Over
<1>3. ASSUME NEW new, NEW refresh \in BOOLEAN, Edited(cache, new), Saves(new, refresh)
      PROVE  Goes
  BY <1>3 DEF Saves, Edited
<1> HIDE DEF Ends, Goes
<1>4. CASE /\ c.do = "Dsp"
           /\ Saves([cache EXCEPT !.dsp = c.on], FALSE)
           /\ UNCHANGED mounted
  <2>1. c.on \in BOOLEAN
    BY <1>4 DEF Command
  <2> QED BY <1>1, <1>3, <1>4, <2>1, SwitchFacts DEF Goes, Ends
<1>5. CASE /\ c.do = "Mount"
           /\ \E result \in Mounts(c.share) :
                /\ mounted' = result.then
                /\ IF result.ok THEN Saves(Added(cache, c.share), FALSE) ELSE Over(FALSE)
  <2>1. c.share \in Mount
    BY <1>5 DEF Command
  <2>2. mounted' \in SUBSET Mount
    BY <1>1, <1>5, <2>1 DEF Mounts
  <2>3. Edited(cache, Added(cache, c.share))
    BY <1>1, <2>1, AddedFacts
  <2>4. Ends \/ Goes
    BY <1>2, <1>3, <1>5, <2>3
  <2> QED BY <2>2, <2>4 DEF Goes, Ends
<1>6. CASE /\ c.do = "Unmount"
           /\ mounted' \in Unmounts(c.share)
           /\ Over(FALSE)
  BY <1>1, <1>2, <1>6 DEF Unmounts, Ends
<1>7. CASE /\ c.do = "Remove"
           /\ mounted' \in IF c.share \in cache.mounts \cap Share THEN Unmounts(c.share)
                           ELSE {mounted}
           /\ Saves(IF c.share \in cache.mounts \cup Share THEN Removed(cache, c.share)
                    ELSE cache, TRUE)
  <2>1. c.share \in Mount
    BY <1>7 DEF Command
  <2>2. mounted' \in SUBSET Mount
    BY <1>1, <1>7 DEF Unmounts
  <2>3. Edited(cache, Removed(cache, c.share)) /\ Edited(cache, cache)
    BY <1>1, <2>1, RemovedFacts DEF Edited
  <2>4. Goes
    BY <1>3, <1>7, <2>3
  <2> QED BY <2>2, <2>4 DEF Goes
<1>8. CASE /\ c.do = "SaveExternal"
           /\ IF c.share \in Discovered(cache) THEN Saves(Added(cache, c.share), TRUE)
              ELSE Over(FALSE)
           /\ UNCHANGED mounted
  <2>1. c.share \in Mount
    BY <1>8 DEF Command
  <2>2. Edited(cache, Added(cache, c.share))
    BY <1>1, <2>1, AddedFacts
  <2>3. Ends \/ Goes
    BY <1>2, <1>3, <1>8, <2>2
  <2> QED BY <1>1, <1>8, <2>3 DEF Goes, Ends
<1>9. CASE c.do = "Query" /\ Over(TRUE) /\ UNCHANGED mounted
  BY <1>1, <1>2, <1>9 DEF Ends
<1> QED BY <1>4, <1>5, <1>6, <1>7, <1>8, <1>9 DEF Perform

LEMMA UserTakesKeeps == ASSUME IInv, UserTakes PROVE IInv'
<1>1. TypeOK /\ ServerSound /\ PagesSound /\ PostsSound /\ OneWriter /\ Volumeless /\ Loud
  BY DEF IInv, Core
<1>2. /\ user.at = "Idle" /\ commands # <<>> /\ Perform(Head(commands))
      /\ commands' = Tail(commands)
      /\ device' = device /\ level' = level /\ reports' = reports /\ plugged' = plugged
      /\ cache' = cache
      /\ stored' = stored /\ system' = system /\ posts' = posts /\ shown' = shown
      /\ moves' = moves /\ mutedAt' = mutedAt /\ lost' = lost /\ crossed' = crossed
      /\ slipped' = slipped /\ missed' = missed
  BY DEF UserTakes, sound, settings, ghosts
<1>3. commands \in Seq(Command)
  BY <1>1 DEF TypeOK
<1>4. Head(commands) \in Command /\ Tail(commands) \in Seq(Command)
  BY <1>2, <1>3, HeadTailProperties
<1>5. /\ mounted' \in SUBSET Mount
      /\ \/ user' = IdleUser /\ (page' = page \/ page' = Refetch)
         \/ \E new \in Setting, refresh \in BOOLEAN :
              /\ Edited(cache, new) /\ page' = page
              /\ user' = [at |-> "Cache", new |-> new, base |-> cache, refresh |-> refresh]
  BY <1>1, <1>2, <1>4, PerformFacts
<1>6. page' = page \/ page' = Refetch
  BY <1>5
<1>7. /\ user' \in [at : {"Idle", "Cache", "Disk"}, new : Setting, base : Setting,
                    refresh : BOOLEAN]
      /\ user'.at # "Disk" /\ Volumes(user'.new) = Volumes(user'.base)
      /\ (~slipped => Sources(user'.new))
  <2>1. CASE user' = IdleUser
    BY <2>1, IdleFacts, FirstFacts
  <2>2. ASSUME NEW new \in Setting, NEW refresh \in BOOLEAN, Edited(cache, new),
               user' = [at |-> "Cache", new |-> new, base |-> cache, refresh |-> refresh]
        PROVE  <1>7!:
    <3>1. cache \in Setting /\ (~slipped => Sources(cache))
      BY <1>1 DEF TypeOK, ServerSound, Sound
    <3> QED BY <2>2, <3>1 DEF Edited
  <2> QED BY <1>5, <2>1, <2>2
<1>8. TypeOK'
  BY <1>1, <1>2, <1>4, <1>5, <1>6, <1>7, RefetchFacts DEF TypeOK
<1>9. ServerSound' /\ PagesSound' /\ PostsSound'
  BY <1>1, <1>2, <1>6, <1>7, RefetchFacts DEF ServerSound, PagesSound, PostsSound, Sound, Sources
<1>10. OneWriter'
  <2>1. OnDisk' = OnDisk
    BY <1>2 DEF OnDisk
  <2>2. Midway' <=> Midway
    BY <1>2, <1>7 DEF Midway
  <2> QED BY <1>1, <1>2, <1>7, <2>1, <2>2 DEF OneWriter, Pending, Agree
<1>11. Volumeless'
  BY <1>1, <1>2, <1>6, <1>7, RefetchFacts DEF Volumeless
<1>12. Loud'
  BY <1>1, <1>2, HushedKeeps DEF Hushed
<1> QED BY <1>8, <1>9, <1>10, <1>11, <1>12 DEF IInv, Core

-----------------------------------------------------------------------------
(* The pages.                                                              *)

\* A page only changes what it shows, what it posts and what it commands, and what is
\* filled in for it.
Paged ==
  /\ UNCHANGED <<device, level, reports, plugged, stored, mounted, system, user, shown,
                 mutedAt, lost, crossed, missed>>
  /\ cache' \in Setting /\ Agree(cache', cache)
  /\ moves' \in 0..MaxMoves /\ commands' \in Seq(Command)
  /\ slipped' \in BOOLEAN /\ (slipped => slipped')
  /\ page' \in [Page -> Shown] /\ posts' \in SUBSET Post /\ OnDisk' = OnDisk

LEMMA PagedKeeps ==
  ASSUME IInv, Paged, PagesSound', PostsSound',
         \A p \in Page : Volumes(page'[p].copy) = Volumes(page'[p].base),
         \A post \in posts' : Volumes(post.new) = Volumes(post.base)
  PROVE  IInv'
<1>1. TypeOK /\ ServerSound /\ OneWriter /\ Volumeless /\ Loud
  BY DEF IInv, Core
<1>2. /\ device' = device /\ level' = level /\ reports' = reports /\ plugged' = plugged
      /\ stored' = stored /\ mounted' = mounted /\ system' = system /\ user' = user
      /\ shown' = shown /\ mutedAt' = mutedAt /\ lost' = lost /\ crossed' = crossed
      /\ missed' = missed
  BY DEF Paged
<1>3. /\ cache' \in Setting /\ Agree(cache', cache) /\ Volumes(cache') = Volumes(cache)
      /\ cache'.mounts = cache.mounts /\ cache'.dirs = cache.dirs
  <2>1. cache \in Setting /\ cache' \in Setting /\ Agree(cache', cache)
    BY <1>1 DEF TypeOK, Paged
  <2> QED BY <2>1, ChosenFacts
<1>4. TypeOK'
  BY <1>1, <1>2, <1>3 DEF TypeOK, Paged, Shown
<1>5. ServerSound'
  <2>1. ~slipped' => ~slipped
    BY DEF Paged
  <2> QED BY <1>1, <1>2, <1>3, <2>1 DEF ServerSound, Sound, Sources
<1>6. OneWriter'
  <2>1. OnDisk' = OnDisk
    BY DEF Paged
  <2>2. \A x : "Disk" \in {post.at : post \in x} <=> {post \in x : post.at = "Disk"} # {}
    OBVIOUS
  <2>3. "Disk" \in {post.at : post \in posts'} <=> "Disk" \in {post.at : post \in posts}
    BY <2>1, <2>2 DEF OnDisk
  <2>4. Midway' <=> Midway
    BY <1>2, <2>3 DEF Midway
  <2> QED BY <1>1, <1>2, <1>3, <2>1, <2>4 DEF OneWriter, Pending, Agree
<1>7. Volumeless'
  BY <1>1, <1>2 DEF Volumeless
<1>8. Loud'
  BY <1>1, <1>2, <1>3, HushedKeeps DEF Hushed
<1> QED BY <1>4, <1>5, <1>6, <1>7, <1>8 DEF IInv, Core

LEMMA AutoSaveKeeps ==
  ASSUME IInv, NEW p \in Page, NEW new \in Setting, NEW more \in Seq(Command),
         AutoSave(p, new, more), Volumes(new) = Volumes(page[p].copy),
         ~slipped' => ~slipped /\ Sources(new), slipped' \in BOOLEAN,
         UNCHANGED <<sound, settings, mounted, system, user, shown, mutedAt, lost, crossed,
                     missed>>,
         moves' \in 0..MaxMoves
  PROVE  IInv'
<1> DEFINE post == [at |-> "Cache", new |-> new, base |-> page[p].base, from |-> p, id |-> moves]
<1>1. TypeOK /\ PagesSound /\ PostsSound /\ Volumeless
  BY DEF IInv, Core
<1>2. /\ page \in [Page -> Shown] /\ posts \in SUBSET Post /\ commands \in Seq(Command)
      /\ slipped \in BOOLEAN /\ moves \in Nat /\ cache \in Setting
  BY <1>1, SettingsAssumption DEF TypeOK, Shown
<1>3. post \in Post /\ post.at = "Cache" /\ post.new = new /\ post.base = page[p].base
  BY <1>2 DEF Post, Shown
<1> HIDE DEF post
<1>4. /\ posts' = posts \cup {post} /\ commands' = commands \o more
      /\ page' = [page EXCEPT ![p].copy = new, ![p].base = new, ![p].click = 0]
  BY DEF AutoSave, post
<1>5. /\ page' \in [Page -> Shown] /\ page'[p].copy = new /\ page'[p].base = new
      /\ page'[p].click = 0
      /\ \A q \in Page : q # p => page'[q] = page[q]
  <2> DEFINE now == [page[p] EXCEPT !.copy = new, !.base = new, !.click = 0]
  <2>1. /\ now \in Shown /\ now.copy = new /\ now.base = new /\ now.click = 0
    BY <1>2 DEF Shown
  <2>2. page' = [page EXCEPT ![p] = now]
    BY <1>2, <1>4
  <2> HIDE DEF now
  <2> QED BY <1>2, <2>1, <2>2
<1>6. posts' \in SUBSET Post /\ OnDisk' = OnDisk
  BY <1>2, <1>3, <1>4 DEF OnDisk
<1>7. commands' \in Seq(Command)
  BY <1>2, <1>4, ConcatProperties
<1>8. Paged
  BY <1>2, <1>5, <1>6, <1>7 DEF Paged, Agree, sound, settings
<1>9. PagesSound'
  BY <1>1, <1>5 DEF PagesSound, Sound, Sources
<1>10. PostsSound'
  BY <1>1, <1>3, <1>4 DEF PostsSound, Sound, Sources
<1>11. \A q \in Page : Volumes(page'[q].copy) = Volumes(page'[q].base)
  BY <1>1, <1>5 DEF Volumeless
<1>12. \A x \in posts' : Volumes(x.new) = Volumes(x.base)
  BY <1>1, <1>3, <1>4 DEF Volumeless
<1> QED BY <1>8, <1>9, <1>10, <1>11, <1>12, PagedKeeps

LEMMA EditKeeps == ASSUME IInv, NEW p \in Page, Edit(p) PROVE IInv'
<1> DEFINE copy == page[p].copy
<1>1. TypeOK /\ PagesSound
  BY DEF IInv, Core
<1>2. /\ copy \in Setting /\ (~slipped => Sources(copy))
      /\ slipped \in BOOLEAN /\ moves \in 0..MaxMoves
  BY <1>1 DEF TypeOK, PagesSound, Sound
<1>3. /\ UNCHANGED <<sound, settings, mounted, system, user, shown, mutedAt, lost, crossed,
                     missed>>
      /\ slipped' = slipped /\ moves' \in 0..MaxMoves
  BY <1>2, MoveFacts DEF Edit, ghosts
<1>4. ASSUME NEW new, NEW more \in Seq(Command), Edited(copy, new), AutoSave(p, new, more)
      PROVE  IInv'
  <2>1. /\ new \in Setting /\ Volumes(new) = Volumes(page[p].copy)
        /\ (~slipped' => ~slipped /\ Sources(new)) /\ slipped' \in BOOLEAN
    BY <1>2, <1>3, <1>4 DEF Edited
  <2> QED BY <1>3, <1>4, <2>1, AutoSaveKeeps
<1>5. /\ <<>> \in Seq(Command)
      /\ \A c \in Command : <<c>> \in Seq(Command)
  BY EmptySeq
<1>6. /\ \A on \in BOOLEAN : [do |-> "Dsp", on |-> on] \in Command
      /\ \A m \in Mount : /\ [do |-> "Mount", share |-> m] \in Command
                          /\ [do |-> "Remove", share |-> m] \in Command
  BY DEF Command
<1>7. ASSUME Toggle(p) PROVE IInv'
  <2>1. (~copy.other) \in BOOLEAN
    OBVIOUS
  <2>2. AutoSave(p, [copy EXCEPT !.other = ~copy.other], <<>>)
    BY <1>7 DEF Toggle
  <2> QED BY <1>2, <1>4, <1>5, <2>1, <2>2, SwitchFacts
<1>8. ASSUME ApplyDsp(p) PROVE IInv'
  <2> DEFINE on == ~copy.dsp
  <2>1. on \in BOOLEAN
    OBVIOUS
  <2>2. AutoSave(p, [copy EXCEPT !.dsp = on], <<[do |-> "Dsp", on |-> on]>>)
    BY <1>8 DEF ApplyDsp
  <2> HIDE DEF on
  <2>3. Edited(copy, [copy EXCEPT !.dsp = on]) /\ <<[do |-> "Dsp", on |-> on]>> \in Seq(Command)
    BY <1>2, <1>5, <1>6, <2>1, SwitchFacts
  <2> QED BY <1>4, <2>2, <2>3
<1>9. ASSUME NEW m \in Share, AddMount(p, m) PROVE IInv'
  <2>1. m \in Mount
    BY DEF Mount
  <2>2. AutoSave(p, Added(copy, m), <<[do |-> "Mount", share |-> m]>>)
    BY <1>9 DEF AddMount
  <2>3. Edited(copy, Added(copy, m)) /\ <<[do |-> "Mount", share |-> m]>> \in Seq(Command)
    BY <1>2, <1>5, <1>6, <2>1, AddedFacts
  <2> QED BY <1>4, <2>2, <2>3
<1>10. ASSUME NEW m \in Mount, RemoveMount(p, m) PROVE IInv'
  <2>1. AutoSave(p, Removed(copy, m), <<[do |-> "Remove", share |-> m]>>)
    BY <1>10 DEF RemoveMount
  <2>2. Edited(copy, Removed(copy, m)) /\ <<[do |-> "Remove", share |-> m]>> \in Seq(Command)
    BY <1>2, <1>5, <1>6, RemovedFacts
  <2> QED BY <1>4, <2>1, <2>2
<1>11. ASSUME NEW d \in Mount \cup Local, AddDirectory(p, d) PROVE IInv'
  <2>1. AutoSave(p, [copy EXCEPT !.dirs = Append(@, d)], <<>>)
    BY <1>11 DEF AddDirectory
  <2>2. Edited(copy, [copy EXCEPT !.dirs = Append(@, d)])
    BY <1>2, DirectoryFacts
  <2> QED BY <1>4, <1>5, <2>1, <2>2
<1> QED BY <1>7, <1>8, <1>9, <1>10, <1>11 DEF Edit

\* The line taken away is no share's, or slipped says so.
LEMMA ConfirmKeeps == ASSUME IInv, NEW p \in Page, Confirm(p) PROVE IInv'
<1> DEFINE copy == page[p].copy
           i    == page[p].click
           new  == [copy EXCEPT !.dirs = RemoveAt(@, i)]
<1>1. TypeOK /\ PagesSound
  BY DEF IInv, Core
<1>2. /\ copy \in Setting /\ (~slipped => Sources(copy))
      /\ slipped \in BOOLEAN /\ moves \in 0..MaxMoves
  BY <1>1 DEF TypeOK, PagesSound, Sound
<1>3. /\ i \in DOMAIN copy.dirs /\ AutoSave(p, new, <<>>)
      /\ slipped' = (slipped \/ copy.dirs[i] \in copy.mounts)
      /\ UNCHANGED <<sound, settings, mounted, system, user, shown, mutedAt, lost, crossed,
                     missed>>
      /\ moves' \in 0..MaxMoves
  BY <1>2, MoveFacts DEF Confirm
<1>4. /\ new \in Setting /\ Volumes(new) = Volumes(copy)
      /\ copy.dirs[i] \notin copy.mounts /\ Sources(copy) => Sources(new)
  BY <1>2, <1>3, DirectoryFacts
<1> HIDE DEF new
<1>5. ~slipped' => ~slipped /\ Sources(new)
  BY <1>2, <1>3, <1>4
<1>6. <<>> \in Seq(Command) /\ slipped' \in BOOLEAN
  BY <1>2, <1>3, EmptySeq
<1> QED BY <1>3, <1>4, <1>5, <1>6, AutoSaveKeeps

\* A page is replaced by one with a sound copy of the settings that it has not edited.
Replaced(p, now) ==
  /\ page' = [page EXCEPT ![p] = now]
  /\ UNCHANGED <<sound, stored, mounted, system, user, posts, shown, ghosts>>
  /\ cache' \in Setting /\ Agree(cache', cache)
  /\ moves' \in 0..MaxMoves /\ commands' \in Seq(Command)

LEMMA ReplacedKeeps ==
  ASSUME IInv, NEW p \in Page, NEW now \in Shown, Replaced(p, now),
         Sound(now.copy), Volumes(now.copy) = Volumes(now.base)
  PROVE  IInv'
<1>1. TypeOK /\ PagesSound /\ PostsSound /\ Volumeless
  BY DEF IInv, Core
<1>2. page \in [Page -> Shown] /\ posts \in SUBSET Post /\ slipped \in BOOLEAN
  BY <1>1 DEF TypeOK, Shown
<1>3. /\ page' \in [Page -> Shown] /\ page'[p] = now
      /\ \A q \in Page : q # p => page'[q] = page[q]
  BY <1>2 DEF Replaced
<1>4. posts' = posts /\ slipped' = slipped
  BY DEF Replaced, ghosts
<1>5. Paged
  BY <1>2, <1>3, <1>4 DEF Replaced, Paged, OnDisk, sound, ghosts
<1>6. PagesSound' /\ PostsSound'
  BY <1>1, <1>3, <1>4 DEF PagesSound, PostsSound, Sound, Sources
<1>7. \A q \in Page : Volumes(page'[q].copy) = Volumes(page'[q].base)
  BY <1>1, <1>3 DEF Volumeless
<1>8. \A x \in posts' : Volumes(x.new) = Volumes(x.base)
  BY <1>1, <1>4 DEF Volumeless
<1> QED BY <1>5, <1>6, <1>7, <1>8, PagedKeeps

LEMMA OpenKeeps == ASSUME IInv, NEW p \in Page, Open(p) PROVE IInv'
<1> DEFINE now == [Shows(First) EXCEPT !.loaded = FALSE, !.asked = TRUE]
<1>1. commands \in Seq(Command) /\ moves \in 0..MaxMoves /\ cache \in Setting
  BY DEF IInv, Core, TypeOK
<1>2. now \in Shown /\ now.copy = First /\ now.base = First
  BY FirstFacts DEF Shown, Shows
<1>3. [do |-> "Query"] \in Command
  BY DEF Command
<1>4. Replaced(p, now)
  BY <1>1, <1>3, MoveFacts DEF Open, Replaced, Agree, settings
<1> HIDE DEF now
<1> QED BY <1>2, <1>4, FirstFacts, ReplacedKeeps DEF Sound

LEMMA ConfirmNothingKeeps == ASSUME IInv, NEW p \in Page, ConfirmNothing(p) PROVE IInv'
<1> DEFINE now == [Shows(First) EXCEPT !.loaded = FALSE]
<1>1. commands \in Seq(Command) /\ moves \in 0..MaxMoves /\ cache \in Setting
  BY DEF IInv, Core, TypeOK
<1>2. now \in Shown /\ now.copy = First /\ now.base = First
  BY FirstFacts DEF Shown, Shows
<1>3. Replaced(p, now)
  BY <1>1 DEF ConfirmNothing, Replaced, Agree, settings
<1> HIDE DEF now
<1> QED BY <1>2, <1>3, FirstFacts, ReplacedKeeps DEF Sound

\* What a page fetches is sound; a question that is open stays so.
LEMMA GetSettingsKeeps == ASSUME IInv, NEW p \in Page, GetSettings(p) PROVE IInv'
<1> DEFINE fresh == [cache EXCEPT !.probed = TRUE]
           now   == [page[p] EXCEPT !.asked = FALSE, !.loaded = TRUE, !.copy = fresh,
                                    !.base = fresh]
<1>1. /\ commands \in Seq(Command) /\ moves \in 0..MaxMoves /\ cache \in Setting
      /\ page \in [Page -> Shown] /\ Sound(cache)
  BY DEF IInv, Core, TypeOK, Shown, ServerSound
<1>2. /\ fresh \in Setting /\ Agree(fresh, cache)
      /\ fresh.mounts = cache.mounts /\ fresh.dirs = cache.dirs
  <2>1. fresh \in Setting /\ Agree(fresh, cache)
    BY <1>1, ProbeFacts
  <2> QED BY <1>1, <2>1, ChosenFacts
<1>3. cache' = fresh
  BY DEF GetSettings
<1> HIDE DEF fresh
<1>4. now \in Shown /\ now.copy = fresh /\ now.base = fresh
  BY <1>1, <1>2 DEF Shown
<1>5. page' = [page EXCEPT ![p] = now]
  BY <1>1, <1>3 DEF GetSettings
<1> HIDE DEF now
<1>6. Replaced(p, now)
  BY <1>1, <1>2, <1>3, <1>5 DEF GetSettings, Replaced
<1>7. Sound(now.copy)
  BY <1>1, <1>2, <1>4 DEF Sound, Sources
<1> QED BY <1>4, <1>6, <1>7, ReplacedKeeps

LEMMA ClickKeeps == ASSUME IInv, NEW p \in Page, Click(p) PROVE IInv'
<1>1. /\ commands \in Seq(Command) /\ moves \in 0..MaxMoves /\ cache \in Setting
      /\ page \in [Page -> Shown] /\ Sound(page[p].copy)
      /\ Volumes(page[p].copy) = Volumes(page[p].base)
  BY DEF IInv, Core, TypeOK, Shown, PagesSound, Volumeless
<1>2. page[p].copy.dirs \in Seq(Mount \cup Local)
  BY <1>1 DEF Shown, Setting
<1>3. PICK i \in DOMAIN page[p].copy.dirs : page' = [page EXCEPT ![p].click = i]
  BY DEF Click
<1> DEFINE now == [page[p] EXCEPT !.click = i]
<1>4. i \in Nat
  BY <1>2
<1>5. now \in Shown /\ now.copy = page[p].copy /\ now.base = page[p].base
  BY <1>1, <1>4 DEF Shown
<1>6. page' = [page EXCEPT ![p] = now]
  BY <1>1, <1>3
<1> HIDE DEF now
<1>7. Replaced(p, now)
  BY <1>1, <1>6 DEF Click, Replaced, Agree, settings
<1> QED BY <1>1, <1>5, <1>7, ReplacedKeeps

LEMMA SendKeeps == ASSUME IInv, NEW p \in Page, Send(p) PROVE IInv'
<1>1. /\ page \in [Page -> Shown] /\ commands \in Seq(Command) /\ moves \in 0..MaxMoves
      /\ cache \in Setting /\ mounted \subseteq Mount /\ Sound(page[p].copy)
      /\ Volumes(page[p].copy) = Volumes(page[p].base)
  BY DEF IInv, Core, TypeOK, Shown, PagesSound, Volumeless
<1>2. page[p] \in Shown /\ page[p].copy.mounts \subseteq Mount
  BY <1>1 DEF Shown, Setting
<1>3. \E c \in Command : commands' = Append(commands, c)
  <2>1. \A m \in Mount, do \in {"Mount", "Unmount", "SaveExternal"} :
          [do |-> do, share |-> m] \in Command
    BY DEF Command
  <2>2. Discovered(page[p].copy) \subseteq Mount
    BY <1>1 DEF Discovered, Mount
  <2> QED BY <1>2, <2>1, <2>2 DEF Send
<1>4. commands' \in Seq(Command)
  BY <1>1, <1>3
<1>5. page' = [page EXCEPT ![p] = page[p]]
  BY <1>1 DEF Send
<1>6. Replaced(p, page[p])
  BY <1>1, <1>4, <1>5, MoveFacts DEF Send, Replaced, Agree, settings
<1> QED BY <1>1, <1>2, <1>6, ReplacedKeeps

-----------------------------------------------------------------------------
(* The theorems.                                                           *)

LEMMA ConcatFacts ==
  ASSUME NEW S, NEW q \in Seq(S), NEW r \in Seq(S)
  PROVE  q \o r \in Seq(S) /\ Range(q) \cup Range(r) \subseteq Range(q \o r)
<1> DEFINE s == q \o r
<1>1. /\ Len(q) \in Nat /\ DOMAIN q = 1..Len(q) /\ Len(r) \in Nat /\ DOMAIN r = 1..Len(r)
  OBVIOUS
<1>2. /\ s \in Seq(S) /\ Len(s) = Len(q) + Len(r)
      /\ \A i \in 1..Len(q) + Len(r) : s[i] = IF i <= Len(q) THEN q[i] ELSE r[i - Len(q)]
  BY ConcatProperties
<1>3. DOMAIN s = 1..Len(q) + Len(r)
  BY <1>2
<1> HIDE DEF s
<1>4. Range(q) \subseteq Range(s)
  <2>1. \A i \in DOMAIN q : i \in DOMAIN s /\ s[i] = q[i]
    BY <1>1, <1>2, <1>3
  <2> QED BY <2>1 DEF Range
<1>5. Range(r) \subseteq Range(s)
  <2>1. \A i \in DOMAIN r : /\ i + Len(q) \in DOMAIN s /\ ~(i + Len(q) <= Len(q))
                            /\ (i + Len(q)) - Len(q) = i
    BY <1>1, <1>3
  <2>2. \A i \in DOMAIN r : i + Len(q) \in DOMAIN s /\ s[i + Len(q)] = r[i]
    BY <1>2, <1>3, <2>1
  <2> QED BY <2>2 DEF Range
<1> QED BY <1>2, <1>4, <1>5 DEF s

LEMMA Initially == Init => IInv
<1> SUFFICES ASSUME Init PROVE IInv
  OBVIOUS
<1>0. PICK saved \in {NoLevel, 1}, typed \in SUBSET External : \E external \in SUBSET typed :
        /\ cache = [First EXCEPT !.volume = saved, !.mounts = Share \cup external,
                      !.dirs = SetToSeq(Share) \o SetToSeq(Local) \o SetToSeq(typed)]
        /\ level = IF saved = NoLevel THEN MaxLevel ELSE saved
  BY DEF Init
<1>1. PICK external \in SUBSET typed :
        /\ cache = [First EXCEPT !.volume = saved, !.mounts = Share \cup external,
                      !.dirs = SetToSeq(Share) \o SetToSeq(Local) \o SetToSeq(typed)]
        /\ level = IF saved = NoLevel THEN MaxLevel ELSE saved
  BY <1>0
<1> DEFINE D    == Mount \cup Local
           dirs == SetToSeq(Share) \o SetToSeq(Local) \o SetToSeq(typed)
<1>2. /\ IsFiniteSet(Share) /\ IsFiniteSet(Local) /\ IsFiniteSet(typed)
      /\ Share \subseteq D /\ Local \subseteq D /\ typed \subseteq D
      /\ Share \cup external \subseteq Mount
  BY SettingsAssumption, FS_Subset DEF Mount
<1>3. \A S \in SUBSET D : IsFiniteSet(S) => SetToSeq(S) \in Seq(D) /\ Range(SetToSeq(S)) = S
  BY SetToSeqFacts, SeqMonotonic
<1>4. /\ SetToSeq(Share) \in Seq(D) /\ Range(SetToSeq(Share)) = Share
      /\ SetToSeq(Local) \in Seq(D)
      /\ SetToSeq(typed) \in Seq(D) /\ Range(SetToSeq(typed)) = typed
  BY <1>2, <1>3
<1>5. dirs \in Seq(D) /\ Share \cup typed \subseteq Range(dirs)
  <2> DEFINE some == SetToSeq(Share) \o SetToSeq(Local)
  <2>1. some \in Seq(D) /\ Share \subseteq Range(some)
    BY <1>4, ConcatFacts
  <2> HIDE DEF some
  <2>2. some \o SetToSeq(typed) \in Seq(D) /\ Share \cup typed \subseteq Range(some \o SetToSeq(typed))
    BY <1>4, <2>1, ConcatFacts
  <2> QED BY <2>2 DEF some
<1> HIDE DEF dirs
<1>6. 1 \in Level
  BY SettingsAssumption DEF Level
<1>7. /\ cache = [First EXCEPT !.volume = saved, !.mounts = Share \cup external, !.dirs = dirs]
      /\ saved \in Saved /\ level \in Level /\ (saved # NoLevel => level = saved)
  BY <1>1, <1>6, Levels DEF dirs
<1>8. cache \in Setting /\ Sources(cache) /\ cache.volume = saved
  <2>1. /\ cache \in Setting /\ cache.dirs = dirs /\ cache.mounts = Share \cup external
        /\ cache.volume = saved
    BY <1>2, <1>5, <1>7, FirstFacts DEF First, Setting
  <2>2. Sources(cache)
    BY <1>2, <1>5, <2>1 DEF Sources
  <2> QED BY <2>1, <2>2
<1>9. /\ device \in Devices /\ stored = cache /\ mounted = cache.mounts
      /\ reports = <<>> /\ commands = <<>> /\ posts = {}
      /\ system = IdleSystem /\ user = IdleUser
      /\ page = [p \in Page |-> Shows(cache)]
      /\ shown = NoLevel /\ moves = 0
      /\ plugged = TRUE /\ mutedAt = NoLevel /\ lost = FALSE /\ crossed = FALSE
      /\ slipped = FALSE /\ missed = FALSE
  BY DEF Init
<1>10. TypeOK
  <2>1. Shows(cache) \in Shown
    BY <1>8 DEF Shown, Shows
  <2>2. page \in [Page -> Shown]
    BY <1>9, <2>1
  <2>3. mounted \in SUBSET Mount
    BY <1>8, <1>9 DEF Setting
  <2>4. reports \in Seq(Level) /\ commands \in Seq(Command) /\ posts \in SUBSET Post
    BY <1>9, EmptySeq
  <2>5. moves \in 0..MaxMoves /\ shown \in Saved /\ mutedAt \in Saved
    BY <1>9, SettingsAssumption, Levels
  <2> QED BY <1>7, <1>8, <1>9, <2>2, <2>3, <2>4, <2>5, IdleFacts DEF TypeOK, Shown
<1>11. ServerSound /\ PagesSound /\ PostsSound
  BY <1>8, <1>9, IdleFacts, FirstFacts DEF ServerSound, PagesSound, PostsSound, Sound, Shows
<1>12. OneWriter
  <2>1. OnDisk = {} /\ system.at # "Disk" /\ user.at # "Disk"
    BY <1>9, IdleFacts DEF OnDisk
  <2> QED BY <1>9, <2>1 DEF OneWriter, Pending, Agree
<1>13. Volumeless
  BY <1>9, IdleFacts DEF Volumeless, Shows
<1>14. Reported /\ Remembered
  BY <1>9 DEF Reported, Remembered
<1>15. Heeded
  <2>1. Ahead[1] = saved
    BY <1>8, <1>9, IdleFacts DEF Ahead, Volumes
  <2>2. Clamped
    BY <1>7, <2>1, Levels DEF Clamped
  <2>3. Told
    BY <1>9, IdleFacts DEF Told
  <2> QED BY <2>2, <2>3 DEF Heeded
<1> QED BY <1>10, <1>11, <1>12, <1>13, <1>14, <1>15 DEF IInv, Core, Loud

LEMMA RestartKeeps == ASSUME IInv, Restart PROVE IInv'
<1>1. TypeOK /\ ServerSound /\ PagesSound /\ Volumeless /\ Reported
  BY DEF IInv, Core, Loud
<1>2. /\ stored \in Setting /\ level \in Level /\ moves \in 0..MaxMoves /\ mounted \in SUBSET Mount
      /\ plugged \in BOOLEAN /\ missed \in BOOLEAN /\ stored.volume \in Saved
  BY <1>1 DEF TypeOK, Setting
<1>3. /\ cache' = stored /\ stored' = stored
      /\ mounted' \in MountAll(stored) /\ Restored(stored)
      /\ system' = IdleSystem /\ user' = IdleUser /\ commands' = <<>> /\ posts' = {}
      /\ shown' = NoLevel /\ mutedAt' = NoLevel /\ moves' \in 0..MaxMoves
      /\ page' = page /\ lost' = lost /\ crossed' = crossed /\ slipped' = slipped
  BY <1>2, MoveFacts DEF Restart
<1>4. PICK heard \in Answers :
        IF stored.volume = NoLevel
          THEN reports' = heard /\ UNCHANGED <<device, level, plugged, missed>>
          ELSE SetFrom(Clamp(stored.volume), heard)
  BY <1>3 DEF Restored
<1>5. /\ heard \in Seq(Level) /\ (heard # <<>> => device = "Firmware")
      /\ heard # <<>> => heard[Len(heard)] = level
  <2>1. <<level>> \in Seq(Level) /\ <<level>>[Len(<<level>>)] = level /\ <<>> \in Seq(Level)
    BY <1>2, EmptySeq
  <2>2. heard = <<>> \/ (heard = <<level>> /\ device = "Firmware")
    BY DEF Answers
  <2> QED BY <2>1, <2>2
<1>6. /\ device' = device /\ level' \in Level /\ reports' \in Seq(Level)
      /\ plugged' \in BOOLEAN /\ missed' \in BOOLEAN /\ Reported'
      /\ ~missed' /\ stored.volume # NoLevel /\ device # "Off" => level' = Clamp(stored.volume)
  <2>1. CASE stored.volume = NoLevel
    <3>1. reports' = heard /\ UNCHANGED <<device, level, plugged, missed>>
      BY <1>4, <2>1
    <3> QED BY <1>2, <1>5, <2>1, <3>1 DEF Reported
  <2>2. CASE stored.volume # NoLevel
    <3> DEFINE v == Clamp(stored.volume)
    <3>1. v \in Level
      BY <1>2, <2>2, Levels
    <3> HIDE DEF v
    <3>2. SetFrom(v, heard)
      BY <1>4, <2>2 DEF v
    <3>3. /\ Arrived(v, heard) \/ Missed(heard)
          /\ device' = device /\ level' \in Level /\ reports' \in Seq(Level)
          /\ plugged' \in BOOLEAN /\ missed' \in BOOLEAN
          /\ Append(heard, v) # <<>> /\ Append(heard, v)[Len(Append(heard, v))] = v
      BY <1>2, <1>5, <3>1, <3>2, SetFacts
    <3>4. Reported'
      BY <1>5, <3>3 DEF Reported, Arrived, Missed
    <3> QED BY <3>3, <3>4 DEF Arrived, Missed, v
  <2> QED BY <2>1, <2>2
<1>7. mounted' \in SUBSET Mount
  BY <1>2, <1>3 DEF MountAll, Setting
<1>8. commands' \in Seq(Command) /\ posts' \in SUBSET Post
  BY <1>3, EmptySeq
<1>9. TypeOK'
  BY <1>1, <1>2, <1>3, <1>6, <1>7, <1>8, IdleFacts, Levels DEF TypeOK
<1>10. ServerSound' /\ PagesSound' /\ PostsSound'
  BY <1>1, <1>3, IdleFacts, FirstFacts
  DEF ServerSound, PagesSound, PostsSound, Sound, Sources
<1>11. OneWriter'
  <2>1. OnDisk' = {} /\ system'.at # "Disk" /\ user'.at # "Disk"
    BY <1>3, IdleFacts DEF OnDisk
  <2> QED BY <1>3, <2>1 DEF OneWriter, Pending, Agree
<1>12. Volumeless'
  BY <1>1, <1>3, IdleFacts DEF Volumeless
<1>13. Remembered'
  BY <1>3 DEF Remembered
<1>14. Heeded'
  <2>1. Ahead'[1] = stored.volume
    BY <1>3, IdleFacts DEF Ahead, Volumes
  <2>2. ~missed' /\ device # "Off" => Clamped'
    BY <1>6, <2>1 DEF Clamped, Clamp
  <2>3. Told'
    BY <1>3, IdleFacts DEF Told
  <2> QED BY <1>6, <2>2, <2>3 DEF Heeded
<1> QED BY <1>6, <1>9, <1>10, <1>11, <1>12, <1>13, <1>14 DEF IInv, Core, Loud

LEMMA NextKeeps == IInv /\ [Next]_vars => IInv'
<1> SUFFICES ASSUME IInv, [Next]_vars PROVE IInv'
  OBVIOUS
<1>1. level \in Level
  BY DEF IInv, Core, TypeOK
<1>2. CASE \E v \in Asked : SetVol(v)
  BY <1>2, SetVolKeeps
<1>3. CASE Mute
  BY <1>3, MuteKeeps
<1>4. CASE Unmute
  BY <1>4, UnmuteKeeps
<1>5. CASE VolUp \/ VolDown
  BY <1>1, <1>5, DeviceFacts, StepToKeeps DEF VolUp, VolDown
<1>6. CASE ReportVolume
  BY <1>6, ReportVolumeKeeps
<1>7. CASE Knob \/ Unplug \/ Plug \/ QueryCurrentVolume
  BY <1>7, KnobKeeps, UnplugKeeps, PlugKeeps, QueryKeeps
<1>8. CASE SystemCaches \/ SystemStores
  BY <1>8, SystemCachesKeeps, SystemStoresKeeps
<1>9. CASE UserTakes \/ UserCaches \/ UserStores
  BY <1>9, UserTakesKeeps, UserCachesKeeps, UserStoresKeeps
<1>10. ASSUME NEW p \in Page,
              \/ Open(p) \/ GetSettings(p) \/ Edit(p) \/ Send(p)
              \/ Click(p) \/ Confirm(p) \/ ConfirmNothing(p)
       PROVE  IInv'
  BY <1>10, OpenKeeps, GetSettingsKeeps, EditKeeps, ClickKeeps, ConfirmKeeps,
     ConfirmNothingKeeps, SendKeeps
<1>11. CASE \E post \in posts : PostCaches(post) \/ PostStores(post)
  BY <1>11, PostCachesKeeps, PostStoresKeeps
<1>12. CASE Restart
  BY <1>12, RestartKeeps
<1>13. CASE UNCHANGED vars
  <2>1. SoundStep
    BY <1>13 DEF vars, settings, SoundStep, IInv, Core, TypeOK
  <2>2. Hushed
    BY <1>13 DEF vars, Hushed
  <2> QED BY <2>1, <2>2, SoundStepKeeps, HushedKeeps DEF IInv
<1> QED BY <1>2, <1>3, <1>4, <1>5, <1>6, <1>7, <1>8, <1>9, <1>10, <1>11, <1>12, <1>13 DEF Next

\* The inductive invariant: besides the types, every copy of the settings anybody
\* holds lists its shares, one writer at most is between memory and disk, and the
\* volume and the level before mute are those of the last system command.
THEOREM Invariant == Spec => []IInv
<1> QED BY Initially, NextKeeps, PTL DEF Spec

\* Every share in the settings is a music directory, in memory and on disk, for any
\* number of pages and posts and any paths typed as directories, unless a page took
\* away the line of a share by hand (settings.rs:1428).
THEOREM SharesListed == Spec => []MountsAreSources
<1>1. IInv => MountsAreSources
  BY DEF IInv, Core, ServerSound, Sound, Sources, MountsAreSources
<1> QED BY <1>1, Invariant, PTL

\* When nobody is saving, memory and disk agree in all that is chosen and a restart
\* changes nothing of it, unless two writers were between the two at once; what
\* GET /api/settings fills in is in memory only (config/src/lib.rs:5, server.rs:220).
THEOREM DiskAgrees == Spec => []Synced
<1>1. IInv => Synced
  <2> SUFFICES ASSUME IInv, AtRest, ~crossed PROVE Chosen(cache) = Chosen(stored)
    BY DEF Synced
  <2>1. ~Midway
    BY DEF AtRest, Midway
  <2> QED BY <2>1 DEF IInv, Core, OneWriter, Pending, Agree
<1> QED BY <1>1, Invariant, PTL

\* The level that sounds is the one stored and the one told to the clients, unless a
\* copy older than it was saved over it or the panel has missed a level and has not
\* reported since.
THEOREM VolumeStays == Spec => []VolumeKept
<1>1. IInv => VolumeKept
  <2> SUFFICES ASSUME IInv, system.at = "Idle", reports = <<>>, level > 0, ~lost,
                      ~missed, device \in {"Software", "Firmware"}
               PROVE  /\ cache.volume # NoLevel => Clamp(cache.volume) = level
                      /\ shown # NoLevel /\ device # "Firmware" => shown = level
    BY DEF VolumeKept
  <2>1. Heeded
    BY DEF IInv, Loud
  <2>2. Clamped /\ (device # "Firmware" => Told)
    BY <2>1 DEF Heeded
  <2>3. Ahead[1] = cache.volume
    BY DEF Ahead, Volumes
  <2> QED BY <2>2, <2>3 DEF Clamped, Told
<1> QED BY <1>1, Invariant, PTL

\* The second press of mute brings back the level of the first (system_commands.rs).
THEOREM MuteReturns == Spec => MuteRestores
<1>1. IInv /\ [Next]_vars => [Unmute /\ mutedAt # NoLevel /\ ~lost => level' = mutedAt]_vars
  <2> SUFFICES ASSUME IInv, Unmute, mutedAt # NoLevel, ~lost PROVE level' = mutedAt
    OBVIOUS
  <2>1. mutedAt \in Level /\ device \notin {"Off", "Firmware"} /\ Ahead[2] = mutedAt
    BY DEF IInv, Loud, Remembered
  <2>2. cache.before = mutedAt
    BY <2>1 DEF Unmute, Ahead, Volumes
  <2>3. SetTo(Clamp(mutedAt))
    BY <2>2 DEF Unmute
  <2> QED BY <2>1, <2>3, Levels DEF SetTo, SetFrom, Lost
<1> QED BY <1>1, Invariant, PTL DEF Spec, MuteRestores
=============================================================================
