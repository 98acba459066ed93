----------------------------- MODULE PlayOrder -----------------------------
(***************************************************************************)
(* What the playback queue promises: a list of songs with a position.  The *)
(* position is on a song (here = <<s>>) or between two (here = <<>>), with *)
(* the songs before it and the songs after it.  Songs are appended at the  *)
(* end, a song is dropped without disturbing the others, and reordering    *)
(* moves one song and leaves the position on the song it was on.           *)
(***************************************************************************)
EXTENDS Naturals, SequencesExt

CONSTANT Song

VARIABLES before, here, after

list == before \o here \o after
vars == <<before, here, after>>

TypeOK == /\ before \in Seq(Song) /\ after \in Seq(Song)
          /\ here \in {<<>>} \cup {<<s>> : s \in Song}

Init == before = <<>> /\ here = <<>> /\ after = <<>>

Add == /\ Len(after') >= Len(after) /\ SubSeq(after', 1, Len(after)) = after
       /\ UNCHANGED <<before, here>>

Drop == \/ \E i \in DOMAIN before : before' = RemoveAt(before, i) /\ UNCHANGED <<here, after>>
        \/ \E i \in DOMAIN after  : after'  = RemoveAt(after, i)  /\ UNCHANGED <<before, here>>
        \/ here # <<>> /\ here' = <<>> /\ UNCHANGED <<before, after>>

Load == before' = <<>> /\ here' = <<>>

GoTo == list' = list

\* One song moves; a position that was not set yet is set to the first song.
Rearrange ==
  \E i, j \in DOMAIN list :
    /\ list' = InsertAt(RemoveAt(list, i), j, list[i])
    /\ \/ here' = here /\ (here = <<>> => Len(before') = Len(before))
       \/ before = <<>> /\ here = <<>> /\ here' = <<list[1]>>

Next == Add \/ Drop \/ Load \/ GoTo \/ Rearrange

Spec == Init /\ [][Next]_vars
=============================================================================
