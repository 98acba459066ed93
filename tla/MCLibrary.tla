------------------------------ MODULE MCLibrary ------------------------------
(***************************************************************************)
(* What the server keeps of its music, and how it reads it: the library    *)
(* and its scans, saved playlists, the measurement of loudness and the     *)
(* readers of streams and files.  They share the database and not its      *)
(* keyspaces: a behaviour is of one of them.                               *)
(***************************************************************************)
EXTENDS Library, Playlists, LoudnessScan, MediaReaders

VARIABLE part
storeVars == <<part, vars, playlistVars, loudnessVars, icyVars, musicVars>>

\* A file that may move to another album or break, a disc image of two tracks and
\* a file of the first one's album.
MCPath == <<
  [dir |-> "d1", keys |-> <<"y">>, tags |-> {"A", "B", "Broken"}],
  [dir |-> "d2", keys |-> <<"i1", "i2">>, tags |-> {"Untagged"}],
  [dir |-> "d2", keys |-> <<"z">>, tags |-> {"A"}]>>

\* Two names that stand apart, one the other begins with, and one that reads like an
\* item of it.
MCName  == {<<5, 5>>, <<4>>, <<4, 6>>}
MCSaved == {<<"s1">>, <<"s2", "s1", "s3">>, <<"s3", "s2", "s1", "s1">>}

MCTitles == {<<"t1", "t1", "t2">>, <<"None", "t1", "None">>, <<"t1", "Illegible", "t1">>}

\* Of the parts that do not run one initial state is enough.
StoreInit ==
  /\ Init /\ PlaylistInit /\ LoudnessInit /\ IcyInit /\ MusicInit
  /\ part \in {"library", "playlists", "loudness", "radio", "music"}
  /\ part # "library" => albums = [a \in Album |-> {"z"}] /\ disk[1] = "A"
  /\ part # "loudness" => ~active
  /\ part # "radio" => body = <<>>
  /\ part # "music" => size = 0

LibraryPart(A)  == /\ part = "library" /\ A
                   /\ UNCHANGED <<part, playlistVars, loudnessVars, icyVars, musicVars>>
PlaylistPart(A) == /\ part = "playlists" /\ A
                   /\ UNCHANGED <<part, vars, loudnessVars, icyVars, musicVars>>
LoudnessPart(A) == /\ part = "loudness" /\ A
                   /\ UNCHANGED <<part, vars, playlistVars, icyVars, musicVars>>
RadioPart(A)    == /\ part = "radio" /\ A
                   /\ UNCHANGED <<part, vars, playlistVars, loudnessVars, musicVars>>
MusicPart(A)    == /\ part = "music" /\ A
                   /\ UNCHANGED <<part, vars, playlistVars, loudnessVars, icyVars>>

StoreNext ==
  \/ LibraryPart(Next) \/ PlaylistPart(PlaylistNext) \/ LoudnessPart(LoudnessNext)
  \/ RadioPart(IcyNext) \/ MusicPart(MusicNext)

StoreSpec ==
  /\ StoreInit /\ [][StoreNext]_storeVars
  /\ \A t \in Scanner : WF_storeVars(LibraryPart(Step(t)))
  /\ WF_storeVars(LoudnessPart(ScanThread))
  /\ WF_storeVars(LoudnessPart(\E w \in Worker : Pool(w)))

\* The measurement of StoreSpec gets to an end, with the right entries.
Analysed == (part = "loudness" => AllAnalysed) /\ []WrittenOff /\ MeasuredOnce
=============================================================================
