---------------------------- MODULE MediaReaders ----------------------------
(***************************************************************************)
(* Two readers that cut a stream of bytes into pieces.                     *)
(*                                                                         *)
(* The reader of radio streams takes the blocks of metadata out of the     *)
(* body and announces new titles (src/crates/metadata/src/icy_reader.rs).  *)
(*                                                                         *)
(* The web server sends a file in pieces of bounded length, as the byte    *)
(* range of a request asks (src/crates/server/src/server.rs, serve_music), *)
(* to the audio element of a browser, which asks from where it is.         *)
(***************************************************************************)
EXTENDS Integers, Sequences, SequencesExt

CONSTANTS
  MetaInt,     \* bytes of audio between two blocks of metadata
  Titles,      \* what the blocks of a station say: a title, "None" where a block
               \* is empty, "Illegible" where no title can be read
  MaxRead,     \* most bytes a read asks for
  Sizes,       \* sizes of files
  PieceLen     \* STREAM_CHUNK

ASSUME ReaderAssumption ==
  /\ MetaInt \in Nat \ {0} /\ MaxRead \in Nat \ {0} /\ PieceLen \in Nat \ {0}
  /\ Sizes \subseteq Nat

-----------------------------------------------------------------------------
(* The body of a radio stream: audio bytes by number, and blocks, of a     *)
(* length byte and the title it announces.                                 *)

VARIABLES
  body,        \* what the station has yet to send
  remaining,   \* bytes of audio before the next block
  lastTitle,   \* last_title
  decoded,     \* the bytes the decoder got
  announced    \* the songs announced

icyVars == <<body, remaining, lastTitle, decoded, announced>>

Run(i) == [k \in 1..MetaInt |-> [kind |-> "Audio", is |-> (i - 1) * MetaInt + k]]
BlockOf(title) == IF title = "None" THEN <<[kind |-> "Length", is |-> "None"]>>
                  ELSE <<[kind |-> "Length", is |-> title], [kind |-> "Text", is |-> title]>>
StationBody(titles) == FlattenSeq([i \in DOMAIN titles |-> Run(i) \o BlockOf(titles[i])])

\* The station may hang up anywhere.
IcyInit ==
  /\ \E titles \in Titles :
       \E n \in 0..Len(StationBody(titles)) : body = SubSeq(StationBody(titles), 1, n)
  /\ remaining = MetaInt
  /\ lastTitle = "None" /\ decoded = <<>> /\ announced = <<>>

\* parse_metadata: the block that begins the rest of the body, if all of it came.
BlockLen  == IF Head(body).is = "None" THEN 1 ELSE 2
HasBlock  == body # <<>> /\ Len(body) >= BlockLen
NewTitle  == Head(body).is \notin {"None", "Illegible", lastTitle}

\* Mutant: the count starts anew with the read that met the block.
CountFromBlock(n, asked) ==
  LET rest == SubSeq(body, BlockLen + 1, Len(body)) IN
  /\ remaining = 0 /\ HasBlock
  /\ n <= Len(rest) /\ n <= asked /\ n <= MetaInt
  /\ n = 0 => rest = <<>>
  /\ lastTitle' = IF NewTitle THEN Head(body).is ELSE lastTitle
  /\ announced' = IF NewTitle THEN Append(announced, Head(body).is) ELSE announced
  /\ decoded' = decoded \o SubSeq(rest, 1, n)
  /\ remaining' = MetaInt
  /\ body' = SubSeq(rest, n + 1, Len(rest))

\* A read across a block: the block is taken out, then as much audio is read as was
\* asked for and came, n bytes, none only at the end.
ReadPastBlock(n, asked) ==
  LET rest == SubSeq(body, BlockLen + 1, Len(body)) IN
  /\ remaining = 0 /\ HasBlock
  /\ n <= Len(rest) /\ n <= asked /\ n <= MetaInt
  /\ n = 0 => rest = <<>>
  /\ lastTitle' = IF NewTitle THEN Head(body).is ELSE lastTitle
  /\ announced' = IF NewTitle THEN Append(announced, Head(body).is) ELSE announced
  /\ decoded' = decoded \o SubSeq(rest, 1, n)
  /\ remaining' = MetaInt - n
  /\ body' = SubSeq(rest, n + 1, Len(rest))

\* A read before the next block.
ReadAudio(n, asked) ==
  /\ remaining > 0
  /\ n \in 1..Len(body) /\ n <= asked /\ n <= remaining
  /\ decoded' = decoded \o SubSeq(body, 1, n)
  /\ remaining' = remaining - n
  /\ body' = SubSeq(body, n + 1, Len(body))
  /\ UNCHANGED <<lastTitle, announced>>

\* A body that ends within a block ends the stream.
ReadTorn ==
  /\ remaining = 0 /\ body # <<>> /\ ~HasBlock
  /\ body' = <<>>
  /\ UNCHANGED <<remaining, lastTitle, decoded, announced>>

IcyNext ==
  \/ \E asked \in 1..MaxRead, n \in 0..MaxRead : ReadPastBlock(n, asked) \/ ReadAudio(n, asked)
  \/ ReadTorn

-----------------------------------------------------------------------------
(* A file that is sent in pieces.  A range is a record; "Bad" stands for   *)
(* one that cannot be parsed.                                              *)

VARIABLES
  size,        \* bytes of the file
  got,         \* the bytes the browser has of it, from where it started
  from,        \* where it started
  answer       \* the last answer: its status, and its first and last byte

musicVars == <<size, got, from, answer>>

Unsatisfiable == [status |-> 416, first |-> 0, last |-> -1]

\* parse_range: the first and the last byte, or nothing.
ParseRange(range) ==
  CASE size = 0 \/ range.kind = "Bad" -> <<>>
    [] range.kind = "Suffix" ->
         <<IF range.len < size THEN size - range.len ELSE 0, size - 1>>
    [] range.kind = "From" -> IF range.first >= size THEN <<>> ELSE <<range.first, size - 1>>
    [] range.kind = "Closed" ->
         IF range.first >= size \/ range.last >= size \/ range.first > range.last THEN <<>>
         ELSE <<range.first, range.last>>

\* serve_music: one piece of the range; a file that ends before it is an error. For a
\* suffix of no bytes `end - start + 1` is 0 less 1 plus 1, which a release build wraps to
\* an empty piece; a build that checks arithmetic drops the request, which changes nothing.
Piece(first, last, status) ==
  LET end == IF last < first + PieceLen - 1 THEN last ELSE first + PieceLen - 1
  IN CASE end < first -> [status |-> 200, first |-> first, last |-> first - 1]
       [] end >= size -> [status |-> 500, first |-> 0, last |-> -1]
       [] OTHER       -> [status |-> status, first |-> first, last |-> end]

ServeMusic(range) ==
  IF range.kind = "None" THEN Piece(0, size - 1, 200)
  ELSE IF ParseRange(range) = <<>> THEN Unsatisfiable
  ELSE Piece(ParseRange(range)[1], ParseRange(range)[2], 206)

MusicInit ==
  /\ size \in Sizes
  /\ got = <<>> /\ from = 0 /\ answer = [status |-> 0, first |-> 0, last |-> -1]

Bytes(a) == [i \in 1..(a.last - a.first + 1) |-> a.first + i - 1]

\* The element asks for what follows.
AskOn ==
  /\ answer' = ServeMusic([kind |-> "From", first |-> from + Len(got)])
  /\ answer'.status # 416
  /\ got' = got \o Bytes(answer')
  /\ UNCHANGED <<size, from>>

\* It seeks, or looks at the end of the file, or begins without a range.
AskFor(range) ==
  /\ answer' = ServeMusic(range)
  /\ answer'.status \in {200, 206}
  /\ from' = answer'.first
  /\ got' = Bytes(answer')
  /\ UNCHANGED size

AskInVain(range) ==
  /\ answer' = ServeMusic(range)
  /\ answer'.status \notin {200, 206}
  /\ UNCHANGED <<size, got, from>>

Ranges ==
  [kind : {"None", "Bad"}] \cup [kind : {"Suffix"}, len : 0..(size + 1)]
    \cup [kind : {"From"}, first : 0..(size + 1)]
    \cup [kind : {"Closed"}, first : 0..(size + 1), last : 0..(size + 1)]

MusicNext == AskOn \/ \E range \in Ranges : AskFor(range) \/ AskInVain(range)

-----------------------------------------------------------------------------
(* Properties.                                                             *)

\* However the reads are cut, the decoder gets every byte of audio that was sent, in
\* order, and nothing of the metadata; and a title is announced when it changes.
AudioAlone ==
  /\ \A i \in DOMAIN decoded : decoded[i].kind = "Audio" /\ decoded[i].is = i
  /\ \A i \in DOMAIN body : body[i].kind = "Audio" => body[i].is > Len(decoded)
  /\ \A i \in 1..(Len(announced) - 1) : announced[i] # announced[i + 1]

\* Wherever the element starts, asking on brings it the rest of the file without a
\* gap: a file is refused only at its end.
WholeFile ==
  /\ \A i \in DOMAIN got : got[i] = from + i - 1
  /\ from + Len(got) <= size
  /\ answer.status # 500
  /\ from + Len(got) < size =>
       LET next == ServeMusic([kind |-> "From", first |-> from + Len(got)])
       IN next.status = 206 /\ next.first = from + Len(got) /\ next.last >= next.first

\* No byte is lost, doubled or foreign, however a stream is cut.
PiecesFit == AudioAlone /\ WholeFile
=============================================================================
