------------------------------ MODULE WebProofs ------------------------------
(***************************************************************************)
(* Proofs about what shows the state of the player, for any browsers,      *)
(* songs, capacities of the channels and bounds: the panel on the USB port *)
(* and the pages of the web interface.                                     *)
(***************************************************************************)
EXTENDS WebLink, FrontPanel, LibraryTree, BrowserAudio, SequenceTheorems, TLAPS

-----------------------------------------------------------------------------
(* The panel.                                                              *)

Texts  == Title \cup {""}
Shows  == [Sides -> Texts]

\* The last message of a line about x says v, and there is none.
Ends(q, x, v) ==
  \A i \in DOMAIN q : q[i].on = x /\ (\A j \in DOMAIN q : i < j => q[j].on # x) => q[i].value = v
Mute(q, x) == \A i \in DOMAIN q : q[i].on # x

\* The news that are not kept yet.
NewsLine == batch \o news

Lines == news \in Seq(News) /\ batch \in Seq(News) /\ writing \in Seq(News)

PanelTyped ==
  /\ latest \in Shows /\ kept \in Shows /\ panel \in Shows
  /\ port \in {"None", "Live", "Dead"} /\ reader \in {"Read", "Sleep"}
  /\ power \in Nat
  /\ replay \in Stages /\ carried \in Texts
  /\ reader = "Sleep" => port = "None" /\ Calm

\* A replay writes what is kept, while no event is handled.
Replays ==
  /\ replay \in {"KeepSong", "WriteSong", "WriteMode"} => carried # ""
  /\ ~crossed => /\ replay \in {"KeepSong", "WriteSong"} => carried = kept["song"]
                 /\ replay = "WriteMode" => carried = kept["mode"]

\* What was announced last is the last of the news on their way, or what is kept.
Follows(x) ==
  /\ Ends(NewsLine, x, latest[x])
  /\ Mute(NewsLine, x) => /\ ~crossed => kept[x] = latest[x]
                          /\ latest[x] # "" => kept[x] # ""

\* The panel shows what is kept, or something is under way that it will be written by,
\* or the panel did not take it.
Due(x) ==
  \/ port # "Live" \/ power > 0
  \/ writing # <<>> /\ writing[1].on = x
  \/ replay \in (IF x = "song" THEN {"ReadSong", "KeepSong", "WriteSong"} ELSE Stages \ {"Off"})

Displayed(x) ==
  Due(x) \/ x \in unheard \/ ((kept[x] # "" => panel[x] # "") /\ (~crossed => panel[x] = kept[x]))

\* What was written, or is about to be, was kept, and nothing takes it away.
Backed ==
  /\ \A x \in Sides : panel[x] # "" => kept[x] # ""
  /\ writing # <<>> => kept[writing[1].on] # ""
  /\ replay \in {"KeepSong", "WriteSong"} => kept["song"] # ""
  /\ replay = "WriteMode" => kept["mode"] # ""

InHand ==
  writing # <<>> => /\ Len(writing) = 1
                    /\ ~crossed => writing[1].value = kept[writing[1].on]

PanelInv ==
  /\ Lines /\ PanelTyped /\ Replays /\ Backed /\ InHand
  /\ \A x \in Sides : Displayed(x) /\ (~missed => Follows(x))

LEMMA NoNews == \A x, v : Mute(<<>>, x) /\ Ends(<<>>, x, v)
BY DEF Mute, Ends

LEMMA NewsAppended ==
  ASSUME NEW q \in Seq(News), NEW n \in News, NEW x \in Sides
  PROVE  /\ Append(q, n) \in Seq(News)
         /\ n.on = x => Ends(Append(q, n), x, n.value) /\ ~Mute(Append(q, n), x)
         /\ n.on # x => /\ \A v : Ends(q, x, v) => Ends(Append(q, n), x, v)
                        /\ Mute(Append(q, n), x) => Mute(q, x)
<1> DEFINE r == Append(q, n)  k == Len(q)
<1>1. /\ r \in Seq(News) /\ k \in Nat /\ DOMAIN q = 1..k /\ DOMAIN r = 1..k + 1
      /\ r[k + 1] = n /\ \A i \in 1..k : r[i] = q[i]
  OBVIOUS
<1> HIDE DEF r, k
<1>2. k + 1 \in 1..k + 1 /\ \A i \in 1..k + 1 : i \in 1..k \/ i = k + 1
  BY <1>1
<1>3. \A i \in 1..k : i \in 1..k + 1 /\ i < k + 1
  BY <1>1
<1>4. n.on = x => Ends(r, x, n.value) /\ ~Mute(r, x)
  BY <1>1, <1>2, <1>3 DEF Ends, Mute
<1>5. ASSUME n.on # x, NEW v, Ends(q, x, v) PROVE Ends(r, x, v)
  BY <1>1, <1>2, <1>3, <1>5 DEF Ends
<1>6. Mute(r, x) => Mute(q, x)
  BY <1>1, <1>3 DEF Mute
<1> QED BY <1>1, <1>4, <1>5, <1>6 DEF r

LEMMA NewsTaken ==
  ASSUME NEW q \in Seq(News), q # <<>>, NEW x \in Sides
  PROVE  /\ Head(q) \in News /\ Tail(q) \in Seq(News)
         /\ \A v : Ends(q, x, v) => /\ Ends(Tail(q), x, v)
                                    /\ Mute(Tail(q), x) /\ Head(q).on = x => Head(q).value = v
         /\ Mute(Tail(q), x) /\ Head(q).on # x => Mute(q, x)
<1> DEFINE r == Tail(q)  k == Len(q)
<1>1. /\ r \in Seq(News) /\ k \in Nat \ {0} /\ DOMAIN q = 1..k /\ DOMAIN r = 1..k - 1
      /\ Head(q) = q[1] /\ q[1] \in News /\ \A i \in 1..k - 1 : i + 1 \in 1..k /\ r[i] = q[i + 1]
  OBVIOUS
<1> HIDE DEF r, k
<1>2. 1 \in 1..k /\ \A j \in 1..k : j = 1 \/ (j - 1 \in 1..k - 1 /\ q[j] = r[j - 1])
  BY <1>1
<1>3. ASSUME NEW v, Ends(q, x, v) PROVE Ends(r, x, v)
  <2> SUFFICES ASSUME NEW i \in 1..k - 1, r[i].on = x, \A j \in 1..k - 1 : i < j => r[j].on # x
               PROVE  r[i].value = v
    BY <1>1 DEF Ends
  <2>1. i + 1 \in 1..k /\ r[i] = q[i + 1]
    BY <1>1
  <2>2. ASSUME NEW j \in 1..k, i + 1 < j PROVE q[j].on # x
    <3>1. j - 1 \in 1..k - 1 /\ i < j - 1 /\ q[j] = r[j - 1]
      BY <1>1, <1>2, <2>2
    <3> QED BY <3>1
  <2> QED BY <1>1, <1>3, <2>1, <2>2 DEF Ends
<1>4. ASSUME NEW v, Ends(q, x, v), Mute(r, x), q[1].on = x PROVE q[1].value = v
  <2>1. \A j \in 1..k : 1 < j => q[j].on # x
    <3> SUFFICES ASSUME NEW j \in 1..k, 1 < j PROVE q[j].on # x
      OBVIOUS
    <3>1. j - 1 \in 1..k - 1 /\ q[j] = r[j - 1]
      BY <1>1, <1>2
    <3> QED BY <1>1, <1>4, <3>1 DEF Mute
  <2> QED BY <1>1, <1>2, <1>4, <2>1 DEF Ends
<1>5. Mute(r, x) /\ q[1].on # x => Mute(q, x)
  <2> SUFFICES ASSUME Mute(r, x), q[1].on # x, NEW j \in 1..k PROVE q[j].on # x
    BY <1>1 DEF Mute
  <2>1. CASE j = 1
    BY <2>1
  <2>2. CASE j - 1 \in 1..k - 1 /\ q[j] = r[j - 1]
    BY <1>1, <2>2 DEF Mute
  <2> QED BY <1>2, <2>1, <2>2
<1> QED BY <1>1, <1>3, <1>4, <1>5 DEF r

\* The line is one sequence, wherever its parts are.
LEMMA LineFacts ==
  ASSUME Lines
  PROVE  /\ NewsLine \in Seq(News)
         /\ batch = <<>> => NewsLine = news
         /\ news = <<>> => NewsLine = batch
         /\ \A n \in News : batch \o Append(news, n) = Append(NewsLine, n)
         /\ batch # <<>> => /\ NewsLine # <<>> /\ Head(NewsLine) = Head(batch)
                            /\ Tail(NewsLine) = Tail(batch) \o news
<1> USE DEF NewsLine
<1>1. batch \in Seq(News) /\ news \in Seq(News)
  BY DEF Lines
<1>2. NewsLine \in Seq(News) /\ (batch = <<>> => NewsLine = news) /\ (news = <<>> => NewsLine = batch)
  BY <1>1, ConcatEmptySeq, ConcatProperties
<1>3. ASSUME NEW n \in News PROVE batch \o Append(news, n) = Append(NewsLine, n)
  <2>1. <<n>> \in Seq(News)
    OBVIOUS
  <2>2. Append(news, n) = news \o <<n>> /\ Append(NewsLine, n) = NewsLine \o <<n>>
    BY <1>1, <1>2, AppendIsConcat
  <2> QED BY <1>1, <2>1, <2>2, ConcatAssociative
<1>4. ASSUME batch # <<>>
      PROVE  /\ NewsLine # <<>> /\ Head(NewsLine) = Head(batch)
             /\ Tail(NewsLine) = Tail(batch) \o news
  <2>1. NewsLine # <<>> /\ Head(NewsLine) = Head(batch)
    BY <1>1, <1>4
  <2>2. Tail(NewsLine) \in Seq(News) /\ Tail(batch) \o news \in Seq(News)
    BY <1>1, <1>4
  <2>3. Len(Tail(NewsLine)) = Len(Tail(batch) \o news)
    BY <1>1, <1>4
  <2>4. \A i \in 1..Len(Tail(NewsLine)) : Tail(NewsLine)[i] = (Tail(batch) \o news)[i]
    BY <1>1, <1>4
  <2> QED BY <2>1, <2>2, <2>3, <2>4, SeqEqual
<1> QED BY <1>1, <1>2, <1>3, <1>4

LEMMA TextFacts ==
  /\ Dark \in Shows /\ Dark["song"] = "" /\ Dark["mode"] = "" /\ "" \in Texts
  /\ "Off" \in Stages /\ "song" \in Sides /\ "mode" \in Sides
<1>1. "" \in Texts
  BY DEF Texts
<1>2. "Off" \in Stages
  BY DEF Stages
<1> QED BY <1>1, <1>2 DEF Shows, Dark, Sides

LEMMA NewsFacts == ASSUME NEW n \in News PROVE n.on \in Sides /\ n.value \in Texts /\ n.value # ""
BY PanelAssumption DEF News, Texts

LEMMA SideFacts == "song" \in Sides /\ "mode" \in Sides /\ \A x \in Sides : x = "song" \/ x = "mode"
BY DEF Sides

LEMMA PutFacts ==
  ASSUME NEW f \in Shows, NEW v \in Texts, NEW x \in Sides
  PROVE  /\ f[x] \in Texts /\ [f EXCEPT ![x] = v] \in Shows
         /\ \A y \in Sides : [f EXCEPT ![x] = v][y] = IF y = x THEN v ELSE f[y]
BY DEF Shows

LEMMA PanelStart == PanelInit => PanelInv
<1> SUFFICES ASSUME PanelInit PROVE PanelInv
  OBVIOUS
<1>0. news = <<>> /\ batch = <<>> /\ writing = <<>>
  BY DEF PanelInit
<1>1. Lines
  BY <1>0 DEF Lines
<1> USE DEF PanelInit
<1>2. PanelTyped
  BY TextFacts DEF PanelTyped, Calm
<1>3. Replays /\ Backed /\ InHand
  BY TextFacts DEF Replays, Backed, InHand, Calm, Dark
<1>4. \A x \in Sides : Displayed(x) /\ Follows(x)
  <2>1. NewsLine = <<>>
    BY LineFacts, <1>0, <1>1
  <2>2. \A x \in Sides : kept[x] = "" /\ latest[x] = "" /\ panel[x] = ""
    BY DEF Dark
  <2> QED BY <2>1, <2>2, NoNews DEF Displayed, Follows
<1> QED BY <1>1, <1>2, <1>3, <1>4 DEF PanelInv

LEMMA LinesStep == ASSUME Lines, [PanelNext]_panelVars PROVE Lines'
<1> USE DEF Lines
<1>1. CASE Announce
  BY <1>1 DEF Announce
<1>2. CASE Drain
  BY <1>2 DEF Drain
<1>3. CASE KeepNews
  BY <1>3 DEF KeepNews, channel
<1>4. CASE WriteNews
  BY <1>4 DEF WriteNews, channel
<1>5. CASE ConnectionLost \/ Reconnect \/ SwitchedOn \/ Replay
  BY <1>5 DEF ConnectionLost, Reconnect, SwitchedOn, Replay, Reading, channel
<1>6. CASE Unplug \/ Plug \/ PowerUp
  BY <1>6 DEF Unplug, Plug, PowerUp, channel
<1>7. CASE UNCHANGED panelVars
  BY <1>7 DEF panelVars
<1> QED BY <1>1, <1>2, <1>3, <1>4, <1>5, <1>6, <1>7 DEF PanelNext

LEMMA TypedStep == ASSUME Lines, PanelTyped, [PanelNext]_panelVars PROVE PanelTyped'
<1>12. power \in Nat /\ (power > 0 => power - 1 \in Nat)
  BY DEF PanelTyped
<1> USE DEF PanelTyped, Calm
<1>0. Dark \in Shows /\ "" \in Texts
  BY TextFacts
<1>1. CASE Announce
  <2>1. PICK n \in News : latest' = [latest EXCEPT ![n.on] = n.value]
    BY <1>1 DEF Announce
  <2>2. latest' \in Shows
    BY <2>1, PutFacts, NewsFacts
  <2> QED BY <1>1, <2>2 DEF Announce, device, resync
<1>2. CASE Drain
  BY <1>2 DEF Drain, device, resync
<1>3. CASE KeepNews
  <2>1. Head(batch) \in News
    BY <1>3 DEF Lines, KeepNews
  <2> QED BY <1>3, <2>1, PutFacts, NewsFacts DEF KeepNews, Keep, channel, device, resync
<1>4. CASE WriteNews
  <2>1. Head(writing) \in News
    BY <1>4 DEF Lines, WriteNews
  <2>2. [panel EXCEPT ![Head(writing).on] = Head(writing).value] \in Shows
    BY <2>1, PutFacts, NewsFacts
  <2>3. panel' \in Shows
    BY <1>4, <2>2 DEF WriteNews, Write
  <2>4. UNCHANGED <<latest, kept, port, reader, power, replay, carried>>
    BY <1>4 DEF WriteNews, device, channel, resync
  <2> QED BY <2>3, <2>4
<1>5. CASE ConnectionLost \/ Reconnect
  BY <1>5, <1>0 DEF ConnectionLost, Reconnect, Reading, channel, device, Stages, resync
<1>9. CASE SwitchedOn
  <2>1. power' \in Nat
    BY <1>9, <1>12 DEF SwitchedOn
  <2>2. replay' \in Stages /\ carried' \in Texts
    BY <1>9, <1>0 DEF SwitchedOn, Stages
  <2>3. /\ latest' \in Shows /\ kept' \in Shows /\ panel' \in Shows
        /\ port' = "Live" /\ reader' = "Read"
    BY <1>9 DEF SwitchedOn, channel
  <2> QED BY <2>1, <2>2, <2>3
<1>6. CASE Replay
  <2>1. /\ kept["song"] \in Texts /\ kept["mode"] \in Texts
        /\ [kept EXCEPT !["song"] = carried] \in Shows
        /\ [panel EXCEPT !["song"] = carried] \in Shows
        /\ [panel EXCEPT !["mode"] = carried] \in Shows
    BY PutFacts, TextFacts
  <2>2. carried' \in Texts
    BY <1>6, <1>0, <2>1 DEF Replay
  <2>3. kept' \in Shows
    BY <1>6, <2>1 DEF Replay
  <2>4. panel' \in Shows
    BY <1>6, <2>1 DEF Replay, Write
  <2> QED BY <1>6, <2>2, <2>3, <2>4 DEF Replay, Reading, channel, device, Stages
<1>7. CASE Unplug
  BY <1>7, <1>0 DEF Unplug, channel, resync
<1>10. CASE Plug
  BY <1>10 DEF Plug, channel, resync
<1>11. CASE PowerUp
  <2>1. power' \in Nat
    BY <1>11 DEF PowerUp
  <2> QED BY <1>11, <1>0, <2>1 DEF PowerUp, channel, resync
<1>8. CASE UNCHANGED panelVars
  BY <1>8 DEF panelVars
<1> QED BY <1>1, <1>2, <1>3, <1>4, <1>5, <1>6, <1>7, <1>8, <1>9, <1>10, <1>11 DEF PanelNext

\* What each step does to the line of news.
LEMMA LineStep ==
  ASSUME Lines, [PanelNext]_panelVars
  PROVE  \/ NewsLine' = NewsLine /\ UNCHANGED <<latest, missed>>
         \/ Announce \/ KeepNews
<1>1. CASE Drain
  BY <1>1, LineFacts, LinesStep DEF Drain, Lines, NewsLine
<1>2. CASE WriteNews
  BY <1>2 DEF WriteNews, channel, NewsLine
<1>3. CASE ConnectionLost \/ Reconnect \/ SwitchedOn \/ Replay
  BY <1>3 DEF ConnectionLost, Reconnect, SwitchedOn, Replay, Reading, channel, NewsLine
<1>4. CASE Unplug \/ Plug \/ PowerUp
  BY <1>4 DEF Unplug, Plug, PowerUp, channel, NewsLine
<1>5. CASE UNCHANGED panelVars
  BY <1>5 DEF panelVars, NewsLine
<1> QED
  BY <1>1, <1>2, <1>3, <1>4, <1>5 DEF PanelNext

\* What each step keeps.
LEMMA KeptStep ==
  ASSUME Lines, PanelTyped, Replays, [PanelNext]_panelVars
  PROVE  /\ \A x \in Sides : kept[x] # "" => kept'[x] # ""
         /\ ~KeepNews => crossed' = crossed /\ (~crossed => kept' = kept)
<1>0. kept \in Shows /\ carried \in Texts
  BY DEF PanelTyped
<1>1. CASE KeepNews
  <2> DEFINE n == Head(batch)
  <2>1. n \in News /\ kept' = [kept EXCEPT ![n.on] = n.value]
    BY <1>1 DEF Lines, KeepNews, Keep
  <2> HIDE DEF n
  <2>2. n.on \in Sides /\ n.value \in Texts /\ n.value # ""
    BY <2>1, NewsFacts
  <2>3. \A x \in Sides : kept'[x] = IF x = n.on THEN n.value ELSE kept[x]
    BY <1>0, <2>1, <2>2 DEF Shows
  <2> QED BY <1>1, <2>2, <2>3
<1>2. CASE Replay
  <2>1. kept' = kept \/ (replay = "KeepSong" /\ kept' = [kept EXCEPT !["song"] = carried])
    BY <1>2 DEF Replay
  <2>2. crossed' = crossed
    BY <1>2 DEF Replay, Reading
  <2>3. kept["song"] = carried => [kept EXCEPT !["song"] = carried] = kept
    BY <1>0 DEF Shows
  <2>4. replay = "KeepSong" => carried # "" /\ (~crossed => carried = kept["song"])
    BY DEF Replays
  <2>5. \A x \in Sides : [kept EXCEPT !["song"] = carried][x] = IF x = "song" THEN carried ELSE kept[x]
    BY <1>0, SideFacts DEF Shows
  <2> QED BY <2>1, <2>2, <2>3, <2>4, <2>5
<1>3. CASE UNCHANGED <<kept, crossed>>
  BY <1>3
<1> QED
  BY <1>1, <1>2, <1>3 DEF PanelNext, panelVars, Announce, Drain, WriteNews, ConnectionLost, Reconnect,
     SwitchedOn, Reading, Unplug, Plug, PowerUp

LEMMA ReplaysStep ==
  ASSUME PanelInv, [PanelNext]_panelVars
  PROVE  Replays'
<1>0. Lines /\ PanelTyped /\ Replays
  BY DEF PanelInv
<1>1. CASE KeepNews
  BY <1>0, <1>1 DEF KeepNews, resync, Replays, Calm
<1>2. ~KeepNews => crossed' = crossed /\ (~crossed => kept' = kept)
  BY <1>0, KeptStep
<1>3. CASE Replay
  <2>1. crossed' = crossed
    BY <1>3 DEF Replay, Reading
  <2>2. replay = "KeepSong" => kept'["song"] = carried
    <3> SUFFICES ASSUME replay = "KeepSong" PROVE kept'["song"] = carried
      OBVIOUS
    <3>1. kept \in Shows /\ carried \in Texts
      BY <1>0 DEF PanelTyped
    <3>2. kept' = [kept EXCEPT !["song"] = carried]
      BY <1>3 DEF Replay
    <3> QED BY <3>1, <3>2, PutFacts, SideFacts
  <2> QED BY <1>0, <1>3, <2>1, <2>2 DEF Replay, Replays
<1>4. CASE UNCHANGED resync
  <2>1. replay' = replay /\ carried' = carried
    BY <1>4 DEF resync
  <2>2. ~KeepNews => Replays'
    <3> SUFFICES ASSUME ~KeepNews PROVE Replays'
      OBVIOUS
    <3>1. crossed' = crossed /\ (~crossed => kept' = kept)
      BY <1>2
    <3> QED BY <1>0, <2>1, <3>1 DEF Replays
  <2> QED BY <1>1, <2>2
<1>5. CASE Reconnect \/ SwitchedOn
  BY <1>5 DEF Reconnect, SwitchedOn, Replays
<1> QED
  BY <1>1, <1>3, <1>4, <1>5 DEF PanelNext, panelVars, Announce, Drain, WriteNews, ConnectionLost,
     Unplug, Plug, PowerUp, resync

\* What is written is kept, and so is what the panel shows.
LEMMA BackedStep ==
  ASSUME PanelInv, [PanelNext]_panelVars
  PROVE  Backed' /\ InHand'
<1>0. Lines /\ PanelTyped /\ Replays /\ Backed /\ InHand
  BY DEF PanelInv
<1>1. /\ \A x \in Sides : kept[x] # "" => kept'[x] # ""
      /\ ~KeepNews => crossed' = crossed /\ (~crossed => kept' = kept)
  BY <1>0, KeptStep
<1>2. CASE KeepNews
  <2> DEFINE n == Head(batch)
  <2>1. n \in News
    BY <1>0, <1>2 DEF KeepNews, Lines
  <2>2. n.on \in Sides /\ n.value \in Texts /\ n.value # ""
    BY <2>1, NewsFacts
  <2>3. kept'[n.on] = n.value
    <3>1. kept \in Shows /\ kept' = [kept EXCEPT ![n.on] = n.value]
      BY <1>0, <1>2 DEF PanelTyped, KeepNews, Keep
    <3> HIDE DEF n
    <3> QED BY <2>2, <3>1 DEF Shows
  <2>4. writing' = <<n>> /\ panel' = panel /\ replay' = replay /\ Len(writing') = 1 /\ writing'[1] = n
    BY <1>2 DEF KeepNews, resync
  <2>5. InHand'
    BY <2>3, <2>4 DEF InHand
  <2>6. Backed'
    BY <1>0, <1>1, <2>2, <2>3, <2>4, SideFacts DEF Backed
  <2> QED BY <2>5, <2>6
<1>3. CASE WriteNews
  <2> DEFINE n == writing[1]
  <2>1. n \in News /\ n = Head(writing) /\ writing # <<>>
    BY <1>0, <1>3 DEF WriteNews, Lines
  <2>2. n.on \in Sides /\ n.value \in Texts
    BY <2>1, NewsFacts
  <2>3. \A x \in Sides : panel'[x] = panel[x] \/ x = n.on
    <3>1. panel \in Shows /\ (panel' = panel \/ panel' = [panel EXCEPT ![n.on] = n.value])
      BY <1>0, <1>3, <2>1 DEF PanelTyped, WriteNews, Write
    <3> HIDE DEF n
    <3> QED BY <2>2, <3>1 DEF Shows
  <2>4. kept' = kept /\ replay' = replay /\ writing' = <<>>
    BY <1>3 DEF WriteNews, resync
  <2> QED BY <1>0, <2>1, <2>2, <2>3, <2>4 DEF Backed, InHand
<1>4. CASE Replay
  <2>1. writing' = writing /\ crossed' = crossed
    BY <1>4 DEF Replay, Reading
  <2>2. InHand'
    BY <1>0, <1>1, <1>4, <2>1 DEF InHand, Replay, KeepNews
  <2>3. \A x \in Sides : \/ panel'[x] = panel[x]
                         \/ x = "song" /\ replay = "WriteSong"
                         \/ x = "mode" /\ replay = "WriteMode"
    <3>1. /\ panel \in Shows /\ carried \in Texts
          /\ \/ panel' = panel
             \/ panel' = [panel EXCEPT !["song"] = carried] /\ replay = "WriteSong"
             \/ panel' = [panel EXCEPT !["mode"] = carried] /\ replay = "WriteMode"
      BY <1>0, <1>4 DEF PanelTyped, Replay, Write
    <3> QED BY <3>1, PutFacts, SideFacts
  <2>4. kept[writing[1].on] # "" /\ writing # <<>> => kept'[writing[1].on] # ""
    <3> SUFFICES ASSUME writing # <<>> PROVE writing[1].on \in Sides
      BY <1>1
    <3>1. writing[1] \in News
      BY <1>0 DEF Lines
    <3> QED BY <3>1, NewsFacts
  <2>5. replay' \in {"KeepSong", "WriteSong"} => kept'["song"] # ""
    BY <1>0, <1>1, <1>4, SideFacts DEF Replay, Backed
  <2>6. replay' = "WriteMode" => kept'["mode"] # ""
    BY <1>0, <1>1, <1>4, SideFacts DEF Replay, Backed
  <2>7. Backed'
    BY <1>0, <1>1, <2>1, <2>3, <2>4, <2>5, <2>6, SideFacts DEF Backed
  <2> QED BY <2>2, <2>7
<1>5. CASE /\ UNCHANGED <<writing, kept, crossed>>
           /\ panel' = panel \/ panel' = Dark
           /\ replay' = replay \/ replay' = "ReadSong"
  BY <1>0, <1>5, TextFacts DEF Backed, InHand, Dark
<1> QED
  BY <1>2, <1>3, <1>4, <1>5 DEF PanelNext, panelVars, Announce, Drain, ConnectionLost, Reconnect,
     SwitchedOn, Reading, Unplug, Plug, PowerUp, resync

\* What is announced last stays what is kept once the line is empty.
LEMMA FollowsStep ==
  ASSUME PanelInv, [PanelNext]_panelVars, NEW x \in Sides, ~missed'
  PROVE  Follows(x)'
<1>0. Lines /\ PanelTyped /\ Replays /\ Backed /\ InHand /\ NewsLine \in Seq(News)
  BY LineFacts DEF PanelInv
<1>1. /\ kept[x] # "" => kept'[x] # ""
      /\ ~KeepNews => crossed' = crossed /\ (~crossed => kept' = kept)
  BY <1>0, KeptStep
<1>2. CASE Announce
  <2>1. PICK n \in News : /\ latest' = [latest EXCEPT ![n.on] = n.value]
                         /\ news' = Append(news, n) /\ ~missed
    BY <1>2 DEF Announce
  <2>2. UNCHANGED <<batch, kept, crossed>>
    BY <1>2 DEF Announce
  <2>3. NewsLine' = Append(NewsLine, n)
    BY <1>0, <2>1, <2>2, LineFacts DEF NewsLine
  <2>4. Follows(x)
    BY <2>1 DEF PanelInv
  <2>5. n.on \in Sides /\ n.value \in Texts /\ latest \in Shows
    BY <1>0, NewsFacts DEF PanelTyped
  <2>6. latest'[x] = IF x = n.on THEN n.value ELSE latest[x]
    BY <2>1, <2>5 DEF Shows
  <2>7. CASE n.on = x
    <3>1. Ends(NewsLine', x, latest'[x]) /\ ~Mute(NewsLine', x)
      BY <1>0, <2>3, <2>6, <2>7, NewsAppended
    <3> QED BY <3>1 DEF Follows
  <2>8. CASE n.on # x
    <3>1. /\ Ends(NewsLine, x, latest[x]) => Ends(NewsLine', x, latest[x])
          /\ Mute(NewsLine', x) => Mute(NewsLine, x)
      BY <1>0, <2>3, <2>8, NewsAppended
    <3> QED BY <2>2, <2>4, <2>6, <2>8, <3>1 DEF Follows
  <2> QED BY <2>7, <2>8
<1>3. CASE KeepNews
  <2> DEFINE n == Head(batch)
  <2>1. /\ batch # <<>> /\ n \in News /\ kept' = [kept EXCEPT ![n.on] = n.value]
        /\ batch' = Tail(batch) /\ UNCHANGED <<news, latest, missed>>
    BY <1>0, <1>3 DEF Lines, KeepNews, Keep, channel
  <2>2. NewsLine # <<>> /\ n = Head(NewsLine) /\ NewsLine' = Tail(NewsLine)
    BY <1>0, <2>1, LineFacts DEF NewsLine
  <2> HIDE DEF n
  <2>3. /\ Ends(NewsLine, x, latest[x]) =>
             /\ Ends(NewsLine', x, latest[x])
             /\ Mute(NewsLine', x) /\ n.on = x => n.value = latest[x]
        /\ Mute(NewsLine', x) /\ n.on # x => Mute(NewsLine, x)
    <3> DEFINE q == NewsLine
    <3>1. q \in Seq(News) /\ q # <<>> /\ n = Head(q) /\ NewsLine' = Tail(q)
      BY <1>0, <2>2
    <3> HIDE DEF q
    <3>2. ASSUME NEW v, Ends(q, x, v)
          PROVE  Ends(Tail(q), x, v) /\ (Mute(Tail(q), x) /\ Head(q).on = x => Head(q).value = v)
      BY <3>1, <3>2, NewsTaken
    <3>3. Mute(Tail(q), x) /\ Head(q).on # x => Mute(q, x)
      BY <3>1, NewsTaken
    <3>4. Ends(q, x, latest[x]) => Ends(Tail(q), x, latest[x])
      BY <3>2
    <3>5. Ends(q, x, latest[x]) /\ Mute(Tail(q), x) /\ Head(q).on = x => Head(q).value = latest[x]
      BY <3>2
    <3> QED BY <3>1, <3>3, <3>4, <3>5 DEF q
  <2>4. n.on \in Sides /\ n.value \in Texts /\ n.value # "" /\ kept \in Shows
    BY <1>0, <2>1, NewsFacts DEF PanelTyped
  <2>5. kept'[x] = IF x = n.on THEN n.value ELSE kept[x]
    BY <2>1, <2>4 DEF Shows
  <2>6. Follows(x) /\ (~crossed' => ~crossed)
    BY <1>3, <2>1 DEF PanelInv, KeepNews
  <2> QED BY <2>1, <2>3, <2>4, <2>5, <2>6 DEF Follows
<1>4. CASE NewsLine' = NewsLine /\ UNCHANGED <<latest, missed>> /\ ~KeepNews
  <2>1. Follows(x)
    BY <1>4 DEF PanelInv
  <2>2. crossed' = crossed /\ (~crossed => kept' = kept)
    BY <1>1, <1>4
  <2> QED BY <1>1, <1>4, <2>1, <2>2 DEF Follows
<1> QED BY <1>0, <1>2, <1>3, <1>4, LineStep

\* While nothing is due the panel shows what is kept.
LEMMA DisplayedStep ==
  ASSUME PanelInv, [PanelNext]_panelVars, NEW x \in Sides
  PROVE  Displayed(x)'
<1>0. Lines /\ PanelTyped /\ Replays /\ Backed /\ InHand /\ Displayed(x)
  BY DEF PanelInv
<1>1. /\ kept[x] # "" => kept'[x] # ""
      /\ ~KeepNews => crossed' = crossed /\ (~crossed => kept' = kept)
  BY <1>0, KeptStep
<1> SUFFICES ASSUME ~Due(x)', x \notin unheard'
             PROVE  (kept'[x] # "" => panel'[x] # "") /\ (~crossed' => panel'[x] = kept'[x])
  BY DEF Displayed
<1>2. /\ port' = "Live" /\ ~(power' > 0)
      /\ ~(writing' # <<>> /\ writing'[1].on = x)
      /\ replay' \notin {"ReadSong", "KeepSong", "WriteSong"}
      /\ x = "mode" => replay' \notin Stages \ {"Off"}
  BY SideFacts DEF Due, Stages
<1>3. CASE KeepNews
  <2> DEFINE n == Head(batch)
  <2>1. /\ n \in News /\ kept' = [kept EXCEPT ![n.on] = n.value]
        /\ writing = <<>> /\ writing' = <<n>>
    BY <1>0, <1>3 DEF Lines, KeepNews, Keep
  <2>5. UNCHANGED <<panel, unheard, port, power, replay>> /\ (~crossed' => ~crossed)
    BY <1>3 DEF KeepNews, device, resync
  <2>6. writing'[1] = n /\ writing' # <<>>
    BY <2>1
  <2> HIDE DEF n
  <2>2. n.on # x /\ ~Due(x)
    BY <1>2, <2>1, <2>5, <2>6, SideFacts DEF Due
  <2>3. n.on \in Sides /\ n.value \in Texts /\ kept \in Shows
    BY <1>0, <2>1, NewsFacts DEF PanelTyped
  <2>4. kept'[x] = kept[x]
    BY <2>1, <2>2, <2>3 DEF Shows
  <2> QED BY <1>0, <2>1, <2>2, <2>4, <2>5 DEF Displayed
<1>4. CASE WriteNews
  <2> DEFINE n == writing[1]
  <2>1. /\ n \in News /\ n = Head(writing) /\ writing # <<>>
        /\ UNCHANGED <<kept, crossed, port, power, replay>>
    BY <1>0, <1>4 DEF WriteNews, Lines, device, resync
  <2>2. \/ panel' = [panel EXCEPT ![n.on] = n.value] /\ unheard' = unheard \ {n.on}
        \/ panel' = panel /\ unheard' = unheard \cup {n.on}
    BY <1>2, <1>4, <2>1 DEF WriteNews, Write
  <2>3. ~crossed => n.value = kept[n.on]
    BY <1>0, <2>1 DEF InHand
  <2> HIDE DEF n
  <2>4. n.on \in Sides /\ n.value \in Texts /\ n.value # "" /\ panel \in Shows
    BY <1>0, <2>1, NewsFacts DEF PanelTyped
  <2>5. panel'[x] = IF x = n.on THEN n.value ELSE panel[x]
    BY <2>2, <2>4 DEF Shows
  <2>7. n.on # x => x \notin unheard
    BY <2>2
  <2>6. CASE n.on # x
    <3>1. ~Due(x)
      BY <1>2, <2>1, <2>6, SideFacts DEF Due, n
    <3> QED BY <1>0, <2>1, <2>5, <2>6, <2>7, <3>1 DEF Displayed
  <2> QED BY <2>1, <2>3, <2>4, <2>5, <2>6
<1>5. CASE Replay
  <2>1. /\ UNCHANGED <<crossed, port, power, writing>> /\ port = "Live" /\ ~(power > 0)
        /\ ~(writing # <<>> /\ writing[1].on = x)
    BY <1>2, <1>5 DEF Replay, Reading, device
  <2>2. panel \in Shows /\ carried \in Texts /\ kept \in Shows
    BY <1>0 DEF PanelTyped
  <2>3. CASE replay = "ReadSong"
    <3>1. /\ kept' = kept /\ panel' = panel
          /\ replay' = "KeepSong" \/ (replay' = "ReadMode" /\ kept["song"] = "")
      BY <1>5, <2>3 DEF Replay
    <3>2. x = "song" /\ kept["song"] = ""
      BY <1>2, <3>1, SideFacts DEF Stages
    <3>3. panel["song"] = ""
      BY <1>0, <3>2, SideFacts DEF Backed
    <3> QED BY <3>1, <3>2, <3>3
  <2>4. CASE replay = "KeepSong"
    BY <1>2, <1>5, <2>4, SideFacts DEF Replay, Stages
  <2>5. CASE replay = "WriteSong"
    <3>0. replay' = "ReadMode" /\ kept' = kept
      BY <1>5, <2>5 DEF Replay
    <3>2. x = "song"
      BY <1>2, <3>0, SideFacts DEF Stages
    <3>1. panel' = [panel EXCEPT !["song"] = carried]
      BY <1>5, <2>1, <2>5, <3>2 DEF Replay, Write
    <3>3. panel'[x] = carried
      BY <2>2, <3>1, <3>2 DEF Shows
    <3> QED BY <1>0, <2>1, <2>5, <3>0, <3>2, <3>3 DEF Replays
  <2>6. CASE replay = "ReadMode"
    <3>1. /\ kept' = kept /\ panel' = panel /\ unheard' = unheard
          /\ kept["mode"] = "" \/ replay' = "WriteMode"
      BY <1>5, <2>6 DEF Replay
    <3>2. CASE x = "song"
      <4>1. ~Due(x)
        BY <2>1, <2>6, <3>2 DEF Due
      <4> QED BY <1>0, <2>1, <3>1, <4>1 DEF Displayed
    <3>3. CASE x = "mode"
      <4>1. kept[x] = "" /\ panel[x] = ""
        BY <1>0, <1>2, <3>1, <3>3 DEF Stages, Backed
      <4> QED BY <3>1, <4>1
    <3> QED BY <3>2, <3>3, SideFacts
  <2>7. CASE replay = "WriteMode"
    <3>1. /\ kept' = kept
          /\ \/ panel' = [panel EXCEPT !["mode"] = carried] /\ unheard' = unheard \ {"mode"}
             \/ panel' = panel /\ unheard' = unheard \cup {"mode"}
      BY <1>5, <2>1, <2>7 DEF Replay, Write
    <3>2. panel'[x] = IF x = "mode" THEN carried ELSE panel[x]
      BY <2>2, <3>1, SideFacts DEF Shows
    <3>5. x # "mode" => x \notin unheard
      BY <3>1
    <3>3. CASE x = "song"
      <4>1. ~Due(x)
        BY <2>1, <2>7, <3>3 DEF Due
      <4> QED BY <1>0, <2>1, <3>1, <3>2, <3>3, <3>5, <4>1 DEF Displayed
    <3>4. CASE x = "mode"
      BY <1>0, <2>1, <2>7, <3>1, <3>2, <3>4 DEF Replays
    <3> QED BY <3>3, <3>4, SideFacts
  <2> QED BY <1>5, <2>3, <2>4, <2>5, <2>6, <2>7 DEF Replay
<1>6. CASE Reconnect \/ SwitchedOn
  BY <1>2, <1>6 DEF Reconnect, SwitchedOn
<1>7. CASE Unplug \/ ConnectionLost
  BY <1>2, <1>7 DEF Unplug, ConnectionLost
<1>8. CASE PowerUp
  <2>1. power \in Nat
    BY <1>0 DEF PanelTyped
  <2>2. power' = power + 1
    BY <1>8 DEF PowerUp
  <2>3. power' > 0
    BY <2>1, <2>2
  <2> QED BY <1>2, <2>3
<1>9. CASE UNCHANGED <<panel, unheard, kept, crossed, power, writing, replay, port>>
  <2>1. ~Due(x)
    BY <1>2, <1>9, SideFacts DEF Due
  <2> QED BY <1>0, <1>9, <2>1 DEF Displayed
<1> QED
  BY <1>3, <1>4, <1>5, <1>6, <1>7, <1>8, <1>9
  DEF PanelNext, panelVars, Announce, Drain, Plug, device, resync

LEMMA PanelInvariant == PanelSpec => []PanelInv
<1>1. PanelInv /\ [PanelNext]_panelVars => PanelInv'
  <2> SUFFICES ASSUME PanelInv, [PanelNext]_panelVars PROVE PanelInv'
    OBVIOUS
  <2>1. Lines' /\ PanelTyped'
    BY LinesStep, TypedStep DEF PanelInv
  <2> QED BY <2>1, ReplaysStep, BackedStep, FollowsStep, DisplayedStep DEF PanelInv
<1> QED BY <1>1, PanelStart, PTL DEF PanelSpec

\* Once nothing is under way a panel on the USB port that was unplugged, or
\* switched off, shows a song and a mode if there were any, and the last ones
\* unless an event came during a replay, but for what a live port did not take in
\* time: for any capacity of the channel.
THEOREM PanelIsShown == PanelSpec => []PanelShows
<1>1. PanelInv => PanelShows
  <2> SUFFICES ASSUME PanelInv, PanelQuiet PROVE PanelShows
    BY DEF PanelShows
  <2>1. NewsLine = <<>>
    BY LineFacts DEF PanelInv, PanelQuiet
  <2> SUFFICES ASSUME NEW x \in Sides, x \notin unheard
               PROVE  /\ latest[x] # "" => panel[x] # ""
                      /\ ~crossed => panel[x] = latest[x]
    BY DEF PanelShows
  <2>2. Displayed(x) /\ Follows(x)
    BY DEF PanelInv, PanelQuiet
  <2>3. ~Due(x)
    BY SideFacts DEF PanelQuiet, Due, Calm
  <2> QED BY <2>1, <2>2, <2>3, NoNews DEF Displayed, Follows
<1> QED BY <1>1, PanelInvariant, PTL

-----------------------------------------------------------------------------
(* The pages.                                                              *)

ModeNames == {"Sequential", "Random", "LoopSingle", "LoopQueue"}
Queues == [Song -> Nat]
Views  == [volume : Volumes, mode : ModeNames, playing : BOOLEAN, queue : Queues]
Events == [event : {"Volume"}, value : Volumes] \cup [event : {"Mode"}, value : ModeNames]
          \cup [event : {"State"}, value : BOOLEAN] \cup [event : {"Time"}, value : {0}]
          \cup [event : {"Queue"}, value : Queues]

\* Orders whose answer announces the volume; a step may be answered by nothing.
SureVerbs   == {"SetVol", "ToggleMute", "QueryVolume"}
SystemVerbs == SureVerbs \cup Steps
ModeVerbs   == {"Cycle", "QueryInfo"}
PlainVerbs  == {"Play", "Pause", "Toggle", "Cycle", "QueryInfo", "QueryVolume", "ToggleMute",
                "VolUp", "VolDown", "AddAll", "Load", "Move", "Clear", "QueryQueue"}
SongVerbs   == {"Add", "AddPlay", "Remove"}
Commands == [cmd : PlainVerbs] \cup [cmd : SongVerbs, song : Song]
            \cup [cmd : {"SetVol"}, volume : Volumes]

\* Only the one who edits sends commands for the queue, and removes only what is
\* taken off the page.
QueueVerbs == {"Add", "AddPlay", "AddAll", "Load", "Clear"}
Orders(c) ==
  {k \in Commands : IF c = Editor THEN k.cmd = "Remove" => k.song \in taken
                    ELSE k.cmd \notin QueueVerbs \cup {"Remove", "QueryQueue"}}
SystemOrders == {k \in Commands : k.cmd \in SystemVerbs}

Holding(c) == IF held[c] = None THEN <<>> ELSE <<held[c]>>

\* The commands on their way that will be handled before the next one of c.
Pipe(c) == system \o (inbox \o (Holding(c) \o up[c]))

ServerTyped ==
  /\ volume \in Volumes /\ lastTold \in Volumes /\ silent \in BOOLEAN /\ (silent \/ lastTold = volume)
  /\ mode \in ModeNames /\ playing \in BOOLEAN /\ queue \in Queues
OrdersTyped ==
  /\ inbox \in Seq(Orders(Editor)) /\ system \in Seq(SystemOrders)
  /\ DOMAIN up = Client /\ DOMAIN held = Client
  /\ \A c \in Client : up[c] \in Seq(Orders(c)) /\ (held[c] = None \/ held[c] \in Orders(c))
NewsTyped ==
  ring \in [Client -> Seq(Events)] /\ DOMAIN lagged = Client /\ view \in [Client -> Views]
PagesTyped ==
  /\ sock \in [Client -> {"Down", "Open"}]
  /\ page \in [Client -> {"Player", "Queue", "Library"}]
  /\ \A c \in Client \ {Editor} : page[c] = "Player"
LinkTyped == ServerTyped /\ OrdersTyped /\ NewsTyped /\ PagesTyped

\* No message of a line is in S; the last that is in S, if any, is in V.
Without(q, S)   == \A i \in DOMAIN q : q[i] \notin S
EndsIn(q, S, V) ==
  \A i \in DOMAIN q : q[i] \in S /\ (\A j \in DOMAIN q : i < j => q[j] \notin S) => q[i] \in V

\* What a page shows, the commands the server answers with it, and those that
\* change it unsaid.
Aspects == {"Volume", "Mode", "Queue"}
Asking(x) ==
  {k \in Commands : k.cmd \in (CASE x = "Volume" -> SureVerbs [] x = "Mode" -> ModeVerbs
                                 [] x = "Queue" -> {"QueryQueue"})}
Mattering(x) ==
  Asking(x) \cup {k \in Commands : x = "Queue" /\ k.cmd \in QueueVerbs}

Agreed(f) == \A s \in Song \ taken : f[s] = queue[s]
True(x) == CASE x = "Volume" -> {lastTold} [] x = "Mode" -> {mode} [] x = "Queue" -> {f \in Queues : Agreed(f)}
Seen(c, x) == CASE x = "Volume" -> view[c].volume [] x = "Mode" -> view[c].mode [] x = "Queue" -> view[c].queue
About(x) == {e \in Events : e.event = x}
Right(x) == {e \in Events : e.value \in True(x)}

\* What a page shows is right, or will be put right by what is on its way.
Watches(c, x) == sock[c] = "Open" /\ ~lagged[c] /\ (x = "Queue" => c = Editor /\ OnQueue(c))
Settles(c, x) ==
  /\ EndsIn(Pipe(c), Mattering(x), Asking(x))
  /\ Without(Pipe(c), Mattering(x)) =>
       /\ EndsIn(ring[c], About(x), Right(x))
       /\ Without(ring[c], About(x)) => Seen(c, x) \in True(x)

LinkInv == LinkTyped /\ \A c \in Client, x \in Aspects : Watches(c, x) => Settles(c, x)

LEMMA EventFacts ==
  /\ \A e \in Events :
       \/ e.event = "Volume" /\ e.value \in Volumes
       \/ e.event = "Mode" /\ e.value \in ModeNames
       \/ e.event = "State" /\ e.value \in BOOLEAN
       \/ e.event = "Time"
       \/ e.event = "Queue" /\ e.value \in Queues
  /\ \A v \in Volumes : Event("Volume", v) \in Events
  /\ \A m \in ModeNames : Event("Mode", m) \in Events
  /\ \A q \in Queues : Event("Queue", q) \in Events
  /\ \A b \in BOOLEAN : Event("State", b) \in Events
  /\ Event("Time", 0) \in Events
<1>1. \A b \in BOOLEAN : Event("State", b) \in Events
  BY DEF Events, Event
<1>2. \A v \in Volumes : Event("Volume", v) \in Events
  BY DEF Events, Event
<1>3. \A m \in ModeNames : Event("Mode", m) \in Events
  BY DEF Events, Event
<1>4. \A q \in Queues : Event("Queue", q) \in Events
  BY DEF Events, Event
<1>5. Event("Time", 0) \in Events
  BY DEF Events, Event
<1>6. ASSUME NEW e \in Events
      PROVE  \/ e.event = "Volume" /\ e.value \in Volumes
             \/ e.event = "Mode" /\ e.value \in ModeNames
             \/ e.event = "State" /\ e.value \in BOOLEAN
             \/ e.event = "Time"
             \/ e.event = "Queue" /\ e.value \in Queues
  BY DEF Events
<1> QED BY <1>1, <1>2, <1>3, <1>4, <1>5, <1>6

LEMMA EventIs == \A e, x : Event(e, x).event = e /\ Event(e, x).value = x
BY DEF Event

LEMMA ViewFacts ==
  ASSUME NEW v \in Views, NEW e \in Events
  PROVE  /\ Dispatched(v, e) \in Views
         /\ Dispatched(v, e).volume = IF e.event = "Volume" THEN e.value ELSE v.volume
         /\ Dispatched(v, e).mode = IF e.event = "Mode" THEN e.value ELSE v.mode
         /\ Dispatched(v, e).queue = IF e.event = "Queue" THEN e.value ELSE v.queue
<1>1. CASE e.event = "Volume" /\ e.value \in Volumes
  BY <1>1 DEF Views, Dispatched
<1>2. CASE e.event = "Mode" /\ e.value \in ModeNames
  BY <1>2 DEF Views, Dispatched
<1>3. CASE e.event = "State" /\ e.value \in BOOLEAN
  BY <1>3 DEF Views, Dispatched
<1>4. CASE e.event = "Time"
  BY <1>4 DEF Views, Dispatched
<1>5. CASE e.event = "Queue" /\ e.value \in Queues
  BY <1>5 DEF Views, Dispatched
<1> QED BY <1>1, <1>2, <1>3, <1>4, <1>5, EventFacts

LEMMA TakenOff ==
  ASSUME NEW f \in [Client -> Views], NEW c \in Client, NEW s \in Song, NEW g,
         g = [f EXCEPT ![c].queue[s] = 0]
  PROVE  /\ g \in [Client -> Views]
         /\ \A d \in Client : g[d].volume = f[d].volume /\ g[d].mode = f[d].mode
         /\ \A t \in Song \ {s} : g[c].queue[t] = f[c].queue[t]
BY DEF Views, Queues

LEMMA CommandFacts ==
  /\ \A v \in PlainVerbs : Plain(v) \in Commands /\ Plain(v).cmd = v
  /\ \A v \in SongVerbs, s \in Song :
       With(v, s) \in Commands /\ With(v, s).cmd = v /\ With(v, s).song = s
  /\ \A v \in Volumes : /\ [cmd |-> "SetVol", volume |-> v] \in Commands
                        /\ [cmd |-> "SetVol", volume |-> v].cmd = "SetVol"
<1>1. \A v \in PlainVerbs : Plain(v) \in Commands /\ Plain(v).cmd = v
  BY DEF Plain, Commands
<1>2. \A v \in SongVerbs, s \in Song :
       With(v, s) \in Commands /\ With(v, s).cmd = v /\ With(v, s).song = s
  BY DEF With, Commands
<1>3. ASSUME NEW v \in Volumes PROVE [cmd |-> "SetVol", volume |-> v] \in Commands
  BY DEF Commands
<1> QED BY <1>1, <1>2, <1>3

LEMMA CommandIs ==
  ASSUME NEW k \in Commands
  PROVE  /\ k.cmd \in PlainVerbs \cup SongVerbs \cup {"SetVol"} /\ k # None
         /\ k.cmd \in SongVerbs => k.song \in Song
         /\ k.cmd = "SetVol" => k.volume \in Volumes
<1>1. /\ k.cmd \in PlainVerbs \cup SongVerbs \cup {"SetVol"}
      /\ k.cmd \in SongVerbs => k.song \in Song
      /\ k.cmd = "SetVol" => k.volume \in Volumes
  BY DEF Commands, PlainVerbs, SongVerbs
<1>2. k # None
  BY DEF None, Commands, PlainVerbs, SongVerbs
<1> QED BY <1>1, <1>2

LEMMA EndsJoined ==
  ASSUME NEW T, NEW q \in Seq(T), NEW r \in Seq(T), NEW S, NEW V
  PROVE  /\ q \o r \in Seq(T)
         /\ Without(q \o r, S) <=> Without(q, S) /\ Without(r, S)
         /\ EndsIn(q \o r, S, V) <=> EndsIn(r, S, V) /\ (Without(r, S) => EndsIn(q, S, V))
<1> DEFINE p == q \o r  m == Len(q)  n == Len(r)
<1>1. /\ m \in Nat /\ n \in Nat /\ DOMAIN q = 1..m /\ DOMAIN r = 1..n /\ DOMAIN p = 1..m + n
      /\ \A i \in 1..m : p[i] = q[i]
      /\ \A i \in 1..n : p[m + i] = r[i]
      /\ p \in Seq(T)
  OBVIOUS
<1> HIDE DEF p, m, n
<1>2. /\ \A i \in 1..m : i \in 1..m + n
      /\ \A i \in 1..n : m + i \in 1..m + n
      /\ \A i \in 1..m + n : i \in 1..m \/ (i - m \in 1..n /\ i = m + (i - m))
  BY <1>1
<1>3. Without(p, S) <=> Without(q, S) /\ Without(r, S)
  <2>1. Without(p, S) => Without(q, S) /\ Without(r, S)
    BY <1>1, <1>2 DEF Without
  <2>2. ASSUME Without(q, S), Without(r, S), NEW i \in 1..m + n PROVE p[i] \notin S
    <3>1. CASE i \in 1..m
      BY <1>1, <2>2, <3>1 DEF Without
    <3>2. CASE i - m \in 1..n /\ i = m + (i - m)
      <4>1. p[i] = r[i - m]
        BY <1>1, <3>2
      <4> QED BY <1>1, <2>2, <3>2, <4>1 DEF Without
    <3> QED BY <1>2, <3>1, <3>2
  <2> QED BY <1>1, <2>1, <2>2 DEF Without
<1>4. ASSUME EndsIn(p, S, V) PROVE EndsIn(r, S, V)
  <2> SUFFICES ASSUME NEW i \in 1..n, r[i] \in S, \A j \in 1..n : i < j => r[j] \notin S
               PROVE  r[i] \in V
    BY <1>1 DEF EndsIn
  <2>1. m + i \in 1..m + n /\ p[m + i] = r[i]
    BY <1>1, <1>2
  <2>2. ASSUME NEW j \in 1..m + n, m + i < j PROVE p[j] \notin S
    <3>1. j - m \in 1..n /\ i < j - m /\ p[j] = r[j - m]
      BY <1>1, <1>2, <2>2
    <3> QED BY <3>1
  <2> QED BY <1>1, <1>4, <2>1, <2>2 DEF EndsIn
<1>5. ASSUME EndsIn(p, S, V), Without(r, S) PROVE EndsIn(q, S, V)
  <2> SUFFICES ASSUME NEW i \in 1..m, q[i] \in S, \A j \in 1..m : i < j => q[j] \notin S
               PROVE  q[i] \in V
    BY <1>1 DEF EndsIn
  <2>1. i \in 1..m + n /\ p[i] = q[i]
    BY <1>1, <1>2
  <2>2. ASSUME NEW j \in 1..m + n, i < j PROVE p[j] \notin S
    <3>1. CASE j \in 1..m
      BY <1>1, <2>2, <3>1
    <3>2. CASE j - m \in 1..n /\ j = m + (j - m)
      <4>1. p[j] = r[j - m]
        BY <1>1, <3>2
      <4> QED BY <1>1, <1>5, <3>2, <4>1 DEF Without
    <3> QED BY <1>2, <3>1, <3>2
  <2> QED BY <1>1, <1>5, <2>1, <2>2 DEF EndsIn
<1>6. ASSUME EndsIn(r, S, V), Without(r, S) => EndsIn(q, S, V) PROVE EndsIn(p, S, V)
  <2> SUFFICES ASSUME NEW i \in 1..m + n, p[i] \in S, \A j \in 1..m + n : i < j => p[j] \notin S
               PROVE  p[i] \in V
    BY <1>1 DEF EndsIn
  <2>1. CASE i - m \in 1..n /\ i = m + (i - m)
    <3>1. r[i - m] = p[i]
      BY <1>1, <2>1
    <3>2. ASSUME NEW j \in 1..n, i - m < j PROVE r[j] \notin S
      <4>1. p[m + j] = r[j] /\ m + j \in 1..m + n /\ i < m + j
        BY <1>1, <1>2, <2>1, <3>2
      <4> QED BY <4>1
    <3> QED BY <1>1, <1>6, <2>1, <3>1, <3>2 DEF EndsIn
  <2>2. CASE i \in 1..m
    <3>1. Without(r, S)
      <4> SUFFICES ASSUME NEW j \in 1..n PROVE r[j] \notin S
        BY <1>1 DEF Without
      <4>1. m + j \in 1..m + n /\ i < m + j /\ p[m + j] = r[j]
        BY <1>1, <2>2, <1>2
      <4> QED BY <4>1
    <3>2. \A j \in 1..m : i < j => q[j] \notin S
      BY <1>1, <1>2
    <3> QED BY <1>1, <1>6, <2>2, <3>1, <3>2 DEF EndsIn
  <2> QED BY <1>2, <2>1, <2>2
<1> QED BY <1>1, <1>3, <1>4, <1>5, <1>6 DEF p

LEMMA EndsOne ==
  /\ \A S, V : Without(<<>>, S) /\ EndsIn(<<>>, S, V)
  /\ \A k, S, V : /\ Without(<<k>>, S) <=> k \notin S
                  /\ EndsIn(<<k>>, S, V) <=> (k \in S => k \in V)
<1>1. \A S, V : Without(<<>>, S) /\ EndsIn(<<>>, S, V)
  BY DEF Without, EndsIn
<1>2. \A k : DOMAIN <<k>> = {1} /\ <<k>>[1] = k
  OBVIOUS
<1>3. ASSUME NEW k, NEW S, NEW V
      PROVE  /\ Without(<<k>>, S) <=> k \notin S
             /\ EndsIn(<<k>>, S, V) <=> (k \in S => k \in V)
  BY <1>2 DEF Without, EndsIn
<1> QED BY <1>1, <1>3

LEMMA HeadJoined ==
  ASSUME NEW T, NEW q \in Seq(T), q # <<>>
  PROVE  Head(q) \in T /\ Tail(q) \in Seq(T) /\ <<Head(q)>> \in Seq(T) /\ q = <<Head(q)>> \o Tail(q)
<1>1. Head(q) \in T /\ Tail(q) \in Seq(T) /\ <<Head(q)>> \in Seq(T) /\ <<Head(q)>> \o Tail(q) \in Seq(T)
  OBVIOUS
<1>2. Len(<<Head(q)>> \o Tail(q)) = Len(q)
  OBVIOUS
<1>3. \A i \in 1..Len(q) : (<<Head(q)>> \o Tail(q))[i] = q[i]
  OBVIOUS
<1> QED BY <1>1, <1>2, <1>3, SeqEqual

LEMMA FourJoined ==
  ASSUME NEW T, NEW s \in Seq(T), NEW i \in Seq(T), NEW h \in Seq(T), NEW u \in Seq(T), NEW S, NEW V
  PROVE  /\ Without(s \o (i \o (h \o u)), S) <=>
               Without(s, S) /\ Without(i, S) /\ Without(h, S) /\ Without(u, S)
         /\ EndsIn(s \o (i \o (h \o u)), S, V) <=>
               /\ EndsIn(u, S, V)
               /\ Without(u, S) =>
                    /\ EndsIn(h, S, V)
                    /\ Without(h, S) => EndsIn(i, S, V) /\ (Without(i, S) => EndsIn(s, S, V))
<1>1. h \o u \in Seq(T) /\ i \o (h \o u) \in Seq(T)
  BY EndsJoined
<1>2. /\ Without(h \o u, S) <=> Without(h, S) /\ Without(u, S)
      /\ EndsIn(h \o u, S, V) <=> EndsIn(u, S, V) /\ (Without(u, S) => EndsIn(h, S, V))
  BY EndsJoined
<1>3. /\ Without(i \o (h \o u), S) <=> Without(i, S) /\ Without(h \o u, S)
      /\ EndsIn(i \o (h \o u), S, V) <=>
           EndsIn(h \o u, S, V) /\ (Without(h \o u, S) => EndsIn(i, S, V))
  BY <1>1, EndsJoined
<1>4. /\ Without(s \o (i \o (h \o u)), S) <=> Without(s, S) /\ Without(i \o (h \o u), S)
      /\ EndsIn(s \o (i \o (h \o u)), S, V) <=>
           EndsIn(i \o (h \o u), S, V) /\ (Without(i \o (h \o u), S) => EndsIn(s, S, V))
  BY <1>1, EndsJoined
<1> QED BY <1>2, <1>3, <1>4

LEMMA LastPart ==
  ASSUME NEW T, NEW q \in Seq(T), NEW m \in 1..Len(q) + 1
  PROVE  SubSeq(q, m, Len(q)) \in Seq(T)
OBVIOUS

LEMMA OneSeq == ASSUME NEW T, NEW k \in T PROVE <<k>> \in Seq(T) /\ <<>> \in Seq(T)
OBVIOUS

\* What an event that is told adds for a browser that does not lag.
Told(es) ==
  \A c \in Client : sock[c] = "Open" /\ ~lagged'[c] => ~lagged[c] /\ ring'[c] = ring[c] \o es

LEMMA TellFacts ==
  ASSUME LinkTyped, NEW es \in Seq(Events), Tell(es) \/ (es = <<>> /\ UNCHANGED <<ring, lagged>>)
  PROVE  /\ ring' \in [Client -> Seq(Events)] /\ DOMAIN lagged' = Client
         /\ Told(es)
<1>1. ring \in [Client -> Seq(Events)] /\ DOMAIN lagged = Client
  BY DEF LinkTyped, ServerTyped, OrdersTyped, NewsTyped, PagesTyped
<1>2. CASE Tell(es)
  <2> DEFINE Both(c) == ring[c] \o es
  <2>1. \A c \in Client : Both(c) \in Seq(Events)
    BY <1>1
  <2>2. /\ DOMAIN ring' = Client /\ DOMAIN lagged' = Client
        /\ \A c \in Client :
             /\ ring'[c] = IF sock[c] # "Open" THEN <<>> ELSE IF Len(Both(c)) <= Slots THEN Both(c)
                           ELSE SubSeq(Both(c), Len(Both(c)) - Slots + 1, Len(Both(c)))
             /\ lagged'[c] = (lagged[c] \/ (sock[c] = "Open" /\ Len(Both(c)) > Slots))
    BY <1>2 DEF Tell
  <2> HIDE DEF Both
  <2>3. ring' = [c \in Client |-> ring'[c]]
    BY <1>2 DEF Tell
  <2>4. ASSUME NEW c \in Client PROVE ring'[c] \in Seq(Events)
    <3>1. CASE sock[c] # "Open"
      <4>1. ring'[c] = <<>>
        BY <2>2, <3>1
      <4> QED BY <4>1
    <3>2. CASE sock[c] = "Open" /\ Len(Both(c)) <= Slots
      BY <2>1, <2>2, <3>2
    <3>3. CASE sock[c] = "Open" /\ ~(Len(Both(c)) <= Slots)
      <4>1. ring'[c] = SubSeq(Both(c), Len(Both(c)) - Slots + 1, Len(Both(c)))
        BY <2>2, <3>3
      <4>2. Len(Both(c)) - Slots + 1 \in 1..Len(Both(c)) + 1
        BY <2>1, <3>3, WebAssumption
      <4> QED BY <2>1, <4>1, <4>2, LastPart
    <3> QED BY <3>1, <3>2, <3>3
  <2>5. ASSUME NEW c \in Client, sock[c] = "Open", ~lagged'[c]
        PROVE  ~lagged[c] /\ ring'[c] = Both(c)
    <3>1. ~lagged[c] /\ ~(Len(Both(c)) > Slots)
      BY <2>2, <2>5
    <3>2. Len(Both(c)) <= Slots
      BY <2>1, <3>1, WebAssumption
    <3> QED BY <2>2, <2>5, <3>1, <3>2
  <2> QED BY <2>2, <2>3, <2>4, <2>5 DEF Told, Both
<1>3. CASE es = <<>> /\ UNCHANGED <<ring, lagged>>
  <2>1. \A c \in Client : ring[c] \o <<>> = ring[c]
    BY <1>1, ConcatEmptySeq
  <2> QED BY <1>1, <1>3, <2>1 DEF Told
<1> QED BY <1>2, <1>3

\* Reports that a song plays or not, and of the time, are about nothing else.
LEMMA AboutFacts ==
  /\ \A b, x : x \in Aspects => /\ Event("State", b) \notin About(x)
                               /\ Event("Time", b) \notin About(x)
  /\ \A v, x : x \in Aspects /\ x # "Volume" => Event("Volume", v) \notin About(x)
  /\ \A v, x : x \in Aspects /\ x # "Mode" => Event("Mode", v) \notin About(x)
  /\ \A v, x : x \in Aspects /\ x # "Queue" => Event("Queue", v) \notin About(x)
BY EventIs DEF About, Aspects

LEMMA StateNewsFacts ==
  ASSUME LinkTyped, NEW b \in BOOLEAN
  PROVE  /\ Stopping \in Seq(Events) /\ Stopping \o <<Event("State", b)>> \in Seq(Events)
         /\ \A x \in Aspects : /\ Without(Stopping, About(x))
                              /\ Without(Stopping \o <<Event("State", b)>>, About(x))
<1>1. Event("State", FALSE) \in Events /\ Event("State", b) \in Events
  BY EventFacts
<1>2. <<Event("State", b)>> \in Seq(Events) /\ <<Event("State", FALSE)>> \in Seq(Events) /\ <<>> \in Seq(Events)
  BY <1>1, OneSeq
<1>3. Stopping \in Seq(Events)
  BY <1>2 DEF Stopping
<1>4. \A x \in Aspects : Without(Stopping, About(x))
  BY EndsOne, AboutFacts DEF Stopping
<1>5. \A x \in Aspects : Without(<<Event("State", b)>>, About(x))
  BY EndsOne, AboutFacts
<1> QED BY <1>2, <1>3, <1>4, <1>5, EndsJoined

LEMMA ModeFacts == ASSUME NEW m \in ModeNames PROVE NextMode(m) \in ModeNames
<1>1. \E k \in DOMAIN Modes : Modes[k] = m
  BY DEF Modes, ModeNames
<1> DEFINE i == CHOOSE k \in DOMAIN Modes : Modes[k] = m
<1>2. i \in DOMAIN Modes
  BY <1>1
<1> HIDE DEF i
<1>3. i \in 1..4 /\ Len(Modes) = 4
  BY <1>2 DEF Modes
<1>4. \A j \in 1..4 : Modes[j] \in ModeNames
  BY DEF Modes, ModeNames
<1>5. Modes[IF i = Len(Modes) THEN 1 ELSE i + 1] \in ModeNames
  BY <1>3, <1>4
<1> QED BY <1>5 DEF NextMode, i

LEMMA QueueFacts ==
  ASSUME queue \in Queues, NEW s \in Song
  PROVE  /\ Added(s) \in Queues /\ Removed(s) \in Queues
         /\ \A t \in Song \ {s} : Removed(s)[t] = queue[t]
BY DEF Queues, Added, Removed

LEMMA WholeQueues ==
  ASSUME queue \in Queues
  PROVE  /\ Empty \in Queues /\ [s \in Song |-> 1] \in Queues
         /\ [s \in Song |-> queue[s] + 1] \in Queues
BY DEF Queues, Empty

\* What the commands of the player and of the queue do.
LEMMA CommandEffect ==
  ASSUME LinkTyped, NEW k \in Orders(Editor), PlayerCommand(k) \/ QueueCommand(k)
  PROVE  \E es \in Seq(Events) :
           /\ Tell(es) \/ (es = <<>> /\ TellNobody)
           /\ mode' \in ModeNames /\ playing' \in BOOLEAN /\ queue' \in Queues
           /\ Without(es, About("Volume"))
           /\ IF k.cmd \in ModeVerbs THEN es = <<Event("Mode", mode')>>
              ELSE mode' = mode /\ Without(es, About("Mode"))
           /\ IF k.cmd = "QueryQueue" THEN queue' = queue /\ es = <<Event("Queue", queue)>>
              ELSE Without(es, About("Queue"))
           /\ k.cmd \notin QueueVerbs => \A s \in Song \ taken : queue'[s] = queue[s]
<1>0. /\ k \in Commands
      /\ k.cmd = "Remove" => k.song \in taken
      /\ mode \in ModeNames /\ playing \in BOOLEAN /\ queue \in Queues
  BY DEF Orders, LinkTyped, ServerTyped, OrdersTyped, NewsTyped, PagesTyped
<1>1. <<>> \in Seq(Events)
  OBVIOUS
<1>2. \A b \in BOOLEAN : /\ Stopping \in Seq(Events) /\ Stopping \o <<Event("State", b)>> \in Seq(Events)
                         /\ \A x \in Aspects : /\ Without(Stopping, About(x))
                                              /\ Without(Stopping \o <<Event("State", b)>>, About(x))
  BY StateNewsFacts
<1>3. ASSUME NEW q, StartWith(q)
      PROVE  playing' \in BOOLEAN /\ \E es \in Seq(Events) : Tell(es) /\ \A x \in Aspects : Without(es, About(x))
  <2>1. playing' \in BOOLEAN
    BY <1>3 DEF StartWith
  <2> QED BY <1>2, <1>3, <2>1 DEF StartWith
<1>4. ASSUME Stop
      PROVE  playing' \in BOOLEAN /\ \E es \in Seq(Events) : Tell(es) /\ \A x \in Aspects : Without(es, About(x))
  BY <1>2, <1>4 DEF Stop
<1>5. "Volume" \in Aspects /\ "Mode" \in Aspects /\ "Queue" \in Aspects
  BY DEF Aspects
<1>6. ASSUME NEW es \in Seq(Events), \A x \in Aspects : Without(es, About(x)),
             Tell(es) \/ (es = <<>> /\ TellNobody),
             mode' = mode, playing' \in BOOLEAN, queue' \in Queues,
             k.cmd \notin ModeVerbs, k.cmd # "QueryQueue",
             k.cmd \notin QueueVerbs => \A s \in Song \ taken : queue'[s] = queue[s]
      PROVE  \E fs \in Seq(Events) :
               /\ Tell(fs) \/ (fs = <<>> /\ TellNobody)
               /\ mode' \in ModeNames /\ playing' \in BOOLEAN /\ queue' \in Queues
               /\ Without(fs, About("Volume"))
               /\ IF k.cmd \in ModeVerbs THEN fs = <<Event("Mode", mode')>>
                  ELSE mode' = mode /\ Without(fs, About("Mode"))
               /\ IF k.cmd = "QueryQueue" THEN queue' = queue /\ fs = <<Event("Queue", queue)>>
                  ELSE Without(fs, About("Queue"))
               /\ k.cmd \notin QueueVerbs => \A s \in Song \ taken : queue'[s] = queue[s]
  BY <1>0, <1>5, <1>6
<1>7. ASSUME k.cmd \in {"Play", "Pause", "Toggle"}, PlayerCommand(k)
      PROVE  /\ mode' = mode /\ queue' = queue
             /\ (\E q : StartWith(q)) \/ Stop
  BY <1>7 DEF PlayerCommand
<1>8. ASSUME k.cmd \in {"AddPlay", "Load", "Clear"}, QueueCommand(k)
      PROVE  /\ mode' = mode /\ queue' \in Queues
             /\ (\E q : StartWith(q)) \/ Stop
  <2>1. k.cmd = "AddPlay" => k.song \in Song
    BY <1>0, CommandIs DEF SongVerbs
  <2>2. queue' \in Queues
    BY <1>0, <1>8, <2>1, QueueFacts, WholeQueues DEF QueueCommand
  <2> QED BY <1>8, <2>2 DEF QueueCommand
<1>9. CASE PlayerCommand(k) /\ k.cmd \in {"Play", "Pause", "Toggle"}
  <2>1. PICK es \in Seq(Events) : Tell(es) /\ \A x \in Aspects : Without(es, About(x))
    BY <1>3, <1>4, <1>7, <1>9
  <2>2. mode' = mode /\ queue' = queue /\ playing' \in BOOLEAN
    BY <1>3, <1>4, <1>7, <1>9
  <2>3. k.cmd \notin ModeVerbs /\ k.cmd # "QueryQueue"
    BY <1>9 DEF ModeVerbs
  <2> QED BY <1>0, <1>6, <2>1, <2>2, <2>3
<1>10. CASE QueueCommand(k) /\ k.cmd \in {"AddPlay", "Load", "Clear"}
  <2>1. PICK es \in Seq(Events) : Tell(es) /\ \A x \in Aspects : Without(es, About(x))
    BY <1>3, <1>4, <1>8, <1>10
  <2>2. mode' = mode /\ queue' \in Queues /\ playing' \in BOOLEAN
    BY <1>3, <1>4, <1>8, <1>10
  <2>3. k.cmd \notin ModeVerbs /\ k.cmd # "QueryQueue" /\ k.cmd \in QueueVerbs
    BY <1>10 DEF ModeVerbs, QueueVerbs
  <2> QED BY <1>6, <2>1, <2>2, <2>3
<1>11. CASE PlayerCommand(k) /\ k.cmd \in {"Cycle", "QueryInfo"}
  <2>1. /\ mode' \in ModeNames /\ playing' = playing /\ queue' = queue
        /\ Tell(<<Event("Mode", mode')>>)
    BY <1>0, <1>11, ModeFacts DEF PlayerCommand
  <2>2. <<Event("Mode", mode')>> \in Seq(Events)
    BY <2>1, EventFacts, OneSeq
  <2>3. k.cmd \in ModeVerbs /\ k.cmd # "QueryQueue"
    BY <1>11 DEF ModeVerbs
  <2>4. Without(<<Event("Mode", mode')>>, About("Volume")) /\ Without(<<Event("Mode", mode')>>, About("Queue"))
    BY <1>5, EndsOne, AboutFacts
  <2> QED BY <1>0, <2>1, <2>2, <2>3, <2>4
<1>12. CASE QueueCommand(k) /\ k.cmd \in {"Add", "AddAll", "Remove", "Move"}
  <2>1. k.cmd \in {"Add", "Remove"} => k.song \in Song
    BY <1>0, CommandIs DEF SongVerbs
  <2>2. queue' \in Queues
    BY <1>0, <1>12, <2>1, QueueFacts, WholeQueues DEF QueueCommand
  <2>3. mode' = mode /\ playing' = playing /\ TellNobody
    BY <1>12 DEF QueueCommand
  <2>4. k.cmd \notin ModeVerbs /\ k.cmd # "QueryQueue"
    BY <1>12 DEF ModeVerbs
  <2>5. k.cmd \notin QueueVerbs => \A s \in Song \ taken : queue'[s] = queue[s]
    <3>1. k.cmd \in {"Add", "AddAll"} => k.cmd \in QueueVerbs
      BY DEF QueueVerbs
    <3>2. ASSUME k.cmd = "Remove" PROVE \A s \in Song \ taken : queue'[s] = queue[s]
      <4>1. k.song \in Song /\ k.song \in taken /\ queue' = Removed(k.song)
        BY <1>0, <1>12, <2>1, <3>2 DEF QueueCommand
      <4> QED BY <1>0, <4>1, QueueFacts
    <3>3. k.cmd = "Move" => queue' = queue
      BY <1>12 DEF QueueCommand
    <3> QED BY <1>12, <3>1, <3>2, <3>3
  <2>6. \A x \in Aspects : Without(<<>>, About(x))
    BY EndsOne
  <2> QED BY <1>0, <1>1, <1>6, <2>2, <2>3, <2>4, <2>5, <2>6
<1>13. CASE QueueCommand(k) /\ k.cmd = "QueryQueue"
  <2>1. /\ mode' = mode /\ playing' = playing /\ queue' = queue
        /\ Tell(<<Event("Queue", queue)>>)
    BY <1>13 DEF QueueCommand
  <2>2. <<Event("Queue", queue)>> \in Seq(Events)
    BY <1>0, EventFacts, OneSeq
  <2>3. k.cmd \notin ModeVerbs
    BY <1>13 DEF ModeVerbs
  <2>4. Without(<<Event("Queue", queue)>>, About("Volume")) /\ Without(<<Event("Queue", queue)>>, About("Mode"))
    BY <1>5, EndsOne, AboutFacts
  <2> QED BY <1>0, <1>13, <2>1, <2>2, <2>3, <2>4
<1>14. PlayerCommand(k) => k.cmd \in {"Play", "Pause", "Toggle", "Cycle", "QueryInfo"}
  BY DEF PlayerCommand
<1>15. QueueCommand(k) => k.cmd \in {"Add", "AddPlay", "AddAll", "Load", "Remove", "Move", "Clear", "QueryQueue"}
  BY DEF QueueCommand
<1> QED BY <1>9, <1>10, <1>11, <1>12, <1>13, <1>14, <1>15

LEMMA EndsTwo ==
  ASSUME NEW a, NEW b, NEW S, NEW V, b \in S, b \in V
  PROVE  EndsIn(<<a, b>>, S, V) /\ ~Without(<<a, b>>, S)
<1>1. DOMAIN <<a, b>> = 1..2 /\ <<a, b>>[2] = b
  OBVIOUS
<1>2. 2 \in 1..2 /\ \A i \in 1..2 : i < 2 \/ i = 2
  OBVIOUS
<1> DEFINE q == <<a, b>>
<1> HIDE DEF q
<1>3. DOMAIN q = 1..2 /\ q[2] = b
  BY <1>1 DEF q
<1>4. EndsIn(q, S, V) /\ ~Without(q, S)
  BY <1>2, <1>3 DEF EndsIn, Without
<1> QED BY <1>4 DEF q

LEMMA AskFacts ==
  ASSUME NEW k \in Commands
  PROVE  /\ k \in Asking("Volume") <=> k.cmd \in SureVerbs
         /\ k \in Mattering("Volume") <=> k.cmd \in SureVerbs
         /\ k \in Asking("Mode") <=> k.cmd \in ModeVerbs
         /\ k \in Mattering("Mode") <=> k.cmd \in ModeVerbs
         /\ k \in Asking("Queue") <=> k.cmd = "QueryQueue"
         /\ k \in Mattering("Queue") <=> k.cmd \in QueueVerbs \cup {"QueryQueue"}
BY DEF Asking, Mattering

LEMMA OrderFacts ==
  /\ \A c \in Client : Orders(c) \subseteq Commands /\ Orders(c) \subseteq Orders(Editor)
  /\ SystemOrders \subseteq Commands
<1>1. ASSUME NEW c \in Client, NEW k \in Orders(c) PROVE k \in Orders(Editor)
  BY <1>1 DEF Orders
<1> QED BY <1>1 DEF Orders, SystemOrders

LEMMA SeqGrows == ASSUME NEW T, NEW U, T \subseteq U PROVE Seq(T) \subseteq Seq(U)
OBVIOUS

\* What a user does on a page: what is sent, and what the page shows of it.
UserSent(c, ks) ==
  /\ ks \in Seq(Orders(c)')
  /\ \/ up' = up /\ (sock[c] # "Open" \/ ~OnQueue(c)')
     \/ sock[c] = "Open" /\ up' = [up EXCEPT ![c] = @ \o ks]
  /\ view' \in [Client -> Views] /\ page' \in [Client -> {"Player", "Queue", "Library"}]
  /\ \A d \in Client : view'[d].volume = view[d].volume /\ view'[d].mode = view[d].mode
  /\ \A d \in Client \ {Editor} : page'[d] = page[d]
  /\ taken \subseteq taken' /\ (c # Editor => UNCHANGED <<page, view>>)
  /\ OnQueue(c)' =>
       /\ EndsIn(ks, Mattering("Queue"), Asking("Queue"))
       /\ \/ ~Without(ks, Mattering("Queue"))
          \/ OnQueue(c) /\ \A s \in Song \ taken' : view'[c].queue[s] = view[c].queue[s]

\* A command that is sent and changes nothing on the page.
LEMMA PlainlySent ==
  ASSUME LinkTyped, NEW c \in Client, NEW k \in Commands, Send(c, <<k>>), UNCHANGED <<page, view, taken>>,
         k.cmd \notin QueueVerbs \cup {"Remove", "QueryQueue"}
  PROVE  UserSent(c, <<k>>)
<1>1. k \in Orders(c)'
  BY DEF Orders
<1>2. <<k>> \in Seq(Orders(c)')
  BY <1>1, OneSeq
<1>3. k \notin Mattering("Queue")
  BY AskFacts
<1>4. EndsIn(<<k>>, Mattering("Queue"), Asking("Queue"))
  BY <1>3, EndsOne
<1>5. \/ up' = up /\ sock[c] # "Open"
      \/ sock[c] = "Open" /\ up' = [up EXCEPT ![c] = @ \o <<k>>]
  BY DEF Send
<1>6. view \in [Client -> Views] /\ page \in [Client -> {"Player", "Queue", "Library"}]
  BY DEF LinkTyped, ServerTyped, OrdersTyped, NewsTyped, PagesTyped
<1>7. OnQueue(c)' <=> OnQueue(c)
  BY DEF OnQueue
<1> QED BY <1>2, <1>4, <1>5, <1>6, <1>7 DEF UserSent

\* Commands of the one who edits, the last of them asking for the queue.
LEMMA SentAsking ==
  ASSUME LinkTyped, NEW ks, UNCHANGED <<view, taken>>, Send(Editor, ks),
         ks = <<Plain("QueryQueue")>>
         \/ \E k \in Orders(Editor) : ks = <<k, Plain("QueryQueue")>>,
         page' \in [Client -> {"Player", "Queue", "Library"}],
         \A d \in Client \ {Editor} : page'[d] = page[d]
  PROVE  UserSent(Editor, ks)
<1> DEFINE a == Plain("QueryQueue")
<1>1. a \in Commands /\ a.cmd = "QueryQueue"
  BY CommandFacts DEF PlainVerbs
<1> HIDE DEF a
<1>2. a \in Mattering("Queue") /\ a \in Asking("Queue") /\ a \in Orders(Editor)
  BY <1>1, AskFacts DEF Orders
<1>3. ks \in Seq(Orders(Editor)) /\ ~Without(ks, Mattering("Queue"))
      /\ EndsIn(ks, Mattering("Queue"), Asking("Queue"))
  <2>1. CASE ks = <<a>>
    BY <1>2, <2>1, EndsOne, OneSeq
  <2>2. CASE \E k \in Orders(Editor) : ks = <<k, a>>
    <3>1. PICK k \in Orders(Editor) : ks = <<k, a>>
      BY <2>2
    <3>2. <<k, a>> \in Seq(Orders(Editor))
      BY <1>2
    <3> QED BY <1>2, <3>1, <3>2, EndsTwo
  <2> QED BY <2>1, <2>2 DEF a
<1>4. Orders(Editor)' = Orders(Editor)
  BY DEF Orders
<1>5. \/ up' = up /\ sock[Editor] # "Open"
      \/ sock[Editor] = "Open" /\ up' = [up EXCEPT ![Editor] = @ \o ks]
  BY DEF Send
<1>6. view \in [Client -> Views]
  BY DEF LinkTyped, ServerTyped, OrdersTyped, NewsTyped, PagesTyped
<1> QED BY <1>3, <1>4, <1>5, <1>6 DEF UserSent

UserActs(c) ==
  \/ Controls(c) \/ FooterPlayer(c) \/ Keys(c)
  \/ c = Editor /\ (Navigate(c) \/ QueuePage(c) \/ LibraryRow(c) \/ PlaylistModal(c))

\* A command of a library page.
LEMMA LibrarySent ==
  ASSUME LinkTyped, NEW k \in Commands, k.cmd # "Remove", Send(Editor, <<k>>),
         UNCHANGED <<page, view, taken>>, ~OnQueue(Editor)
  PROVE  UserSent(Editor, <<k>>)
<1>1. <<k>> \in Seq(Orders(Editor)')
  <2>1. k \in Orders(Editor)'
    BY DEF Orders
  <2> QED BY <2>1, OneSeq
<1>2. /\ ~OnQueue(Editor)' /\ view \in [Client -> Views]
      /\ page \in [Client -> {"Player", "Queue", "Library"}]
  BY DEF LinkTyped, OnQueue, ServerTyped, OrdersTyped, NewsTyped, PagesTyped
<1>3. \/ up' = up /\ sock[Editor] # "Open"
      \/ sock[Editor] = "Open" /\ up' = [up EXCEPT ![Editor] = @ \o <<k>>]
  BY DEF Send
<1> QED BY <1>1, <1>2, <1>3 DEF UserSent

\* What the one who edits does besides.
LEMMA EditorEffect ==
  ASSUME LinkTyped, Navigate(Editor) \/ QueuePage(Editor) \/ LibraryRow(Editor) \/ PlaylistModal(Editor)
  PROVE  \E ks : UserSent(Editor, ks)
<1>1. /\ \A v \in PlainVerbs : Plain(v) \in Commands /\ Plain(v).cmd = v
      /\ \A v \in SongVerbs, s \in Song :
           With(v, s) \in Commands /\ With(v, s).cmd = v /\ With(v, s).song = s
  BY CommandFacts
<1>2. CASE Navigate(Editor)
  <2>1. UNCHANGED <<view, taken>>
    BY <1>2 DEF Navigate
  <2>2. view \in [Client -> Views] /\ page \in [Client -> {"Player", "Queue", "Library"}]
    BY DEF LinkTyped, ServerTyped, OrdersTyped, NewsTyped, PagesTyped
  <2>3. /\ page' \in [Client -> {"Player", "Queue", "Library"}]
        /\ \A d \in Client \ {Editor} : page'[d] = page[d]
    BY <1>2, <2>2 DEF Navigate
  <2>4. CASE Send(Editor, <<Plain("QueryQueue")>>)
    BY <1>2, <2>1, <2>3, <2>4, SentAsking
  <2>5. CASE \E p \in {"Library", "Player"} : page' = [page EXCEPT ![Editor] = p] /\ UNCHANGED up
    <3>1. ~OnQueue(Editor)'
      BY <2>2, <2>5, WebAssumption DEF OnQueue
    <3>2. <<>> \in Seq(Orders(Editor)')
      OBVIOUS
    <3>3. UserSent(Editor, <<>>)
      BY <1>2, <2>1, <2>2, <2>3, <2>5, <3>1, <3>2 DEF UserSent
    <3> QED BY <3>3
  <2> QED BY <1>2, <2>4, <2>5 DEF Navigate
<1>3. CASE RemoveItem(Editor)
  <2>1. PICK s \in Song : /\ Send(Editor, <<With("Remove", s)>>)
                         /\ view' = [view EXCEPT ![Editor].queue[s] = 0]
                         /\ taken' = taken \cup {s}
    BY <1>3 DEF RemoveItem, Shown
  <2> DEFINE k == With("Remove", s)
  <2>2. k \in Commands /\ k.cmd = "Remove" /\ k.song = s
    BY <1>1 DEF SongVerbs
  <2>3. OnQueue(Editor) /\ page' = page
    BY <1>3 DEF RemoveItem
  <2> HIDE DEF k
  <2>4. k \in Orders(Editor)' /\ k \notin Mattering("Queue")
    BY <2>1, <2>2, AskFacts DEF Orders, QueueVerbs
  <2>5. <<k>> \in Seq(Orders(Editor)') /\ EndsIn(<<k>>, Mattering("Queue"), Asking("Queue"))
    BY <2>4, OneSeq, EndsOne
  <2>6. view \in [Client -> Views] /\ page \in [Client -> {"Player", "Queue", "Library"}]
    BY DEF LinkTyped, ServerTyped, OrdersTyped, NewsTyped, PagesTyped
  <2>7. /\ view' \in [Client -> Views]
        /\ \A d \in Client : view'[d].volume = view[d].volume /\ view'[d].mode = view[d].mode
        /\ \A t \in Song \ {s} : view'[Editor].queue[t] = view[Editor].queue[t]
    BY <2>1, <2>6, WebAssumption DEF Views, Queues
  <2>8. \/ up' = up /\ sock[Editor] # "Open"
        \/ sock[Editor] = "Open" /\ up' = [up EXCEPT ![Editor] = @ \o <<k>>]
    BY <2>1 DEF Send, k
  <2>9. \A t \in Song \ taken' : view'[Editor].queue[t] = view[Editor].queue[t]
    BY <2>1, <2>7
  <2> QED BY <2>1, <2>3, <2>5, <2>6, <2>7, <2>8, <2>9 DEF UserSent
<1>4. CASE MoveItem(Editor) \/ ConfirmClear(Editor) \/ AddUrl(Editor) \/ SearchQueue(Editor)
  <2>1. UNCHANGED <<page, view, taken>>
    BY <1>4 DEF MoveItem, ConfirmClear, AddUrl, SearchQueue
  <2>2. page \in [Client -> {"Player", "Queue", "Library"}]
    BY DEF LinkTyped, ServerTyped, OrdersTyped, NewsTyped, PagesTyped
  <2>3. Plain("Move") \in Orders(Editor) /\ Plain("Clear") \in Orders(Editor)
    BY <1>1 DEF Orders, PlainVerbs
  <2>4. \A s \in Song : With("Add", s) \in Orders(Editor)
    BY <1>1 DEF Orders, SongVerbs
  <2>5. \E ks : Send(Editor, ks) /\ (ks = <<Plain("QueryQueue")>>
                                   \/ \E k \in Orders(Editor) : ks = <<k, Plain("QueryQueue")>>)
    BY <1>4, <2>3, <2>4 DEF MoveItem, ConfirmClear, AddUrl, SearchQueue
  <2> QED BY <1>4, <2>1, <2>2, <2>5, SentAsking
<1>5. CASE PlayItem(Editor)
  <2>1. Send(Editor, <<Plain("Play")>>) /\ UNCHANGED <<page, view, taken>>
    BY <1>5 DEF PlayItem
  <2>2. Plain("Play") \in Commands /\ Plain("Play").cmd \notin QueueVerbs \cup {"Remove", "QueryQueue"}
    BY <1>1 DEF PlainVerbs, QueueVerbs
  <2> QED BY <2>1, <2>2, WebAssumption, PlainlySent
<1>6. CASE LibraryRow(Editor) \/ PlaylistModal(Editor)
  <2>1. PICK k \in QueueActions \cup All : Send(Editor, <<k>>)
    BY <1>6 DEF LibraryRow, PlaylistModal, Enqueue
  <2>2. k \in Commands /\ k.cmd # "Remove"
    BY <1>1 DEF QueueActions, All, SongVerbs, PlainVerbs
  <2>3. UNCHANGED <<page, view, taken>> /\ ~OnQueue(Editor)
    BY <1>6 DEF LibraryRow, PlaylistModal, Enqueue, OnQueue
  <2> QED BY <1>6, <2>1, <2>2, <2>3, LibrarySent
<1> QED BY <1>2, <1>3, <1>4, <1>5, <1>6 DEF QueuePage

LEMMA UserEffect ==
  ASSUME LinkTyped, NEW c \in Client, UserActs(c)
  PROVE  UNCHANGED <<server, loops, wire, sock>> /\ \E d \in Client : \E ks : UserSent(d, ks)
<1>1. UNCHANGED <<server, loops, wire, sock>>
  BY DEF UserActs, Controls, FooterPlayer, Keys, Navigate, QueuePage, LibraryRow, PlaylistModal, Enqueue,
     PressPlay, PressSkip, PressMode, PressToggle, PressMute, PressVolume, Slide, VolumeControl,
     RemoveItem, MoveItem, PlayItem, ConfirmClear, AddUrl, SearchQueue, Acts
<1>2. /\ \A v \in PlainVerbs : Plain(v) \in Commands /\ Plain(v).cmd = v
      /\ \A v \in SongVerbs, s \in Song :
           With(v, s) \in Commands /\ With(v, s).cmd = v /\ With(v, s).song = s
  BY CommandFacts
<1>3. \A v \in {"Play", "Pause", "Toggle", "Cycle", "ToggleMute", "VolUp", "VolDown"} :
        /\ v \in PlainVerbs
        /\ Plain(v).cmd \notin QueueVerbs \cup {"Remove", "QueryQueue"}
  BY <1>2 DEF PlainVerbs, QueueVerbs
<1>4. ASSUME NEW v \in {"Play", "Pause", "Toggle", "Cycle", "ToggleMute", "VolUp", "VolDown"},
             Send(c, <<Plain(v)>>), UNCHANGED <<page, view, taken>>
      PROVE  \E ks : UserSent(c, ks)
  BY <1>2, <1>3, <1>4, PlainlySent
<1>5. CASE PressPlay(c) \/ PressSkip(c) \/ PressToggle(c) \/ PressMode(c) \/ PressMute(c) \/ PressVolume(c)
  <2>1. UNCHANGED <<page, view, taken>>
    BY <1>5 DEF PressPlay, PressSkip, PressToggle, PressMode, PressMute, PressVolume
  <2>2. \/ Send(c, <<Plain("Play")>>) \/ Send(c, <<Plain("Pause")>>)
        \/ Send(c, <<Plain("Toggle")>>) \/ Send(c, <<Plain("Cycle")>>)
        \/ Send(c, <<Plain("ToggleMute")>>)
        \/ Send(c, <<Plain("VolUp")>>) \/ Send(c, <<Plain("VolDown")>>)
    BY <1>5 DEF PressPlay, PressSkip, PressToggle, PressMode, PressMute, PressVolume, Steps
  <2> QED BY <1>1, <1>4, <2>1, <2>2
<1>6. CASE Slide(c)
  <2>1. PICK v \in Volumes : Send(c, <<[cmd |-> "SetVol", volume |-> v]>>)
    BY <1>6 DEF Slide
  <2>2. PICK k \in Commands : k.cmd = "SetVol" /\ k = [cmd |-> "SetVol", volume |-> v]
    BY CommandFacts
  <2>3. Send(c, <<k>>)
    BY <2>1, <2>2
  <2>4. k.cmd \notin QueueVerbs \cup {"Remove", "QueryQueue"}
    BY <2>2 DEF QueueVerbs
  <2>5. UNCHANGED <<page, view, taken>>
    BY <1>6 DEF Slide
  <2>6. UserSent(c, <<k>>)
    BY <2>2, <2>3, <2>4, <2>5, PlainlySent
  <2> QED BY <1>1, <2>6
<1>7. CASE c = Editor /\ (Navigate(c) \/ QueuePage(c) \/ LibraryRow(c) \/ PlaylistModal(c))
  <2>1. Navigate(Editor) \/ QueuePage(Editor) \/ LibraryRow(Editor) \/ PlaylistModal(Editor)
    BY <1>7
  <2>2. \E ks : UserSent(Editor, ks)
    BY <2>1, EditorEffect
  <2> QED BY <1>1, <2>2, WebAssumption
<1> QED
  BY <1>1, <1>5, <1>6, <1>7 DEF UserActs, Controls, FooterPlayer, Keys, VolumeControl

LEMMA LinkStart == Init => LinkInv
<1> SUFFICES ASSUME Init PROVE LinkInv
  OBVIOUS
<1>1. volume \in Volumes /\ lastTold = volume /\ silent = FALSE
  BY WebAssumption DEF Init, Volumes
<1>2. ServerTyped
  BY <1>1 DEF Init, ServerTyped, ModeNames, Queues
<1>3. <<>> \in Seq(Orders(Editor)) /\ <<>> \in Seq(SystemOrders) /\ <<>> \in Seq(Events)
      /\ \A c \in Client : <<>> \in Seq(Orders(c))
  OBVIOUS
<1>4. OrdersTyped
  BY <1>3 DEF Init, OrdersTyped
<1>5. view = [c \in Client |-> [volume |-> volume, mode |-> mode, playing |-> playing,
                                queue |-> IF c = Editor THEN queue ELSE Empty]]
  BY DEF Init
<1>6. Empty \in Queues /\ queue \in Queues
  BY <1>2 DEF Empty, Queues, ServerTyped
<1>7. view \in [Client -> Views]
  BY <1>2, <1>5, <1>6 DEF Views, ServerTyped
<1>8. NewsTyped
  BY <1>3, <1>7 DEF Init, NewsTyped
<1>9. PagesTyped
  BY DEF Init, PagesTyped
<1>10. ASSUME NEW c \in Client, NEW x \in Aspects, Watches(c, x) PROVE Settles(c, x)
  <2>1. Pipe(c) = <<>> /\ ring[c] = <<>>
    <3>1. inbox = <<>> /\ system = <<>> /\ held[c] = None /\ up[c] = <<>> /\ ring[c] = <<>>
      BY DEF Init
    <3>2. <<>> \o <<>> = <<>>
      OBVIOUS
    <3> QED BY <3>1, <3>2 DEF Pipe, Holding
  <2>2. Seen(c, x) \in True(x)
    <3>1. view[c].volume = lastTold /\ view[c].mode = mode /\ (c = Editor => view[c].queue = queue)
      BY <1>1, <1>5
    <3>2. x = "Volume" \/ x = "Mode" \/ x = "Queue"
      BY DEF Aspects
    <3>3. x = "Queue" => c = Editor
      BY <1>10 DEF Watches
    <3> QED BY <1>6, <3>1, <3>2, <3>3 DEF Seen, True, Agreed
  <2> QED BY <2>1, <2>2, EndsOne DEF Settles
<1> QED BY <1>2, <1>4, <1>8, <1>9, <1>10 DEF LinkInv, LinkTyped

\* What the command loop does with the command it takes.
LEMMA HandleEffect ==
  ASSUME LinkTyped, HandleUser
  PROVE  /\ inbox # <<>> /\ inbox' = Tail(inbox)
         /\ UNCHANGED <<level, held, browser>>
         /\ \/ /\ Head(inbox).cmd \in SystemVerbs
               /\ system' = Append(system, Head(inbox)) /\ UNCHANGED <<mode, playing, queue, ring, lagged>>
            \/ /\ Head(inbox).cmd \notin SystemVerbs
               /\ system' = system /\ (PlayerCommand(Head(inbox)) \/ QueueCommand(Head(inbox)))
BY DEF HandleUser, IsSystem, SystemVerbs, SureVerbs, TellNobody

\* What the system loop does: it announces the volume, or it has made a step.
LEMMA SystemEffect ==
  ASSUME LinkTyped, HandleSystem
  PROVE  /\ system # <<>> /\ system' = Tail(system)
         /\ UNCHANGED <<mode, playing, queue, inbox, held, browser>>
         /\ volume' \in Volumes /\ lastTold' \in Volumes /\ silent' \in BOOLEAN
         /\ silent' \/ lastTold' = volume'
         /\ \/ Tell(<<Event("Volume", lastTold')>>)
            \/ Head(system).cmd \in Steps /\ TellNobody /\ lastTold' = lastTold
<1> DEFINE k == Head(system)
<1>1. /\ system # <<>> /\ system' = Tail(system)
      /\ UNCHANGED <<mode, playing, queue, inbox, held, browser>>
      /\ SetLevel(k) \/ StepLevel(k)
  BY DEF HandleSystem
<1>2. k \in SystemOrders
  BY <1>1 DEF LinkTyped, OrdersTyped
<1>3. k.cmd = "SetVol" => k.volume \in Volumes
  BY <1>2, CommandIs, OrderFacts
<1>4. volume \in Volumes /\ lastTold \in Volumes
  BY DEF LinkTyped, ServerTyped
<1> HIDE DEF k
<1>5. CASE SetLevel(k)
  <2>1. volume' \in Volumes
    <3>1. 0 \in Volumes
      BY WebAssumption DEF Volumes
    <3> QED BY <1>3, <1>4, <1>5, <3>1 DEF SetLevel
  <2>2. lastTold' = volume' /\ silent' = FALSE /\ Tell(<<Event("Volume", volume')>>)
    BY <1>5 DEF SetLevel, TellVolume
  <2>3. Tell(<<Event("Volume", lastTold')>>)
    BY <2>2
  <2> QED BY <1>1, <2>1, <2>2, <2>3
<1>6. CASE StepLevel(k)
  <2> DEFINE a == IF Alsa THEN volume ELSE volume'
  <2>1. volume' \in Volumes /\ volume' \in Nat /\ volume \in Nat /\ k.cmd \in Steps
    BY <1>4, <1>6, WebAssumption DEF StepLevel, Steps, Volumes
  <2>2. /\ IF a > 0 THEN TellVolume(a) ELSE TellNobody /\ UNCHANGED lastTold
        /\ silent' = (a = 0 \/ (Alsa /\ volume' # volume))
    BY <1>6 DEF StepLevel
  <2>3. a \in Volumes /\ a \in Nat /\ (Alsa /\ volume' # volume) \in BOOLEAN
        /\ (a = volume' \/ (Alsa /\ volume' # volume))
    BY <1>4, <2>1
  <2> HIDE DEF a
  <2>4. CASE a > 0
    <3>1. lastTold' = a /\ Tell(<<Event("Volume", a)>>)
      BY <2>2, <2>4 DEF TellVolume
    <3>2. Tell(<<Event("Volume", lastTold')>>)
      BY <3>1
    <3>3. silent' \in BOOLEAN /\ (silent' \/ lastTold' = volume')
      BY <2>2, <2>3, <3>1
    <3> QED BY <1>1, <2>1, <2>3, <3>1, <3>2, <3>3
  <2>5. CASE ~(a > 0)
    <3>1. a = 0
      BY <2>3, <2>5
    <3>2. silent' = TRUE /\ TellNobody /\ lastTold' = lastTold
      BY <2>2, <2>5, <3>1
    <3> QED BY <1>1, <1>4, <2>1, <3>2 DEF k
  <2> QED BY <2>4, <2>5
<1> QED BY <1>1, <1>5, <1>6

LEMMA StepCases ==
  ASSUME [Next]_vars
  PROVE  \/ Progress \/ QueueEnds \/ HandleUser \/ HandleSystem \/ UNCHANGED vars
         \/ \E c \in Client : TakeCommand(c) \/ HandIn(c) \/ Forward(c) \/ Open(c) \/ Close(c)
         \/ \E c \in Client : UserActs(c)
<1>1. ASSUME NEW c \in Wireless, Close(c) PROVE \E d \in Client : Close(d)
  BY <1>1, WebAssumption
<1>2. Navigate(Editor) \/ QueuePage(Editor) \/ LibraryRow(Editor) \/ PlaylistModal(Editor)
      => UserActs(Editor)
  BY DEF UserActs
<1>3. ASSUME NEW c \in Client, Controls(c) \/ FooterPlayer(c) \/ Keys(c) PROVE UserActs(c)
  BY <1>3 DEF UserActs
<1>4. ASSUME NEW c \in Client, DialFails(c) PROVE UNCHANGED vars
  BY <1>4 DEF DialFails
<1> QED BY <1>1, <1>2, <1>3, <1>4, WebAssumption DEF Next

LEMMA ServerStep == ASSUME LinkTyped, [Next]_vars PROVE ServerTyped'
<1> USE DEF ServerTyped
<1>0. LinkTyped
  OBVIOUS
<1>1. CASE HandleUser
  <2> DEFINE k == Head(inbox)
  <2>1. inbox # <<>> /\ volume' = volume /\ lastTold' = lastTold /\ silent' = silent
    BY <1>1, HandleEffect DEF level
  <2>2. k \in Orders(Editor)
    BY <2>1 DEF LinkTyped, OrdersTyped
  <2> HIDE DEF k
  <2>3. CASE PlayerCommand(k) \/ QueueCommand(k)
    <3>1. mode' \in ModeNames /\ playing' \in BOOLEAN /\ queue' \in Queues
      BY <2>2, <2>3, CommandEffect
    <3> QED BY <2>1, <3>1 DEF LinkTyped
  <2>4. CASE UNCHANGED <<mode, playing, queue>>
    BY <2>1, <2>4 DEF LinkTyped
  <2> QED BY <1>1, <2>3, <2>4, HandleEffect DEF k
<1>2. CASE HandleSystem
  <2>1. /\ volume' \in Volumes /\ lastTold' \in Volumes /\ silent' \in BOOLEAN
        /\ silent' \/ lastTold' = volume'
    BY <1>2, SystemEffect
  <2>2. UNCHANGED <<mode, playing, queue>>
    BY <1>2 DEF HandleSystem
  <2> QED BY <2>1, <2>2 DEF LinkTyped
<1>3. CASE QueueEnds
  BY <1>3 DEF QueueEnds, level, LinkTyped
<1>4. CASE UNCHANGED server
  BY <1>4 DEF server, level, LinkTyped
<1>5. ASSUME NEW c \in Client, UserActs(c) PROVE UNCHANGED server
  BY <1>5, UserEffect
<1>6. UNCHANGED vars => UNCHANGED server
  BY DEF vars
<1>7. ASSUME NEW c \in Client, TakeCommand(c) \/ HandIn(c) \/ Forward(c) \/ Open(c) \/ Close(c)
      PROVE  UNCHANGED server
  BY <1>7 DEF TakeCommand, HandIn, Forward, Open, Close
<1>9. Progress => UNCHANGED server
  BY DEF Progress
<1> QED BY <1>1, <1>2, <1>3, <1>4, <1>5, <1>6, <1>7, <1>9, StepCases

LEMMA OrdersStep == ASSUME LinkTyped, [Next]_vars PROVE OrdersTyped'
<1> USE DEF OrdersTyped
<1>0. OrdersTyped /\ Editor \in Client
  BY WebAssumption DEF LinkTyped
<1>1. taken' = taken => /\ Orders(Editor)' = Orders(Editor)
                        /\ \A c \in Client : Orders(c)' = Orders(c)
  BY DEF Orders
<1>2. CASE UNCHANGED <<inbox, system, up, held, taken>>
  BY <1>0, <1>1, <1>2
<1>3. CASE HandleUser
  <2>1. /\ inbox # <<>> /\ inbox' = Tail(inbox) /\ UNCHANGED <<up, held, taken>>
        /\ system' = system \/ (Head(inbox).cmd \in SystemVerbs /\ system' = Append(system, Head(inbox)))
    BY <1>3, HandleEffect DEF browser
  <2>2. inbox' \in Seq(Orders(Editor)) /\ Head(inbox) \in Orders(Editor)
    BY <1>0, <2>1
  <2>3. Head(inbox).cmd \in SystemVerbs => Head(inbox) \in SystemOrders
    BY <2>2, OrderFacts, <1>0 DEF SystemOrders
  <2>4. system' \in Seq(SystemOrders)
    BY <1>0, <2>1, <2>3
  <2> QED BY <1>0, <1>1, <2>1, <2>2, <2>4
<1>4. CASE HandleSystem
  <2>1. system # <<>> /\ system' = Tail(system) /\ UNCHANGED <<inbox, up, held, taken>>
    BY <1>4 DEF HandleSystem, browser
  <2>2. system' \in Seq(SystemOrders)
    BY <1>0, <2>1
  <2> QED BY <1>0, <1>1, <2>1, <2>2
<1>5. ASSUME NEW c \in Client, TakeCommand(c) PROVE OrdersTyped'
  <2>1. /\ UNCHANGED <<system, taken>> /\ up[c] # <<>> /\ up' = [up EXCEPT ![c] = Tail(@)]
        /\ \/ inbox' = Append(inbox, Head(up[c])) /\ held' = held
           \/ inbox' = inbox /\ held' = [held EXCEPT ![c] = Head(up[c])]
    BY <1>5 DEF TakeCommand
  <2>2. Head(up[c]) \in Orders(c) /\ Tail(up[c]) \in Seq(Orders(c)) /\ Head(up[c]) \in Orders(Editor)
    BY <1>0, <2>1, OrderFacts
  <2>3. inbox' \in Seq(Orders(Editor))
    <3> DEFINE k == Head(up[c])
    <3>1. k \in Orders(Editor) /\ (inbox' = Append(inbox, k) \/ inbox' = inbox)
      BY <2>1, <2>2
    <3> HIDE DEF k
    <3> DEFINE T == Orders(Editor)
    <3>2. inbox \in Seq(T) /\ k \in T
      BY <1>0, <3>1
    <3> HIDE DEF T
    <3>3. Append(inbox, k) \in Seq(T)
      BY <3>2
    <3> QED BY <3>1, <3>2, <3>3 DEF T
  <2>4. DOMAIN up' = Client /\ \A d \in Client : up'[d] \in Seq(Orders(d))
    BY <1>0, <2>1, <2>2
  <2>5. DOMAIN held' = Client /\ \A d \in Client : held'[d] = None \/ held'[d] \in Orders(d)
    BY <1>0, <2>1, <2>2
  <2> QED BY <1>0, <1>1, <2>1, <2>3, <2>4, <2>5
<1>6. ASSUME NEW c \in Client, HandIn(c) PROVE OrdersTyped'
  <2>1. /\ UNCHANGED <<system, taken, up>> /\ held[c] # None
        /\ inbox' = Append(inbox, held[c]) /\ held' = [held EXCEPT ![c] = None]
    BY <1>6 DEF HandIn, browser
  <2>2. held[c] \in Orders(Editor)
    BY <1>0, <2>1, OrderFacts
  <2>3. inbox' \in Seq(Orders(Editor))
    BY <1>0, <2>1, <2>2
  <2>4. DOMAIN held' = Client /\ \A d \in Client : held'[d] = None \/ held'[d] \in Orders(d)
    BY <1>0, <2>1
  <2> QED BY <1>0, <1>1, <2>1, <2>3, <2>4
<1>7. ASSUME NEW c \in Client, Open(c) PROVE OrdersTyped'
  <2>1. UNCHANGED <<inbox, system, held, taken>> /\ up' = [up EXCEPT ![c] = OpeningQueries \o PageQuery(c)]
    BY <1>7 DEF Open, loops
  <2>2. OpeningQueries \o PageQuery(c) \in Seq(Orders(c))
    <3>1. Plain("QueryInfo") \in Orders(c) /\ Plain("QueryVolume") \in Orders(c)
      BY CommandFacts DEF Orders, PlainVerbs, QueueVerbs
    <3>2. c = Editor => Plain("QueryQueue") \in Orders(c)
      BY CommandFacts DEF Orders, PlainVerbs
    <3>3. page[c] = "Queue" => c = Editor
      BY DEF LinkTyped, PagesTyped
    <3>4. OpeningQueries \in Seq(Orders(c))
      BY <3>1 DEF OpeningQueries
    <3>5. PageQuery(c) \in Seq(Orders(c))
      BY <3>2, <3>3, OneSeq DEF PageQuery
    <3> QED BY <3>4, <3>5
  <2>3. DOMAIN up' = Client /\ \A d \in Client : up'[d] \in Seq(Orders(d))
    BY <1>0, <2>1, <2>2
  <2> QED BY <1>0, <1>1, <2>1, <2>3
<1>8. ASSUME NEW c \in Client, Close(c) PROVE OrdersTyped'
  <2>1. PICK k \in 0..Len(up[c]) : up' = [up EXCEPT ![c] = SubSeq(@, 1, k)]
    BY <1>8 DEF Close
  <2>2. UNCHANGED <<inbox, system, held, taken>>
    BY <1>8 DEF Close, loops
  <2>3. SubSeq(up[c], 1, k) \in Seq(Orders(c))
    BY <1>0
  <2>4. DOMAIN up' = Client /\ \A d \in Client : up'[d] \in Seq(Orders(d))
    BY <1>0, <2>1, <2>3
  <2> QED BY <1>0, <1>1, <2>2, <2>4
<1>9. ASSUME NEW c \in Client, UserActs(c) PROVE OrdersTyped'
  <2>1d. PICK d \in Client : \E ks : UserSent(d, ks)
    BY <1>9, UserEffect
  <2>1. PICK ks : d \in Client /\ UserSent(d, ks)
    BY <2>1d
  <2>2. UNCHANGED <<inbox, system, held>>
    BY <1>9, UserEffect DEF loops, wire
  <2>3. /\ ks \in Seq(Orders(d)') /\ taken \subseteq taken'
        /\ up' = up \/ up' = [up EXCEPT ![d] = @ \o ks]
    BY <2>1 DEF UserSent
  <2>4. \A e \in Client : Orders(e) \subseteq Orders(e)'
    BY <2>3 DEF Orders
  <2>5. \A e \in Client : Seq(Orders(e)) \subseteq Seq(Orders(e)')
    BY <2>4, SeqGrows
  <2>6. \A e \in Client : up[e] \in Seq(Orders(e)')
    BY <1>0, <2>5
  <2>10. up[d] \o ks \in Seq(Orders(d)')
    <3> DEFINE T == Orders(d)'
    <3>1. up[d] \in Seq(T) /\ ks \in Seq(T)
      BY <2>1, <2>3, <2>6
    <3> HIDE DEF T
    <3>2. up[d] \o ks \in Seq(T)
      BY <3>1, EndsJoined
    <3> QED BY <3>2 DEF T
  <2>11. \A e \in Client : up'[e] = up[e] \/ (e = d /\ up'[e] = up[d] \o ks)
    BY <1>0, <2>3
  <2>12. DOMAIN up' = Client
    BY <1>0, <2>3
  <2>7. \A e \in Client : up'[e] \in Seq(Orders(e)')
    BY <2>6, <2>10, <2>11
  <2>8. \A e \in Client : held'[e] = None \/ held'[e] \in Orders(e)'
    BY <1>0, <2>2, <2>4
  <2>9. inbox' \in Seq(Orders(Editor)')
    BY <1>0, <2>2, <2>5
  <2> QED BY <1>0, <2>2, <2>7, <2>8, <2>9, <2>12
<1>10. Progress \/ QueueEnds => UNCHANGED <<inbox, system, up, held, taken>>
  BY DEF Progress, QueueEnds, loops, wire, browser
<1>11. \A c \in Client : Forward(c) => UNCHANGED <<inbox, system, up, held, taken>>
  BY DEF Forward, loops
<1>12. UNCHANGED vars => UNCHANGED <<inbox, system, up, held, taken>>
  BY DEF vars, loops, wire, browser
<1> QED BY <1>2, <1>3, <1>4, <1>5, <1>6, <1>7, <1>8, <1>9, <1>10, <1>11, <1>12, StepCases

\* What is told, by whom and when.
LEMMA NewsStep == ASSUME LinkTyped, [Next]_vars PROVE NewsTyped'
<1> USE DEF NewsTyped
<1>0. NewsTyped
  BY DEF LinkTyped
<1>1. ASSUME NEW es \in Seq(Events), Tell(es) \/ (es = <<>> /\ UNCHANGED <<ring, lagged>>), view' = view
      PROVE  NewsTyped'
  BY <1>0, <1>1, TellFacts
<1>2. CASE UNCHANGED <<ring, lagged, view>>
  BY <1>0, <1>2
<1>3. CASE Progress
  <2>1. <<Event("Time", 0)>> \in Seq(Events)
    BY EventFacts, OneSeq
  <2> QED BY <1>1, <1>3, <2>1 DEF Progress, browser
<1>4. CASE HandleUser
  <2> DEFINE k == Head(inbox)
  <2>1. inbox # <<>> /\ view' = view
    BY <1>4, HandleEffect DEF browser
  <2>2. k \in Orders(Editor)
    BY <2>1 DEF LinkTyped, OrdersTyped
  <2> HIDE DEF k
  <2>3. CASE PlayerCommand(k) \/ QueueCommand(k)
    <3>1. PICK es \in Seq(Events) : Tell(es) \/ (es = <<>> /\ TellNobody)
      BY <2>2, <2>3, CommandEffect
    <3> QED BY <1>1, <2>1, <3>1 DEF TellNobody
  <2> QED BY <1>2, <1>4, <2>1, <2>3, HandleEffect DEF k
<1>5. CASE HandleSystem
  <2>1. /\ lastTold' \in Volumes /\ view' = view
        /\ Tell(<<Event("Volume", lastTold')>>) \/ TellNobody
    BY <1>5, SystemEffect DEF browser
  <2>2. <<Event("Volume", lastTold')>> \in Seq(Events)
    BY <2>1, EventFacts, OneSeq
  <2>3. CASE TellNobody
    BY <1>2, <2>1, <2>3 DEF TellNobody
  <2> QED BY <1>1, <2>1, <2>2, <2>3
<1>6. ASSUME NEW c \in Client, Forward(c) PROVE NewsTyped'
  <2>1. /\ ring[c] # <<>> /\ lagged' = lagged
        /\ view' = [view EXCEPT ![c] = Dispatched(@, Head(ring[c]))] /\ ring' = [ring EXCEPT ![c] = Tail(@)]
    BY <1>6 DEF Forward
  <2>2. Head(ring[c]) \in Events /\ Tail(ring[c]) \in Seq(Events)
    BY <1>0, <2>1
  <2>3. Dispatched(view[c], Head(ring[c])) \in Views
    BY <1>0, <2>2, ViewFacts
  <2> QED BY <1>0, <2>1, <2>2, <2>3
<1>7. ASSUME NEW c \in Client, Open(c) \/ Close(c) PROVE NewsTyped'
  <2>1. /\ ring' = [ring EXCEPT ![c] = <<>>] /\ view' = view
        /\ lagged' = lagged \/ lagged' = [lagged EXCEPT ![c] = FALSE]
    BY <1>7 DEF Open, Close
  <2>2. <<>> \in Seq(Events)
    OBVIOUS
  <2> QED BY <1>0, <2>1, <2>2
<1>8. ASSUME NEW c \in Client, UserActs(c) PROVE NewsTyped'
  <2>1d. PICK d \in Client : \E ks : UserSent(d, ks)
    BY <1>8, UserEffect
  <2>1. PICK ks : d \in Client /\ UserSent(d, ks)
    BY <2>1d
  <2>2. view' \in [Client -> Views]
    BY <2>1 DEF UserSent
  <2>3. UNCHANGED <<ring, lagged>>
    BY <1>8, UserEffect DEF wire
  <2> QED BY <1>0, <2>2, <2>3
<1>9. \A c \in Client : TakeCommand(c) \/ HandIn(c) => UNCHANGED <<ring, lagged, view>>
  BY DEF TakeCommand, HandIn, browser
<1>10. QueueEnds \/ UNCHANGED vars => UNCHANGED <<ring, lagged, view>>
  BY DEF QueueEnds, vars, wire, browser
<1> QED BY <1>2, <1>3, <1>4, <1>5, <1>6, <1>7, <1>8, <1>9, <1>10, StepCases

LEMMA PagesStep == ASSUME LinkTyped, [Next]_vars PROVE PagesTyped'
<1> USE DEF PagesTyped
<1>0. PagesTyped
  BY DEF LinkTyped
<1>1. CASE UNCHANGED <<sock, page>>
  BY <1>0, <1>1
<1>2. ASSUME NEW c \in Client, Open(c) \/ Close(c) PROVE PagesTyped'
  BY <1>0, <1>2 DEF Open, Close
<1>3. ASSUME NEW c \in Client, UserActs(c) PROVE PagesTyped'
  <2>1d. PICK d \in Client : \E ks : UserSent(d, ks)
    BY <1>3, UserEffect
  <2>1. PICK ks : d \in Client /\ UserSent(d, ks)
    BY <2>1d
  <2>2. page' \in [Client -> {"Player", "Queue", "Library"}]
    BY <2>1 DEF UserSent
  <2>4. \A e \in Client \ {Editor} : page'[e] = page[e]
    BY <2>1 DEF UserSent
  <2>3. sock' = sock
    BY <1>3, UserEffect
  <2> QED BY <1>0, <2>2, <2>3, <2>4
<1>4. Progress \/ QueueEnds \/ HandleUser \/ HandleSystem \/ UNCHANGED vars => UNCHANGED <<sock, page>>
  BY DEF Progress, QueueEnds, HandleUser, HandleSystem, vars, browser
<1>5. \A c \in Client : TakeCommand(c) \/ HandIn(c) \/ Forward(c) => UNCHANGED <<sock, page>>
  BY DEF TakeCommand, HandIn, Forward, browser
<1> QED BY <1>1, <1>2, <1>3, <1>4, <1>5, StepCases

\* The parts of the line of commands.
LEMMA PipeParts ==
  ASSUME LinkTyped, NEW c \in Client, NEW S, NEW V
  PROVE  /\ system \in Seq(Commands) /\ inbox \in Seq(Commands)
         /\ Holding(c) \in Seq(Commands) /\ up[c] \in Seq(Commands)
         /\ Without(Pipe(c), S) <=>
               Without(system, S) /\ Without(inbox, S) /\ Without(Holding(c), S) /\ Without(up[c], S)
         /\ EndsIn(Pipe(c), S, V) <=>
               /\ EndsIn(up[c], S, V)
               /\ Without(up[c], S) =>
                    /\ EndsIn(Holding(c), S, V)
                    /\ Without(Holding(c), S) =>
                         EndsIn(inbox, S, V) /\ (Without(inbox, S) => EndsIn(system, S, V))
<1>1. OrdersTyped
  BY DEF LinkTyped
<1>2. system \in Seq(Commands) /\ inbox \in Seq(Commands) /\ up[c] \in Seq(Commands)
  BY <1>1, OrderFacts, SeqGrows, WebAssumption DEF OrdersTyped
<1>3. Holding(c) \in Seq(Commands)
  BY <1>1, OrderFacts, OneSeq DEF OrdersTyped, Holding
<1>4. Without(Pipe(c), S) <=>
        Without(system, S) /\ Without(inbox, S) /\ Without(Holding(c), S) /\ Without(up[c], S)
  BY <1>2, <1>3, FourJoined DEF Pipe
<1>5. EndsIn(Pipe(c), S, V) <=>
               /\ EndsIn(up[c], S, V)
               /\ Without(up[c], S) =>
                    /\ EndsIn(Holding(c), S, V)
                    /\ Without(Holding(c), S) =>
                         EndsIn(inbox, S, V) /\ (Without(inbox, S) => EndsIn(system, S, V))
  BY <1>2, <1>3, FourJoined DEF Pipe
<1> QED BY <1>2, <1>3, <1>4, <1>5

LEMMA PipePartsNext ==
  ASSUME LinkTyped', NEW c \in Client, NEW S, NEW V
  PROVE  /\ Without(Pipe(c)', S) <=>
               Without(system', S) /\ Without(inbox', S) /\ Without(Holding(c)', S) /\ Without(up'[c], S)
         /\ EndsIn(Pipe(c)', S, V) <=>
               /\ EndsIn(up'[c], S, V)
               /\ Without(up'[c], S) =>
                    /\ EndsIn(Holding(c)', S, V)
                    /\ Without(Holding(c)', S) =>
                         EndsIn(inbox', S, V) /\ (Without(inbox', S) => EndsIn(system', S, V))
<1>1. OrdersTyped'
  BY DEF LinkTyped
<1>2. SystemOrders \subseteq Commands /\ \A d \in Client : Orders(d)' \subseteq Commands
  BY DEF SystemOrders, Orders
<1>3. system' \in Seq(Commands) /\ inbox' \in Seq(Commands) /\ up'[c] \in Seq(Commands)
  BY <1>1, <1>2, SeqGrows, WebAssumption DEF OrdersTyped
<1>4. Holding(c)' \in Seq(Commands)
  BY <1>1, <1>2, OneSeq DEF OrdersTyped, Holding
<1>5. Without(Pipe(c)', S) <=>
        Without(system', S) /\ Without(inbox', S) /\ Without(Holding(c)', S) /\ Without(up'[c], S)
  BY <1>3, <1>4, FourJoined DEF Pipe
<1>6. EndsIn(Pipe(c)', S, V) <=>
               /\ EndsIn(up'[c], S, V)
               /\ Without(up'[c], S) =>
                    /\ EndsIn(Holding(c)', S, V)
                    /\ Without(Holding(c)', S) =>
                         EndsIn(inbox', S, V) /\ (Without(inbox', S) => EndsIn(system', S, V))
  BY <1>3, <1>4, FourJoined DEF Pipe
<1> QED BY <1>5, <1>6

\* For the volume and the mode every command that matters asks; the other loop's
\* line holds only what matters for the volume.
LEMMA AsksAlways ==
  ASSUME NEW x \in Aspects, x # "Queue"
  PROVE  Mattering(x) = Asking(x) /\ \A q : EndsIn(q, Mattering(x), Asking(x))
BY DEF Aspects, Mattering, EndsIn

LEMMA SystemApart ==
  ASSUME LinkTyped, NEW x \in Aspects, x # "Volume"
  PROVE  /\ Without(system, Mattering(x)) /\ \A V : EndsIn(system, Mattering(x), V)
         /\ \A k \in Commands : k.cmd \in SystemVerbs => k \notin Mattering(x)
<1>1. \A k \in Commands : k.cmd \in SystemVerbs => k \notin Mattering(x)
  BY DEF Aspects, Mattering, Asking, SystemVerbs, SureVerbs, Steps, ModeVerbs, QueueVerbs
<1>2. system \in Seq(SystemOrders)
  BY DEF LinkTyped, OrdersTyped
<1>3. \A i \in DOMAIN system : system[i] \in SystemOrders
  BY <1>2
<1>4. Without(system, Mattering(x))
  BY <1>1, <1>3 DEF Without, SystemOrders
<1> QED BY <1>1, <1>4 DEF Without, EndsIn

\* A command of another than the one who looks at the queue.
LEMMA OthersApart ==
  ASSUME NEW c \in Client, NEW k \in Orders(c), NEW x \in Aspects, x = "Queue" => c # Editor
  PROVE  k \in Mattering(x) => x # "Queue"
BY DEF Orders, Mattering, Asking

\* Nothing about x changes or is told, or x is answered.
LEMMA NothingTold ==
  ASSUME LinkTyped, NEW c \in Client, NEW x \in Aspects, Settles(c, x),
         EndsIn(Pipe(c)', Mattering(x), Asking(x)),
         Without(Pipe(c)', Mattering(x)) =>
           /\ Without(Pipe(c), Mattering(x)) /\ True(x) \subseteq True(x)'
           /\ Seen(c, x) \in True(x) => Seen(c, x)' \in True(x)',
         NEW es \in Seq(Events), ring'[c] = ring[c] \o es, Without(es, About(x))
  PROVE  Settles(c, x)'
<1>1. ring[c] \in Seq(Events)
  BY DEF LinkTyped, NewsTyped
<1>2. /\ Without(ring'[c], About(x)) <=> Without(ring[c], About(x))
      /\ EndsIn(ring'[c], About(x), Right(x)') <=>
           EndsIn(es, About(x), Right(x)') /\ EndsIn(ring[c], About(x), Right(x)')
  <2> DEFINE r == ring[c]  S == About(x)  V == Right(x)'
  <2>1. r \in Seq(Events)
    BY <1>1
  <2>2. ring'[c] = r \o es
    OBVIOUS
  <2> HIDE DEF r, S, V
  <2>3. /\ Without(r \o es, S) <=> Without(r, S) /\ Without(es, S)
        /\ EndsIn(r \o es, S, V) <=> EndsIn(es, S, V) /\ (Without(es, S) => EndsIn(r, S, V))
    BY <2>1, EndsJoined
  <2> QED BY <2>2, <2>3 DEF r, S, V
<1>3. \A V : EndsIn(es, About(x), V)
  BY DEF Without, EndsIn
<1>4. Right(x) \subseteq Right(x)' \/ ~Without(Pipe(c)', Mattering(x))
  BY DEF Right
<1>5. ASSUME Right(x) \subseteq Right(x)', EndsIn(ring[c], About(x), Right(x))
      PROVE  EndsIn(ring[c], About(x), Right(x)')
  BY <1>5 DEF EndsIn
<1>6. /\ EndsIn(Pipe(c)', Mattering(x)', Asking(x)')
      /\ Without(Pipe(c)', Mattering(x)') =>
           /\ EndsIn(ring'[c], About(x)', Right(x)')
           /\ Without(ring'[c], About(x)') => Seen(c, x)' \in True(x)'
  BY <1>2, <1>3, <1>4, <1>5 DEF Settles, Mattering, Asking, About
<1> QED BY <1>6 DEF Settles

LEMMA ThenAnswered ==
  ASSUME LinkTyped, NEW c \in Client, NEW x \in Aspects,
         EndsIn(Pipe(c)', Mattering(x), Asking(x)),
         NEW e \in Events, ring'[c] = ring[c] \o <<e>>, e.event = x, e.value \in True(x)'
  PROVE  Settles(c, x)'
<1>1. ring[c] \in Seq(Events) /\ <<e>> \in Seq(Events)
  <2>1. ring \in [Client -> Seq(Events)]
    BY DEF LinkTyped, NewsTyped
  <2> QED BY <2>1, OneSeq
<1>2. e \in About(x) /\ e \in Right(x)'
  BY DEF About, Right
<1>3. ~Without(ring'[c], About(x)) /\ EndsIn(ring'[c], About(x), Right(x)')
  <2>1. ~Without(<<e>>, About(x)) /\ EndsIn(<<e>>, About(x), Right(x)')
    BY <1>2, EndsOne
  <2> DEFINE r == ring[c]  S == About(x)  V == Right(x)'  es == <<e>>
  <2>2. r \in Seq(Events) /\ es \in Seq(Events) /\ ring'[c] = r \o es
    BY <1>1
  <2>3. ~Without(es, S) /\ EndsIn(es, S, V)
    BY <2>1
  <2> HIDE DEF r, S, V, es
  <2>4. /\ Without(r \o es, S) <=> Without(r, S) /\ Without(es, S)
        /\ EndsIn(r \o es, S, V) <=> EndsIn(es, S, V) /\ (Without(es, S) => EndsIn(r, S, V))
    BY <2>2, EndsJoined
  <2> QED BY <2>2, <2>3, <2>4 DEF r, S, V, es
<1>4. /\ EndsIn(Pipe(c)', Mattering(x)', Asking(x)')
      /\ EndsIn(ring'[c], About(x)', Right(x)') /\ ~Without(ring'[c], About(x)')
  BY <1>3 DEF Mattering, Asking, About
<1> QED BY <1>4 DEF Settles

\* Nothing is told and nothing is taken off the line.
LEMMA NothingSaid ==
  ASSUME LinkTyped, LinkTyped', NEW c \in Client, NEW x \in Aspects, Settles(c, x),
         EndsIn(Pipe(c)', Mattering(x), Asking(x)),
         Without(Pipe(c)', Mattering(x)) =>
           /\ Without(Pipe(c), Mattering(x)) /\ True(x) \subseteq True(x)'
           /\ Seen(c, x) \in True(x) => Seen(c, x)' \in True(x)',
         ring'[c] = ring[c]
  PROVE  Settles(c, x)'
<1>1. ring[c] \in Seq(Events) /\ <<>> \in Seq(Events)
  <2>1. ring \in [Client -> Seq(Events)]
    BY DEF LinkTyped, NewsTyped
  <2> QED BY <2>1
<1>2. ring'[c] = ring[c] \o <<>>
  BY <1>1, ConcatEmptySeq
<1>3. Without(<<>>, About(x))
  BY EndsOne
<1> QED BY <1>1, <1>2, <1>3, NothingTold

LEMMA SystemOut ==
  ASSUME LinkInv, LinkTyped', HandleSystem, NEW c \in Client, NEW x \in Aspects, Watches(c, x)'
  PROVE  Settles(c, x)'
<1>1. LinkTyped
  BY DEF LinkInv
<1> DEFINE M == Mattering(x)  A == Asking(x)  e == Event("Volume", lastTold')
<1>2. /\ system # <<>> /\ system' = Tail(system)
      /\ UNCHANGED <<mode, queue, inbox, held, sock, up, page, view, taken>>
      /\ \/ Tell(<<e>>)
         \/ Head(system).cmd \in Steps /\ UNCHANGED <<ring, lagged>> /\ lastTold' = lastTold
  BY <1>1, SystemEffect DEF browser, TellNobody
<1>3. e \in Events /\ e.event = "Volume" /\ e.value = lastTold'
  <2>1. lastTold' \in Volumes
    BY DEF LinkTyped, ServerTyped
  <2> QED BY <2>1, EventFacts, EventIs
<1> HIDE DEF e
<1>4. sock[c] = "Open" /\ ~lagged'[c]
  BY <1>2 DEF Watches
<1>5. ASSUME Tell(<<e>>)
      PROVE  ring'[c] = ring[c] \o <<e>> /\ ~lagged[c] /\ <<e>> \in Seq(Events)
  BY <1>1, <1>3, <1>4, <1>5, OneSeq, TellFacts DEF Told
<1>6. Settles(c, x)
  <2>1. ~lagged[c]
    BY <1>2, <1>4, <1>5
  <2> QED BY <1>2, <1>4, <2>1 DEF LinkInv, Watches, OnQueue
<1>7. Holding(c)' = Holding(c)
  BY <1>2 DEF Holding
<1>8. system \in Seq(Commands)
  BY <1>1, PipeParts
<1>9. system = <<Head(system)>> \o Tail(system) /\ <<Head(system)>> \in Seq(Commands) /\ Tail(system) \in Seq(Commands)
  BY <1>2, <1>8, HeadJoined
<1>10. CASE x = "Volume" /\ Tell(<<e>>)
  <2>1. EndsIn(Pipe(c)', M, A)
    BY <1>10, AsksAlways
  <2>2. True(x)' = {lastTold'}
    BY <1>10 DEF True
  <2>3. e \in Events /\ e.event = x /\ e.value \in True(x)'
    BY <1>3, <1>10, <2>2
  <2>4. ring'[c] = ring[c] \o <<e>> /\ EndsIn(Pipe(c)', Mattering(x), Asking(x))
    BY <1>5, <1>10, <2>1
  <2> QED BY <1>1, <2>3, <2>4, ThenAnswered
<1>11. CASE x # "Volume" \/ ~Tell(<<e>>)
  <2>1. Head(system) \notin M
    <3>1. Head(system) \in SystemOrders
      BY <1>1, <1>2 DEF LinkTyped, OrdersTyped
    <3>2. Head(system) \in Commands /\ Head(system).cmd \in SystemVerbs
      BY <3>1 DEF SystemOrders
    <3>3. CASE x # "Volume"
      BY <1>1, <3>2, <3>3, SystemApart
    <3>4. CASE x = "Volume"
      <4>1. Head(system).cmd \in Steps
        BY <1>2, <1>11, <3>4
      <4>2. Head(system).cmd \notin SureVerbs
        BY <4>1 DEF Steps, SureVerbs
      <4> QED BY <3>2, <3>4, <4>2, AskFacts
    <3> QED BY <3>3, <3>4
  <2>0. /\ Without(system, M) <=> Without(system', M)
        /\ EndsIn(system, M, A) <=> EndsIn(system', M, A)
    <3> DEFINE k == Head(system)  t == Tail(system)
    <3>1. <<k>> \in Seq(Commands) /\ t \in Seq(Commands) /\ system = <<k>> \o t /\ system' = t /\ k \notin M
      BY <1>2, <1>9, <2>1
    <3> HIDE DEF k, t
    <3>2. /\ Without(<<k>> \o t, M) <=> Without(<<k>>, M) /\ Without(t, M)
          /\ EndsIn(<<k>> \o t, M, A) <=> EndsIn(t, M, A) /\ (Without(t, M) => EndsIn(<<k>>, M, A))
      BY <3>1, EndsJoined
    <3>3. Without(<<k>>, M) /\ EndsIn(<<k>>, M, A)
      BY <3>1, EndsOne
    <3> QED BY <3>1, <3>2, <3>3
  <2>2. Without(system, M) <=> Without(system', M)
    BY <2>0
  <2>3. EndsIn(system, M, A) <=> EndsIn(system', M, A)
    BY <2>0
  <2>4. EndsIn(Pipe(c)', M, A) /\ (Without(Pipe(c)', M) => Without(Pipe(c), M))
    BY <1>1, <1>2, <1>6, <1>7, <2>2, <2>3, PipeParts, PipePartsNext DEF Settles
  <2>5. True(x)' = True(x) /\ Seen(c, x)' = Seen(c, x)
    <3>1. x = "Volume" => lastTold' = lastTold
      BY <1>2, <1>11
    <3> QED BY <1>2, <3>1 DEF Aspects, True, Seen, Agreed
  <2>6. CASE Tell(<<e>>)
    <3>1. e \notin About(x)
      BY <1>3, <1>11, <2>6 DEF About
    <3>2. Without(<<e>>, About(x))
      BY <3>1, EndsOne
    <3> QED BY <1>1, <1>5, <1>6, <2>4, <2>5, <2>6, <3>2, NothingTold
  <2>7. CASE ring' = ring
    BY <1>1, <1>6, <2>4, <2>5, <2>7, NothingSaid
  <2> QED BY <1>2, <2>6, <2>7
<1> QED BY <1>10, <1>11

LEMMA CommandOut ==
  ASSUME LinkInv, LinkTyped', HandleUser, NEW c \in Client, NEW x \in Aspects, Watches(c, x)'
  PROVE  Settles(c, x)'
<1>1. LinkTyped
  BY DEF LinkInv
<1> DEFINE M == Mattering(x)  A == Asking(x)  k == Head(inbox)  t == Tail(inbox)
<1>2. /\ inbox # <<>> /\ inbox' = t
      /\ UNCHANGED <<lastTold, held, sock, up, page, view, taken>>
  BY <1>1, HandleEffect DEF browser, level
<1>3. inbox \in Seq(Commands) /\ system \in Seq(Commands)
  BY <1>1, PipeParts
<1>4. k \in Commands /\ t \in Seq(Commands) /\ <<k>> \in Seq(Commands) /\ inbox = <<k>> \o t
  BY <1>2, <1>3, HeadJoined
<1>5. k \in Orders(Editor)
  BY <1>1, <1>2 DEF LinkTyped, OrdersTyped
<1>6. Holding(c)' = Holding(c) /\ Seen(c, x)' = Seen(c, x)
  BY <1>2 DEF Holding, Seen, Aspects
<1>7. /\ Without(inbox, M) <=> k \notin M /\ Without(t, M)
      /\ EndsIn(inbox, M, A) <=> EndsIn(t, M, A) /\ (Without(t, M) => (k \in M => k \in A))
  <2>1. /\ Without(<<k>> \o t, M) <=> Without(<<k>>, M) /\ Without(t, M)
        /\ EndsIn(<<k>> \o t, M, A) <=> EndsIn(t, M, A) /\ (Without(t, M) => EndsIn(<<k>>, M, A))
    BY <1>4, EndsJoined
  <2> QED BY <1>4, <2>1, EndsOne
<1>8. CASE k.cmd \in SystemVerbs
  <2>1. system' = system \o <<k>> /\ UNCHANGED <<mode, queue, ring, lagged>>
    <3>1. system' = Append(system, k) /\ UNCHANGED <<mode, queue, ring, lagged>>
      BY <1>1, <1>8, HandleEffect
    <3> QED BY <1>3, <1>4, <3>1, AppendIsConcat
  <2>2. Settles(c, x)
    BY <1>2, <2>1 DEF LinkInv, Watches, OnQueue
  <2>3. /\ Without(system', M) <=> Without(system, M) /\ k \notin M
        /\ EndsIn(system', M, A) <=> (k \in M => k \in A) /\ (k \notin M => EndsIn(system, M, A))
    <3>1. /\ Without(system \o <<k>>, M) <=> Without(system, M) /\ Without(<<k>>, M)
          /\ EndsIn(system \o <<k>>, M, A) <=>
               EndsIn(<<k>>, M, A) /\ (Without(<<k>>, M) => EndsIn(system, M, A))
      BY <1>3, <1>4, EndsJoined
    <3> QED BY <2>1, <3>1, EndsOne
  <2>4. (k \in M => k \in A) /\ (k \in M => \A q : EndsIn(q, M, A))
    <3>1. CASE x = "Volume"
      BY <3>1, AsksAlways
    <3>2. CASE x # "Volume"
      BY <1>1, <1>4, <1>8, <3>2, SystemApart
    <3> QED BY <3>1, <3>2
  <2>5. EndsIn(Pipe(c)', M, A) /\ (Without(Pipe(c)', M) => Without(Pipe(c), M))
    BY <1>1, <1>2, <1>6, <1>7, <2>2, <2>3, <2>4, PipeParts, PipePartsNext DEF Settles
  <2>6. True(x)' = True(x)
    BY <1>2, <2>1 DEF True, Agreed, Aspects
  <2>7. ring'[c] = ring[c]
    BY <2>1
  <2> QED BY <1>1, <1>6, <2>2, <2>5, <2>6, <2>7, NothingSaid
<1>9. CASE k.cmd \notin SystemVerbs
  <2>1. system' = system /\ (PlayerCommand(k) \/ QueueCommand(k))
    BY <1>1, <1>9, HandleEffect
  <2> DEFINE Has(es) ==
           /\ Tell(es) \/ (es = <<>> /\ TellNobody)
           /\ mode' \in ModeNames /\ playing' \in BOOLEAN /\ queue' \in Queues
           /\ Without(es, About("Volume"))
           /\ IF k.cmd \in ModeVerbs THEN es = <<Event("Mode", mode')>>
              ELSE mode' = mode /\ Without(es, About("Mode"))
           /\ IF k.cmd = "QueryQueue" THEN queue' = queue /\ es = <<Event("Queue", queue)>>
              ELSE Without(es, About("Queue"))
           /\ k.cmd \notin QueueVerbs => \A s \in Song \ taken : queue'[s] = queue[s]
  <2>2. PICK es \in Seq(Events) : Has(es)
    <3> HIDE DEF k
    <3> QED BY <1>1, <1>5, <2>1, CommandEffect
  <2>3. ring'[c] = ring[c] \o es /\ ~lagged[c]
    <3>1. sock[c] = "Open" /\ ~lagged'[c]
      BY <1>2 DEF Watches
    <3>2. Tell(es) \/ (es = <<>> /\ UNCHANGED <<ring, lagged>>)
      BY <2>2 DEF TellNobody
    <3> QED BY <1>1, <2>2, <3>1, <3>2, TellFacts DEF Told
  <2>4. Settles(c, x)
    BY <1>2, <2>3 DEF LinkInv, Watches, OnQueue
  <2>5. k \in M => Without(system, M) /\ EndsIn(system, M, A)
    <3>1. x = "Volume" => k \notin M
      BY <1>4, <1>9, AskFacts DEF SystemVerbs
    <3> QED BY <1>1, <3>1, SystemApart
  <2>6. EndsIn(Pipe(c)', M, A) /\ (Without(Pipe(c)', M) => IF k \in M THEN k \in A ELSE Without(Pipe(c), M))
    BY <1>1, <1>2, <1>6, <1>7, <2>1, <2>4, <2>5, PipeParts, PipePartsNext DEF Settles
  <2>7. CASE k \notin M
    <3>1. Without(es, About(x)) /\ True(x) \subseteq True(x)'
      <4>1. CASE x = "Volume"
        BY <1>2, <2>2, <4>1 DEF True
      <4>2. CASE x = "Mode"
        BY <1>4, <2>2, <2>7, <4>2, AskFacts DEF True
      <4>3. CASE x = "Queue"
        <5>1. k.cmd \notin QueueVerbs /\ k.cmd # "QueryQueue"
          BY <1>4, <2>7, <4>3, AskFacts
        <5>2. Without(es, About(x)) /\ \A s \in Song \ taken : queue'[s] = queue[s]
          BY <2>2, <4>3, <5>1
        <5>3. \A f : Agreed(f) => Agreed(f)'
          BY <1>2, <5>2 DEF Agreed
        <5> QED BY <4>3, <5>2, <5>3 DEF True
      <4> QED BY <4>1, <4>2, <4>3 DEF Aspects
    <3> QED BY <1>1, <1>6, <2>2, <2>3, <2>4, <2>6, <2>7, <3>1, NothingTold
  <2>8. CASE k \in M /\ k \notin A
    <3>1. ~Without(Pipe(c)', M)
      BY <2>6, <2>8
    <3> QED BY <2>6, <3>1 DEF Settles, Mattering, Asking
  <2>9. CASE k \in A
    <3>1. EndsIn(Pipe(c)', Mattering(x), Asking(x))
      BY <2>6
    <3>2. CASE x = "Volume"
      BY <1>4, <1>9, <2>9, <3>2, AskFacts DEF SystemVerbs
    <3>3. CASE x = "Mode"
      <4> DEFINE e == Event("Mode", mode')
      <4>1. es = <<e>> /\ mode' \in ModeNames
        BY <1>4, <2>2, <2>9, <3>3, AskFacts
      <4>2. e \in Events /\ e.event = x /\ e.value = mode'
        BY <3>3, <4>1, EventFacts, EventIs
      <4> HIDE DEF e
      <4>3. e.value \in True(x)'
        BY <3>3, <4>2 DEF True
      <4> QED BY <1>1, <2>3, <3>1, <4>1, <4>2, <4>3, ThenAnswered
    <3>4. CASE x = "Queue"
      <4> DEFINE e == Event("Queue", queue)
      <4>1. es = <<e>> /\ queue' = queue /\ queue \in Queues
        BY <1>4, <2>2, <2>9, <3>4, AskFacts
      <4>2. e \in Events /\ e.event = x /\ e.value = queue
        BY <3>4, <4>1, EventFacts, EventIs
      <4> HIDE DEF e
      <4>3. e.value \in True(x)'
        BY <3>4, <4>1, <4>2 DEF True, Agreed
      <4> QED BY <1>1, <2>3, <3>1, <4>1, <4>2, <4>3, ThenAnswered
    <3> QED BY <3>2, <3>3, <3>4 DEF Aspects
  <2> QED BY <2>7, <2>8, <2>9
<1> QED BY <1>8, <1>9

\* A command comes into the line of the command loop: from c, it has been in the
\* line before.
LEMMA CommandIn ==
  ASSUME LinkInv, LinkTyped', NEW d \in Client, TakeCommand(d) \/ HandIn(d),
         NEW c \in Client, NEW x \in Aspects, Watches(c, x)'
  PROVE  Settles(c, x)'
<1>1. LinkTyped
  BY DEF LinkInv
<1> DEFINE M == Mattering(x)  A == Asking(x)
<1>2. UNCHANGED <<server, system, ring, lagged, sock, page, view, taken>>
  BY DEF TakeCommand, HandIn, browser
<1>3. Settles(c, x)
  BY <1>2 DEF LinkInv, Watches, OnQueue
<1>4. True(x)' = True(x) /\ Seen(c, x)' = Seen(c, x)
  BY <1>2 DEF True, Seen, Agreed, Aspects, server, level
<1>5. /\ system \in Seq(Commands) /\ inbox \in Seq(Commands)
      /\ up[d] \in Seq(Orders(d)) /\ up[d] \in Seq(Commands)
      /\ DOMAIN up = Client /\ DOMAIN held = Client /\ (held[d] = None \/ held[d] \in Orders(d))
  BY <1>1, PipeParts DEF LinkTyped, OrdersTyped
<1>6. ASSUME NEW k \in Orders(d), inbox' = Append(inbox, k)
      PROVE  /\ Without(inbox', M) <=> Without(inbox, M) /\ k \notin M
             /\ EndsIn(inbox', M, A) <=> (k \in M => k \in A) /\ (k \notin M => EndsIn(inbox, M, A))
             /\ c # d => /\ k \in M => k \in A /\ \A q : EndsIn(q, M, A)
                         /\ EndsIn(inbox', M, A) \/ k \notin M
  <2>1. k \in Commands
    BY OrderFacts
  <2>2. inbox' = inbox \o <<k>> /\ <<k>> \in Seq(Commands)
    BY <1>5, <1>6, <2>1, AppendIsConcat, OneSeq
  <2>3. /\ Without(inbox \o <<k>>, M) <=> Without(inbox, M) /\ Without(<<k>>, M)
        /\ EndsIn(inbox \o <<k>>, M, A) <=>
             EndsIn(<<k>>, M, A) /\ (Without(<<k>>, M) => EndsIn(inbox, M, A))
    BY <1>5, <2>2, EndsJoined
  <2>4. x = "Queue" => c = Editor
    BY DEF Watches
  <2>5. c # d => (k \in M => x # "Queue")
    BY <2>4, OthersApart
  <2>6. x # "Queue" => (k \in M => k \in A) /\ \A q : EndsIn(q, M, A)
    BY AsksAlways
  <2> QED BY <2>2, <2>3, <2>5, <2>6, EndsOne
<1>7. EndsIn(Pipe(c)', M, A) /\ (Without(Pipe(c)', M) => Without(Pipe(c), M))
  <2>1. CASE HandIn(d)
    <3>1. /\ held[d] # None /\ inbox' = Append(inbox, held[d]) /\ held' = [held EXCEPT ![d] = None]
          /\ up' = up
      BY <2>1 DEF HandIn, browser
    <3>2. held[d] \in Orders(d)
      BY <1>5, <3>1
    <3>3. CASE c = d
      <4>1. Holding(c) = <<held[d]>> /\ Holding(c)' = <<>>
        BY <1>5, <3>1, <3>3 DEF Holding
      <4> QED BY <1>1, <1>2, <1>3, <1>6, <3>1, <3>2, <4>1, EndsOne, PipeParts, PipePartsNext DEF Settles
    <3>4. CASE c # d
      <4>1. Holding(c)' = Holding(c)
        BY <1>5, <3>1, <3>4 DEF Holding
      <4> QED BY <1>1, <1>2, <1>3, <1>6, <3>1, <3>2, <3>4, <4>1, PipeParts, PipePartsNext DEF Settles
    <3> QED BY <3>3, <3>4
  <2>2. CASE TakeCommand(d)
    <3> DEFINE k == Head(up[d])  t == Tail(up[d])
    <3>1. /\ up[d] # <<>> /\ held[d] = None /\ up' = [up EXCEPT ![d] = t]
          /\ \/ inbox' = Append(inbox, k) /\ held' = held
             \/ inbox' = inbox /\ held' = [held EXCEPT ![d] = k]
      BY <2>2 DEF TakeCommand
    <3>2. k \in Orders(d) /\ t \in Seq(Commands) /\ <<k>> \in Seq(Commands) /\ up[d] = <<k>> \o t
      BY <1>5, <3>1, HeadJoined
    <3>3. k # None
      BY <3>2, OrderFacts, CommandIs
    <3> HIDE DEF k, t
    <3>4. /\ Without(up[d], M) <=> k \notin M /\ Without(t, M)
          /\ EndsIn(up[d], M, A) <=> EndsIn(t, M, A) /\ (Without(t, M) => (k \in M => k \in A))
      <4>1. /\ Without(<<k>> \o t, M) <=> Without(<<k>>, M) /\ Without(t, M)
            /\ EndsIn(<<k>> \o t, M, A) <=> EndsIn(t, M, A) /\ (Without(t, M) => EndsIn(<<k>>, M, A))
        BY <3>2, EndsJoined
      <4> QED BY <3>2, <4>1, EndsOne
    <3>5. CASE c = d
      <4>1. up'[c] = t /\ Holding(c) = <<>>
        BY <1>5, <3>1, <3>5 DEF Holding
      <4>4. /\ Without(<<>>, M) /\ EndsIn(<<>>, M, A)
            /\ Without(<<k>>, M) <=> k \notin M
            /\ EndsIn(<<k>>, M, A) <=> (k \in M => k \in A)
        BY EndsOne
      <4>5. /\ Without(Pipe(c), M) <=>
                 Without(system, M) /\ Without(inbox, M) /\ Without(Holding(c), M) /\ Without(up[c], M)
            /\ EndsIn(up[c], M, A)
            /\ Without(up[c], M) =>
                 /\ EndsIn(Holding(c), M, A)
                 /\ Without(Holding(c), M) =>
                      EndsIn(inbox, M, A) /\ (Without(inbox, M) => EndsIn(system, M, A))
        BY <1>1, <1>3, PipeParts DEF Settles
      <4>6. /\ Without(Pipe(c)', M) <=>
                 Without(system', M) /\ Without(inbox', M) /\ Without(Holding(c)', M) /\ Without(up'[c], M)
            /\ EndsIn(Pipe(c)', M, A) <=>
                 /\ EndsIn(up'[c], M, A)
                 /\ Without(up'[c], M) =>
                      /\ EndsIn(Holding(c)', M, A)
                      /\ Without(Holding(c)', M) =>
                           EndsIn(inbox', M, A) /\ (Without(inbox', M) => EndsIn(system', M, A))
        BY PipePartsNext
      <4>2. CASE inbox' = Append(inbox, k) /\ held' = held
        <5>1. Holding(c)' = <<>>
          BY <3>1, <3>5, <4>2 DEF Holding
        <5>2. /\ Without(inbox', M) <=> Without(inbox, M) /\ k \notin M
              /\ EndsIn(inbox', M, A) <=> (k \in M => k \in A) /\ (k \notin M => EndsIn(inbox, M, A))
          BY <1>6, <3>2, <4>2
        <5> QED
          BY <1>2, <3>4, <3>5, <4>1, <4>4, <4>5, <4>6, <5>1, <5>2
      <4>3. CASE inbox' = inbox /\ held' = [held EXCEPT ![d] = k]
        <5>1. Holding(c)' = <<k>>
          BY <1>5, <3>3, <3>5, <4>3 DEF Holding
        <5> QED
          BY <1>2, <3>4, <3>5, <4>1, <4>3, <4>4, <4>5, <4>6, <5>1
      <4> QED BY <3>1, <4>2, <4>3
    <3>6. CASE c # d
      <4>1. up'[c] = up[c] /\ Holding(c)' = Holding(c)
        BY <1>5, <3>1, <3>6 DEF Holding
      <4>2. CASE inbox' = inbox
        BY <1>1, <1>2, <1>3, <4>1, <4>2, PipeParts, PipePartsNext DEF Settles
      <4>3. CASE inbox' = Append(inbox, k)
        BY <1>1, <1>2, <1>3, <1>6, <3>2, <3>6, <4>1, <4>3, PipeParts, PipePartsNext DEF Settles
      <4> QED BY <3>1, <4>2, <4>3
    <3> QED BY <3>5, <3>6
  <2> QED BY <2>1, <2>2
<1>8. ring'[c] = ring[c]
  BY <1>2
<1> QED BY <1>1, <1>3, <1>4, <1>7, <1>8, NothingSaid

LEMMA NewsOut ==
  ASSUME LinkInv, LinkTyped', NEW d \in Client, Forward(d),
         NEW c \in Client, NEW x \in Aspects, Watches(c, x)'
  PROVE  Settles(c, x)'
<1>1. LinkTyped
  BY DEF LinkInv
<1>2. /\ UNCHANGED <<server, loops, held, lagged, sock, up, page, taken>> /\ ring[d] # <<>>
      /\ view' = [view EXCEPT ![d] = Dispatched(@, Head(ring[d]))]
      /\ ring' = [ring EXCEPT ![d] = Tail(@)]
  BY DEF Forward
<1>3. Settles(c, x)
  BY <1>2 DEF LinkInv, Watches, OnQueue
<1>4. True(x)' = True(x)
  BY <1>2 DEF True, Agreed, Aspects, server, level
<1>5. ring \in [Client -> Seq(Events)] /\ view \in [Client -> Views]
  BY <1>1 DEF LinkTyped, NewsTyped
<1>6. Pipe(c)' = Pipe(c)
  BY <1>2 DEF Pipe, Holding, loops
<1>7. CASE c # d
  <2>1. ring'[c] = ring[c] /\ view'[c] = view[c]
    BY <1>2, <1>5, <1>7
  <2>2. Seen(c, x)' = Seen(c, x)
    BY <2>1 DEF Seen, Aspects
  <2>3. EndsIn(Pipe(c)', Mattering(x), Asking(x))
    BY <1>3, <1>6 DEF Settles
  <2> QED BY <1>1, <1>3, <1>4, <1>6, <2>1, <2>2, <2>3, NothingSaid
<1>8. CASE c = d
  <2> DEFINE e == Head(ring[c])  t == Tail(ring[c])
  <2>1. /\ e \in Events /\ t \in Seq(Events) /\ <<e>> \in Seq(Events) /\ ring[c] = <<e>> \o t
        /\ ring'[c] = t /\ view'[c] = Dispatched(view[c], e)
    BY <1>2, <1>5, <1>8, HeadJoined
  <2> HIDE DEF e, t
  <2>2. /\ Without(ring[c], About(x)) <=> e \notin About(x) /\ Without(t, About(x))
        /\ EndsIn(ring[c], About(x), Right(x)) <=>
             /\ EndsIn(t, About(x), Right(x))
             /\ Without(t, About(x)) => (e \in About(x) => e \in Right(x))
    <3>1. /\ Without(<<e>> \o t, About(x)) <=> Without(<<e>>, About(x)) /\ Without(t, About(x))
          /\ EndsIn(<<e>> \o t, About(x), Right(x)) <=>
               /\ EndsIn(t, About(x), Right(x))
               /\ Without(t, About(x)) => EndsIn(<<e>>, About(x), Right(x))
      BY <2>1, EndsJoined
    <3> QED BY <2>1, <3>1, EndsOne
  <2>3. Seen(c, x)' = IF e \in About(x) THEN e.value ELSE Seen(c, x)
    <3>1. view[c] \in Views
      BY <1>5
    <3>2. /\ view'[c].volume = IF e.event = "Volume" THEN e.value ELSE view[c].volume
          /\ view'[c].mode = IF e.event = "Mode" THEN e.value ELSE view[c].mode
          /\ view'[c].queue = IF e.event = "Queue" THEN e.value ELSE view[c].queue
      BY <2>1, <3>1, ViewFacts
    <3>3. e \in About(x) <=> e.event = x
      BY <2>1 DEF About
    <3> QED BY <3>2, <3>3 DEF Seen, Aspects
  <2>4. e \in Right(x) => e.value \in True(x)
    BY DEF Right
  <2>5. /\ EndsIn(Pipe(c)', Mattering(x)', Asking(x)')
        /\ Without(Pipe(c)', Mattering(x)') =>
           /\ EndsIn(ring'[c], About(x)', Right(x)')
           /\ Without(ring'[c], About(x)') => Seen(c, x)' \in True(x)'
    BY <1>3, <1>4, <1>6, <2>1, <2>2, <2>3, <2>4 DEF Settles, Mattering, Asking, About, Right
  <2> QED BY <2>5 DEF Settles
<1> QED BY <1>7, <1>8

LEMMA Dialled ==
  ASSUME LinkInv, LinkTyped', NEW d \in Client, Open(d) \/ Close(d),
         NEW c \in Client, NEW x \in Aspects, Watches(c, x)'
  PROVE  Settles(c, x)'
<1>1. LinkTyped /\ DOMAIN up = Client /\ DOMAIN held = Client
      /\ ring \in [Client -> Seq(Events)] /\ DOMAIN lagged = Client /\ sock \in [Client -> {"Down", "Open"}]
  BY DEF LinkInv, LinkTyped, OrdersTyped, NewsTyped, PagesTyped
<1> DEFINE M == Mattering(x)  A == Asking(x)
<1>2. /\ UNCHANGED <<server, loops, held, page, view, taken>>
      /\ ring' = [ring EXCEPT ![d] = <<>>]
      /\ lagged' = lagged \/ lagged' = [lagged EXCEPT ![d] = FALSE]
      /\ sock' = [sock EXCEPT ![d] = "Open"] \/ sock' = [sock EXCEPT ![d] = "Down"]
  BY DEF Open, Close
<1>3. True(x)' = True(x) /\ Seen(c, x)' = Seen(c, x) /\ Holding(c)' = Holding(c)
  BY <1>2 DEF True, Seen, Agreed, Aspects, server, level, Holding
<1>4. CASE c # d
  <2>1. up'[c] = up[c]
    BY <1>1, <1>4 DEF Open, Close
  <2>2. ring'[c] = ring[c] /\ lagged'[c] = lagged[c] /\ sock'[c] = sock[c]
    BY <1>1, <1>2, <1>4
  <2>3. Settles(c, x)
    BY <1>2, <2>2 DEF LinkInv, Watches, OnQueue
  <2>4. Pipe(c)' = Pipe(c)
    BY <1>2, <1>3, <2>1 DEF Pipe, loops
  <2>5. EndsIn(Pipe(c)', M, A)
    BY <2>3, <2>4 DEF Settles
  <2> QED BY <1>1, <1>3, <2>2, <2>3, <2>4, <2>5, NothingSaid
<1>5. CASE c = d /\ Close(d)
  <2>1. sock'[c] = "Down"
    BY <1>1, <1>5 DEF Close
  <2> QED BY <2>1 DEF Watches
<1>6. CASE c = d /\ Open(d)
  <2>1. up'[c] = OpeningQueries \o PageQuery(c)
    BY <1>1, <1>6 DEF Open
  <2> DEFINE i == Plain("QueryInfo")  v == Plain("QueryVolume")  q == Plain("QueryQueue")
  <2>2. /\ i \in Commands /\ i.cmd = "QueryInfo" /\ v \in Commands /\ v.cmd = "QueryVolume"
        /\ q \in Commands /\ q.cmd = "QueryQueue"
    BY CommandFacts DEF PlainVerbs
  <2>3. OpeningQueries = <<i, v>> /\ PageQuery(c) = IF page[c] = "Queue" THEN <<q>> ELSE <<>>
    BY DEF OpeningQueries, PageQuery
  <2> HIDE DEF i, v, q
  <2>4. <<i, v>> \in Seq(Commands) /\ PageQuery(c) \in Seq(Commands)
    BY <2>2, <2>3, OneSeq
  <2>5. /\ Without(up'[c], M) <=> Without(<<i, v>>, M) /\ Without(PageQuery(c), M)
        /\ EndsIn(up'[c], M, A) <=>
             EndsIn(PageQuery(c), M, A) /\ (Without(PageQuery(c), M) => EndsIn(<<i, v>>, M, A))
    <3> DEFINE o == <<i, v>>  r == PageQuery(c)
    <3>1. o \in Seq(Commands) /\ r \in Seq(Commands) /\ up'[c] = o \o r
      BY <2>1, <2>3, <2>4
    <3> HIDE DEF o, r
    <3>2. /\ Without(o \o r, M) <=> Without(o, M) /\ Without(r, M)
          /\ EndsIn(o \o r, M, A) <=> EndsIn(r, M, A) /\ (Without(r, M) => EndsIn(o, M, A))
      BY <3>1, EndsJoined
    <3> QED BY <3>1, <3>2 DEF o, r
  <2>6. EndsIn(up'[c], M, A) /\ ~Without(up'[c], M)
    <3>1. CASE x = "Queue"
      <4>1. page[c] = "Queue"
        BY <1>2, <3>1 DEF Watches, OnQueue
      <4>2. q \in M /\ q \in A
        BY <2>2, <3>1, AskFacts
      <4>3. EndsIn(PageQuery(c), M, A) /\ ~Without(PageQuery(c), M)
        BY <2>3, <4>1, <4>2, EndsOne
      <4> QED BY <2>5, <4>3
    <3>2. CASE x # "Queue"
      <4>1. i \in M \/ v \in M
        BY <2>2, <3>2, AskFacts DEF Aspects, SureVerbs, ModeVerbs
      <4>2. DOMAIN <<i, v>> = 1..2 /\ <<i, v>>[1] = i /\ <<i, v>>[2] = v /\ 1 \in 1..2 /\ 2 \in 1..2
        OBVIOUS
      <4>3. ~Without(<<i, v>>, M)
        BY <4>1, <4>2 DEF Without
      <4> QED BY <2>5, <3>2, <4>3, AsksAlways
    <3> QED BY <3>1, <3>2
  <2>7. ~Without(Pipe(c)', M) /\ EndsIn(Pipe(c)', M, A)
    BY <2>6, PipePartsNext
  <2> QED BY <2>7 DEF Settles, Mattering, Asking
<1> QED BY <1>4, <1>5, <1>6

LEMMA UserOut ==
  ASSUME LinkInv, LinkTyped', NEW b \in Client, UserActs(b),
         NEW c \in Client, NEW x \in Aspects, Watches(c, x)'
  PROVE  Settles(c, x)'
<1>1. /\ LinkTyped /\ DOMAIN up = Client
      /\ \A d \in Client : up[d] \in Seq(Commands)
  BY PipeParts DEF LinkInv, LinkTyped, OrdersTyped
<1> DEFINE M == Mattering(x)  A == Asking(x)
<1>2. UNCHANGED <<server, loops, wire, sock>>
  BY <1>1, UserEffect
<1>3d. PICK d \in Client : \E ks : UserSent(d, ks)
  BY <1>1, UserEffect
<1>3. PICK ks : d \in Client /\ UserSent(d, ks)
  BY <1>3d
<1>4. /\ ks \in Seq(Commands)
      /\ \/ up' = up /\ (sock[d] # "Open" \/ ~OnQueue(d)')
         \/ sock[d] = "Open" /\ up' = [up EXCEPT ![d] = @ \o ks]
      /\ taken \subseteq taken'
  <2>1. Orders(d)' \subseteq Commands
    BY DEF Orders
  <2> QED BY <1>3, <2>1, SeqGrows DEF UserSent
<1>5. view' \in [Client -> Views] /\ \A e \in Client : view'[e].volume = view[e].volume /\ view'[e].mode = view[e].mode
  BY <1>3 DEF UserSent
<1>6. Holding(c)' = Holding(c) /\ ring'[c] = ring[c]
  BY <1>2 DEF Holding, wire
<1>7. True(x) \subseteq True(x)'
  <2>1. \A f : Agreed(f) => Agreed(f)'
    BY <1>2, <1>4 DEF Agreed, server
  <2> QED BY <1>2, <2>1 DEF True, Aspects, server, level
<1>8. sock[c] = "Open" /\ ~lagged[c] /\ (x = "Queue" => c = Editor /\ OnQueue(c)')
  BY <1>2 DEF Watches, wire
<1>9. CASE x = "Queue" /\ c = d
  <2>1. c = Editor /\ OnQueue(c)' /\ OnQueue(d)'
    BY <1>8, <1>9 DEF OnQueue
  <2>2. /\ EndsIn(ks, M, A)
        /\ \/ ~Without(ks, M)
           \/ OnQueue(d) /\ \A s \in Song \ taken' : view'[d].queue[s] = view[d].queue[s]
    BY <1>3, <1>9, <2>1 DEF UserSent
  <2>3. up'[c] = up[c] \o ks
    BY <1>1, <1>4, <1>8, <1>9, <2>1
  <2>4. /\ Without(up'[c], M) <=> Without(up[c], M) /\ Without(ks, M)
        /\ EndsIn(up'[c], M, A) <=> EndsIn(ks, M, A) /\ (Without(ks, M) => EndsIn(up[c], M, A))
    <3>1. up[c] \in Seq(Commands) /\ ks \in Seq(Commands)
      BY <1>1, <1>4
    <3>2. /\ Without(up[c] \o ks, M) <=> Without(up[c], M) /\ Without(ks, M)
          /\ EndsIn(up[c] \o ks, M, A) <=> EndsIn(ks, M, A) /\ (Without(ks, M) => EndsIn(up[c], M, A))
      BY <3>1, EndsJoined
    <3> QED BY <2>3, <3>2
  <2>5. CASE ~Without(ks, M)
    <3>1. ~Without(up'[c], M) /\ EndsIn(up'[c], M, A)
      BY <2>2, <2>4, <2>5
    <3>2. ~Without(Pipe(c)', M) /\ EndsIn(Pipe(c)', M, A)
      BY <3>1, PipePartsNext
    <3> QED BY <3>2 DEF Settles, Mattering, Asking
  <2>6. CASE Without(ks, M) /\ OnQueue(d) /\ \A s \in Song \ taken' : view'[d].queue[s] = view[d].queue[s]
    <3>1. Settles(c, x)
      BY <1>8, <1>9, <2>6 DEF LinkInv, Watches, OnQueue
    <3>2. EndsIn(Pipe(c)', M, A) /\ (Without(Pipe(c)', M) => Without(Pipe(c), M))
      BY <1>1, <1>2, <1>6, <2>2, <2>4, <2>6, <3>1, PipeParts, PipePartsNext DEF Settles, loops
    <3>3. Seen(c, x) \in True(x) => Seen(c, x)' \in True(x)'
      <4>1. view'[c].queue \in Queues
        BY <1>5 DEF Views
      <4>2. Agreed(view[c].queue) => \A s \in Song \ taken' : view'[c].queue[s] = queue'[s]
        BY <1>2, <1>4, <1>9, <2>6 DEF Agreed, server
      <4>3. view'[c].queue \in True(x)' <=> \A s \in Song \ taken' : view'[c].queue[s] = queue'[s]
        BY <1>9, <4>1 DEF True, Agreed
      <4>4. view[c].queue \in True(x) => Agreed(view[c].queue)
        BY <1>9 DEF True
      <4>5. Seen(c, x) = view[c].queue /\ Seen(c, x)' = view'[c].queue
        BY <1>9 DEF Seen
      <4> QED BY <4>2, <4>3, <4>4, <4>5
    <3> QED BY <1>1, <1>6, <1>7, <3>1, <3>2, <3>3, NothingSaid
  <2> QED BY <2>2, <2>5, <2>6
<1>10. CASE x # "Queue" /\ c = d
  <2>1. Settles(c, x)
    BY <1>8, <1>10 DEF LinkInv, Watches
  <2>2. EndsIn(Pipe(c)', M, A)
    BY <1>10, AsksAlways
  <2>3. Without(up'[c], M) => Without(up[c], M)
    <3>1. up'[c] = up[c] \/ up'[c] = up[c] \o ks
      BY <1>1, <1>4, <1>10
    <3> QED BY <1>1, <1>4, <3>1, EndsJoined
  <2>4. Without(Pipe(c)', M) => Without(Pipe(c), M)
    BY <1>1, <1>2, <1>6, <2>3, PipeParts, PipePartsNext DEF loops
  <2>5. Seen(c, x)' = Seen(c, x)
    BY <1>5, <1>10 DEF Seen, Aspects
  <2> QED BY <1>1, <1>6, <1>7, <2>1, <2>2, <2>4, <2>5, NothingSaid
<1>11. CASE c # d
  <2>1. x = "Queue" => page' = page /\ view' = view
    <3>1. x = "Queue" => d # Editor
      BY <1>8, <1>11
    <3> QED BY <1>3, <3>1 DEF UserSent
  <2>2. Settles(c, x)
    BY <1>8, <2>1 DEF LinkInv, Watches, OnQueue
  <2>3. Seen(c, x)' = Seen(c, x)
    BY <1>5, <2>1 DEF Seen, Aspects
  <2>4. up'[c] = up[c]
    BY <1>1, <1>4, <1>11
  <2>5. Pipe(c)' = Pipe(c)
    BY <1>2, <1>6, <2>4 DEF Pipe, loops
  <2>6. EndsIn(Pipe(c)', M, A)
    BY <2>2, <2>5 DEF Settles
  <2> QED BY <1>1, <1>6, <1>7, <2>2, <2>3, <2>5, <2>6, NothingSaid
<1> QED BY <1>9, <1>10, <1>11

\* The server's own reports, and what tells nobody.
LEMMA OthersOut ==
  ASSUME LinkInv, LinkTyped', Progress \/ QueueEnds \/ UNCHANGED vars,
         NEW c \in Client, NEW x \in Aspects, Watches(c, x)'
  PROVE  Settles(c, x)'
<1>1. LinkTyped
  BY DEF LinkInv
<1>2. UNCHANGED <<lastTold, mode, queue, loops, held, sock, up, page, view, taken>>
  BY DEF Progress, QueueEnds, vars, server, level, wire, browser
<1>3. sock[c] = "Open" /\ ~lagged'[c]
  BY <1>2 DEF Watches
<1>4. True(x)' = True(x) /\ Seen(c, x)' = Seen(c, x) /\ Pipe(c)' = Pipe(c)
  BY <1>2 DEF True, Seen, Agreed, Aspects, Pipe, Holding, loops
<1>5. CASE Progress
  <2> DEFINE e == Event("Time", 0)
  <2>1. e \in Events /\ <<e>> \in Seq(Events)
    BY EventFacts, OneSeq
  <2>2. Without(<<e>>, About(x))
    BY AboutFacts, EndsOne
  <2>3. Tell(<<e>>)
    BY <1>5 DEF Progress
  <2> HIDE DEF e
  <2>4. ring'[c] = ring[c] \o <<e>> /\ ~lagged[c]
    BY <1>1, <1>3, <2>1, <2>3, TellFacts DEF Told
  <2>5. Settles(c, x)
    BY <1>2, <1>3, <2>4 DEF LinkInv, Watches, OnQueue
  <2>6. EndsIn(Pipe(c)', Mattering(x), Asking(x))
    BY <1>4, <2>5 DEF Settles
  <2> QED BY <1>1, <1>4, <2>1, <2>2, <2>4, <2>5, <2>6, NothingTold
<1>6. CASE QueueEnds \/ UNCHANGED vars
  <2>1. ring' = ring /\ lagged' = lagged
    BY <1>6 DEF QueueEnds, vars, wire
  <2>2. Settles(c, x)
    BY <1>2, <1>3, <2>1 DEF LinkInv, Watches, OnQueue
  <2>3. EndsIn(Pipe(c)', Mattering(x), Asking(x))
    BY <1>4, <2>2 DEF Settles
  <2> QED BY <1>1, <1>4, <2>1, <2>2, <2>3, NothingSaid
<1> QED BY <1>5, <1>6

LEMMA LinkInvariant == Spec => []LinkInv
<1>1. LinkInv /\ [Next]_vars => LinkInv'
  <2> SUFFICES ASSUME LinkInv, [Next]_vars PROVE LinkInv'
    OBVIOUS
  <2>1. LinkTyped'
    <3>1. LinkTyped
      BY DEF LinkInv
    <3> QED BY <3>1, ServerStep, OrdersStep, NewsStep, PagesStep DEF LinkTyped
  <2>2. ASSUME NEW c \in Client, NEW x \in Aspects, Watches(c, x)' PROVE Settles(c, x)'
    BY <2>1, <2>2, StepCases, SystemOut, CommandOut, CommandIn, NewsOut, Dialled, UserOut, OthersOut
  <2>3. \A c \in Client, x \in Aspects : Watches(c, x)' => Settles(c, x)'
    BY <2>2
  <2> QED BY <2>1, <2>3 DEF LinkInv, Aspects
<1> QED BY <1>1, LinkStart, PTL DEF Spec

LEMMA QuietFacts ==
  ASSUME LinkInv, NEW c \in Client, NEW x \in Aspects, Quiet(c), x = "Queue" => c = Editor /\ OnQueue(c)
  PROVE  Seen(c, x) \in True(x)
<1>1. Settles(c, x)
  BY DEF LinkInv, Watches, Quiet
<1>2. Pipe(c) = <<>> /\ ring[c] = <<>>
  <2>1. inbox = <<>> /\ system = <<>> /\ held[c] = None /\ up[c] = <<>> /\ ring[c] = <<>>
    BY DEF Quiet
  <2>2. <<>> \o <<>> = <<>>
    OBVIOUS
  <2> QED BY <2>1, <2>2 DEF Pipe, Holding
<1> QED BY <1>1, <1>2, EndsOne DEF Settles

\* However many browsers reconnect and send commands, and whatever the capacities
\* of the channels, a browser for which nothing is under way, and that has not
\* lagged, shows the server's mode and the volume that was announced last; it is
\* the volume there is unless the last change was a step announced late or not at all.
THEOREM PagesInStep == Spec => []InStep
<1>1. LinkInv => InStep
  <2> SUFFICES ASSUME LinkInv, NEW c \in Client, Quiet(c)
               PROVE  /\ view[c].mode = mode /\ view[c].volume = lastTold
                      /\ lastTold = volume \/ silent
    BY DEF InStep
  <2>1. "Volume" \in Aspects /\ "Mode" \in Aspects
    BY DEF Aspects
  <2>2. Seen(c, "Volume") \in True("Volume") /\ Seen(c, "Mode") \in True("Mode")
    BY <2>1, QuietFacts
  <2>3. silent \/ lastTold = volume
    BY DEF LinkInv, LinkTyped, ServerTyped
  <2> QED BY <2>2, <2>3 DEF Seen, True
<1> QED BY <1>1, LinkInvariant, PTL

\* The queue page of the one who edits shows every song as often as it is queued
\* once nothing is under way, also after commands and answers were lost with the
\* connection: except for the songs removed on the page.
THEOREM QueuePageFaithful == Spec => []PageFaithful
<1>1. LinkInv => PageFaithful
  <2> SUFFICES ASSUME LinkInv, Quiet(Editor), OnQueue(Editor), NEW s \in Song \ taken
               PROVE  view[Editor].queue[s] = queue[s]
    BY DEF PageFaithful
  <2>1. "Queue" \in Aspects /\ Editor \in Client
    BY WebAssumption DEF Aspects
  <2>2. Seen(Editor, "Queue") \in True("Queue")
    BY <2>1, QuietFacts
  <2> QED BY <2>2 DEF Seen, True, Agreed
<1> QED BY <1>1, LinkInvariant, PTL

-----------------------------------------------------------------------------
(* Playback in the browser.                                                *)

Tracks      == 1..LastSong
AudioStates == {"PLAYING", "PAUSED", "STOPPED"}
Presses     == {"Play", "Pause", "Next", "QueryCurrentSong"}
Sounds      == {"play", "pause", "ended"}

TrackNews == {SongNews(s) : s \in Tracks}
Stills    == {StateNews("PAUSED"), StateNews("STOPPED")}
AudioNews == TrackNews \cup Stills \cup {StateNews("PLAYING")}

\* Orders that make the server start a song.
Starts == {"Play", "Next"}

ThreadTyped == thread \in [song : Tracks, alive : BOOLEAN] /\ orders \in Seq(Presses)

Pages    == [song : 0..LastSong, changing : BOOLEAN, due : SUBSET {"song", "state"}, state : AudioStates]
Speakers == [src : 0..LastSong, paused : BOOLEAN, events : Seq(Sounds)]
Clocks   == [running : Nat, settled : BOOLEAN, early : BOOLEAN]

ShowTyped(b)  == shows[b] \in Pages
SoundTyped(b) == element[b] \in Speakers

TabsTyped ==
  /\ DOMAIN coming = Tab /\ DOMAIN shows = Tab /\ DOMAIN element = Tab
  /\ timers \in [Tab -> Clocks]
  /\ \A b \in Tab : coming[b] \in Seq(AudioNews) /\ ShowTyped(b) /\ SoundTyped(b)

\* After what stops a song is announced.
Overruled(q) ==
  \A i \in DOMAIN q : q[i] \in Stills => \E j \in DOMAIN q : i < j /\ q[j] \in TrackNews

\* The source is that of the song shown, unless its effect has not run.
Sourced(b) == "song" \notin shows[b].due => element[b].src = shows[b].song

\* The song of the server is the last one announced, or the one shown; what stops
\* comes before it.
Announced(b) ==
  /\ EndsIn(coming[b], TrackNews, {SongNews(thread.song)})
  /\ Without(coming[b], TrackNews) => shows[b].song = thread.song
  /\ Overruled(coming[b])

\* A song will be started: an order, an end that will order it, its announcement or
\* its effect is under way.
Started(b) ==
  \/ ~Without(orders, Starts) \/ ~Without(element[b].events, {"ended"})
  \/ ~Without(coming[b], TrackNews) \/ "song" \in shows[b].due

\* The state is to play, and the element does or will be coming.
Sounding(b) ==
  shows[b].state = "PLAYING" /\ ("state" \in shows[b].due \/ ~element[b].paused)

\* Until the source has settled a pause says nothing, unless an older timer took the
\* guard away, and the play that comes with the source is still to be heard, or was.
Plays(b) ==
  \/ timers[b].early
  \/ /\ ~timers[b].settled /\ shows[b].changing
     /\ Sounding(b) \/ ~Without(element[b].events, {"play"})
  \/ timers[b].settled /\ Sounding(b) /\ Without(element[b].events, {"pause"})

AudioInv ==
  /\ ThreadTyped /\ TabsTyped
  /\ \A b \in Tab : /\ Sourced(b)
                    /\ thread.alive => Announced(b) /\ (Started(b) \/ Plays(b))

LEMMA TrackNewsFacts ==
  /\ \A s \in Tracks : SongNews(s) \in TrackNews /\ SongNews(s).type = "CurrentSong" /\ SongNews(s).song = s
  /\ \A n \in TrackNews : n.type = "CurrentSong" /\ n.song \in Tracks /\ n = SongNews(n.song)
  /\ \A n \in Stills \cup {StateNews("PLAYING")} :
       n.type # "CurrentSong" /\ n \notin TrackNews /\ n.state \in AudioStates
  /\ \A n \in Stills : n.state # "PLAYING"
  /\ StateNews("PLAYING").state = "PLAYING" /\ StateNews("PLAYING") \notin Stills
  /\ StateNews("STOPPED") \in Stills
<1>1. /\ \A s \in Tracks : SongNews(s) \in TrackNews /\ SongNews(s).type = "CurrentSong" /\ SongNews(s).song = s
      /\ \A n \in TrackNews : n.type = "CurrentSong" /\ n.song \in Tracks /\ n = SongNews(n.song)
  BY DEF TrackNews, SongNews
<1>2. \A x : StateNews(x).type = "PlaybackState" /\ StateNews(x).state = x
  BY DEF StateNews
<1> QED BY <1>1, <1>2 DEF Stills, AudioStates

LEMMA OverruledAfter ==
  ASSUME NEW q \in Seq(AudioNews)
  PROVE  /\ Overruled(q) /\ q # <<>> => Overruled(Tail(q))
         /\ \A s \in Tracks : Overruled(q \o <<SongNews(s)>>)
         /\ Without(q, TrackNews) /\ Overruled(q) => Without(q, Stills)
<1>1. ASSUME Overruled(q), q # <<>> PROVE Overruled(Tail(q))
  <2> DEFINE r == Tail(q)
  <2>1. /\ Len(q) \in Nat /\ DOMAIN q = 1..Len(q) /\ DOMAIN r = 1..Len(q) - 1
        /\ \A i \in 1..Len(q) - 1 : r[i] = q[i + 1]
    BY <1>1
  <2> HIDE DEF r
  <2> SUFFICES ASSUME NEW i \in 1..Len(q) - 1, r[i] \in Stills
               PROVE  \E j \in 1..Len(q) - 1 : i < j /\ r[j] \in TrackNews
    <3>1. Overruled(r) <=> \A i \in 1..Len(q) - 1 : r[i] \in Stills =>
                             \E j \in 1..Len(q) - 1 : i < j /\ r[j] \in TrackNews
      BY <2>1 DEF Overruled
    <3> QED BY <3>1 DEF r
  <2>2. i + 1 \in 1..Len(q) /\ q[i + 1] \in Stills
    BY <2>1
  <2>3. PICK k \in 1..Len(q) : i + 1 < k /\ q[k] \in TrackNews
    BY <1>1, <2>1, <2>2 DEF Overruled
  <2>4. k - 1 \in 1..Len(q) - 1 /\ i < k - 1 /\ (k - 1) + 1 = k
    BY <2>1, <2>3
  <2>5. r[k - 1] = q[k]
    BY <2>1, <2>4
  <2> QED BY <2>3, <2>4, <2>5
<1>2. ASSUME NEW s \in Tracks PROVE Overruled(q \o <<SongNews(s)>>)
  <2> DEFINE e == SongNews(s)  r == q \o <<e>>
  <2>0. e \in TrackNews
    BY TrackNewsFacts
  <2> HIDE DEF e
  <2>1. /\ Len(q) \in Nat /\ DOMAIN r = 1..Len(q) + 1 /\ r[Len(q) + 1] = e
        /\ \A i \in 1..Len(q) : r[i] = q[i]
    OBVIOUS
  <2> HIDE DEF r
  <2>2. e \notin Stills
    BY <2>0, TrackNewsFacts
  <2>3. ASSUME NEW i \in 1..Len(q) + 1, r[i] \in Stills PROVE i < Len(q) + 1
    BY <2>1, <2>2, <2>3
  <2>4. Overruled(r)
    BY <2>0, <2>1, <2>3 DEF Overruled
  <2> QED BY <2>4 DEF r, e
<1>3. Without(q, TrackNews) /\ Overruled(q) => Without(q, Stills)
  BY DEF Without, Overruled
<1> QED BY <1>1, <1>2, <1>3

\* What the announcement of a song makes of the news on their way.
LEMMA SongHeard ==
  ASSUME NEW q \in Seq(AudioNews), NEW s \in Tracks
  PROVE  /\ q \o <<SongNews(s)>> \in Seq(AudioNews)
         /\ ~Without(q \o <<SongNews(s)>>, TrackNews)
         /\ EndsIn(q \o <<SongNews(s)>>, TrackNews, {SongNews(s)})
         /\ Overruled(q \o <<SongNews(s)>>)
<1> DEFINE e == SongNews(s)  r == q \o <<e>>
<1>1. e \in TrackNews /\ e \in AudioNews /\ Overruled(r)
  BY TrackNewsFacts, OverruledAfter DEF AudioNews
<1> HIDE DEF e
<1>2. <<e>> \in Seq(AudioNews)
  BY <1>1, OneSeq
<1>3. ~Without(<<e>>, TrackNews) /\ EndsIn(<<e>>, TrackNews, {e})
  BY <1>1, EndsOne
<1>4. r \in Seq(AudioNews) /\ ~Without(r, TrackNews) /\ EndsIn(r, TrackNews, {e})
  BY <1>2, <1>3, EndsJoined
<1> QED BY <1>1, <1>4 DEF e

\* A state that is announced, not a stop, changes nothing.
LEMMA PlayingHeard ==
  ASSUME NEW q \in Seq(AudioNews), NEW s \in Tracks, ~Without(q, TrackNews),
         EndsIn(q, TrackNews, {SongNews(s)}), Overruled(q)
  PROVE  LET r == q \o <<StateNews("PLAYING")>> IN
           /\ r \in Seq(AudioNews)
           /\ ~Without(r, TrackNews)
           /\ EndsIn(r, TrackNews, {SongNews(s)})
           /\ Overruled(r)
<1> DEFINE e == StateNews("PLAYING")  r == q \o <<e>>
<1>0. e \in AudioNews /\ e \notin TrackNews /\ e \notin Stills
  BY TrackNewsFacts DEF AudioNews
<1> HIDE DEF e
<1>1. <<e>> \in Seq(AudioNews)
  BY <1>0, OneSeq
<1>2. /\ r \in Seq(AudioNews)
      /\ ~Without(r, TrackNews)
      /\ EndsIn(r, TrackNews, {SongNews(s)})
  <2>1. Without(<<e>>, TrackNews) /\ EndsIn(<<e>>, TrackNews, {SongNews(s)})
    BY <1>0, EndsOne
  <2> QED BY <1>1, <2>1, EndsJoined
<1>3. /\ Len(q) \in Nat /\ DOMAIN r = 1..Len(q) + 1 /\ r[Len(q) + 1] = e /\ DOMAIN q = 1..Len(q)
      /\ \A i \in 1..Len(q) : r[i] = q[i]
  BY DEF r
<1> HIDE DEF r
<1>4. Overruled(r)
  <2> SUFFICES ASSUME NEW i \in 1..Len(q) + 1, r[i] \in Stills
               PROVE  \E j \in 1..Len(q) + 1 : i < j /\ r[j] \in TrackNews
    BY <1>3 DEF Overruled
  <2>1. i \in 1..Len(q) /\ q[i] \in Stills
    BY <1>0, <1>3
  <2>2. PICK j \in 1..Len(q) : i < j /\ q[j] \in TrackNews
    BY <1>3, <2>1 DEF Overruled
  <2> QED BY <1>3, <2>2
<1> QED BY <1>2, <1>4 DEF r, e

LEMMA AudioStart == AudioInit => AudioInv
<1> SUFFICES ASSUME AudioInit PROVE AudioInv
  OBVIOUS
<1>1. PICK on \in BOOLEAN :
        /\ thread = [song |-> 1, alive |-> on]
        /\ orders = <<>> /\ coming = [b \in Tab |-> <<>>]
        /\ shows = [b \in Tab |->
                      [song |-> IF on THEN 1 ELSE 0, changing |-> FALSE, due |-> {},
                       state |-> IF on THEN "PLAYING" ELSE "STOPPED"]]
        /\ element = [b \in Tab |->
                        [src |-> IF on THEN 1 ELSE 0, paused |-> ~on, events |-> <<>>]]
        /\ timers = [b \in Tab |-> [running |-> 0, settled |-> TRUE, early |-> FALSE]]
  BY DEF AudioInit
<1>2. 1 \in Tracks /\ 1 \in 0..LastSong /\ 0 \in 0..LastSong
  BY BrowserAssumption DEF Tracks
<1>3. ThreadTyped
  BY <1>1, <1>2 DEF ThreadTyped
<1>4. ASSUME NEW b \in Tab
      PROVE  /\ coming[b] = <<>> /\ coming[b] \in Seq(AudioNews)
             /\ ShowTyped(b) /\ SoundTyped(b) /\ Sourced(b)
             /\ thread.alive => Announced(b) /\ Plays(b)
  <2>1. /\ coming[b] = <<>> /\ shows[b].due = {} /\ ~shows[b].changing /\ element[b].events = <<>>
        /\ shows[b].song = (IF on THEN 1 ELSE 0)
        /\ shows[b].state = (IF on THEN "PLAYING" ELSE "STOPPED")
        /\ element[b].src = (IF on THEN 1 ELSE 0) /\ element[b].paused = ~on
        /\ thread.song = 1 /\ thread.alive = on
    BY <1>1
  <2>2. ShowTyped(b) /\ SoundTyped(b)
    <3>1. element[b].paused \in BOOLEAN /\ shows[b].changing \in BOOLEAN
      BY <1>1
    <3>2. <<>> \in Seq(Sounds)
      OBVIOUS
    <3>3. (IF on THEN 1 ELSE 0) \in 0..LastSong /\ (IF on THEN "PLAYING" ELSE "STOPPED") \in AudioStates
      BY <1>2 DEF AudioStates
    <3>4. /\ shows[b] = [song |-> IF on THEN 1 ELSE 0, changing |-> FALSE, due |-> {},
                         state |-> IF on THEN "PLAYING" ELSE "STOPPED"]
          /\ element[b] = [src |-> IF on THEN 1 ELSE 0, paused |-> ~on, events |-> <<>>]
      BY <1>1
    <3>5. element[b].paused \in BOOLEAN
      BY <1>1
    <3>6. ShowTyped(b)
      BY <3>3, <3>4 DEF ShowTyped, Pages
    <3>7. SoundTyped(b)
      BY <3>2, <3>3, <3>4, <3>5 DEF SoundTyped, Speakers
    <3> QED BY <3>6, <3>7
  <2>3. on => Announced(b)
    BY <2>1, EndsOne DEF Announced, Overruled
  <2>4. ASSUME on PROVE Plays(b)
    <3>1. shows[b].state = "PLAYING" /\ ~element[b].paused
      BY <2>1, <2>4
    <3>2. Without(element[b].events, {"pause"})
      <4>1. element[b].events = <<>>
        BY <2>1
      <4> QED BY <4>1 DEF Without
    <3>3. timers[b].settled = TRUE
      BY <1>1
    <3> QED BY <3>1, <3>2, <3>3 DEF Plays, Sounding
  <2> QED BY <2>1, <2>2, <2>3, <2>4 DEF Sourced
<1>5. DOMAIN coming = Tab /\ DOMAIN shows = Tab /\ DOMAIN element = Tab /\ timers \in [Tab -> Clocks]
  BY <1>1 DEF Clocks
<1> QED BY <1>3, <1>4, <1>5 DEF AudioInv, TabsTyped

\* What happens at one page leaves the others as they are.
LEMMA OtherTabs ==
  ASSUME AudioInv, NEW b \in Tab, NEW c \in Tab, UNCHANGED thread,
         Without(orders', Starts) => Without(orders, Starts),
         coming'[c] = coming[c], shows'[c] = shows[c], element'[c] = element[c], timers'[c] = timers[c]
  PROVE  /\ coming'[c] \in Seq(AudioNews) /\ ShowTyped(c)' /\ SoundTyped(c)' /\ Sourced(c)'
         /\ thread'.alive => Announced(c)' /\ (Started(c)' \/ Plays(c)')
<1>1. /\ coming[c] \in Seq(AudioNews) /\ ShowTyped(c) /\ SoundTyped(c) /\ Sourced(c)
      /\ thread.alive => Announced(c) /\ (Started(c) \/ Plays(c))
  BY DEF AudioInv, TabsTyped
<1>2. Announced(c) => Announced(c)'
  BY DEF Announced
<1>3. Started(c) => Started(c)'
  BY DEF Started
<1>4. Plays(c) => Plays(c)'
  BY DEF Plays, Sounding
<1>5. ShowTyped(c)' /\ SoundTyped(c)' /\ Sourced(c)'
  BY <1>1 DEF ShowTyped, SoundTyped, Pages, Speakers, Sourced
<1> QED BY <1>1, <1>2, <1>3, <1>4, <1>5

\* A step of the page keeps the invariant if it does so there.
LEMMA TabStep ==
  ASSUME AudioInv, NEW b \in Tab, UNCHANGED thread, orders' \in Seq(Presses),
         Without(orders', Starts) => Without(orders, Starts),
         DOMAIN coming' = Tab, DOMAIN shows' = Tab, DOMAIN element' = Tab,
         timers' \in [Tab -> Clocks], \A c \in Tab \ {b} : timers'[c] = timers[c],
         \A c \in Tab \ {b} : coming'[c] = coming[c] /\ shows'[c] = shows[c] /\ element'[c] = element[c],
         coming'[b] \in Seq(AudioNews), ShowTyped(b)', SoundTyped(b)', Sourced(b)',
         thread.alive => Announced(b)' /\ (Started(b)' \/ Plays(b)')
  PROVE  AudioInv'
<1>1. ASSUME NEW c \in Tab
      PROVE  /\ coming'[c] \in Seq(AudioNews) /\ ShowTyped(c)' /\ SoundTyped(c)' /\ Sourced(c)'
             /\ thread'.alive => Announced(c)' /\ (Started(c)' \/ Plays(c)')
  <2>1. CASE c = b
    BY <2>1
  <2>2. CASE c # b
    <3>1. coming'[c] = coming[c] /\ shows'[c] = shows[c] /\ element'[c] = element[c] /\ timers'[c] = timers[c]
      BY <2>2
    <3> QED BY <3>1, OtherTabs
  <2> QED BY <2>1, <2>2
<1>2. ThreadTyped'
  BY DEF AudioInv, ThreadTyped
<1>3. TabsTyped'
  BY <1>1 DEF TabsTyped
<1> QED BY <1>1, <1>2, <1>3 DEF AudioInv

LEMMA TabFacts ==
  ASSUME AudioInv, NEW b \in Tab
  PROVE  /\ thread.song \in Tracks /\ thread.alive \in BOOLEAN /\ orders \in Seq(Presses)
         /\ DOMAIN coming = Tab /\ DOMAIN shows = Tab /\ DOMAIN element = Tab
         /\ timers \in [Tab -> Clocks]
         /\ coming[b] \in Seq(AudioNews) /\ element[b].events \in Seq(Sounds)
         /\ ShowTyped(b) /\ SoundTyped(b) /\ Sourced(b)
         /\ thread.alive => Announced(b) /\ (Started(b) \/ Plays(b))
BY DEF AudioInv, TabsTyped, ThreadTyped, SoundTyped, Speakers

LEMMA PressHeard ==
  ASSUME NEW q \in Seq(Presses), NEW k \in Presses
  PROVE  /\ Append(q, k) \in Seq(Presses)
         /\ Without(Append(q, k), Starts) => Without(q, Starts)
         /\ k \in Starts => ~Without(Append(q, k), Starts)
<1> DEFINE r == Append(q, k)
<1>1. /\ Len(q) \in Nat /\ DOMAIN r = 1..Len(q) + 1 /\ r[Len(q) + 1] = k /\ r \in Seq(Presses)
      /\ DOMAIN q = 1..Len(q) /\ \A i \in 1..Len(q) : r[i] = q[i]
  OBVIOUS
<1> HIDE DEF r
<1>2. Len(q) + 1 \in DOMAIN r /\ \A i \in 1..Len(q) : i \in DOMAIN r
  BY <1>1
<1>3. Without(r, Starts) => Without(q, Starts)
  BY <1>1, <1>2 DEF Without
<1>4. k \in Starts => ~Without(r, Starts)
  BY <1>1, <1>2 DEF Without
<1> QED BY <1>1, <1>3, <1>4 DEF r

\* The server.
LEMMA PressStep ==
  ASSUME AudioInv, NEW k \in Presses, Press(k)
  PROVE  AudioInv'
<1>1. orders \in Seq(Presses) /\ orders' = Append(orders, k) /\ UNCHANGED <<thread, coming, shows, element, timers>>
  BY DEF Press, AudioInv, ThreadTyped
<1>2. orders' \in Seq(Presses) /\ (Without(orders', Starts) => Without(orders, Starts))
  BY <1>1, PressHeard
<1>3. ASSUME NEW c \in Tab
      PROVE  /\ coming'[c] \in Seq(AudioNews) /\ ShowTyped(c)' /\ SoundTyped(c)' /\ Sourced(c)'
             /\ thread'.alive => Announced(c)' /\ (Started(c)' \/ Plays(c)')
  BY <1>1, <1>2, OtherTabs
<1>4. ThreadTyped' /\ TabsTyped'
  BY <1>1, <1>2, <1>3 DEF AudioInv, ThreadTyped, TabsTyped
<1> QED BY <1>3, <1>4 DEF AudioInv

LEMMA TwoMore ==
  \A q, r \in Seq(AudioNews), e, p \in AudioNews :
    q \o (r \o <<e, p>>) = ((q \o r) \o <<e>>) \o <<p>>
<1> DEFINE T == AudioNews
<1> SUFFICES ASSUME NEW q \in Seq(T), NEW r \in Seq(T), NEW e \in T, NEW p \in T
             PROVE  q \o (r \o <<e, p>>) = ((q \o r) \o <<e>>) \o <<p>>
  OBVIOUS
<1> HIDE DEF T
<1>1. <<e>> \in Seq(T) /\ <<p>> \in Seq(T) /\ <<e>> \o <<p>> = <<e, p>>
  <2>1. <<e>> \in Seq(T) /\ <<p>> \in Seq(T) /\ <<e, p>> \in Seq(T)
    OBVIOUS
  <2>2. <<e>> \o <<p>> \in Seq(T) /\ Len(<<e>> \o <<p>>) = 2
    BY <2>1, ConcatProperties
  <2>3. (<<e>> \o <<p>>)[1] = e /\ (<<e>> \o <<p>>)[2] = p
    BY <2>1
  <2>4. \A i \in 1..2 : (<<e>> \o <<p>>)[i] = <<e, p>>[i]
    <3>1. \A i \in 1..2 : i = 1 \/ i = 2
      OBVIOUS
    <3> QED BY <2>3, <3>1
  <2>5. Len(<<e, p>>) = 2
    OBVIOUS
  <2> QED BY <2>1, <2>2, <2>4, <2>5, SeqEqual
<1>2. q \o (r \o (<<e>> \o <<p>>)) = (q \o r) \o (<<e>> \o <<p>>)
  BY <1>1, ConcatAssociative, ConcatProperties
<1>3. (q \o r) \o (<<e>> \o <<p>>) = ((q \o r) \o <<e>>) \o <<p>>
  BY <1>1, ConcatAssociative, ConcatProperties
<1> QED BY <1>1, <1>2, <1>3

\* A song that starts is announced, after the stop of the thread before it.
LEMMA StartStep ==
  ASSUME AudioInv, NEW s \in Tracks, thread' = [song |-> s, alive |-> TRUE], orders' \in Seq(Presses),
         Announcing(StopNews \o StartNews(s)), UNCHANGED <<shows, element, timers>>
  PROVE  AudioInv'
<1> DEFINE stop == StopNews
<1>1. stop \in Seq(AudioNews)
  <2>1. StateNews("STOPPED") \in AudioNews
    BY DEF AudioNews, Stills
  <2> QED BY <2>1, OneSeq DEF StopNews
<1> DEFINE e == SongNews(s)  p == StateNews("PLAYING")
<1>2. e \in AudioNews /\ p \in AudioNews
  BY TrackNewsFacts DEF AudioNews
<1>3. StopNews \o StartNews(s) = stop \o <<e, p>>
  BY DEF StartNews
<1> HIDE DEF stop, e, p
<1>4. /\ coming' = [c \in Tab |-> coming[c] \o (stop \o <<e, p>>)]
      /\ \A c \in Tab : coming[c] \in Seq(AudioNews) /\ ShowTyped(c) /\ SoundTyped(c) /\ Sourced(c)
  BY <1>3 DEF Announcing, AudioInv, TabsTyped
<1>5. ASSUME NEW c \in Tab
      PROVE  coming'[c] \in Seq(AudioNews) /\ Announced(c)' /\ Started(c)'
  <2> DEFINE q == coming[c] \o stop
  <2>1. q \in Seq(AudioNews)
    BY <1>1, <1>4
  <2>2. coming'[c] = (q \o <<e>>) \o <<p>>
    <3> DEFINE k == coming[c]
    <3>1. k \in Seq(AudioNews) /\ coming'[c] = k \o (stop \o <<e, p>>) /\ q = k \o stop
      BY <1>4
    <3> HIDE DEF k, q
    <3>2. k \o (stop \o <<e, p>>) = ((k \o stop) \o <<e>>) \o <<p>>
      <4>1. k \in Seq(AudioNews)
        BY <3>1
      <4>2. stop \in Seq(AudioNews) /\ e \in AudioNews /\ p \in AudioNews
        BY <1>1, <1>2
      <4> QED BY <4>1, <4>2, TwoMore
    <3> QED BY <3>1, <3>2
  <2> HIDE DEF q
  <2>3. /\ q \o <<e>> \in Seq(AudioNews)
        /\ ~Without(q \o <<e>>, TrackNews)
        /\ EndsIn(q \o <<e>>, TrackNews, {SongNews(s)})
        /\ Overruled(q \o <<e>>)
    BY <2>1, SongHeard DEF e
  <2> DEFINE r == q \o <<e>>
  <2>4. /\ r \in Seq(AudioNews) /\ ~Without(r, TrackNews)
        /\ EndsIn(r, TrackNews, {SongNews(s)}) /\ Overruled(r)
    BY <2>3
  <2> HIDE DEF r
  <2>5. /\ r \o <<p>> \in Seq(AudioNews)
        /\ ~Without(r \o <<p>>, TrackNews)
        /\ EndsIn(r \o <<p>>, TrackNews, {SongNews(s)})
        /\ Overruled(r \o <<p>>)
    BY <2>4, PlayingHeard DEF p
  <2>6. coming'[c] = r \o <<p>> /\ thread'.song = s
    BY <2>2 DEF r
  <2> QED BY <2>5, <2>6 DEF Announced, Started
<1>6. ASSUME NEW c \in Tab PROVE ShowTyped(c)' /\ SoundTyped(c)' /\ Sourced(c)'
  BY <1>4 DEF ShowTyped, SoundTyped, Pages, Speakers, Sourced
<1>7. ThreadTyped'
  BY DEF ThreadTyped
<1>8. TabsTyped'
  BY <1>4, <1>5, <1>6 DEF TabsTyped, AudioInv
<1> QED BY <1>5, <1>6, <1>7, <1>8 DEF AudioInv

LEMMA HandleStep ==
  ASSUME AudioInv, HandleOrder
  PROVE  AudioInv'
<1>0. /\ thread.song \in Tracks /\ thread.alive \in BOOLEAN /\ orders \in Seq(Presses) /\ orders # <<>>
      /\ orders' = Tail(orders) /\ UNCHANGED <<shows, element, timers>>
      /\ thread = [song |-> thread.song, alive |-> thread.alive]
  BY DEF AudioInv, ThreadTyped, HandleOrder
<1> DEFINE h == Head(orders)  t == Tail(orders)
<1>1. /\ h \in Presses /\ t \in Seq(Presses) /\ <<h>> \in Seq(Presses) /\ orders = <<h>> \o t
  BY <1>0, HeadJoined
<1>2. orders' = t
  BY <1>0
<1>3. CASE h = "Play" /\ thread' = [thread EXCEPT !.alive = TRUE]
           /\ Announcing(StopNews \o StartNews(thread.song))
  <2>1. thread' = [song |-> thread.song, alive |-> TRUE]
    BY <1>0, <1>3
  <2> QED BY <1>0, <1>1, <1>2, <1>3, <2>1, StartStep
<1>4. CASE h = "Next" /\ thread' = [song |-> Following, alive |-> TRUE]
           /\ Announcing(StopNews \o StartNews(Following))
  <2>1. Following \in Tracks
    BY <1>0, BrowserAssumption DEF Following, Tracks
  <2> QED BY <1>0, <1>1, <1>2, <1>4, <2>1, StartStep
<1>5. CASE h = "Pause" /\ thread' = [thread EXCEPT !.alive = FALSE] /\ Announcing(StopNews)
  <2>1. thread'.song = thread.song /\ thread'.alive = FALSE
    BY <1>0, <1>5
  <2> DEFINE stop == StopNews
  <2>2. stop \in Seq(AudioNews)
    <3>1. StateNews("STOPPED") \in AudioNews
      BY DEF AudioNews, Stills
    <3> QED BY <3>1, OneSeq DEF StopNews
  <2>3. coming' = [c \in Tab |-> coming[c] \o stop]
    BY <1>5 DEF Announcing
  <2> HIDE DEF stop
  <2>4. ASSUME NEW c \in Tab
        PROVE  coming'[c] \in Seq(AudioNews) /\ ShowTyped(c)' /\ SoundTyped(c)' /\ Sourced(c)'
    BY <1>0, <2>2, <2>3, TabFacts DEF ShowTyped, SoundTyped, Pages, Speakers, Sourced
  <2>5. ThreadTyped'
    <3>1. thread' = [song |-> thread.song, alive |-> FALSE]
      BY <1>0, <1>5
    <3> QED BY <1>0, <1>1, <1>2, <3>1 DEF ThreadTyped
  <2>6. TabsTyped'
    BY <1>0, <2>3, <2>4 DEF TabsTyped, AudioInv
  <2> QED BY <2>1, <2>4, <2>5, <2>6 DEF AudioInv
<1>6. CASE h = "QueryCurrentSong" /\ UNCHANGED thread /\ Announcing(<<SongNews(thread.song)>>)
  <2> DEFINE e == SongNews(thread.song)
  <2>1. coming' = [c \in Tab |-> coming[c] \o <<e>>]
    BY <1>6 DEF Announcing
  <2>2. ASSUME NEW c \in Tab
        PROVE  /\ coming'[c] \in Seq(AudioNews) /\ ShowTyped(c)' /\ SoundTyped(c)' /\ Sourced(c)'
               /\ Announced(c)' /\ Started(c)'
    <3> DEFINE q == coming[c]
    <3>1. q \in Seq(AudioNews)
      BY TabFacts
    <3>2. coming'[c] = q \o <<e>>
      BY <2>1
    <3> HIDE DEF q
    <3>3. /\ q \o <<e>> \in Seq(AudioNews)
          /\ ~Without(q \o <<e>>, TrackNews)
          /\ EndsIn(q \o <<e>>, TrackNews, {SongNews(thread.song)})
          /\ Overruled(q \o <<e>>)
      BY <1>0, <3>1, SongHeard
    <3>4. thread'.song = thread.song
      BY <1>6
    <3>5. Announced(c)' /\ Started(c)' /\ coming'[c] \in Seq(AudioNews)
      BY <3>2, <3>3, <3>4 DEF Announced, Started
    <3>6. ShowTyped(c)' /\ SoundTyped(c)' /\ Sourced(c)'
      BY <1>0, TabFacts DEF ShowTyped, SoundTyped, Pages, Speakers, Sourced
    <3> QED BY <3>5, <3>6
  <2>3. ThreadTyped'
    BY <1>0, <1>1, <1>2, <1>6 DEF ThreadTyped
  <2>4. TabsTyped'
    BY <1>0, <2>1, <2>2 DEF TabsTyped, AudioInv
  <2> QED BY <2>2, <2>3, <2>4 DEF AudioInv
<1> QED BY <1>3, <1>4, <1>5, <1>6 DEF HandleOrder

\* The page.
LEMMA AppendedSounds ==
  ASSUME NEW q \in Seq(Sounds), NEW e \in Sounds, NEW x
  PROVE  /\ Append(q, e) \in Seq(Sounds)
         /\ ~Without(q, {x}) => ~Without(Append(q, e), {x})
         /\ Without(q, {x}) /\ e # x => Without(Append(q, e), {x})
<1> DEFINE r == Append(q, e)
<1>1. /\ Len(q) \in Nat /\ DOMAIN r = 1..Len(q) + 1 /\ r[Len(q) + 1] = e /\ r \in Seq(Sounds)
      /\ DOMAIN q = 1..Len(q) /\ \A i \in 1..Len(q) : r[i] = q[i]
  OBVIOUS
<1> HIDE DEF r
<1>2. \A i \in 1..Len(q) : i \in 1..Len(q) + 1
  BY <1>1
<1>3. \A i \in 1..Len(q) + 1 : i \in 1..Len(q) \/ i = Len(q) + 1
  BY <1>1
<1>4. ~Without(q, {x}) => ~Without(r, {x})
  BY <1>1, <1>2 DEF Without
<1>5. Without(q, {x}) /\ e # x => Without(r, {x})
  BY <1>1, <1>3 DEF Without
<1> QED BY <1>1, <1>4, <1>5 DEF r

LEMMA SongWritten ==
  ASSUME AudioInv, NEW b \in Tab, NEW s \in Tracks, Written(b, "song", s, "song")
  PROVE  /\ DOMAIN shows' = Tab /\ \A c \in Tab \ {b} : shows'[c] = shows[c]
         /\ shows'[b].song = s /\ shows'[b].due = shows[b].due \cup {"song"}
         /\ shows'[b].changing = shows[b].changing /\ shows'[b].state = shows[b].state
         /\ ShowTyped(b)'
<1>1. DOMAIN shows = Tab /\ shows[b] \in Pages
  BY DEF AudioInv, TabsTyped, ShowTyped
<1>2. /\ DOMAIN shows' = Tab /\ \A c \in Tab \ {b} : shows'[c] = shows[c]
      /\ shows'[b].song = s /\ shows'[b].due = shows[b].due \cup {"song"}
      /\ shows'[b].changing = shows[b].changing /\ shows'[b].state = shows[b].state
  BY <1>1 DEF Written, Pages
<1>3. s \in 0..LastSong
  BY BrowserAssumption DEF Tracks
<1> QED BY <1>1, <1>2, <1>3 DEF ShowTyped, Pages, Written

LEMMA StateWritten ==
  ASSUME AudioInv, NEW b \in Tab, NEW v \in AudioStates, Written(b, "state", v, "state")
  PROVE  /\ DOMAIN shows' = Tab /\ \A c \in Tab \ {b} : shows'[c] = shows[c]
         /\ shows'[b].state = v /\ shows'[b].due = shows[b].due \cup {"state"}
         /\ shows'[b].changing = shows[b].changing /\ shows'[b].song = shows[b].song
         /\ ShowTyped(b)'
<1>1. DOMAIN shows = Tab /\ shows[b] \in Pages
  BY DEF AudioInv, TabsTyped, ShowTyped
<1>2. /\ DOMAIN shows' = Tab /\ \A c \in Tab \ {b} : shows'[c] = shows[c]
      /\ shows'[b].state = v /\ shows'[b].due = shows[b].due \cup {"state"}
      /\ shows'[b].changing = shows[b].changing /\ shows'[b].song = shows[b].song
  BY <1>1 DEF Written, Pages
<1> QED BY <1>1, <1>2 DEF ShowTyped, Pages, Written

LEMMA HearStep ==
  ASSUME AudioInv, NEW b \in Tab, HearNews(b)
  PROVE  AudioInv'
<1> DEFINE q == coming[b]  n == Head(q)  r == Tail(q)
<1>0. /\ q \in Seq(AudioNews) /\ q # <<>> /\ coming' = [coming EXCEPT ![b] = r]
      /\ UNCHANGED <<thread, orders, element, timers>>
      /\ timers \in [Tab -> Clocks]
      /\ IF n.type = "CurrentSong" THEN Written(b, "song", n.song, "song")
         ELSE Written(b, "state", n.state, "state")
  BY TabFacts DEF HearNews
<1>1. n \in AudioNews /\ r \in Seq(AudioNews) /\ <<n>> \in Seq(AudioNews) /\ q = <<n>> \o r
  BY <1>0, HeadJoined
<1>2. Overruled(q) => Overruled(r)
  BY <1>0, OverruledAfter
<1> HIDE DEF q, n, r
<1>3. /\ Without(q, TrackNews) <=> n \notin TrackNews /\ Without(r, TrackNews)
      /\ EndsIn(q, TrackNews, {SongNews(thread.song)}) <=>
           /\ EndsIn(r, TrackNews, {SongNews(thread.song)})
           /\ Without(r, TrackNews) => (n \in TrackNews => n \in {SongNews(thread.song)})
  <2>1. /\ Without(<<n>> \o r, TrackNews) <=> Without(<<n>>, TrackNews) /\ Without(r, TrackNews)
        /\ EndsIn(<<n>> \o r, TrackNews, {SongNews(thread.song)}) <=>
             /\ EndsIn(r, TrackNews, {SongNews(thread.song)})
             /\ Without(r, TrackNews) => EndsIn(<<n>>, TrackNews, {SongNews(thread.song)})
    BY <1>1, EndsJoined
  <2> QED BY <1>1, <2>1, EndsOne
<1>4. \A c \in Tab \ {b} : coming'[c] = coming[c] /\ element'[c] = element[c]
  BY <1>0
<1>5. coming'[b] = r /\ DOMAIN coming' = Tab /\ coming[b] = q
  BY <1>0, TabFacts DEF q
<1>6. DOMAIN element' = Tab /\ SoundTyped(b)' /\ orders' \in Seq(Presses)
  BY <1>0, TabFacts DEF SoundTyped
<1>7. thread.alive => Announced(b) /\ (Started(b) \/ Plays(b))
  BY TabFacts
<1>8. CASE n \in TrackNews
  <2>1. n.type = "CurrentSong" /\ n.song \in Tracks /\ n = SongNews(n.song)
    BY <1>8, TrackNewsFacts
  <2>2. Written(b, "song", n.song, "song")
    BY <1>0, <2>1
  <2>3. /\ DOMAIN shows' = Tab /\ \A c \in Tab \ {b} : shows'[c] = shows[c]
        /\ shows'[b].song = n.song /\ "song" \in shows'[b].due /\ ShowTyped(b)'
    BY <2>1, <2>2, SongWritten
  <2>4. Sourced(b)' /\ Started(b)'
    BY <2>3 DEF Sourced, Started
  <2>5. ASSUME thread.alive PROVE Announced(b)'
    <3>1. SongNews(thread.song).song = thread.song
      BY DEF SongNews
    <3> QED BY <1>0, <1>2, <1>3, <1>5, <1>7, <1>8, <2>3, <2>5, <3>1 DEF Announced
  <2> QED BY <1>0, <1>1, <1>4, <1>5, <1>6, <2>3, <2>4, <2>5, TabStep
<1>9. CASE n \in Stills \cup {StateNews("PLAYING")}
  <2>1. n.type # "CurrentSong" /\ n.state \in AudioStates /\ n \notin TrackNews
    BY <1>9, TrackNewsFacts
  <2>2. Written(b, "state", n.state, "state")
    BY <1>0, <2>1
  <2>3. /\ DOMAIN shows' = Tab /\ \A c \in Tab \ {b} : shows'[c] = shows[c]
        /\ shows'[b].state = n.state /\ shows'[b].due = shows[b].due \cup {"state"}
        /\ shows'[b].changing = shows[b].changing /\ shows'[b].song = shows[b].song
        /\ ShowTyped(b)'
    BY <2>1, <2>2, StateWritten
  <2>4. Sourced(b)'
    BY <1>0, <2>3, TabFacts DEF Sourced
  <2>5. ASSUME thread.alive PROVE Announced(b)'
    BY <1>0, <1>2, <1>3, <1>5, <1>7, <2>1, <2>3, <2>5 DEF Announced
  <2>6. ASSUME thread.alive, Started(b) PROVE Started(b)'
    BY <1>0, <1>3, <1>5, <2>1, <2>3, <2>6 DEF Started
  <2>7. ASSUME thread.alive, ~Started(b) PROVE Plays(b)'
    <3>1. Without(q, Stills)
      BY <1>0, <1>5, <1>7, <2>7, OverruledAfter DEF Announced, Started, q
    <3>2. n \notin Stills
      <4>1. Without(<<n>>, Stills)
        BY <1>1, <3>1, EndsJoined
      <4> QED BY <4>1, EndsOne
    <3>3. n.state = "PLAYING"
      BY <1>9, <3>2, TrackNewsFacts
    <3>4. Sounding(b)'
      BY <2>3, <3>3 DEF Sounding
    <3>5. Plays(b) /\ element'[b] = element[b] /\ timers' = timers
      BY <1>0, <1>7, <2>7
    <3>6. CASE timers[b].early
      BY <3>5, <3>6 DEF Plays
    <3>7. CASE ~timers[b].early /\ timers[b].settled
      BY <3>4, <3>5, <3>7 DEF Plays
    <3>8. CASE ~timers[b].early /\ ~timers[b].settled
      BY <2>3, <3>4, <3>5, <3>8 DEF Plays
    <3> QED BY <3>6, <3>7, <3>8
  <2> QED BY <1>0, <1>1, <1>4, <1>5, <1>6, <2>3, <2>4, <2>5, <2>6, <2>7, TabStep
<1> QED BY <1>1, <1>8, <1>9 DEF AudioNews

LEMMA SongEffectStep ==
  ASSUME AudioInv, NEW b \in Tab, SongEffect(b)
  PROVE  AudioInv'
<1>0. /\ orders \in Seq(Presses) /\ ShowTyped(b) /\ coming[b] \in Seq(AudioNews)
      /\ DOMAIN shows = Tab /\ DOMAIN element = Tab /\ DOMAIN coming = Tab
      /\ UNCHANGED <<thread, orders, coming>> /\ timers \in [Tab -> Clocks]
      /\ thread.alive => Announced(b)
  BY TabFacts DEF SongEffect, ServerVars
<1>1. PICK spurious \in {<<>>, <<"pause">>} :
        element' = [element EXCEPT ![b] = [src |-> shows[b].song, paused |-> FALSE,
                                           events |-> spurious \o <<"play">>]]
  BY DEF SongEffect, NewSource
<1>2. /\ DOMAIN shows' = Tab /\ DOMAIN element' = Tab
      /\ \A c \in Tab \ {b} : shows'[c] = shows[c] /\ element'[c] = element[c]
      /\ shows'[b] = [shows[b] EXCEPT !.due = @ \ {"song"}, !.changing = TRUE]
      /\ element'[b] = [src |-> shows[b].song, paused |-> FALSE, events |-> spurious \o <<"play">>]
  BY <1>0, <1>1 DEF SongEffect
<1>10. /\ timers' \in [Tab -> Clocks] /\ \A c \in Tab \ {b} : timers'[c] = timers[c]
       /\ timers'[b].settled = FALSE
  BY <1>0 DEF SongEffect, NewTimer, Clocks
<1>3. /\ ShowTyped(b)' /\ shows'[b].changing = TRUE /\ shows'[b].song = shows[b].song
  BY <1>0, <1>2 DEF ShowTyped, Pages
<1>4. spurious \in Seq(Sounds) /\ <<"play">> \in Seq(Sounds)
  BY OneSeq DEF Sounds
<1>5. spurious \o <<"play">> \in Seq(Sounds) /\ ~Without(spurious \o <<"play">>, {"play"})
  <2> DEFINE w == <<"play">>
  <2>1. ~Without(w, {"play"}) /\ w \in Seq(Sounds)
    BY <1>4, EndsOne
  <2> HIDE DEF w
  <2>2. spurious \o w \in Seq(Sounds) /\ ~Without(spurious \o w, {"play"})
    BY <1>4, <2>1, EndsJoined
  <2> QED BY <2>2 DEF w
<1>6. /\ element'[b].src = shows[b].song /\ element'[b].events = spurious \o <<"play">>
      /\ element'[b].paused = FALSE
  BY <1>2
<1>7. SoundTyped(b)'
  BY <1>0, <1>2, <1>5 DEF SoundTyped, Speakers, ShowTyped, Pages
<1>8. Sourced(b)' /\ Plays(b)'
  BY <1>3, <1>5, <1>6, <1>10 DEF Sourced, Plays
<1>9. thread.alive => Announced(b)'
  BY <1>0, <1>3 DEF Announced
<1> QED BY <1>0, <1>2, <1>3, <1>7, <1>8, <1>9, <1>10, TabStep

\* Nothing of the source is pending, and it plays.
LEMMA SettledStep ==
  ASSUME AudioInv, NEW b \in Tab, Settled(b)
  PROVE  AudioInv'
<1>0. /\ orders \in Seq(Presses) /\ ShowTyped(b) /\ coming[b] \in Seq(AudioNews) /\ SoundTyped(b) /\ Sourced(b)
      /\ DOMAIN shows = Tab /\ DOMAIN element = Tab /\ DOMAIN coming = Tab
      /\ UNCHANGED <<thread, orders, coming, element, shows>> /\ timers \in [Tab -> Clocks]
      /\ thread.alive => Announced(b) /\ (Started(b) \/ Plays(b))
      /\ ~timers[b].settled /\ element[b].events = <<>>
      /\ timers' = [timers EXCEPT ![b].settled = TRUE]
  BY TabFacts DEF Settled, ServerVars
<1>1. /\ timers' \in [Tab -> Clocks] /\ \A c \in Tab \ {b} : timers'[c] = timers[c]
      /\ timers'[b].settled = TRUE /\ timers'[b].early = timers[b].early
  BY <1>0 DEF Clocks
<1>2. \A S : Without(element[b].events, S)
  <2>1. \A S : Without(<<>>, S)
    BY EndsOne
  <2> QED BY <1>0, <2>1
<1>3. Plays(b) => Plays(b)'
  BY <1>0, <1>1, <1>2 DEF Plays, Sounding
<1>4. /\ ShowTyped(b)' /\ SoundTyped(b)' /\ Sourced(b)'
      /\ (Announced(b) => Announced(b)') /\ (Started(b) => Started(b)')
  BY <1>0 DEF ShowTyped, SoundTyped, Sourced, Announced, Started
<1> QED BY <1>0, <1>1, <1>3, <1>4, TabStep

\* A timer that is not the last source's takes its guard away, and one that is finds
\* the source settled.
LEMMA ChangeStep ==
  ASSUME AudioInv, NEW b \in Tab, ChangeOver(b)
  PROVE  AudioInv'
<1>0. /\ orders \in Seq(Presses) /\ ShowTyped(b) /\ coming[b] \in Seq(AudioNews) /\ SoundTyped(b) /\ Sourced(b)
      /\ DOMAIN shows = Tab /\ DOMAIN element = Tab /\ DOMAIN coming = Tab
      /\ UNCHANGED <<thread, orders, coming, element>> /\ timers \in [Tab -> Clocks]
      /\ thread.alive => Announced(b) /\ (Started(b) \/ Plays(b))
      /\ timers[b].running > 1 \/ (timers[b].running = 1 /\ timers[b].settled)
      /\ timers' = [timers EXCEPT ![b].running = @ - 1, ![b].early = @ \/ ~timers[b].settled]
  BY TabFacts DEF ChangeOver, ServerVars
<1>1. /\ DOMAIN shows' = Tab /\ \A c \in Tab \ {b} : shows'[c] = shows[c]
      /\ shows'[b] = [shows[b] EXCEPT !.changing = FALSE]
  BY <1>0 DEF ChangeOver
<1>2. /\ ShowTyped(b)' /\ shows'[b].changing = FALSE /\ shows'[b].song = shows[b].song
      /\ shows'[b].due = shows[b].due /\ shows'[b].state = shows[b].state
  BY <1>0, <1>1 DEF ShowTyped, Pages
<1>3. /\ timers' \in [Tab -> Clocks] /\ \A c \in Tab \ {b} : timers'[c] = timers[c]
      /\ timers'[b].settled = timers[b].settled
      /\ timers'[b].early <=> timers[b].early \/ ~timers[b].settled
  <2>1. timers[b] \in Clocks /\ timers[b].running - 1 \in Nat
    BY <1>0 DEF Clocks
  <2>2. /\ DOMAIN timers' = Tab /\ \A c \in Tab \ {b} : timers'[c] = timers[c]
        /\ timers'[b] = [timers[b] EXCEPT !.running = @ - 1, !.early = @ \/ ~timers[b].settled]
        /\ timers' = [c \in Tab |-> timers'[c]]
    BY <1>0
  <2> DEFINE k == [running |-> timers[b].running - 1, settled |-> timers[b].settled,
                   early |-> timers[b].early \/ ~timers[b].settled]
  <2>3. k \in Clocks /\ k.settled = timers[b].settled /\ (k.early <=> timers[b].early \/ ~timers[b].settled)
    BY <2>1 DEF Clocks
  <2>4. timers'[b] = k
    BY <2>1, <2>2 DEF Clocks
  <2> HIDE DEF k
  <2>5. \A c \in Tab : timers'[c] \in Clocks
    BY <1>0, <2>2, <2>3, <2>4
  <2> QED BY <2>2, <2>3, <2>4, <2>5
<1>4. Sourced(b)' /\ SoundTyped(b)'
  BY <1>0, <1>2 DEF Sourced, SoundTyped
<1>5. Started(b) => Started(b)'
  BY <1>0, <1>2 DEF Started
<1>6. Plays(b) => Plays(b)'
  BY <1>0, <1>2, <1>3 DEF Plays, Sounding
<1>7. Announced(b) => Announced(b)'
  BY <1>0, <1>2 DEF Announced
<1>8. \A c \in Tab \ {b} : coming'[c] = coming[c] /\ shows'[c] = shows[c] /\ element'[c] = element[c]
  BY <1>0, <1>1
<1>9. coming'[b] \in Seq(AudioNews) /\ DOMAIN coming' = Tab /\ DOMAIN element' = Tab
      /\ orders' \in Seq(Presses) /\ (Without(orders', Starts) => Without(orders, Starts))
  BY <1>0
<1> QED BY <1>0, <1>1, <1>2, <1>3, <1>4, <1>5, <1>6, <1>7, <1>8, <1>9, TabStep

LEMMA StateEffectStep ==
  ASSUME AudioInv, NEW b \in Tab, StateEffect(b)
  PROVE  AudioInv'
<1> DEFINE toPause == shows[b].state # "PLAYING"
           event == IF toPause THEN "pause" ELSE "play"
           still == element[b].src = 0 \/ element[b].paused = toPause
<1>0. /\ orders \in Seq(Presses) /\ ShowTyped(b) /\ coming[b] \in Seq(AudioNews) /\ SoundTyped(b) /\ Sourced(b)
      /\ DOMAIN shows = Tab /\ DOMAIN element = Tab /\ DOMAIN coming = Tab /\ thread.song \in Tracks
      /\ UNCHANGED <<thread, orders, coming, timers>> /\ timers \in [Tab -> Clocks]
      /\ thread.alive => Announced(b) /\ (Started(b) \/ Plays(b))
      /\ shows' = [shows EXCEPT ![b].due = @ \ {"state"}]
      /\ IF still THEN UNCHANGED element
         ELSE element' = [element EXCEPT ![b].paused = toPause, ![b].events = Append(@, event)]
  BY TabFacts DEF StateEffect, ServerVars
<1>1. /\ DOMAIN shows' = Tab /\ \A c \in Tab \ {b} : shows'[c] = shows[c]
      /\ shows'[b] = [shows[b] EXCEPT !.due = @ \ {"state"}]
  BY <1>0
<1>2. /\ ShowTyped(b)' /\ shows'[b].changing = shows[b].changing /\ shows'[b].song = shows[b].song
      /\ shows'[b].due = shows[b].due \ {"state"} /\ shows'[b].state = shows[b].state
  BY <1>0, <1>1 DEF ShowTyped, Pages
<1>3. /\ DOMAIN element' = Tab /\ \A c \in Tab \ {b} : element'[c] = element[c]
      /\ element'[b].src = element[b].src
      /\ element'[b].paused = (IF still THEN element[b].paused ELSE toPause)
      /\ element'[b].events = (IF still THEN element[b].events ELSE Append(element[b].events, event))
      /\ SoundTyped(b)'
  <2>1. CASE still
    BY <1>0, <2>1 DEF SoundTyped
  <2>2. CASE ~still
    <3>1. element' = [element EXCEPT ![b].paused = toPause, ![b].events = Append(@, event)]
      BY <1>0, <2>2
    <3>2. event \in Sounds /\ toPause \in BOOLEAN
      BY DEF Sounds
    <3> HIDE DEF event, toPause
    <3>3. element[b] \in Speakers /\ Append(element[b].events, event) \in Seq(Sounds)
      BY <1>0, <3>2 DEF SoundTyped, Speakers
    <3>4. DOMAIN element' = Tab /\ \A c \in Tab \ {b} : element'[c] = element[c]
      BY <1>0, <3>1
    <3>5. element'[b] = [element[b] EXCEPT !.paused = toPause, !.events = Append(element[b].events, event)]
      BY <1>0, <3>1
    <3>6. element'[b] = [src |-> element[b].src, paused |-> toPause, events |-> Append(element[b].events, event)]
      BY <3>3, <3>5 DEF Speakers
    <3>7. SoundTyped(b)'
      BY <3>2, <3>3, <3>6 DEF SoundTyped, Speakers
    <3> QED BY <2>2, <3>4, <3>6, <3>7
  <2> QED BY <2>1, <2>2
<1>4. /\ element[b].events \in Seq(Sounds) /\ event \in Sounds
      /\ ~Without(element[b].events, {"play"}) => ~Without(element'[b].events, {"play"})
      /\ ~Without(element[b].events, {"ended"}) => ~Without(element'[b].events, {"ended"})
      /\ Without(element[b].events, {"pause"}) /\ event = "play" => Without(element'[b].events, {"pause"})
  <2>1. element[b].events \in Seq(Sounds) /\ event \in Sounds
    BY <1>0 DEF SoundTyped, Speakers, Sounds
  <2> DEFINE q == element[b].events  r == element'[b].events
  <2>2. r = q \/ r = Append(q, event)
    BY <1>3
  <2>5. q \in Seq(Sounds)
    BY <2>1
  <2> HIDE DEF q, r, event
  <2>3. ASSUME NEW x PROVE /\ ~Without(q, {x}) => ~Without(r, {x})
                           /\ Without(q, {x}) /\ event # x => Without(r, {x})
    <3>1. CASE r = q
      BY <3>1
    <3>2. CASE r = Append(q, event)
      BY <2>1, <2>5, <3>2, AppendedSounds
    <3> QED BY <2>2, <3>1, <3>2
  <2>4. /\ ~Without(q, {"play"}) => ~Without(r, {"play"})
        /\ ~Without(q, {"ended"}) => ~Without(r, {"ended"})
        /\ Without(q, {"pause"}) /\ event = "play" => Without(r, {"pause"})
    BY <2>3
  <2> QED BY <2>1, <2>4 DEF q, r
<1>5. Sourced(b)'
  BY <1>0, <1>2, <1>3 DEF Sourced
<1>6. Announced(b) => Announced(b)'
  BY <1>0, <1>2 DEF Announced
<1>7. Started(b) => Started(b)'
  BY <1>0, <1>2, <1>4 DEF Started
<1>8. ASSUME thread.alive, ~Started(b) PROVE Plays(b)'
  <2>1. Plays(b) /\ Announced(b) /\ Without(coming[b], TrackNews) /\ "song" \notin shows[b].due
    BY <1>0, <1>8 DEF Started
  <2>2. element[b].src # 0
    BY <1>0, <2>1 DEF Announced, Sourced, Tracks
  <2>3. Sounding(b) => Sounding(b)' /\ event = "play"
    BY <1>0, <1>2, <1>3, <2>2 DEF Sounding
  <2> HIDE DEF event
  <2>7. timers' = timers
    BY <1>0
  <2>4. CASE timers[b].early
    BY <2>4, <2>7 DEF Plays
  <2>5. CASE ~timers[b].early /\ timers[b].settled
    BY <1>2, <1>4, <2>1, <2>3, <2>5, <2>7 DEF Plays
  <2>6. CASE ~timers[b].early /\ ~timers[b].settled
    BY <1>2, <1>4, <2>1, <2>3, <2>6, <2>7 DEF Plays
  <2> QED BY <2>4, <2>5, <2>6
<1>9. /\ \A c \in Tab \ {b} : coming'[c] = coming[c] /\ shows'[c] = shows[c] /\ element'[c] = element[c]
      /\ coming'[b] \in Seq(AudioNews) /\ DOMAIN coming' = Tab
      /\ orders' \in Seq(Presses) /\ (Without(orders', Starts) => Without(orders, Starts))
  BY <1>0, <1>1, <1>3
<1> QED BY <1>0, <1>1, <1>2, <1>3, <1>5, <1>6, <1>7, <1>8, <1>9, TabStep

LEMMA ListenerStep ==
  ASSUME AudioInv, NEW b \in Tab, Listener(b)
  PROVE  AudioInv'
<1> DEFINE q == element[b].events  event == Head(q)  r == Tail(q)
<1>0. /\ orders \in Seq(Presses) /\ ShowTyped(b) /\ coming[b] \in Seq(AudioNews) /\ SoundTyped(b) /\ Sourced(b)
      /\ DOMAIN shows = Tab /\ DOMAIN element = Tab /\ DOMAIN coming = Tab
      /\ UNCHANGED <<thread, coming, timers>> /\ timers \in [Tab -> Clocks]
      /\ thread.alive => Announced(b) /\ (Started(b) \/ Plays(b))
      /\ q \in Seq(Sounds) /\ q # <<>>
      /\ element' = [element EXCEPT ![b].events = r]
      /\ IF event = "ended" THEN orders' = Append(orders, "Next") ELSE UNCHANGED orders
      /\ \/ event = "play" /\ Written(b, "state", "PLAYING", "state")
         \/ event = "pause" /\ ~shows[b].changing /\ Written(b, "state", "PAUSED", "state")
         \/ ~(event = "play") /\ ~(event = "pause" /\ ~shows[b].changing) /\ UNCHANGED shows
  BY TabFacts DEF Listener
<1>1. event \in Sounds /\ r \in Seq(Sounds) /\ <<event>> \in Seq(Sounds) /\ q = <<event>> \o r
  BY <1>0, HeadJoined
<1>2. \A S : Without(q, S) <=> event \notin S /\ Without(r, S)
  <2> SUFFICES ASSUME NEW S PROVE Without(q, S) <=> event \notin S /\ Without(r, S)
    OBVIOUS
  <2> HIDE DEF q, event, r
  <2>1. Without(<<event>> \o r, S) <=> Without(<<event>>, S) /\ Without(r, S)
    BY <1>1, EndsJoined
  <2> QED BY <1>1, <2>1, EndsOne
<1>3. /\ DOMAIN element' = Tab /\ \A c \in Tab \ {b} : element'[c] = element[c]
      /\ element'[b].src = element[b].src /\ element'[b].paused = element[b].paused
      /\ element'[b].events = r /\ SoundTyped(b)'
  <2> HIDE DEF r
  <2>1. /\ DOMAIN element' = Tab /\ \A c \in Tab \ {b} : element'[c] = element[c]
        /\ element'[b] = [element[b] EXCEPT !.events = r]
    BY <1>0
  <2> QED BY <1>0, <1>1, <2>1 DEF SoundTyped, Speakers
<1>4. orders' \in Seq(Presses) /\ (Without(orders', Starts) => Without(orders, Starts))
      /\ (event = "ended" => ~Without(orders', Starts))
  <2> HIDE DEF event
  <2>1. "Next" \in Presses /\ "Next" \in Starts
    BY DEF Presses, Starts
  <2>2. CASE event = "ended"
    <3>1. orders' = Append(orders, "Next") /\ orders \in Seq(Presses)
      BY <1>0, <2>2
    <3> QED BY <2>1, <3>1, PressHeard
  <2>3. CASE event # "ended"
    BY <1>0, <2>3
  <2> QED BY <2>2, <2>3
<1> HIDE DEF q, event, r
<1>5. /\ DOMAIN shows' = Tab /\ \A c \in Tab \ {b} : shows'[c] = shows[c]
      /\ shows'[b].song = shows[b].song /\ shows'[b].changing = shows[b].changing
      /\ shows[b].due \subseteq shows'[b].due /\ ("song" \in shows'[b].due <=> "song" \in shows[b].due)
      /\ ShowTyped(b)'
      /\ event = "play" => shows'[b].state = "PLAYING" /\ "state" \in shows'[b].due
      /\ event # "play" /\ ~(event = "pause" /\ ~shows[b].changing) =>
           shows'[b].state = shows[b].state
  <2>0. "PLAYING" \in AudioStates /\ "PAUSED" \in AudioStates /\ "song" # "state" /\ "play" # "pause"
    BY DEF AudioStates
  <2>1. CASE event = "play" /\ Written(b, "state", "PLAYING", "state")
    <3>1. /\ DOMAIN shows' = Tab /\ \A c \in Tab \ {b} : shows'[c] = shows[c]
          /\ shows'[b].state = "PLAYING" /\ shows'[b].due = shows[b].due \cup {"state"}
          /\ shows'[b].changing = shows[b].changing /\ shows'[b].song = shows[b].song
          /\ ShowTyped(b)'
      BY <2>0, <2>1, StateWritten
    <3> QED BY <2>1, <3>1
  <2>2. CASE event = "pause" /\ ~shows[b].changing /\ Written(b, "state", "PAUSED", "state")
    <3>1. /\ DOMAIN shows' = Tab /\ \A c \in Tab \ {b} : shows'[c] = shows[c]
          /\ shows'[b].due = shows[b].due \cup {"state"}
          /\ shows'[b].changing = shows[b].changing /\ shows'[b].song = shows[b].song
          /\ ShowTyped(b)'
      BY <2>0, <2>2, StateWritten
    <3> QED BY <2>2, <3>1
  <2>3. CASE event # "play" /\ UNCHANGED shows
    BY <1>0, <2>3 DEF ShowTyped
  <2> QED BY <1>0, <2>1, <2>2, <2>3
<1>6. Sourced(b)'
  BY <1>0, <1>3, <1>5 DEF Sourced
<1>7. Announced(b) => Announced(b)'
  BY <1>0, <1>5 DEF Announced
<1>8. ASSUME Started(b) PROVE Started(b)'
  <2>1. element[b].events = q
    BY DEF q
  <2>2. ~Without(q, {"ended"}) => ~Without(r, {"ended"}) \/ ~Without(orders', Starts)
    BY <1>2, <1>4
  <2> QED BY <1>0, <1>3, <1>4, <1>5, <1>8, <2>1, <2>2 DEF Started
<1>9. ASSUME thread.alive, ~Started(b) PROVE Plays(b)'
  <2>1. Plays(b) /\ Without(q, {"ended"})
    BY <1>0, <1>9 DEF Started, q
  <2>2. event # "ended"
    BY <1>2, <2>1
  <2>3. element[b].events = q
    BY DEF q
  <2>6. /\ timers' = timers
        /\ ~Without(q, {"play"}) => event = "play" \/ ~Without(r, {"play"})
        /\ Without(q, {"pause"}) => Without(r, {"pause"}) /\ event # "pause"
    BY <1>0, <1>2
  <2>7. CASE timers[b].early
    BY <2>6, <2>7 DEF Plays
  <2>8. ASSUME ~timers[b].early
        PROVE  \/ timers[b].settled /\ Sounding(b) /\ Without(q, {"pause"})
               \/ ~timers[b].settled /\ shows[b].changing /\ (Sounding(b) \/ ~Without(q, {"play"}))
    BY <2>1, <2>3, <2>8 DEF Plays
  <2>4. CASE event = "play" /\ ~timers[b].early
    <3>1. Sounding(b)'
      BY <1>5, <2>4 DEF Sounding
    <3>2. timers[b].settled => Without(r, {"pause"})
      BY <2>4, <2>6, <2>8
    <3>3. ~timers[b].settled => shows'[b].changing
      BY <1>5, <2>4, <2>8
    <3>4. element'[b].events = r
      BY <1>3
    <3> QED BY <2>6, <3>1, <3>2, <3>3, <3>4 DEF Plays
  <2>5. CASE event = "pause" /\ ~timers[b].early
    <3>1. shows[b].changing /\ ~timers[b].settled /\ (Sounding(b) \/ ~Without(q, {"play"}))
      BY <2>5, <2>6, <2>8
    <3>2. "pause" # "play" /\ shows'[b].state = shows[b].state
      BY <1>5, <2>5, <3>1
    <3>3. Sounding(b) => Sounding(b)'
      BY <1>3, <1>5, <3>2 DEF Sounding
    <3>4. ~Without(q, {"play"}) => ~Without(r, {"play"})
      BY <1>2, <2>5, <3>2
    <3>5. shows'[b].changing /\ (Sounding(b)' \/ ~Without(r, {"play"})) /\ element'[b].events = r
      BY <1>3, <1>5, <3>1, <3>3, <3>4
    <3> QED BY <2>6, <3>1, <3>5 DEF Plays
  <2> QED BY <1>1, <2>2, <2>4, <2>5, <2>7 DEF Sounds
<1>10. \A c \in Tab \ {b} : coming'[c] = coming[c] /\ shows'[c] = shows[c] /\ element'[c] = element[c]
  BY <1>0, <1>3, <1>5
<1>11. coming'[b] \in Seq(AudioNews) /\ DOMAIN coming' = Tab /\ UNCHANGED thread
  BY <1>0
<1> QED BY <1>0, <1>3, <1>4, <1>5, <1>6, <1>7, <1>8, <1>9, <1>10, <1>11, TabStep

LEMMA SongOverStep ==
  ASSUME AudioInv, NEW b \in Tab, SongOver(b)
  PROVE  AudioInv'
<1> DEFINE q == element[b].events  w == <<"pause", "ended">>
<1>0. /\ orders \in Seq(Presses) /\ ShowTyped(b) /\ coming[b] \in Seq(AudioNews) /\ SoundTyped(b) /\ Sourced(b)
      /\ DOMAIN shows = Tab /\ DOMAIN element = Tab /\ DOMAIN coming = Tab
      /\ UNCHANGED <<thread, coming, orders, shows, timers>> /\ timers \in [Tab -> Clocks]
      /\ thread.alive => Announced(b) /\ (Started(b) \/ Plays(b))
      /\ q \in Seq(Sounds)
      /\ element' = [element EXCEPT ![b].paused = TRUE, ![b].events = q \o w]
  BY TabFacts DEF SongOver, ServerVars
<1>1. w \in Seq(Sounds) /\ ~Without(w, {"ended"})
  <2>1. w \in Seq(Sounds)
    BY DEF Sounds
  <2>2. 2 \in DOMAIN w /\ w[2] = "ended"
    OBVIOUS
  <2> QED BY <2>1, <2>2 DEF Without
<1> HIDE DEF q, w
<1>2. q \o w \in Seq(Sounds) /\ ~Without(q \o w, {"ended"})
  BY <1>0, <1>1, EndsJoined
<1>3. /\ DOMAIN element' = Tab /\ \A c \in Tab \ {b} : element'[c] = element[c]
      /\ element'[b] = [element[b] EXCEPT !.paused = TRUE, !.events = q \o w]
  BY <1>0
<1>4. element'[b].src = element[b].src /\ element'[b].events = q \o w /\ SoundTyped(b)'
  BY <1>0, <1>2, <1>3 DEF SoundTyped, Speakers
<1>5. Sourced(b)' /\ Started(b)' /\ ShowTyped(b)' /\ (Announced(b) => Announced(b)')
  BY <1>0, <1>2, <1>4 DEF Sourced, Started, ShowTyped, Announced
<1> QED BY <1>0, <1>3, <1>4, <1>5, TabStep

LEMMA AudioInvariant == AudioSpec => []AudioInv
<1>1. ASSUME AudioInv, [AudioNext]_audioVars PROVE AudioInv'
  <2>1. CASE HandleOrder
    BY <1>1, <2>1, HandleStep
  <2>2. ASSUME NEW k \in Presses, Press(k) PROVE AudioInv'
    BY <1>1, <2>2, PressStep
  <2>3. ASSUME NEW b \in Tab, PageStep(b) \/ SongOver(b) PROVE AudioInv'
    BY <1>1, <2>3, HearStep, SongEffectStep, StateEffectStep, SettledStep, ChangeStep, ListenerStep, SongOverStep
       DEF PageStep
  <2>4. CASE UNCHANGED audioVars
    <3>1. ThreadTyped' /\ TabsTyped'
      BY <1>1, <2>4 DEF audioVars, AudioInv, ThreadTyped, TabsTyped, ShowTyped, SoundTyped
    <3>2. ASSUME NEW c \in Tab
          PROVE  Sourced(c)' /\ (thread'.alive => Announced(c)' /\ (Started(c)' \/ Plays(c)'))
      BY <1>1, <2>4, OtherTabs DEF audioVars
    <3> QED BY <3>1, <3>2 DEF AudioInv
  <2> QED BY <1>1, <2>1, <2>2, <2>3, <2>4 DEF AudioNext, Presses
<1> QED BY <1>1, AudioStart, PTL DEF AudioSpec

\* While the server holds a song to be playing every open page plays it, once the
\* events have come in and the effects have run, unless the timer of an older source
\* took the guard of the last one away; for any number of pages, songs, orders and ends
\* of songs.
THEOREM PagesInTune == AudioSpec => []InTune
<1>1. ASSUME AudioInv PROVE InTune
  <2> SUFFICES ASSUME NEW b \in Tab, AtRest(b), thread.alive, ~timers[b].early
               PROVE  element[b].src = thread.song /\ ~element[b].paused /\ shows[b].state = "PLAYING"
    BY DEF InTune
  <2>1. Sourced(b) /\ Announced(b) /\ (Started(b) \/ Plays(b))
    BY <1>1, TabFacts
  <2>2. /\ orders = <<>> /\ coming[b] = <<>> /\ shows[b].due = {} /\ ~shows[b].changing
        /\ element[b].events = <<>>
    BY DEF AtRest
  <2>3. \A S : Without(<<>>, S)
    BY EndsOne
  <2>4. Without(orders, Starts) /\ Without(element[b].events, {"ended"}) /\ Without(coming[b], TrackNews)
    BY <2>2, <2>3
  <2>5. ~Started(b)
    BY <2>2, <2>4 DEF Started
  <2>6. Sounding(b)
    BY <2>1, <2>2, <2>5 DEF Plays
  <2> QED BY <2>1, <2>2, <2>4, <2>6 DEF Sounding, Sourced, Announced
<1> QED BY <1>1, AudioInvariant, PTL

-----------------------------------------------------------------------------
(* The trees of the library pages.                                         *)

Item == UNION {Items(k) : k \in Kinds}
Nodes == Seq(Item)

\* What a page can ask.
Paths == {FlattenSeq(n) : n \in Nodes} \cup {Last(n) : n \in Nodes} \cup {<<>>}
Question == [of : Kinds, by : {"Path", "Term"}, path : Paths]

TreeTyped ==
  /\ kind \in Kinds /\ tree \subseteq Nodes /\ <<>> \in tree /\ items \subseteq Item
  /\ current \in Nodes \cup {Gone} /\ typed \in Terms /\ asked \in Terms /\ routed \in Terms
  /\ broken \in BOOLEAN /\ edited \in BOOLEAN /\ strayed \in BOOLEAN /\ linked \in BOOLEAN
  /\ asks \in Seq(Question)

\* The tree is one to browse in.
IsTree == ~strayed /\ (kind = "Files" => ~edited /\ asked = "")

RootShown == Children(tree, <<>>) = {<<i>> : i \in Answer(RootQuery(kind, asked))}
RowShown(n) == Children(tree, n) \in {{}, {Append(n, i) : i \in Answer(Browse(kind, Asked(n)))}}

\* In a new tree everything the page waits for goes to the root, last the answer
\* asked for; a closed socket will ask again.
WaitsForRoot == current = <<>> /\ (linked => asks # <<>> /\ asks[Len(asks)] = RootQuery(kind, asked))

\* The answer goes to the row it was asked for.
WaitsForRow ==
  /\ linked => RootShown
  /\ asks # <<>> => /\ current \in Nodes \ {<<>>}
                    /\ Len(asks) = 1 /\ asks[1] = Browse(kind, Asked(current))

Waits == WaitsForRoot \/ WaitsForRow

\* The search field of the files page shows what was asked for.
FieldKept == kind = "Files" /\ ~edited => typed = asked /\ typed \in {"", routed}

TreeInv ==
  /\ TreeTyped /\ FieldKept
  /\ IsTree => /\ ~broken /\ Waits
               /\ \A n \in tree \ {<<>>} : RowShown(n)

LEMMA ItemFacts ==
  /\ <<>> \notin Item /\ Gone \notin Nodes /\ <<>> \in Nodes /\ Gone # <<>>
  /\ \A q \in Question : Answer(q) \subseteq Item
  /\ \A k \in Kinds, t \in Terms : RootQuery(k, t) \in Question
  /\ \A i \in Item : Append(<<>>, i) = <<i>> /\ <<i>> \in Nodes
<1>1. <<>> \notin Item
  BY ShelfAssumption DEF Item
<1>2. Gone \notin Nodes
  <2>1. \A n \in Nodes : n # <<>> => n[1] \in Item
    BY DEF Nodes
  <2>2. Gone # <<>> /\ Gone[1] = <<>>
    BY DEF Gone
  <2> QED BY <1>1, <2>1, <2>2
<1>3. ASSUME NEW q \in Question PROVE Answer(q) \subseteq Item
  <2>1. q.of \in Kinds
    BY <1>3 DEF Question
  <2>2. Items(q.of) \subseteq Item
    BY <2>1 DEF Item
  <2>3. Answer(q) \subseteq Items(q.of)
    BY DEF Answer, Items
  <2> QED BY <2>2, <2>3
<1>4. \A i \in Item : Append(<<>>, i) = <<i>> /\ <<i>> \in Nodes
  BY DEF Nodes
<1>5. <<>> \in Nodes /\ Gone # <<>>
  BY DEF Nodes, Gone
<1>6. ASSUME NEW k \in Kinds, NEW t \in Terms PROVE RootQuery(k, t) \in Question
  <2>1. <<>> \in Paths
    BY DEF Paths
  <2> QED BY <1>6, <2>1 DEF RootQuery, Browse, Search, Question
<1> QED BY <1>1, <1>2, <1>3, <1>4, <1>5, <1>6

LEMMA RowQuestion ==
  ASSUME kind \in Kinds, NEW n \in Nodes
  PROVE  Browse(kind, Asked(n)) \in Question
<1>1. Asked(n) \in Paths
  BY DEF Asked, Paths
<1> QED BY <1>1 DEF Browse, Question

\* A question is put behind the others.
LEMMA Questioned ==
  ASSUME asks \in Seq(Question), NEW q \in Question, Ask(q)
  PROVE  /\ asks' \in Seq(Question)
         /\ linked => asks' # <<>> /\ asks'[Len(asks')] = q
         /\ asks = <<>> /\ asks' # <<>> => Len(asks') = 1 /\ asks'[1] = q
<1>1. CASE linked
  <2> DEFINE a == Append(asks, q)
  <2>1. a \in Seq(Question) /\ Len(a) = Len(asks) + 1 /\ a[Len(a)] = q /\ Len(asks) \in Nat
    OBVIOUS
  <2>2. asks = <<>> => Len(asks) = 0
    OBVIOUS
  <2>3. a # <<>>
    BY <2>1
  <2>4. asks' = a
    BY <1>1 DEF Ask
  <2> HIDE DEF a
  <2> QED BY <2>1, <2>2, <2>3, <2>4
<1>2. CASE ~linked
  BY <1>2 DEF Ask
<1> QED BY <1>1, <1>2

\* Node m is node n or below it.
Within(n, m) == Len(n) <= Len(m) /\ \A i \in 1..Len(n) : n[i] = m[i]

LEMMA PrefixFacts ==
  ASSUME NEW n \in Nodes, NEW m \in Nodes
  PROVE  /\ IsPrefix(n, m) <=> Within(n, m)
         /\ Within(n, m) /\ Len(n) = Len(m) => n = m
<1>1. Len(n) \in Nat /\ Len(m) \in Nat
  BY DEF Nodes
<1>2. ASSUME Len(n) <= Len(m)
      PROVE  SubSeq(n, 1, Len(n)) = SubSeq(m, 1, Len(n)) <=> \A i \in 1..Len(n) : n[i] = m[i]
  <2> DEFINE k == Len(n)  a == SubSeq(n, 1, k)  b == SubSeq(m, 1, k)
  <2>1. /\ a \in Seq(Item) /\ b \in Seq(Item) /\ Len(a) = k /\ Len(b) = k /\ k \in Nat
        /\ \A i \in 1..k : a[i] = n[i] /\ b[i] = m[i]
    BY <1>1, <1>2 DEF Nodes
  <2> HIDE DEF a, b, k
  <2>2. (\A i \in 1..k : a[i] = b[i]) => a = b
    BY <2>1, SeqEqual
  <2> QED BY <2>1, <2>2 DEF a, b, k
<1>3. (\A i \in 1..Len(n) : n[i] = m[i]) /\ Len(n) = Len(m) => n = m
  BY SeqEqual DEF Nodes
<1> QED BY <1>2, <1>3 DEF IsPrefix, Within

LEMMA ChildFacts ==
  ASSUME NEW t \in SUBSET Nodes, NEW n \in Nodes
  PROVE  /\ \A p : p \in Children(t, n) <=> p \in t /\ Len(p) = Len(n) + 1 /\ Within(n, p)
         /\ \A p : p \in Below(t, n) <=> p \in t /\ Len(p) > Len(n) /\ Within(n, p)
BY PrefixFacts DEF Children, Below

\* What is under a row goes with it, and nothing else.
LEMMA ClosedRows ==
  ASSUME NEW t \in SUBSET Nodes, NEW S \in SUBSET Nodes, NEW m \in Nodes
  PROVE  Children(t \ UNION {Below(t, n) : n \in S}, m) =
           IF \E n \in S : Within(n, m) THEN {} ELSE Children(t, m)
<1> DEFINE u == t \ UNION {Below(t, n) : n \in S}
<1>0. Len(m) \in Nat /\ \A p \in Nodes : Len(p) \in Nat
  BY DEF Nodes
<1>1. /\ \A p : p \in Children(t, m) <=> p \in t /\ Len(p) = Len(m) + 1 /\ Within(m, p)
      /\ \A p : p \in Children(u, m) <=> p \in u /\ Len(p) = Len(m) + 1 /\ Within(m, p)
  BY ChildFacts
<1>2. ASSUME NEW p \in Children(t, m), NEW n \in S PROVE p \in Below(t, n) <=> Within(n, m)
  <2>1. n \in Nodes /\ p \in Nodes /\ p \in t /\ Len(p) = Len(m) + 1 /\ Within(m, p)
    BY <1>1, <1>2
  <2>2. p \in Below(t, n) <=> p \in t /\ Len(p) > Len(n) /\ Within(n, p)
    BY <2>1, ChildFacts
  <2> QED BY <1>0, <2>1, <2>2 DEF Within
<1>3. \A p : p \in u <=> p \in t /\ \A n \in S : p \notin Below(t, n)
  OBVIOUS
<1> HIDE DEF u
<1>4. \A p : p \in Children(u, m) <=> p \in Children(t, m) /\ \A n \in S : p \notin Below(t, n)
  BY <1>1, <1>3
<1>5. \A p : p \in Children(u, m) <=> p \in Children(t, m) /\ \A n \in S : ~Within(n, m)
  BY <1>2, <1>4
<1>6. Children(u, m) = IF \E n \in S : Within(n, m) THEN {} ELSE Children(t, m)
  BY <1>5
<1> QED BY <1>6 DEF u

\* The rows an answer puts under a node.
Under(n, is) == {Append(n, i) : i \in is}

\* Rows that are added are children of the row they are put under.
LEMMA AddedRows ==
  ASSUME NEW t \in SUBSET Nodes, NEW n \in Nodes, NEW m \in Nodes, NEW is \in SUBSET Item
  PROVE  /\ Under(n, is) \subseteq Nodes
         /\ Children(t \cup Under(n, is), m) =
              Children(t, m) \cup (IF m = n THEN Under(n, is) ELSE {})
<1> DEFINE N == {Append(n, i) : i \in is}  u == t \cup N
<1>1. \A i \in Item : Append(n, i) \in Nodes /\ Len(Append(n, i)) = Len(n) + 1
                      /\ \A j \in 1..Len(n) : Append(n, i)[j] = n[j]
  BY DEF Nodes
<1>2. N \subseteq Nodes /\ \A p \in N : Len(p) = Len(n) + 1 /\ Within(n, p)
                                        /\ \A j \in 1..Len(n) : p[j] = n[j]
  <2>1. Len(n) \in Nat
    BY DEF Nodes
  <2>2. N \subseteq Nodes /\ \A p \in N : Len(p) = Len(n) + 1 /\ \A j \in 1..Len(n) : p[j] = n[j]
    BY <1>1
  <2> QED BY <2>1, <2>2 DEF Within
<1> HIDE DEF N
<1>3. /\ \A p : p \in Children(t, m) <=> p \in t /\ Len(p) = Len(m) + 1 /\ Within(m, p)
      /\ \A p : p \in Children(u, m) <=> p \in u /\ Len(p) = Len(m) + 1 /\ Within(m, p)
  BY <1>2, ChildFacts
<1>4. ASSUME NEW p \in N PROVE Len(p) = Len(m) + 1 /\ Within(m, p) <=> m = n
  <2>1. Len(n) \in Nat /\ Len(m) \in Nat
    BY DEF Nodes
  <2>2. ASSUME Len(p) = Len(m) + 1, Within(m, p) PROVE m = n
    <3>1. Len(m) = Len(n) /\ \A j \in 1..Len(n) : m[j] = n[j]
      BY <1>2, <2>1, <2>2 DEF Within
    <3> QED BY <3>1, SeqEqual DEF Nodes
  <2> QED BY <1>2, <1>4, <2>2
<1>5. \A p : p \in Children(u, m) <=> p \in Children(t, m) \/ (p \in N /\ m = n)
  BY <1>3, <1>4
<1>6. Children(u, m) = Children(t, m) \cup (IF m = n THEN N ELSE {})
  BY <1>5
<1> QED BY <1>2, <1>6 DEF N, Under

LEMMA FilledTree ==
  ASSUME NEW t \in SUBSET Nodes, <<>> \in t, NEW node \in Nodes, NEW is \in SUBSET Item, NEW new,
         new = (t \ Below(t, node)) \cup Under(node, is)
  PROVE  /\ new \subseteq Nodes /\ <<>> \in new
         /\ Children(new, node) = Under(node, is)
         /\ \A m \in Nodes \ {node} : Within(node, m) => Children(new, m) = {}
         /\ \A m \in Nodes : ~Within(node, m) => Children(new, m) = Children(t, m)
<1> DEFINE u == t \ UNION {Below(t, n) : n \in {node}}
<1>1. u = t \ Below(t, node) /\ new = u \cup Under(node, is)
  OBVIOUS
<1>2. \A m \in Nodes : Children(u, m) = IF Within(node, m) THEN {} ELSE Children(t, m)
  <2> SUFFICES ASSUME NEW m \in Nodes
               PROVE  Children(u, m) = IF Within(node, m) THEN {} ELSE Children(t, m)
    OBVIOUS
  <2>1. Children(u, m) = IF \E n \in {node} : Within(n, m) THEN {} ELSE Children(t, m)
    BY ClosedRows
  <2> QED BY <2>1
<1>3. <<>> \notin Below(t, node)
  <2>1. <<>> \in Below(t, node) => Len(<<>>) > Len(node)
    BY ChildFacts
  <2> QED BY <2>1 DEF Nodes
<1> HIDE DEF u
<1>4. u \in SUBSET Nodes /\ <<>> \in u
  BY <1>1, <1>3
<1>5. Within(node, node)
  BY DEF Within, Nodes
<1>6. Under(node, is) \subseteq Nodes
  BY AddedRows
<1>7. ASSUME NEW m \in Nodes
      PROVE  /\ m = node => Children(new, m) = Under(node, is)
             /\ m # node /\ Within(node, m) => Children(new, m) = {}
             /\ ~Within(node, m) => Children(new, m) = Children(t, m)
  <2>1. Children(new, m) = Children(u, m) \cup (IF m = node THEN Under(node, is) ELSE {})
    <3>1. Children(u \cup Under(node, is), m) =
            Children(u, m) \cup (IF m = node THEN Under(node, is) ELSE {})
      BY <1>4, AddedRows
    <3> QED BY <1>1, <3>1
  <2> HIDE DEF Children
  <2> QED BY <1>2, <1>5, <2>1
<1> QED BY <1>1, <1>4, <1>6, <1>7

LEMMA FilledBeside ==
  ASSUME NEW t \in SUBSET Nodes, <<>> \in t, NEW node \in Nodes, NEW is \in SUBSET Item, NEW new,
         new = (t \ Below(t, node)) \cup Under(node, is), NEW m \in Nodes, ~Within(node, m)
  PROVE  Children(new, m) = Children(t, m)
BY FilledTree

\* While the page waits for nothing rows may be closed.
LEMMA RowsClosed ==
  ASSUME TreeInv, NEW S \in SUBSET (Nodes \ {<<>>}), UNCHANGED <<kind, asked, link>>,
         tree' = tree \ UNION {Below(tree, n) : n \in S}
  PROVE  /\ tree' \subseteq Nodes /\ <<>> \in tree'
         /\ IsTree /\ asks = <<>> => /\ linked' => RootShown'
                                   /\ \A n \in tree' \ {<<>>} : RowShown(n)'
<1>1. tree \in SUBSET Nodes /\ <<>> \in tree /\ \A n \in S : n \in Nodes /\ n # <<>>
  BY DEF TreeInv, TreeTyped
<1>2. <<>> \notin UNION {Below(tree, n) : n \in S}
  <2> SUFFICES ASSUME NEW n \in S, <<>> \in Below(tree, n) PROVE FALSE
    OBVIOUS
  <2>1. Len(<<>>) > Len(n)
    BY <1>1, ChildFacts
  <2> QED BY <1>1, <2>1 DEF Nodes
<1>3. tree' \subseteq Nodes /\ <<>> \in tree'
  BY <1>1, <1>2
<1>4. \A m \in Nodes : Children(tree', m) = IF \E n \in S : Within(n, m) THEN {} ELSE Children(tree, m)
  BY <1>1, ClosedRows
<1>5. \A n \in S : ~Within(n, <<>>)
  BY <1>1 DEF Within, Nodes
<1>6. Children(tree', <<>>) = Children(tree, <<>>)
  BY <1>4, <1>5, ItemFacts
<1>7. /\ \A n : Asked(n)' = Asked(n)
      /\ RootQuery(kind, asked)' = RootQuery(kind, asked) /\ linked' = linked
  BY DEF Asked, RootQuery, link
<1>8. ASSUME IsTree, asks = <<>>, linked' PROVE RootShown'
  <2>1. RootShown
    BY <1>7, <1>8 DEF TreeInv, Waits, WaitsForRoot, WaitsForRow
  <2> QED BY <1>6, <1>7, <2>1 DEF RootShown
<1>9. ASSUME IsTree, NEW m \in tree' \ {<<>>} PROVE RowShown(m)'
  <2>1. m \in Nodes /\ m \in tree \ {<<>>}
    BY <1>1, <1>9
  <2>2. RowShown(m)
    BY <1>9, <2>1 DEF TreeInv
  <2>3. Children(tree', m) \in {{}, Children(tree, m)}
    BY <1>4, <2>1
  <2>4. Answer(Browse(kind, Asked(m)))' = Answer(Browse(kind, Asked(m)))
    BY <1>7
  <2> QED BY <2>2, <2>3, <2>4 DEF RowShown
<1> QED BY <1>3, <1>8, <1>9

LEMMA KeptFacts ==
  ASSUME NEW c \in Nodes \cup {Gone}, NEW dead
  PROVE  Kept(c, dead) \in Nodes \cup {Gone} /\ (c \notin dead => Kept(c, dead) = c)
BY DEF Kept

LEMMA ToggleStep ==
  ASSUME TreeInv, NEW n \in tree, Toggle(n)
  PROVE  TreeInv'
<1>0. /\ ~broken /\ n \in Nodes /\ n # <<>> /\ tree \subseteq Nodes /\ Hurried
      /\ UNCHANGED <<kind, typed, asked, link, items, broken, edited>>
      /\ UNCHANGED <<routed, linked>>
  BY DEF Toggle, Acting, Happens, Opens, TreeInv, TreeTyped, link
<1>1. strayed' \in BOOLEAN /\ (IsTree' => IsTree /\ asks = <<>>) /\ FieldKept'
  BY <1>0 DEF Hurried, IsTree, TreeInv, TreeTyped, FieldKept
<1>2. CASE Collapse(n)
  <2>1. tree' = tree \ UNION {Below(tree, m) : m \in {n}}
    BY <1>2 DEF Collapse
  <2>2. /\ tree' \subseteq Nodes /\ <<>> \in tree'
        /\ IsTree /\ asks = <<>> => (linked' => RootShown') /\ \A m \in tree' \ {<<>>} : RowShown(m)'
    <3>1. {n} \in SUBSET (Nodes \ {<<>>})
      BY <1>0
    <3> QED BY <1>0, <2>1, <3>1, RowsClosed
  <2>3. current' \in Nodes \cup {Gone} /\ UNCHANGED asks
    BY <1>2, KeptFacts DEF Collapse, TreeInv, TreeTyped
  <2>4. TreeTyped'
    BY <1>0, <1>1, <2>2, <2>3 DEF TreeInv, TreeTyped
  <2>5. IsTree' => Waits'
    BY <1>1, <2>2, <2>3 DEF Waits, WaitsForRow
  <2> QED BY <1>0, <1>1, <2>2, <2>4, <2>5 DEF TreeInv
<1>3. CASE Expand(n)
  <2> DEFINE S == Children(tree, Front(n)) \ {n}
  <2>1. S \subseteq Nodes \ {<<>>}
    <3>1. Len(Front(n)) \in Nat
      BY <1>0 DEF Front, Nodes
    <3>2. \A p \in Children(tree, Front(n)) : p \in tree /\ Len(p) = Len(Front(n)) + 1
      BY DEF Children
    <3>3. Len(<<>>) = 0
      OBVIOUS
    <3> QED BY <1>0, <3>1, <3>2, <3>3
  <2> HIDE DEF S
  <2>2. tree' = tree \ UNION {Below(tree, m) : m \in S}
    BY <1>3 DEF Expand, S
  <2>3. /\ tree' \subseteq Nodes /\ <<>> \in tree'
        /\ IsTree /\ asks = <<>> => (linked' => RootShown') /\ \A m \in tree' \ {<<>>} : RowShown(m)'
    BY <1>0, <2>1, <2>2, RowsClosed
  <2>4. current' = n /\ Ask(Browse(kind, Asked(n)))
    BY <1>3 DEF Expand
  <2>5. /\ asks' \in Seq(Question)
        /\ asks = <<>> /\ asks' # <<>> => Len(asks') = 1 /\ asks'[1] = Browse(kind, Asked(n))
    <3>1. asks \in Seq(Question) /\ Browse(kind, Asked(n)) \in Question
      BY <1>0, RowQuestion DEF TreeInv, TreeTyped
    <3> QED BY <2>4, <3>1, Questioned
  <2>6. TreeTyped'
    BY <1>0, <1>1, <2>3, <2>4, <2>5 DEF TreeInv, TreeTyped
  <2>7. Browse(kind, Asked(current))' = Browse(kind, Asked(n))
    BY <1>0, <2>4 DEF Browse, Asked
  <2>8. IsTree' => Waits'
    BY <1>0, <1>1, <2>3, <2>4, <2>5, <2>7 DEF Waits, WaitsForRow
  <2> QED BY <1>0, <1>1, <2>3, <2>6, <2>8 DEF TreeInv
<1> QED BY <1>2, <1>3 DEF Toggle

\* A new tree: the answer to the question for its top is awaited.
LEMMA FreshTree ==
  ASSUME TreeTyped', broken' = FALSE, current' = <<>>, FieldKept',
         linked' => asks' # <<>> /\ asks'[Len(asks')] = RootQuery(kind', asked'),
         \A m \in tree' \ {<<>>} : Children(tree', m) = {}
  PROVE  TreeInv'
<1>1. Waits'
  BY DEF Waits, WaitsForRoot, RootQuery, Browse, Search
<1>2. \A m \in tree' \ {<<>>} : RowShown(m)'
  BY DEF RowShown
<1> QED BY <1>1, <1>2 DEF TreeInv

LEMMA RootAlone ==
  ASSUME NEW is \in SUBSET Item, NEW new,
         new = ({<<>>} \ Below({<<>>}, <<>>)) \cup Under(<<>>, is) \/ new = {<<>>}
  PROVE  new \subseteq Nodes /\ <<>> \in new /\ \A m \in new \ {<<>>} : Children(new, m) = {}
<1>1. CASE new = {<<>>}
  BY <1>1, ItemFacts
<1>2. CASE new = ({<<>>} \ Below({<<>>}, <<>>)) \cup Under(<<>>, is)
  <2>1. /\ new \subseteq Nodes /\ <<>> \in new
        /\ \A m \in Nodes \ {<<>>} : Within(<<>>, m) => Children(new, m) = {}
    <3>1. {<<>>} \in SUBSET Nodes /\ <<>> \in {<<>>} /\ <<>> \in Nodes
      BY ItemFacts
    <3> QED BY <1>2, <3>1, FilledTree
  <2>2. \A m \in Nodes : Within(<<>>, m)
    BY DEF Within, Nodes
  <2> QED BY <2>1, <2>2
<1> QED BY <1>1, <1>2

\* What is put into a tree leaves it one.
LEMMA FillTyped ==
  ASSUME NEW t \in SUBSET Nodes, <<>> \in t, NEW cur \in Nodes \cup {Gone}, NEW is \in SUBSET Item,
         NEW text, Fill(t, cur, is, text)
  PROVE  tree' \subseteq Nodes /\ <<>> \in tree' /\ current' \in Nodes \cup {Gone} /\ broken' \in BOOLEAN
<1> DEFINE node == IF kind' = "Files" /\ text # "" THEN <<>> ELSE cur
<1>1. CASE node = Gone
  BY <1>1 DEF Fill
<1>2. CASE node # Gone
  <2>1. node \in Nodes
    BY <1>2, ItemFacts
  <2>2. /\ tree' = (t \ Below(t, node)) \cup Under(node, is)
        /\ current' = Kept(cur, Below(t, node)) /\ broken' = FALSE
    BY <1>2 DEF Fill, Under
  <2> HIDE DEF node
  <2>3. tree' \subseteq Nodes /\ <<>> \in tree'
    BY <2>1, <2>2, FilledTree
  <2>4. current' \in Nodes \cup {Gone}
    BY <2>2, KeptFacts
  <2> QED BY <2>2, <2>3, <2>4
<1> QED BY <1>1, <1>2

LEMMA TypeStep ==
  ASSUME TreeInv, NEW t \in Terms, Type(t)
  PROVE  TreeInv'
<1>0. /\ ~broken /\ typed' = t /\ edited' = TRUE
      /\ UNCHANGED <<kind, asked, link, asks, items, strayed>> /\ UNCHANGED <<routed, linked>>
  BY DEF Type, Acting, Happens, link
<1>1. CASE kind = "Files"
  <2>0. ~IsTree' /\ FieldKept'
    BY <1>0, <1>1 DEF IsTree, FieldKept
  <2>1. Fill(tree, current, items, t)
    BY <1>1 DEF Type
  <2>2. /\ tree \in SUBSET Nodes /\ <<>> \in tree /\ items \in SUBSET Item
        /\ current \in Nodes \cup {Gone}
    BY DEF TreeInv, TreeTyped
  <2>3. tree' \subseteq Nodes /\ <<>> \in tree' /\ current' \in Nodes \cup {Gone} /\ broken' \in BOOLEAN
    BY <2>1, <2>2, FillTyped
  <2> QED BY <1>0, <2>0, <2>2, <2>3 DEF TreeInv, TreeTyped
<1>2. CASE kind # "Files"
  <2>1. UNCHANGED <<tree, current, broken>>
    BY <1>2 DEF Type
  <2>2. TreeTyped' /\ FieldKept'
    BY <1>0, <1>2, <2>1 DEF TreeInv, TreeTyped, FieldKept
  <2>3. \A n \in tree : RowShown(n) => RowShown(n)'
    BY <1>0, <2>1 DEF RowShown, Children, Answer, Asked
  <2>4. Waits => Waits'
    BY <1>0, <2>1 DEF Waits, WaitsForRoot, WaitsForRow, RootShown, Children, Answer, RootQuery, Asked
  <2> QED BY <1>0, <1>2, <2>1, <2>2, <2>3, <2>4 DEF TreeInv, IsTree
<1> QED BY <1>1, <1>2

LEMMA SearchStep ==
  ASSUME TreeInv, DoSearch
  PROVE  TreeInv'
<1>0. /\ ~broken /\ asked' = typed /\ Ask(RootQuery(kind, typed)) /\ SearchTree(typed)
      /\ UNCHANGED <<kind, typed, link, items, broken>> /\ UNCHANGED <<routed, linked>>
  BY DEF DoSearch, Acting, Happens, link
<1>1. asks' \in Seq(Question) /\ (linked => asks' # <<>> /\ asks'[Len(asks')] = RootQuery(kind, typed))
  <2>1. asks \in Seq(Question) /\ RootQuery(kind, typed) \in Question
    BY ItemFacts DEF TreeInv, TreeTyped
  <2> QED BY <1>0, <2>1, Questioned
<1>2. CASE kind = "Files" /\ typed # ""
  <2>1. UNCHANGED <<tree, current, edited>> /\ strayed' \in BOOLEAN
    BY <1>0, <1>2 DEF SearchTree, Hurried
  <2>2. ~IsTree'
    BY <1>0, <1>2 DEF IsTree
  <2>3. FieldKept'
    BY <1>0, <2>1 DEF FieldKept, TreeInv
  <2> QED BY <1>0, <1>1, <2>1, <2>2, <2>3 DEF TreeInv, TreeTyped
<1>3. CASE ~(kind = "Files" /\ typed # "")
  <2>1. tree' = {<<>>} /\ current' = <<>> /\ edited' = FALSE /\ strayed' = FALSE
    BY <1>0, <1>3 DEF SearchTree
  <2>2. tree' \subseteq Nodes /\ <<>> \in tree' /\ \A m \in tree' \ {<<>>} : Children(tree', m) = {}
    BY <2>1, ItemFacts
  <2>3. TreeTyped'
    BY <1>0, <1>1, <2>1, <2>2, ItemFacts DEF TreeInv, TreeTyped
  <2>4. linked' => asks' # <<>> /\ asks'[Len(asks')] = RootQuery(kind', asked')
    BY <1>0, <1>1
  <2>5. broken' = FALSE /\ FieldKept'
    BY <1>0, <1>3 DEF TreeInv, TreeTyped, FieldKept
  <2> QED BY <2>1, <2>2, <2>3, <2>4, <2>5, FreshTree
<1> QED BY <1>2, <1>3

LEMMA ClearStep ==
  ASSUME TreeInv, ClearSearch
  PROVE  TreeInv'
<1>0. /\ ~broken /\ typed' = "" /\ asked' = "" /\ edited' = FALSE /\ strayed' = FALSE
      /\ Ask(Browse(kind, <<>>))
      /\ UNCHANGED <<kind, link, items>> /\ UNCHANGED <<routed, linked>> /\ items \in SUBSET Item
  BY DEF ClearSearch, Acting, Happens, TreeInv, TreeTyped, link
<1>1. \/ tree' = ({<<>>} \ Below({<<>>}, <<>>)) \cup Under(<<>>, items)
      \/ tree' = {<<>>}
  <2>1. CASE kind = "Files"
    <3>1. Fill({<<>>}, <<>>, items, "")
      BY <2>1 DEF ClearSearch
    <3> QED BY <3>1, ItemFacts DEF Fill, Under
  <2>2. CASE kind # "Files"
    BY <2>2 DEF ClearSearch
  <2> QED BY <2>1, <2>2
<1>2. tree' \subseteq Nodes /\ <<>> \in tree' /\ \A m \in tree' \ {<<>>} : Children(tree', m) = {}
  BY <1>0, <1>1, RootAlone
<1>3. current' = <<>> /\ broken' = FALSE
  <2>1. CASE kind = "Files"
    <3>1. Fill({<<>>}, <<>>, items, "")
      BY <2>1 DEF ClearSearch
    <3>2. current' = Kept(<<>>, Below({<<>>}, <<>>)) /\ broken' = FALSE
      BY <3>1, ItemFacts DEF Fill
    <3>3. <<>> \notin Below({<<>>}, <<>>)
      BY DEF Below
    <3> QED BY <3>2, <3>3 DEF Kept
  <2>2. CASE kind # "Files"
    BY <1>0, <2>2 DEF ClearSearch, TreeInv, TreeTyped
  <2> QED BY <2>1, <2>2
<1>4. asks' \in Seq(Question) /\ (linked => asks' # <<>> /\ asks'[Len(asks')] = RootQuery(kind, ""))
  <2>1. asks \in Seq(Question) /\ RootQuery(kind, "") \in Question
    BY ItemFacts DEF TreeInv, TreeTyped, Terms
  <2>2. RootQuery(kind, "") = Browse(kind, <<>>)
    BY DEF RootQuery
  <2> QED BY <1>0, <2>1, <2>2, Questioned
<1>5. TreeTyped' /\ FieldKept'
  BY <1>0, <1>2, <1>3, <1>4, ItemFacts DEF TreeInv, TreeTyped, Terms, FieldKept
<1>6. linked' => asks' # <<>> /\ asks'[Len(asks')] = RootQuery(kind', asked')
  BY <1>0, <1>4
<1> QED BY <1>2, <1>3, <1>5, <1>6, FreshTree

LEMMA EnterStep ==
  ASSUME TreeInv, NEW k \in Kinds, NEW t \in Terms, Enter(k, t)
  PROVE  TreeInv'
<1>0. /\ kind' = k /\ typed' = t /\ asked' = t /\ routed' = t /\ edited' = FALSE /\ strayed' = FALSE
      /\ Ask(RootQuery(k, t))
      /\ UNCHANGED <<linked, items>> /\ items \in SUBSET Item /\ Fill({<<>>}, <<>>, items, t)
  BY DEF Enter, TreeInv, TreeTyped
<1>1. /\ tree' = ({<<>>} \ Below({<<>>}, <<>>)) \cup Under(<<>>, items)
      /\ current' = Kept(<<>>, Below({<<>>}, <<>>)) /\ broken' = FALSE
  BY <1>0, ItemFacts DEF Fill, Under
<1>2. tree' \subseteq Nodes /\ <<>> \in tree' /\ \A m \in tree' \ {<<>>} : Children(tree', m) = {}
  BY <1>0, <1>1, RootAlone
<1>3. current' = <<>>
  <2>1. <<>> \notin Below({<<>>}, <<>>)
    BY DEF Below
  <2> QED BY <1>1, <2>1 DEF Kept
<1>4. asks' \in Seq(Question) /\ (linked => asks' # <<>> /\ asks'[Len(asks')] = RootQuery(k, t))
  <2>1. asks \in Seq(Question) /\ RootQuery(k, t) \in Question
    BY ItemFacts DEF TreeInv, TreeTyped
  <2> QED BY <1>0, <2>1, Questioned
<1>5. TreeTyped' /\ FieldKept'
  BY <1>0, <1>1, <1>2, <1>3, <1>4, ItemFacts DEF TreeInv, TreeTyped, FieldKept
<1>6. linked' => asks' # <<>> /\ asks'[Len(asks')] = RootQuery(kind', asked')
  BY <1>0, <1>4
<1> QED BY <1>1, <1>2, <1>3, <1>5, <1>6, FreshTree

LEMMA AnswerStep ==
  ASSUME TreeInv, Answered
  PROVE  TreeInv'
<1> DEFINE q == Head(asks)
<1>0. /\ asks # <<>> /\ asks' = Tail(asks) /\ items' = Answer(q) /\ ~broken /\ linked
      /\ UNCHANGED <<kind, typed, asked, link, edited, strayed>> /\ UNCHANGED <<routed, linked>>
      /\ Fill(tree, current, items', typed)
      /\ kind \in Kinds /\ tree \in SUBSET Nodes /\ <<>> \in tree /\ current \in Nodes \cup {Gone}
  BY DEF Answered, Show, TreeInv, TreeTyped, link
<1>00. /\ asks' \in Seq(Question) /\ q \in Question /\ q = asks[1] /\ Len(asks) \in Nat \ {0}
       /\ Len(asks) = 1 => asks' = <<>>
       /\ Len(asks) > 1 => asks' # <<>> /\ asks'[Len(asks')] = asks[Len(asks)]
  <2>1. asks \in Seq(Question)
    BY DEF TreeInv, TreeTyped
  <2>2. /\ Tail(asks) \in Seq(Question) /\ Len(Tail(asks)) = Len(asks) - 1 /\ q = asks[1]
        /\ Len(asks) \in Nat \ {0} /\ asks[1] \in Question
        /\ \A i \in 1..Len(asks) - 1 : Tail(asks)[i] = asks[i + 1]
    BY <1>0, <2>1
  <2>3. Len(Tail(asks)) = 0 => Tail(asks) = <<>>
    BY <2>2
  <2>4. Len(asks) > 1 => Tail(asks)[Len(asks) - 1] = asks[Len(asks)] /\ Tail(asks) # <<>>
    BY <2>2
  <2> QED BY <1>0, <2>2, <2>3, <2>4
<1> HIDE DEF q
<1>1. items' \in SUBSET Item
  BY <1>0, <1>00, ItemFacts
<1>2. TreeTyped'
  <2>1. tree' \subseteq Nodes /\ <<>> \in tree' /\ current' \in Nodes \cup {Gone} /\ broken' \in BOOLEAN
    BY <1>0, <1>1, FillTyped
  <2> QED BY <1>0, <1>00, <1>1, <2>1 DEF TreeInv, TreeTyped
<1>3. FieldKept' /\ (IsTree' <=> IsTree)
  BY <1>0 DEF TreeInv, FieldKept, IsTree
<1>4. ASSUME IsTree PROVE ~broken' /\ Waits' /\ \A n \in tree' \ {<<>>} : RowShown(n)'
  <2>0. Waits /\ current \in Nodes /\ (kind' = "Files" => typed = "")
        /\ \A n \in tree \ {<<>>} : RowShown(n)
    BY <1>0, <1>4, ItemFacts DEF TreeInv, IsTree, FieldKept, Waits, WaitsForRoot, WaitsForRow
  <2>1. /\ tree' = (tree \ Below(tree, current)) \cup Under(current, items')
        /\ current' = Kept(current, Below(tree, current)) /\ broken' = FALSE
    BY <1>0, <2>0, ItemFacts DEF Fill, Under
  <2> DEFINE is == items'
  <2>2. /\ Children(tree', current) = Under(current, is)
        /\ \A m \in Nodes \ {current} : Within(current, m) => Children(tree', m) = {}
        /\ \A m \in Nodes : ~Within(current, m) => Children(tree', m) = Children(tree, m)
    <3>1. is \in SUBSET Item /\ tree' = (tree \ Below(tree, current)) \cup Under(current, is)
      BY <1>1, <2>1
    <3> HIDE DEF is
    <3>0. tree \in SUBSET Nodes /\ <<>> \in tree /\ current \in Nodes
      BY <1>0, <2>0
    <3>2. Children(tree', current) = Under(current, is)
      BY <3>0, <3>1, FilledTree
    <3>3. \A m \in Nodes \ {current} : Within(current, m) => Children(tree', m) = {}
      BY <3>0, <3>1, FilledTree
    <3>4. ASSUME NEW m \in Nodes, ~Within(current, m) PROVE Children(tree', m) = Children(tree, m)
      BY <3>0, <3>1, <3>4, FilledBeside
    <3> QED BY <3>2, <3>3, <3>4
  <2>3. /\ \A n : Asked(n)' = Asked(n)
        /\ RootQuery(kind, asked)' = RootQuery(kind, asked)
    BY <1>0 DEF Asked, RootQuery
  <2>4. CASE WaitsForRoot
    <3>1. current = <<>> /\ asks[Len(asks)] = RootQuery(kind, asked)
      BY <1>0, <2>4 DEF WaitsForRoot
    <3>2. current' = <<>>
      <4>1. <<>> \notin Below(tree, <<>>)
        BY DEF Below
      <4> QED BY <2>1, <3>1, <4>1 DEF Kept
    <3>3. ASSUME Len(asks) = 1 PROVE Waits'
      <4>1. Children(tree', <<>>) = Under(<<>>, is) /\ is = Answer(RootQuery(kind, asked))
        BY <1>0, <1>00, <2>2, <3>1, <3>3
      <4>2. \A i \in is : Append(<<>>, i) = <<i>>
        BY <1>1, ItemFacts
      <4> HIDE DEF is
      <4>3. Under(<<>>, is) = {<<i>> : i \in is}
        BY <4>2 DEF Under
      <4>4. RootShown' /\ asks' = <<>>
        BY <1>00, <2>3, <3>3, <4>1, <4>3 DEF RootShown
      <4> QED BY <4>4 DEF Waits, WaitsForRow
    <3>4. ASSUME Len(asks) # 1 PROVE Waits'
      <4>0. Len(asks) > 1
        <5> DEFINE n == Len(asks)
        <5>1. n \in Nat \ {0} /\ n # 1
          BY <1>00, <3>4
        <5> HIDE DEF n
        <5>2. n > 1
          BY <5>1
        <5> QED BY <5>2 DEF n
      <4>1. asks' # <<>> /\ asks'[Len(asks')] = RootQuery(kind', asked')
        BY <1>0, <1>00, <3>1, <4>0
      <4> QED BY <3>2, <4>1 DEF Waits, WaitsForRoot, RootQuery, Browse, Search
    <3>5. ASSUME NEW m \in tree' \ {<<>>} PROVE RowShown(m)'
      <4>1. m \in Nodes \ {current} /\ Within(current, m)
        BY <1>2, <3>1, <3>5 DEF TreeTyped, Within, Nodes
      <4>2. Children(tree', m) = {}
        BY <2>2, <4>1
      <4> QED BY <4>2 DEF RowShown
    <3>6. Waits'
      BY <3>3, <3>4
    <3> QED BY <2>1, <3>5, <3>6
  <2>5. CASE WaitsForRow
    <3>1. /\ RootShown /\ current # <<>> /\ asks' = <<>>
          /\ is = Answer(Browse(kind, Asked(current)))
      BY <1>0, <1>00, <2>5 DEF WaitsForRow
    <3>2. RootShown'
      <4>1. ~Within(current, <<>>)
        <5>1. \A c \in Nodes : c # <<>> => Len(c) # 0 /\ Len(c) \in Nat
          BY DEF Nodes
        <5>2. Len(current) # 0 /\ Len(current) \in Nat
          BY <2>0, <3>1, <5>1
        <5>3. Len(<<>>) = 0
          OBVIOUS
        <5> QED BY <5>2, <5>3 DEF Within
      <4>2. Children(tree', <<>>) = Children(tree, <<>>)
        BY <2>2, <4>1, ItemFacts
      <4> QED BY <2>3, <3>1, <4>2 DEF RootShown
    <3>3. ASSUME NEW m \in tree' \ {<<>>} PROVE RowShown(m)'
      <4>0. m \in Nodes /\ Answer(Browse(kind, Asked(m)))' = Answer(Browse(kind, Asked(m)))
        BY <1>0, <1>2, <2>3, <3>3 DEF TreeTyped
      <4>1. CASE m = current
        <5>1. Children(tree', m) = Under(m, is) /\ is = Answer(Browse(kind, Asked(m)))
          BY <2>2, <3>1, <4>1
        <5> QED BY <4>0, <5>1 DEF RowShown, Under
      <4>2. CASE m # current /\ Within(current, m)
        BY <2>2, <4>0, <4>2 DEF RowShown
      <4>3. CASE m # current /\ ~Within(current, m)
        <5>1. Children(tree', m) = Children(tree, m)
          BY <2>2, <4>0, <4>3
        <5>2. m \in tree
          <6>1. m \notin Under(current, is)
            <7>1. ASSUME NEW i \in is PROVE Within(current, Append(current, i))
              <8> DEFINE c == current
              <8>1. c \in Seq(Item) /\ i \in Item
                BY <1>1, <2>0 DEF Nodes
              <8> HIDE DEF c
              <8>2. Within(c, Append(c, i))
                BY <8>1 DEF Within
              <8> QED BY <8>2 DEF c
            <7> QED BY <4>3, <7>1 DEF Under
          <6> QED BY <2>1, <3>3, <6>1
        <5>3. RowShown(m)
          BY <2>0, <3>3, <5>2
        <5> QED BY <4>0, <5>1, <5>3 DEF RowShown
      <4> QED BY <4>1, <4>2, <4>3
    <3>4. Waits'
      BY <3>1, <3>2 DEF Waits, WaitsForRow
    <3> QED BY <2>1, <3>3, <3>4
  <2> QED BY <2>0, <2>4, <2>5 DEF Waits
<1> QED BY <1>2, <1>3, <1>4 DEF TreeInv

LEMMA OverheardStep ==
  ASSUME TreeInv, Overheard
  PROVE  TreeInv'
<1>1. PICK k \in Kinds :
        \E is \in {Hits[k]} \cup {Shelf[k][p] : p \in DOMAIN Shelf[k]} : Show(is)
  BY DEF Overheard
<1>2. PICK is \in {Hits[k]} \cup {Shelf[k][p] : p \in DOMAIN Shelf[k]} : Show(is)
  BY <1>1
<1>3. is \in SUBSET Item
  <2>1. Items(k) \subseteq Item
    BY DEF Item
  <2> QED BY <2>1 DEF Items
<1>4. /\ UNCHANGED <<kind, typed, asked, asks, edited, routed, linked>> /\ strayed' = TRUE
      /\ Fill(tree, current, is, typed) /\ items' = is
      /\ tree \in SUBSET Nodes /\ <<>> \in tree /\ current \in Nodes \cup {Gone}
  BY <1>2 DEF Overheard, Show, TreeInv, TreeTyped, link
<1>5. tree' \subseteq Nodes /\ <<>> \in tree' /\ current' \in Nodes \cup {Gone} /\ broken' \in BOOLEAN
  BY <1>3, <1>4, FillTyped
<1> QED BY <1>3, <1>4, <1>5 DEF TreeInv, TreeTyped, FieldKept, IsTree

LEMMA DisconnectedStep ==
  ASSUME TreeInv, Disconnected
  PROVE  TreeInv'
<1>0. /\ linked' = FALSE /\ linked
      /\ UNCHANGED <<kind, tree, current, typed, asked, routed, items, broken, edited, strayed>>
  BY DEF Disconnected
<1>1. PICK i \in 0..Len(asks) : \E j \in 0..Len(asks) : asks' = SubSeq(asks, i + 1, j)
  BY DEF Disconnected
<1>2. PICK j \in 0..Len(asks) : asks' = SubSeq(asks, i + 1, j)
  BY <1>1
<1>3. /\ asks' \in Seq(Question)
      /\ Len(asks) = 1 /\ asks' # <<>> => Len(asks') = 1 /\ asks'[1] = asks[1]
      /\ asks = <<>> => asks' = <<>>
  <2>1. asks \in Seq(Question) /\ Len(asks) \in Nat /\ i \in Nat /\ j \in Nat
    BY DEF TreeInv, TreeTyped
  <2> DEFINE r == SubSeq(asks, i + 1, j)
  <2>2. /\ r \in Seq(Question) /\ Len(r) = (IF i + 1 <= j THEN j - i ELSE 0)
        /\ \A n \in 1..Len(r) : r[n] = asks[i + n]
    BY <2>1
  <2>3. asks' = r
    BY <1>2
  <2> HIDE DEF r
  <2>4. r # <<>> => Len(r) > 0
    BY <2>2
  <2>5. asks = <<>> => Len(asks) = 0
    OBVIOUS
  <2>6. Len(asks) = 1 /\ Len(r) > 0 => i = 0 /\ j = 1
    BY <2>1, <2>2
  <2>7. Len(asks) = 0 => Len(r) = 0
    BY <2>1, <2>2
  <2>8. i = 0 /\ j = 1 => Len(r) = 1 /\ r[1] = asks[1]
    BY <2>2
  <2>9. Len(r) = 0 => r = <<>>
    BY <2>2
  <2> QED BY <2>2, <2>3, <2>4, <2>5, <2>6, <2>7, <2>8, <2>9
<1>4. TreeTyped' /\ FieldKept' /\ (IsTree' <=> IsTree)
  BY <1>0, <1>3 DEF TreeInv, TreeTyped, FieldKept, IsTree
<1>5. \A n \in tree : RowShown(n) => RowShown(n)'
  BY <1>0 DEF RowShown, Children, Asked
<1>6. Waits => Waits'
  <2>1. CASE WaitsForRoot
    BY <1>0, <2>1 DEF WaitsForRoot, Waits
  <2>2. CASE WaitsForRow
    <3>1. asks # <<>> => current \in Nodes \ {<<>>} /\ Len(asks) = 1 /\ asks[1] = Browse(kind, Asked(current))
      BY <2>2 DEF WaitsForRow
    <3>2. asks' # <<>> => asks # <<>> /\ Len(asks') = 1 /\ asks'[1] = asks[1]
      BY <1>3, <3>1
    <3>3. Browse(kind, Asked(current))' = Browse(kind, Asked(current))
      BY <1>0 DEF Browse, Asked
    <3>4. ~linked' /\ current' = current
      BY <1>0
    <3> QED BY <3>1, <3>2, <3>3, <3>4 DEF WaitsForRow, Waits
  <2> QED BY <2>1, <2>2 DEF Waits
<1> QED BY <1>0, <1>4, <1>5, <1>6 DEF TreeInv

LEMMA ReconnectedStep ==
  ASSUME TreeInv, Reconnected
  PROVE  TreeInv'
<1> DEFINE q == RootQuery(kind, routed)  a == Append(asks, q)
<1>0. /\ ~broken /\ linked' = TRUE /\ UNCHANGED <<kind, routed, items, edited>>
      /\ asks' = a /\ asked' = routed
      /\ typed' = (IF routed = "" THEN typed ELSE routed)
      /\ IF kind = "Files" /\ routed # "" THEN Fill(tree, current, items, routed)
         ELSE UNCHANGED <<tree, current, broken>>
      /\ strayed' = (strayed \/ current # <<>>)
  BY DEF Reconnected
<1>1. /\ kind \in Kinds /\ tree \in SUBSET Nodes /\ <<>> \in tree /\ items \in SUBSET Item
      /\ current \in Nodes \cup {Gone} /\ routed \in Terms /\ typed \in Terms /\ asks \in Seq(Question)
      /\ strayed \in BOOLEAN /\ broken \in BOOLEAN /\ edited \in BOOLEAN
  BY DEF TreeInv, TreeTyped
<1>2. a \in Seq(Question) /\ a # <<>> /\ a[Len(a)] = q
  <2>1. q \in Question
    BY <1>1, ItemFacts
  <2> HIDE DEF q
  <2>2. a \in Seq(Question) /\ Len(a) = Len(asks) + 1 /\ Len(asks) \in Nat /\ a[Len(a)] = q
    BY <1>1, <2>1
  <2>3. a # <<>>
    BY <2>2
  <2> QED BY <2>2, <2>3
<1> HIDE DEF a, q
<1>3. tree' \subseteq Nodes /\ <<>> \in tree' /\ current' \in Nodes \cup {Gone} /\ broken' \in BOOLEAN
  BY <1>0, <1>1, FillTyped
<1>4. TreeTyped'
  BY <1>0, <1>1, <1>2, <1>3 DEF TreeTyped
<1>5. FieldKept'
  <2>1. kind = "Files" /\ ~edited => typed = asked /\ typed \in {"", routed}
    BY DEF TreeInv, FieldKept
  <2> QED BY <1>0, <2>1 DEF FieldKept
<1>6. ASSUME IsTree' PROVE ~broken' /\ Waits' /\ \A n \in tree' \ {<<>>} : RowShown(n)'
  <2>1. ~strayed /\ current = <<>> /\ (kind = "Files" => ~edited /\ routed = "")
    BY <1>0, <1>6 DEF IsTree
  <2>2. UNCHANGED <<tree, current, broken>>
    BY <1>0, <2>1
  <2>3. q = RootQuery(kind', asked')
    BY <1>0 DEF q
  <2>4. Waits'
    BY <1>0, <1>2, <2>1, <2>2, <2>3 DEF Waits, WaitsForRoot, RootQuery, Browse, Search
  <2>5. IsTree
    BY <1>0, <2>1 DEF IsTree, TreeInv, FieldKept
  <2>6. \A n \in tree \ {<<>>} : RowShown(n)
    BY <2>5 DEF TreeInv
  <2>7. \A n \in tree : RowShown(n) => RowShown(n)'
    BY <1>0, <2>2 DEF RowShown, Children, Asked
  <2> QED BY <1>0, <2>2, <2>4, <2>6, <2>7
<1> QED BY <1>4, <1>5, <1>6 DEF TreeInv

LEMMA TreeStart == PageInit => TreeInv
<1> SUFFICES ASSUME PageInit PROVE TreeInv
  OBVIOUS
<1>1. /\ kind \in Kinds /\ items = Shelf[kind][<<>>] /\ current = <<>>
      /\ tree = {<<>>} \cup {<<i>> : i \in items}
      /\ typed = "" /\ asked = "" /\ routed = "" /\ asks = <<>> /\ linked = TRUE
      /\ broken = FALSE /\ edited = FALSE /\ strayed = FALSE
  BY DEF PageInit
<1>2. items = Answer(Browse(kind, <<>>)) /\ RootQuery(kind, asked) = Browse(kind, <<>>)
  BY <1>1, ShelfAssumption DEF Answer, Browse, RootQuery
<1>3. items \in SUBSET Item
  <2>1. RootQuery(kind, asked) \in Question
    BY <1>1, ItemFacts DEF Terms
  <2> QED BY <1>2, <2>1, ItemFacts
<1>4. Under(<<>>, items) = {<<i>> : i \in items}
  BY <1>3, ItemFacts DEF Under
<1>5. tree = ({<<>>} \ Below({<<>>}, <<>>)) \cup Under(<<>>, items)
  <2>1. <<>> \notin Below({<<>>}, <<>>)
    BY DEF Below
  <2> QED BY <1>1, <1>4, <2>1 DEF Below
<1>6. tree \subseteq Nodes /\ <<>> \in tree /\ Children(tree, <<>>) = Under(<<>>, items)
  <2>1. {<<>>} \in SUBSET Nodes /\ <<>> \in {<<>>} /\ <<>> \in Nodes
    BY ItemFacts
  <2> QED BY <1>3, <1>5, <2>1, FilledTree
<1>7. \A m \in tree \ {<<>>} : Children(tree, m) = {}
  BY <1>3, <1>5, RootAlone
<1>8. RootShown
  BY <1>2, <1>4, <1>6, ItemFacts DEF RootShown
<1>9. TreeTyped /\ FieldKept
  <2>0. <<>> \in Seq(Question)
    OBVIOUS
  <2>1. asks \in Seq(Question)
    BY <1>1, <2>0
  <2>2. TreeTyped
    BY <1>1, <1>3, <1>6, <2>1, ItemFacts DEF TreeTyped, Terms
  <2> QED BY <1>1, <2>2 DEF FieldKept
<1> QED BY <1>1, <1>7, <1>8, <1>9 DEF TreeInv, Waits, WaitsForRow, RowShown

LEMMA TreeInvariant == PageSpec => []TreeInv
<1>1. ASSUME TreeInv, [PageNext]_pageVars PROVE TreeInv'
  <2>1. CASE UNCHANGED pageVars
    <3>1. /\ UNCHANGED <<kind, tree, current, typed, asked, asks, items, broken, edited, strayed>>
          /\ UNCHANGED <<routed, linked>>
      BY <2>1 DEF pageVars, link
    <3>2. TreeTyped' /\ FieldKept' /\ (IsTree' <=> IsTree)
      BY <1>1, <3>1 DEF TreeInv, TreeTyped, FieldKept, IsTree
    <3>3. \A n : RowShown(n) => RowShown(n)'
      BY <3>1 DEF RowShown, Children, Asked
    <3>4. Waits => Waits'
      BY <3>1 DEF Waits, WaitsForRoot, WaitsForRow, RootShown, Children, Asked
    <3> QED BY <1>1, <3>1, <3>2, <3>3, <3>4 DEF TreeInv
  <2> QED BY <1>1, <2>1, ToggleStep, TypeStep, SearchStep, ClearStep, EnterStep, AnswerStep,
             OverheardStep, DisconnectedStep, ReconnectedStep DEF PageNext
<1> QED BY <1>1, TreeStart, PTL DEF PageSpec

\* No page aborts, and under every open row the tree shows what that directory,
\* artist or album holds, until a row is opened or closed while an answer is
\* awaited, another browser's answer comes, or the socket is opened again after a
\* row was expanded; whatever the library holds and however long the user goes on.
THEOREM PagesBrowse == PageSpec => []Browsable
<1>1. ASSUME TreeInv PROVE Browsable
  <2>1. IsTree => ~broken /\ Waits /\ \A n \in tree \ {<<>>} : RowShown(n)
    BY <1>1 DEF TreeInv
  <2>2. asks = <<>> /\ linked /\ Waits => RootShown
    BY DEF Waits, WaitsForRoot, WaitsForRow
  <2> QED BY <2>1, <2>2 DEF IsTree, RootShown, RowShown, Browsable
<1> QED BY <1>1, TreeInvariant, PTL

=============================================================================
