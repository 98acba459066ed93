------------------------------- MODULE WebLink -------------------------------
(***************************************************************************)
(* The pages that browsers show of the server: the WebSocket and its       *)
(* reconnection (src/web-ui/src/hooks/use_websocket.rs), the copy of the   *)
(* server's state (state.rs), the buttons of the player and of the queue   *)
(* page, and on the server the task of a connection                        *)
(* (src/crates/server/src/server.rs), the two command loops                *)
(* (command_handler.rs) and the fan-out of the events.                     *)
(*                                                                         *)
(* The queue is the number of entries each song has in it; their order and *)
(* the current song are left out. It fits a page and is not searched. The  *)
(* volume is that of a mixer or of the software; the firmware's, which is  *)
(* told by reports of its own, is in module Settings.                      *)
(***************************************************************************)
EXTENDS Integers, Sequences, FiniteSets, SequencesExt, Functions

CONSTANTS
  Client,     \* browsers
  Editor,     \* the one that looks at the queue and changes it
  Wireless,   \* those whose connection may be lost
  Song,
  MaxVolume,  \* volumes above 0
  Alsa,       \* whether the volume is an ALSA mixer's
  Room,       \* commands the command loop's channel holds; 5 in the code
  Slots,      \* events a connection may lag behind; 32 in the code
  MaxActs,    \* bound: things done by the users
  MaxFaults   \* bound: connections lost

ASSUME WebAssumption ==
  /\ Editor \in Client /\ Wireless \subseteq Client /\ {MaxVolume, Room, Slots} \subseteq Nat \ {0}
  /\ Alsa \in BOOLEAN

VARIABLES
  volume, mode, playing, queue,  \* the server's state
  lastTold, silent,              \* history: the volume announced last; the last step was
                                 \* not announced, or not with the level it ended at
  inbox, system,                 \* commands for the command loop and the system loop
  held,                          \* command a connection's task waits to hand in
  ring,                          \* events the task of a connection has not forwarded
  lagged,                        \* it has skipped some since the connection opened
  sock, up,                      \* the browser's socket, commands on their way
  page, view,                    \* the page shown and the browser's copy of the state
  taken,                         \* history: songs the user has removed on the page
  acts, faults

level  == <<volume, lastTold, silent>>
server == <<level, mode, playing, queue>>
loops  == <<inbox, system>>
wire   == <<held, ring, lagged>>
browser == <<sock, up, page, view, taken>>
vars   == <<server, loops, wire, browser, acts, faults>>

Modes == <<"Sequential", "Random", "LoopSingle", "LoopQueue">>
Volumes == 0..MaxVolume
None  == [cmd |-> "None"]
Empty == [s \in Song |-> 0]
Plain(c)     == [cmd |-> c]
With(c, s)   == [cmd |-> c, song |-> s]
Event(e, x)  == [event |-> e, value |-> x]

\* Nothing plays, and the browsers hold what the server has told them.
Init ==
  /\ volume = MaxVolume /\ lastTold = volume /\ silent = FALSE
  /\ mode = "LoopQueue" /\ playing = FALSE
  /\ queue = [s \in Song |-> 1]
  /\ inbox = <<>> /\ system = <<>>
  /\ held = [c \in Client |-> None]
  /\ ring = [c \in Client |-> <<>>] /\ lagged = [c \in Client |-> FALSE]
  /\ sock = [c \in Client |-> "Open"] /\ up = [c \in Client |-> <<>>]
  /\ page = [c \in Client |-> IF c = Editor THEN "Queue" ELSE "Player"]
  /\ view = [c \in Client |-> [volume |-> volume, mode |-> mode, playing |-> playing,
                               queue |-> IF c = Editor THEN queue ELSE Empty]]
  /\ taken = {} /\ acts = 0 /\ faults = 0

-----------------------------------------------------------------------------
(* The fan-out: every event goes to every connection, which skips the      *)
(* oldest it has not forwarded when it lags.                               *)

Tell(es) ==
  LET All(c) == ring[c] \o es
  IN /\ ring' = [c \in Client |->
                   IF sock[c] # "Open" THEN <<>>
                   ELSE IF Len(All(c)) <= Slots THEN All(c)
                   ELSE SubSeq(All(c), Len(All(c)) - Slots + 1, Len(All(c)))]
     /\ lagged' = [c \in Client |-> lagged[c] \/ (sock[c] = "Open" /\ Len(All(c)) > Slots)]

TellNobody == UNCHANGED <<ring, lagged>>

\* The playback thread reports the time of the song it plays.
Progress ==
  /\ playing
  /\ \A c \in Client : ring[c] = <<>>
  /\ Tell(<<Event("Time", 0)>>)
  /\ UNCHANGED <<server, loops, held, browser, acts, faults>>

\* The last song is over: the thread ends and tells nobody.
QueueEnds ==
  /\ playing /\ (mode = "Sequential" \/ queue = Empty)
  /\ playing' = FALSE
  /\ UNCHANGED <<level, mode, queue, loops, wire, browser, acts, faults>>

-----------------------------------------------------------------------------
(* The command loop, and the system loop it forwards to.                   *)

NextMode(m) == LET i == CHOOSE k \in DOMAIN Modes : Modes[k] = m
               IN Modes[IF i = Len(Modes) THEN 1 ELSE i + 1]

\* What a stop tells, and what a start tells: with nothing to play, a stop.
Stopping == IF playing THEN <<Event("State", FALSE)>> ELSE <<>>
StartWith(q) == playing' = (q # Empty) /\ Tell(Stopping \o <<Event("State", playing')>>)
Stop == playing' = FALSE /\ Tell(Stopping)

PlayerCommand(k) ==
  /\ UNCHANGED queue
  /\ \/ k.cmd = "Play" /\ StartWith(queue) /\ UNCHANGED mode
     \/ k.cmd = "Pause" /\ Stop /\ UNCHANGED mode
     \/ k.cmd = "Toggle" /\ (IF playing THEN Stop ELSE StartWith(queue)) /\ UNCHANGED mode
     \/ k.cmd = "Cycle" /\ mode' = NextMode(mode) /\ UNCHANGED playing
        /\ Tell(<<Event("Mode", mode')>>)
     \/ k.cmd = "QueryInfo" /\ UNCHANGED <<mode, playing>> /\ Tell(<<Event("Mode", mode)>>)

\* Changes are not announced: a page that wants to see them asks. A song is added
\* once more however often it is queued, and taken out once.
Added(s)   == [queue EXCEPT ![s] = @ + 1]
Removed(s) == [queue EXCEPT ![s] = IF @ > 0 THEN @ - 1 ELSE 0]

QueueCommand(k) ==
  /\ UNCHANGED mode
  /\ \/ k.cmd = "Add" /\ queue' = Added(k.song) /\ UNCHANGED playing /\ TellNobody
     \/ k.cmd = "AddPlay" /\ queue' = Added(k.song) /\ StartWith(queue')
     \/ k.cmd = "AddAll" /\ queue' = [s \in Song |-> queue[s] + 1] /\ UNCHANGED playing /\ TellNobody
     \/ k.cmd = "Load" /\ queue' = [s \in Song |-> 1] /\ StartWith(queue')
     \/ k.cmd = "Remove" /\ queue' = Removed(k.song) /\ UNCHANGED playing /\ TellNobody
     \/ k.cmd = "Move" /\ UNCHANGED <<queue, playing>> /\ TellNobody
     \/ k.cmd = "Clear" /\ queue' = Empty /\ Stop
     \/ k.cmd = "QueryQueue" /\ UNCHANGED <<queue, playing>> /\ Tell(<<Event("Queue", queue)>>)

Steps == {"VolUp", "VolDown"}
IsSystem(k) == k.cmd \in {"SetVol", "ToggleMute", "QueryVolume"} \cup Steps

HandleUser ==
  /\ inbox # <<>>
  /\ LET k == Head(inbox)
     IN IF IsSystem(k)
        THEN /\ Len(system) < Room /\ system' = Append(system, k)
             /\ TellNobody /\ UNCHANGED <<mode, playing, queue>>
        ELSE (PlayerCommand(k) \/ QueueCommand(k)) /\ UNCHANGED system
  /\ inbox' = Tail(inbox)
  /\ UNCHANGED <<level, held, browser, acts, faults>>

TellVolume(v) == Tell(<<Event("Volume", v)>>) /\ lastTold' = v

\* These announce the level they set; what is restored after a mute is in module Settings.
SetLevel(k) ==
  /\ \/ k.cmd = "SetVol" /\ volume' = k.volume
     \/ k.cmd = "ToggleMute" /\ volume > 0 /\ volume' = 0
     \/ k.cmd = "ToggleMute" /\ volume = 0 /\ volume' \in Volumes
     \/ k.cmd = "QueryVolume" /\ volume' = volume
  /\ TellVolume(volume') /\ silent' = FALSE

\* A step announces what the device answers unless that is 0; a mixer answers
\* with the level before the step.
StepLevel(k) ==
  /\ \/ k.cmd = "VolUp" /\ volume' = IF volume < MaxVolume THEN volume + 1 ELSE volume
     \/ k.cmd = "VolDown" /\ volume' = IF volume > 0 THEN volume - 1 ELSE volume
  /\ LET answer == IF Alsa THEN volume ELSE volume'
     IN /\ IF answer > 0 THEN TellVolume(answer) ELSE TellNobody /\ UNCHANGED lastTold
        /\ silent' = (answer = 0 \/ (Alsa /\ volume' # volume))

HandleSystem ==
  /\ system # <<>> /\ system' = Tail(system)
  /\ SetLevel(Head(system)) \/ StepLevel(Head(system))
  /\ UNCHANGED <<mode, playing, queue, inbox, held, browser, acts, faults>>

-----------------------------------------------------------------------------
(* The task of a connection (user_connected): either takes a command, and  *)
(* then waits until the loop has room for it, or forwards an event.        *)

TakeCommand(c) ==
  /\ held[c] = None /\ up[c] # <<>>
  /\ \/ Len(inbox) < Room /\ inbox' = Append(inbox, Head(up[c])) /\ UNCHANGED held
     \/ Len(inbox) = Room /\ held' = [held EXCEPT ![c] = Head(up[c])] /\ UNCHANGED inbox
  /\ up' = [up EXCEPT ![c] = Tail(@)]
  /\ UNCHANGED <<server, system, ring, lagged, sock, page, view, taken, acts, faults>>

HandIn(c) ==
  /\ held[c] # None /\ Len(inbox) < Room
  /\ inbox' = Append(inbox, held[c])
  /\ held' = [held EXCEPT ![c] = None]
  /\ UNCHANGED <<server, system, ring, lagged, browser, acts, faults>>

\* AppState::dispatch. A report of the time shows that the song plays.
Dispatched(v, e) ==
  CASE e.event = "Volume" -> [v EXCEPT !.volume = e.value]
    [] e.event = "Mode"   -> [v EXCEPT !.mode = e.value]
    [] e.event = "State"  -> [v EXCEPT !.playing = e.value]
    [] e.event = "Time"   -> [v EXCEPT !.playing = TRUE]
    [] e.event = "Queue"  -> [v EXCEPT !.queue = e.value]

Forward(c) ==
  /\ sock[c] = "Open" /\ held[c] = None /\ ring[c] # <<>>
  /\ view' = [view EXCEPT ![c] = Dispatched(@, Head(ring[c]))]
  /\ ring' = [ring EXCEPT ![c] = Tail(@)]
  /\ UNCHANGED <<server, loops, held, lagged, sock, up, page, taken, acts, faults>>

-----------------------------------------------------------------------------
(* The socket.                                                             *)

\* Mutant: the volume is not asked for.
AskLess == <<Plain("QueryInfo")>>

\* onopen asks for the state; the page's own query depends on the socket's
\* signal and is sent again.
OpeningQueries == <<Plain("QueryInfo"), Plain("QueryVolume")>>

\* Mutant: the page asks only when it is entered.
NeverAgain(c) == <<>>

PageQuery(c) == IF page[c] = "Queue" THEN <<Plain("QueryQueue")>> ELSE <<>>

\* The timer of three seconds is over and the server answers. It subscribes the
\* connection to the events before it reads; the task of the connection before
\* has long handed in what it had read.
Open(c) ==
  /\ sock[c] = "Down" /\ held[c] = None /\ up[c] = <<>>
  /\ sock' = [sock EXCEPT ![c] = "Open"]
  /\ up'   = [up EXCEPT ![c] = OpeningQueries \o PageQuery(c)]
  /\ ring' = [ring EXCEPT ![c] = <<>>]
  /\ lagged' = [lagged EXCEPT ![c] = FALSE]
  /\ UNCHANGED <<server, loops, held, page, view, taken, acts, faults>>

\* Mutant: a socket that cannot be created is not tried again.
GivesUpDialing(c) ==
  /\ sock[c] = "Down"
  /\ sock' = [sock EXCEPT ![c] = "Dead"]
  /\ UNCHANGED <<server, loops, wire, up, page, view, taken, acts, faults>>

\* The socket cannot be created, or closes before it opens: the timer starts again.
DialFails(c) == sock[c] = "Down" /\ UNCHANGED vars

\* Of the commands on their way the first few still arrive.
Close(c) ==
  /\ sock[c] = "Open" /\ faults < MaxFaults /\ faults' = faults + 1
  /\ sock' = [sock EXCEPT ![c] = "Down"]
  /\ \E k \in 0..Len(up[c]) : up' = [up EXCEPT ![c] = SubSeq(@, 1, k)]
  /\ ring' = [ring EXCEPT ![c] = <<>>]
  /\ UNCHANGED <<server, loops, held, lagged, page, view, taken, acts>>

-----------------------------------------------------------------------------
(* The user. What is sent while the socket is closed is lost.              *)

Send(c, ks) == up' = IF sock[c] = "Open" THEN [up EXCEPT ![c] = @ \o ks] ELSE up

Acts(c) ==
  /\ acts < MaxActs /\ acts' = acts + 1
  /\ UNCHANGED <<server, loops, wire, sock, faults>>

PressPlay(c) ==
  /\ Acts(c) /\ Send(c, <<Plain(IF view[c].playing THEN "Pause" ELSE "Play")>>)
  /\ UNCHANGED <<page, view, taken>>
\* Previous and next stop and start again, as Play does, with another song.
PressSkip(c) == Acts(c) /\ Send(c, <<Plain("Play")>>) /\ UNCHANGED <<page, view, taken>>
PressToggle(c) == Acts(c) /\ Send(c, <<Plain("Toggle")>>) /\ UNCHANGED <<page, view, taken>>
PressMode(c) == Acts(c) /\ Send(c, <<Plain("Cycle")>>) /\ UNCHANGED <<page, view, taken>>
PressMute(c) == Acts(c) /\ Send(c, <<Plain("ToggleMute")>>) /\ UNCHANGED <<page, view, taken>>
PressVolume(c) ==
  /\ Acts(c) /\ \E step \in Steps : Send(c, <<Plain(step)>>)
  /\ UNCHANGED <<page, view, taken>>
Slide(c) ==
  /\ Acts(c) /\ \E v \in Volumes \ {view[c].volume} : Send(c, <<[cmd |-> "SetVol", volume |-> v]>>)
  /\ UNCHANGED <<page, view, taken>>
VolumeControl(c) == PressVolume(c) \/ Slide(c)

\* A page that is entered asks for what it shows; the old content stays until
\* the answer.
Navigate(c) ==
  /\ Acts(c)
  /\ \/ page[c] # "Queue" /\ page' = [page EXCEPT ![c] = "Queue"] /\ Send(c, <<Plain("QueryQueue")>>)
     \/ \E p \in {"Library", "Player"} \ {page[c]} : page' = [page EXCEPT ![c] = p] /\ UNCHANGED up
  /\ UNCHANGED <<view, taken>>

OnQueue(c) == page[c] = "Queue"

Shown(c) == {s \in Song : view[c].queue[s] > 0}

\* Every row of a song is taken off the page at once, and the server is told.
RemoveItem(c) ==
  /\ OnQueue(c) /\ Acts(c)
  /\ \E s \in Shown(c) : /\ Send(c, <<With("Remove", s)>>)
                        /\ view' = [view EXCEPT ![c].queue[s] = 0]
                        /\ taken' = taken \cup {s}
  /\ UNCHANGED page

\* Play next, or a row dragged to another place.
MoveItem(c) ==
  /\ OnQueue(c) /\ Shown(c) # {} /\ Acts(c) /\ Send(c, <<Plain("Move"), Plain("QueryQueue")>>)
  /\ UNCHANGED <<page, view, taken>>

PlayItem(c) ==
  /\ OnQueue(c) /\ Shown(c) # {} /\ Acts(c) /\ Send(c, <<Plain("Play")>>)
  /\ UNCHANGED <<page, view, taken>>

ConfirmClear(c) ==
  /\ OnQueue(c) /\ Acts(c) /\ Send(c, <<Plain("Clear"), Plain("QueryQueue")>>)
  /\ UNCHANGED <<page, view, taken>>

AddUrl(c) ==
  /\ OnQueue(c) /\ Acts(c)
  /\ \E s \in Song : Send(c, <<With("Add", s), Plain("QueryQueue")>>)
  /\ UNCHANGED <<page, view, taken>>

\* The search button, with nothing to search for, and the one that clears the
\* search. (Focus, which asks for the part from the current song on, is left out.)
SearchQueue(c) ==
  /\ OnQueue(c) /\ Acts(c) /\ Send(c, <<Plain("QueryQueue")>>) /\ UNCHANGED <<page, view, taken>>

Enqueue(c, ks) ==
  /\ page[c] = "Library" /\ Acts(c) /\ \E k \in ks : Send(c, <<k>>)
  /\ UNCHANGED <<page, view, taken>>

\* A row of a library page: a song, or all of an artist, an album or a directory.
All == {Plain("Load"), Plain("AddAll")}
QueueActions == {With(k, s) : k \in {"Add", "AddPlay"}, s \in Song} \cup All
LibraryRow(c) == Enqueue(c, QueueActions)

\* The window with the songs of an album or a playlist: their rows are those of a
\* library page, and two buttons are for all of them.
PlaylistModal(c) == Enqueue(c, All)

\* The buttons and the keys, component by component.
OnPlayer(c) == page[c] = "Player"
Controls(c) ==
  OnPlayer(c) /\ (PressPlay(c) \/ PressSkip(c) \/ PressMode(c) \/ PressMute(c) \/ VolumeControl(c))
FooterPlayer(c) == ~OnPlayer(c) /\ (PressToggle(c) \/ PressSkip(c) \/ Slide(c))
Keys(c) ==
  OnPlayer(c) /\ (PressToggle(c) \/ PressSkip(c) \/ PressMode(c) \/ PressVolume(c) \/ PressMute(c))
QueuePage(c) ==
  RemoveItem(c) \/ MoveItem(c) \/ PlayItem(c) \/ ConfirmClear(c) \/ AddUrl(c) \/ SearchQueue(c)

-----------------------------------------------------------------------------
Next ==
  \/ Progress \/ QueueEnds \/ HandleUser \/ HandleSystem
  \/ \E c \in Client : TakeCommand(c) \/ HandIn(c) \/ Forward(c)
  \/ \E c \in Client : Open(c) \/ DialFails(c)
  \/ \E c \in Wireless : Close(c)
  \/ \E c \in Client : Controls(c) \/ FooterPlayer(c) \/ Keys(c)
  \/ Navigate(Editor) \/ QueuePage(Editor) \/ LibraryRow(Editor) \/ PlaylistModal(Editor)

Serve(c) == TakeCommand(c) \/ HandIn(c) \/ Forward(c)

\* The tasks and the browsers' timers run, and a server that is dialled often
\* enough answers.
Fairness ==
  /\ WF_vars(Progress) /\ WF_vars(HandleUser) /\ WF_vars(HandleSystem)
  /\ \A c \in Client : WF_vars(Serve(c))
  /\ \A c \in Wireless : WF_vars(Open(c))

Spec == Init /\ [][Next]_vars /\ Fairness

-----------------------------------------------------------------------------
(* Properties.                                                             *)

TypeOK ==
  /\ {volume, lastTold} \subseteq Volumes /\ {silent, playing} \subseteq BOOLEAN
  /\ mode \in Range(Modes)
  /\ queue \in [Song -> Nat] /\ Len(inbox) <= Room /\ Len(system) <= Room
  /\ \A c \in Client :
       /\ sock[c] \in {"Down", "Open"} /\ Len(ring[c]) <= Slots
       /\ page[c] \in {"Player", "Queue", "Library"} /\ view[c].queue \in [Song -> Nat]

Quiet(c) ==
  /\ sock[c] = "Open" /\ ~lagged[c]
  /\ up[c] = <<>> /\ held[c] = None /\ inbox = <<>> /\ system = <<>> /\ ring[c] = <<>>

\* However often a browser has reconnected and whatever the others did, once
\* nothing is under way it shows the server's mode and the volume that was
\* announced last.  That is the volume there is, unless the last change was a step:
\* one that is answered with 0 is not announced, and a mixer's answer is the level
\* before the step.
InStep ==
  \A c \in Client : Quiet(c) =>
    view[c].mode = mode /\ view[c].volume = lastTold /\ (lastTold = volume \/ silent)

\* Once nothing is under way, the queue page of the one who edits shows every song
\* as often as it is queued, also after commands and answers were lost with the
\* connection. Only for a song removed on the page this may fail: an older answer
\* brings it back, and of one that is queued twice an entry is left.
PageFaithful ==
  Quiet(Editor) /\ OnQueue(Editor) =>
    \A s \in Song \ taken : view[Editor].queue[s] = queue[s]

\* A browser that has lost the server connects again, and comes to show that a
\* song plays while one does.
Recovers ==
  \A c \in Wireless : []<>(sock[c] = "Open" /\ (playing => view[c].playing))
=============================================================================
