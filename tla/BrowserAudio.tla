---------------------------- MODULE BrowserAudio ----------------------------
(***************************************************************************)
(* Playback in the browser (src/web-ui/src/page/player.rs,                 *)
(* BrowserAudioPlayback): the server keeps the queue and the player's      *)
(* state, its playback thread only waits to be stopped                     *)
(* (src/crates/playback/src/rsp/player_service.rs:424), and an audio       *)
(* element of each open page plays the file.                               *)
(*                                                                         *)
(* A page holds the song and the state the events brought; two effects run *)
(* after they were written and work on the element; the element's own      *)
(* events write the state again, and send Next at the end of a song.       *)
(* Setting a source drops the events the element has pending, and may      *)
(* bring one that it paused. Left out: errors, the first run of the song's *)
(* effect, which comes twice, positions and volume.                        *)
(***************************************************************************)
EXTENDS Integers, Sequences

CONSTANTS
  Tab,         \* open pages
  LastSong,    \* songs of the queue, by number
  MaxHappenings   \* bound: commands of users, pages that ask for the song, ends of songs

ASSUME BrowserAssumption == LastSong \in Nat \ {0} /\ MaxHappenings \in Nat

VARIABLES
  thread,      \* the server: the song, and whether a playback thread is alive
  orders,      \* commands on their way
  coming,      \* events on their way to each page
  shows,       \* the signals of each page
  element,     \* the audio element of each page
  timers,      \* timers of each page that run, and how the last source fared (below)
  happened     \* commands and ends so far

audioVars == <<thread, orders, coming, shows, element, timers, happened>>
ServerVars == <<thread, orders, coming>>

\* Pages just opened at a server at rest, or pages that play the first song.
AudioInit ==
  \E playing \in BOOLEAN :
    /\ thread = [song |-> 1, alive |-> playing]
    /\ orders = <<>> /\ coming = [b \in Tab |-> <<>>]
    /\ shows = [b \in Tab |->
                  [song |-> IF playing THEN 1 ELSE 0, changing |-> FALSE, due |-> {},
                   state |-> IF playing THEN "PLAYING" ELSE "STOPPED"]]
    /\ element = [b \in Tab |->
                    [src |-> IF playing THEN 1 ELSE 0, paused |-> ~playing, events |-> <<>>]]
    /\ timers = [b \in Tab |-> [running |-> 0, settled |-> TRUE, early |-> FALSE]]
    /\ happened = 0

-----------------------------------------------------------------------------
(* The server.                                                             *)

SongNews(song)   == [type |-> "CurrentSong", song |-> song]
StateNews(state) == [type |-> "PlaybackState", state |-> state]

Announcing(news) == coming' = [b \in Tab |-> coming[b] \o news]

\* stop_current_song waits for the thread, which reports the stop.
StopNews         == IF thread.alive THEN <<StateNews("STOPPED")>> ELSE <<>>
StartNews(song)  == <<SongNews(song), StateNews("PLAYING")>>

\* play_next_song in sequential mode: on the last song the queue does not move, and
\* it starts again.
Following == IF thread.song < LastSong THEN thread.song + 1 ELSE thread.song

HandleOrder ==
  /\ orders # <<>> /\ orders' = Tail(orders)
  /\ \/ /\ Head(orders) = "Play"
        /\ thread' = [thread EXCEPT !.alive = TRUE]
        /\ Announcing(StopNews \o StartNews(thread.song))
     \/ /\ Head(orders) = "Next"
        /\ thread' = [song |-> Following, alive |-> TRUE]
        /\ Announcing(StopNews \o StartNews(Following))
     \/ /\ Head(orders) = "Pause"
        /\ thread' = [thread EXCEPT !.alive = FALSE]
        /\ Announcing(StopNews)
     \/ /\ Head(orders) = "QueryCurrentSong"
        /\ UNCHANGED thread
        /\ Announcing(<<SongNews(thread.song)>>)
  /\ UNCHANGED <<shows, element, timers, happened>>

\* A user presses a button somewhere, or a page is opened and asks for the song.
Press(order) ==
  /\ happened < MaxHappenings /\ happened' = happened + 1
  /\ orders' = Append(orders, order)
  /\ UNCHANGED <<thread, coming, shows, element, timers>>

-----------------------------------------------------------------------------
(* A page.                                                                 *)

\* Every write of a signal makes the effects run that read it.
Written(b, field, value, effect) ==
  shows' = [shows EXCEPT ![b][field] = value, ![b].due = @ \cup {effect}]

\* AppState::dispatch.
HearNews(b) ==
  /\ coming[b] # <<>> /\ coming' = [coming EXCEPT ![b] = Tail(@)]
  /\ LET news == Head(coming[b]) IN
       IF news.type = "CurrentSong" THEN Written(b, "song", news.song, "song")
       ELSE Written(b, "state", news.state, "state")
  /\ UNCHANGED <<thread, orders, element, timers, happened>>

NewSource(b) ==
  \E spurious \in {<<>>, <<"pause">>} :
    element' = [element EXCEPT ![b] = [src |-> shows[b].song, paused |-> FALSE,
                                       events |-> spurious \o <<"play">>]]

\* Every run of the song's effect starts a timer.
NewTimer(b) ==
  timers' = [timers EXCEPT ![b] = [running |-> @.running + 1, settled |-> FALSE, early |-> FALSE]]

\* Mutant: the pause that comes with a new source is not told from others.
SongUnguarded(b) ==
  /\ "song" \in shows[b].due
  /\ shows' = [shows EXCEPT ![b].due = @ \ {"song"}]
  /\ NewSource(b) /\ NewTimer(b)
  /\ UNCHANGED <<ServerVars, happened>>

\* The effect of a song: the element gets its source and plays; for a moment its
\* pauses count for nothing.
SongEffect(b) ==
  /\ "song" \in shows[b].due
  /\ shows' = [shows EXCEPT ![b].due = @ \ {"song"}, ![b].changing = TRUE]
  /\ NewSource(b) /\ NewTimer(b)
  /\ UNCHANGED <<ServerVars, happened>>

\* The element has told what came with its last source.
Settled(b) ==
  /\ ~timers[b].settled /\ element[b].events = <<>>
  /\ timers' = [timers EXCEPT ![b].settled = TRUE]
  /\ UNCHANGED <<ServerVars, shows, element, happened>>

\* A timer of src_changing ends, and lowers the guard, whichever source it is for by
\* now.  Its 200 ms are enough for its own source to settle, not for a later one.
ChangeOver(b) ==
  /\ timers[b].running > 1 \/ (timers[b].running = 1 /\ timers[b].settled)
  /\ shows' = [shows EXCEPT ![b].changing = FALSE]
  /\ timers' = [timers EXCEPT ![b].running = @ - 1, ![b].early = @ \/ ~timers[b].settled]
  /\ UNCHANGED <<ServerVars, element, happened>>

\* The effect of the state: play or pause, which is reported if it changes something.
StateEffect(b) ==
  LET toPause == shows[b].state # "PLAYING" IN
  /\ "state" \in shows[b].due
  /\ shows' = [shows EXCEPT ![b].due = @ \ {"state"}]
  /\ IF element[b].src = 0 \/ element[b].paused = toPause THEN UNCHANGED element
     ELSE element' = [element EXCEPT ![b].paused = toPause,
                        ![b].events = Append(@, IF toPause THEN "pause" ELSE "play")]
  /\ UNCHANGED <<ServerVars, timers, happened>>

\* The song is over: the element pauses, and says both.
SongOver(b) ==
  /\ happened < MaxHappenings /\ happened' = happened + 1
  /\ element[b].src # 0 /\ ~element[b].paused
  /\ element' = [element EXCEPT ![b].paused = TRUE, ![b].events = @ \o <<"pause", "ended">>]
  /\ UNCHANGED <<ServerVars, shows, timers>>

\* The listeners on_play, on_pause and on_ended.
Listener(b) ==
  LET event == Head(element[b].events) IN
  /\ element[b].events # <<>>
  /\ element' = [element EXCEPT ![b].events = Tail(@)]
  /\ IF event = "ended" THEN orders' = Append(orders, "Next") ELSE UNCHANGED orders
  /\ CASE event = "play" -> Written(b, "state", "PLAYING", "state")
       [] event = "pause" /\ ~shows[b].changing -> Written(b, "state", "PAUSED", "state")
       [] OTHER -> UNCHANGED shows
  /\ UNCHANGED <<thread, coming, timers, happened>>

PageStep(b) ==
  \/ HearNews(b) \/ SongEffect(b) \/ StateEffect(b) \/ Settled(b) \/ ChangeOver(b)
  \/ Listener(b)

AudioNext ==
  \/ HandleOrder
  \/ \E order \in {"Play", "Pause", "Next", "QueryCurrentSong"} : Press(order)
  \/ \E b \in Tab : PageStep(b) \/ SongOver(b)

AudioSpec == AudioInit /\ [][AudioNext]_audioVars

-----------------------------------------------------------------------------
(* Properties.                                                             *)

AtRest(b) ==
  /\ orders = <<>> /\ coming[b] = <<>> /\ shows[b].due = {} /\ ~shows[b].changing
  /\ element[b].events = <<>>

\* While the server holds a song to be playing every open page plays it, once the
\* events have come in and the effects have run: no pause of an old source, no stop
\* of the thread before it stills a page, whatever order they come in.  Except for a
\* page whose last two sources came so close together that the first one's timer
\* lowered the guard before the second had settled: that one may stay paused.
InTune ==
  \A b \in Tab :
    AtRest(b) /\ thread.alive /\ ~timers[b].early =>
      element[b].src = thread.song /\ ~element[b].paused /\ shows[b].state = "PLAYING"
=============================================================================
