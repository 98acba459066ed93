------------------------------- MODULE Player -------------------------------
(***************************************************************************)
(* Playback control: PlayerService in                                      *)
(* src/crates/playback/src/rsp/player_service.rs, with the commands of     *)
(* src/crates/server/src/player_commands.rs and queue_commands.rs that     *)
(* drive it and the multiroom service that stops it.                       *)
(*                                                                         *)
(* Four parties share its state: the command handler and the multiroom     *)
(* loop, each of which works off the calls of one request step by step     *)
(* (todo); the playback threads; and the task that stores the pause flag   *)
(* and the song position as it gets round to the state events.  The queue  *)
(* is a list walked in order; module Queue has the rest of it.             *)
(***************************************************************************)
EXTENDS Integers, FiniteSets, Sequences

CONSTANTS
  Lists,        \* the queues a load command can bring, of a song or more
  Broken,       \* songs whose file cannot be played
  Length,       \* position at which a song ends
  Saved,        \* position stored before the first start, 0 for none
  Grouping,     \* a multiroom leader may take this instance over
  MaxRetries,   \* 5 in the code
  EventSlots,   \* capacity of the event channel; 64 in the code
  MaxCommands,  \* bound: commands given
  MaxHellos,    \* bound: times a leader takes over
  MaxThreads    \* bound: playback threads started

ASSUME PlayerAssumption ==
  /\ Lists \in Seq(Seq(Nat \ {0}) \ {<<>>}) /\ Grouping \in BOOLEAN
  /\ Length \in Nat \ {0} /\ Saved \in 0..Length
  /\ MaxRetries \in Nat /\ EventSlots \in Nat \ {0} /\ MaxHellos \in Nat

VARIABLES
  queue, pos,       \* the list and the current position in it (from 1)
  handle,           \* playback_thread_handle: a thread or 0
  stop,             \* stop_signal, shared by all threads
  skip,             \* skip_to_time, and the song the position belongs to
  paused, progress, \* stored pause flag and position
  follower,         \* multiroom_follower_active
  grouped,          \* the multiroom loop has taken the role of a follower
  mirrors,          \* control loops that repeat what a leader tells
  thread,           \* playback threads
  events,           \* state events the storing task has not read
  todo,             \* calls left of the request an actor works on
  grip,             \* thread an actor has taken out of the handle or started
  crossed,          \* ghost: actors whose stop a start has undone before they were through
  shown,            \* last PlaybackStateEvent
  count             \* commands and hellos so far

control == <<handle, stop, skip, crossed>>
store   == <<paused, progress>>
group   == <<follower, grouped, mirrors>>
work    == <<todo, grip, count>>
vars    == <<queue, pos, control, store, group, thread, events, work, shown>>

Actors == {"commands", "multiroom"}
Songs  == UNION {{Lists[i][j] : j \in DOMAIN Lists[i]} : i \in DOMAIN Lists}
Remote == 0   \* stands for the leader's song, or none, where a position is remembered
Threads == DOMAIN thread
Alive   == {t \in Threads : thread[t].pc # "Ended"}

Positions == [at : 0..Length, of : Songs \cup {Remote}]

Calls == {"Signal", "Take", "Join", "Next", "Prev", "Goto", "Replace", "Clear", "Unpause",
          "Check", "Resume", "Spawn", "Store", "Lock", "Follow"}

TypeOK ==
  /\ queue \in {Lists[i] : i \in DOMAIN Lists} \cup {<<>>}
  /\ pos \in Nat /\ (queue # <<>> => pos \in DOMAIN queue)
  /\ handle \in Threads \cup {0} /\ stop \in BOOLEAN /\ skip \in Positions
  /\ paused \in BOOLEAN /\ progress \in Positions
  /\ follower \in BOOLEAN /\ grouped \in BOOLEAN /\ mirrors \in 0..MaxHellos
  /\ thread \in Seq([pc : {"Top", "Open", "Play", "Finished", "Retry", "Ended"},
                     song : Songs \cup {Remote}, at : 0..Length, retries : 0..MaxRetries])
  /\ events \in Seq([type : {"PLAYING", "STOPPED", "ERROR"}] \cup [type : {"TIME"}, time : Positions])
  /\ todo \in [Actors -> Seq([call : Calls, arg : Nat])]
  /\ grip \in [Actors -> Threads \cup {0}] /\ crossed \subseteq Actors
  /\ shown \in {"PLAYING", "STOPPED", "ERROR"}

C(c)       == [call |-> c, arg |-> 0]
CA(c, a)   == [call |-> c, arg |-> a]
NoPosition == [at |-> 0, of |-> Remote]

StopCalls == <<C("Signal"), C("Take"), C("Join")>>
PlayCalls == <<C("Check"), C("Resume"), C("Spawn"), C("Store")>>
LoadCalls == StopCalls \o <<C("Unpause"), C("Spawn"), C("Store")>>

\* The service starts with the stored position to skip to; playback resumes by
\* itself when so configured.
Init ==
  /\ \E i \in DOMAIN Lists : queue = Lists[i]
  /\ pos = 1
  /\ handle = 0 /\ stop = FALSE /\ thread = <<>> /\ events = <<>>
  /\ progress = [at |-> Saved, of |-> queue[1]]
  /\ skip = progress
  /\ paused \in BOOLEAN
  /\ follower = FALSE /\ grouped = FALSE /\ mirrors = 0
  /\ \E resume \in {<<>>, PlayCalls} : todo = [a \in Actors |-> IF a = "commands" THEN resume ELSE <<>>]
  /\ grip = [a \in Actors |-> 0] /\ crossed = {}
  /\ shown = "STOPPED"
  /\ count = [commands |-> 0, hellos |-> 0]

-----------------------------------------------------------------------------
(* The event channel drops its oldest events when the task lags behind.    *)

\* Mutant: a full channel refuses the new event.
Oldest(es) == IF Len(es) <= EventSlots THEN es ELSE SubSeq(es, 1, EventSlots)

Newest(es) == IF Len(es) <= EventSlots THEN es
              ELSE SubSeq(es, Len(es) - EventSlots + 1, Len(es))
Tell(e) == events' = Newest(Append(events, e))

TellState(s) == Tell([type |-> s]) /\ shown' = s

StoreEvent ==
  /\ events # <<>>
  /\ LET e == Head(events)
     IN /\ paused'   = CASE e.type = "PLAYING" -> FALSE
                         [] e.type = "STOPPED" -> TRUE
                         [] OTHER              -> paused
        /\ progress' = IF e.type = "TIME" THEN e.time ELSE progress
  /\ events' = Tail(events)
  /\ UNCHANGED <<queue, pos, control, group, thread, work, shown>>

-----------------------------------------------------------------------------
(* The playback thread: play_all_in_queue and the decode loop.             *)

Become(t, new) == thread' = [thread EXCEPT ![t] = new]
Set(t, pc)     == [thread[t] EXCEPT !.pc = pc]

\* get_current_song, the announcement, and the way into play_file.
Begin(t) ==
  /\ thread[t].pc = "Top"
  /\ IF queue = <<>>
     THEN Become(t, Set(t, "Ended")) /\ TellState("STOPPED")
     ELSE /\ Become(t, [Set(t, "Open") EXCEPT !.song = queue[pos], !.at = 0])
          /\ TellState("PLAYING")
  /\ UNCHANGED <<queue, pos, control, store, group, work>>

Open(t) ==
  /\ thread[t].pc = "Open" /\ thread[t].song \notin Broken
  /\ Become(t, Set(t, "Play"))
  /\ UNCHANGED <<queue, pos, control, store, group, events, work, shown>>

Fail(t) ==
  /\ thread[t].pc = "Open" /\ thread[t].song \in Broken
  /\ IF thread[t].retries < MaxRetries /\ ~stop
     THEN /\ Become(t, [Set(t, "Retry") EXCEPT !.retries = @ + 1])
          /\ UNCHANGED <<events, shown>>
     ELSE Become(t, Set(t, "Ended")) /\ TellState("ERROR")
  /\ UNCHANGED <<queue, pos, control, store, group, work>>

\* The second before the next attempt.
Retry(t) ==
  /\ thread[t].pc = "Retry"
  /\ IF stop
     THEN Become(t, Set(t, "Ended")) /\ TellState("STOPPED")
     ELSE Become(t, Set(t, "Top")) /\ UNCHANGED <<events, shown>>
  /\ UNCHANGED <<queue, pos, control, store, group, work>>

\* Mutant: a seek that is still to be made hides the stop.
StoppedAfterSeek(t) ==
  /\ thread[t].pc = "Play" /\ stop /\ skip.at = 0
  /\ Become(t, Set(t, "Ended")) /\ TellState("STOPPED")
  /\ UNCHANGED <<queue, pos, control, store, group, work>>

\* One round of the decode loop: it stops, or seeks, or plays on and reports
\* the time, or reaches the end of the song.
Stopped(t) ==
  /\ thread[t].pc = "Play" /\ stop
  /\ Become(t, Set(t, "Ended")) /\ TellState("STOPPED")
  /\ UNCHANGED <<queue, pos, control, store, group, work>>

SeekTo(t) ==
  /\ thread[t].pc = "Play" /\ ~stop /\ skip.at > 0
  /\ Become(t, [thread[t] EXCEPT !.at = skip.at])
  /\ skip' = [skip EXCEPT !.at = 0]
  /\ UNCHANGED <<queue, pos, handle, stop, crossed, store, group, events, work, shown>>

PlayOn(t) ==
  /\ thread[t].pc = "Play" /\ ~stop /\ skip.at = 0 /\ thread[t].at < Length
  /\ Become(t, [thread[t] EXCEPT !.at = @ + 1])
  /\ Tell([type |-> "TIME", time |-> [at |-> thread'[t].at, of |-> thread[t].song]])
  /\ UNCHANGED <<queue, pos, control, store, group, work, shown>>

\* The end of the song, drained to the device or cut short by a stop.
Drain(t) ==
  /\ thread[t].pc = "Play" /\ ~stop /\ skip.at = 0 /\ thread[t].at = Length
  /\ Become(t, Set(t, "Finished"))
  /\ UNCHANGED <<queue, pos, control, store, group, events, work, shown>>

\* move_current_to_next_song after a song; false at the end of the list.
Advance(t) ==
  /\ thread[t].pc = "Finished"
  /\ IF queue # <<>> /\ pos < Len(queue)
     THEN /\ pos' = pos + 1
          /\ Become(t, [Set(t, "Top") EXCEPT !.retries = 0])
     ELSE /\ Become(t, Set(t, "Ended"))
          /\ UNCHANGED pos
  /\ UNCHANGED <<queue, control, store, group, events, work, shown>>

ThreadStep(t) ==
  \/ Begin(t) \/ Open(t) \/ Fail(t) \/ Retry(t) \/ Stopped(t)
  \/ SeekTo(t) \/ PlayOn(t) \/ Drain(t) \/ Advance(t)

-----------------------------------------------------------------------------
(* The calls a request consists of.                                        *)

Calling(a, c) == todo[a] # <<>> /\ Head(todo[a]).call = c
Arg(a)        == Head(todo[a]).arg
Done(a)       == todo' = [todo EXCEPT ![a] = Tail(@)] /\ UNCHANGED count
Gripping(a, t) == grip' = [grip EXCEPT ![a] = t]

IsPlaying == handle \in Alive

\* stop_current_song: raise the signal, take the handle, wait for the thread.
Signal(a) ==
  /\ Calling(a, "Signal") /\ Done(a)
  /\ stop' = TRUE /\ crossed' = {}
  /\ UNCHANGED <<queue, pos, handle, skip, store, group, thread, events, grip, shown>>

Take(a) ==
  /\ Calling(a, "Take") /\ Done(a)
  /\ Gripping(a, handle) /\ handle' = 0
  /\ UNCHANGED <<queue, pos, stop, skip, crossed, store, group, thread, events, shown>>

\* Mutant: nobody waits for the thread to end.
JoinAtOnce(a) ==
  /\ Calling(a, "Join") /\ Done(a)
  /\ Gripping(a, 0)
  /\ UNCHANGED <<queue, pos, control, store, group, thread, events, shown>>

Join(a) ==
  /\ Calling(a, "Join") /\ grip[a] \notin Alive /\ Done(a)
  /\ Gripping(a, 0)
  /\ UNCHANGED <<queue, pos, control, store, group, thread, events, shown>>

\* What the request does to the queue.
ChangeQueue(a) ==
  /\ \/ /\ Calling(a, "Next")
        /\ pos' = IF queue # <<>> /\ pos < Len(queue) THEN pos + 1 ELSE pos
        /\ UNCHANGED queue
     \/ /\ Calling(a, "Prev")
        /\ pos' = IF pos > 1 THEN pos - 1 ELSE pos
        /\ UNCHANGED queue
     \/ /\ Calling(a, "Goto")
        /\ pos' = IF Arg(a) \in DOMAIN queue THEN Arg(a) ELSE pos
        /\ UNCHANGED queue
     \/ Calling(a, "Replace") /\ queue' = Lists[Arg(a)] /\ pos' = 1
     \/ Calling(a, "Clear") /\ queue' = <<>> /\ pos' = 1
  /\ Done(a)
  /\ UNCHANGED <<control, store, group, thread, events, grip, shown>>

Unpause(a) ==
  /\ Calling(a, "Unpause") /\ Done(a)
  /\ paused' = FALSE
  /\ UNCHANGED <<queue, pos, control, progress, group, thread, events, grip, shown>>

\* play_from_current_queue_song: nothing while a song plays ...
Check(a) ==
  /\ Calling(a, "Check")
  /\ todo' = [todo EXCEPT ![a] = IF IsPlaying THEN <<>> ELSE Tail(@)]
  /\ UNCHANGED <<queue, pos, control, store, group, thread, events, grip, count, shown>>

\* ... else it goes on from the stored position if the pause flag is set.
Resume(a) ==
  /\ Calling(a, "Resume") /\ Done(a)
  /\ skip' = IF paused THEN progress ELSE skip
  /\ UNCHANGED <<queue, pos, handle, stop, crossed, store, group, thread, events, grip, shown>>

\* The actor has raised the signal and is not yet sure that the thread has ended.
Stopping(a) == Calling(a, "Take") \/ Calling(a, "Join")

\* play_all_in_queue: the signal is lowered, also for those who have raised it,
\* and a thread started.
Spawn(a) ==
  /\ Calling(a, "Spawn")
  /\ Len(thread) < MaxThreads
  /\ Done(a)
  /\ stop' = FALSE /\ crossed' = crossed \cup {b \in Actors \ {a} : Stopping(b)}
  /\ thread' = Append(thread, [pc |-> "Top", song |-> Remote, at |-> 0, retries |-> 0])
  /\ Gripping(a, Len(thread) + 1)
  /\ UNCHANGED <<queue, pos, handle, skip, store, group, events, shown>>

StoreHandle(a) ==
  /\ Calling(a, "Store") /\ Done(a)
  /\ handle' = grip[a] /\ Gripping(a, 0)
  /\ UNCHANGED <<queue, pos, stop, skip, crossed, store, group, thread, events, shown>>

\* on_leader_hello: local commands are locked out before the player is
\* stopped, the role changes after it.
LockOut(a) ==
  /\ Calling(a, "Lock") /\ Done(a)
  /\ follower' = TRUE
  /\ UNCHANGED <<queue, pos, control, store, grouped, mirrors, thread, events, grip, shown>>

Follow(a) ==
  /\ Calling(a, "Follow") /\ Done(a)
  /\ grouped' = TRUE
  /\ UNCHANGED <<queue, pos, control, store, follower, mirrors, thread, events, grip, shown>>

CallStep(a) ==
  \/ Signal(a) \/ Take(a) \/ Join(a) \/ ChangeQueue(a) \/ Unpause(a) \/ Check(a)
  \/ Resume(a) \/ Spawn(a) \/ StoreHandle(a) \/ LockOut(a) \/ Follow(a)

-----------------------------------------------------------------------------
(* Requests.                                                               *)

\* Transport commands: the calls each of them makes.
Transport ==
  {StopCalls \o PlayCalls, StopCalls,
   IF IsPlaying THEN StopCalls ELSE PlayCalls}
  \cup {StopCalls \o <<C(move), C("Unpause")>> \o PlayCalls : move \in {"Next", "Prev"}}
  \cup {StopCalls \o <<CA("Goto", i), C("Unpause")>> \o PlayCalls : i \in DOMAIN queue}

\* Queue commands that start or stop playback: load a list, add and play, clear.
\* They look at no follower flag.
QueueCommands ==
  {StopCalls \o <<CA("Replace", i)>> \o LoadCalls : i \in DOMAIN Lists}
  \cup {StopCalls \o <<CA("Goto", i)>> \o LoadCalls : i \in DOMAIN queue}
  \cup {StopCalls \o <<C("Clear")>>}

Idle(a) == todo[a] = <<>>

Counted(c) == count' = [count EXCEPT ![c] = @ + 1]

\* The command handler takes the next command.
Request ==
  /\ Idle("commands") /\ count.commands < MaxCommands
  /\ \E calls \in QueueCommands \cup (IF follower THEN {} ELSE Transport) :
       todo' = [todo EXCEPT !["commands"] = calls]
  /\ Counted("commands")
  /\ UNCHANGED <<queue, pos, control, store, group, thread, events, grip, shown>>

\* seek_current_song, on a song that plays or not.
Seek ==
  /\ Idle("commands") /\ count.commands < MaxCommands /\ ~follower
  /\ \E t \in 1..Length :
       skip' = [at |-> t, of |-> IF queue = <<>> THEN Remote ELSE queue[pos]]
  /\ Counted("commands")
  /\ UNCHANGED <<queue, pos, handle, stop, crossed, store, group, thread, events, todo, grip,
                 shown>>

\* A leader was answered: its control loop runs and the multiroom loop has the
\* hello to handle.
LeaderHello ==
  /\ Grouping /\ Idle("multiroom") /\ ~grouped /\ count.hellos < MaxHellos
  /\ mirrors' = mirrors + 1
  /\ todo' = [todo EXCEPT !["multiroom"] = <<C("Lock")>> \o StopCalls \o <<C("Follow")>>]
  /\ Counted("hellos")
  /\ UNCHANGED <<queue, pos, control, store, follower, grouped, thread, events, grip, shown>>

\* The state and the progress of the leader are told to everyone here, the
\* storing task included.
Mirror ==
  /\ mirrors > 0
  /\ \/ TellState("PLAYING")
     \/ TellState("STOPPED")
     \/ /\ \E t \in 1..Length : Tell([type |-> "TIME", time |-> [at |-> t, of |-> Remote]])
        /\ UNCHANGED shown
  /\ UNCHANGED <<queue, pos, control, store, group, thread, work>>

\* The connection was closed or died.
MirrorEnds ==
  /\ mirrors > 0
  /\ mirrors' = mirrors - 1
  /\ TellState("STOPPED")
  /\ UNCHANGED <<queue, pos, control, store, follower, grouped, thread, work>>

LeaveGroup ==
  /\ grouped /\ Idle("multiroom")
  /\ grouped' = FALSE /\ follower' = FALSE
  /\ UNCHANGED <<queue, pos, control, store, mirrors, thread, events, work, shown>>

Next ==
  \/ StoreEvent
  \/ \E t \in Threads : ThreadStep(t)
  \/ \E a \in Actors : CallStep(a)
  \/ Request \/ Seek \/ LeaderHello \/ Mirror \/ MirrorEnds \/ LeaveGroup

\* Threads and tasks are scheduled; requests need not come.
Fairness ==
  /\ WF_vars(StoreEvent)
  /\ \A t \in 1..MaxThreads : WF_vars(t \in Threads /\ ThreadStep(t))
  /\ \A a \in Actors : WF_vars(CallStep(a))

Spec     == Init /\ [][Next]_vars
FairSpec == Spec /\ Fairness

-----------------------------------------------------------------------------
(* Properties.                                                             *)

\* There is one playback thread at most ("Play while already playing no longer
\* spawns a second concurrent playback thread", release_notes.md:171).
OneThread == Cardinality(Alive) <= 1

\* No thread plays unattended: the service holds its handle, or the one who
\* started it is about to store the handle, or the one who took the handle waits
\* for it with the signal raised.  The exception is a stop that a start has
\* crossed: the start lowers the one signal there is, and the actor then waits
\* for a thread that may play to the end of the queue.
Controlled ==
  \A t \in Alive :
    \/ t = handle
    \/ \E a \in Actors : /\ grip[a] = t
                         /\ Calling(a, "Store") \/ (Calling(a, "Join") /\ (stop \/ a \in crossed))

\* When everything has come to rest after a stop, the pause flag is stored, so
\* that the next play goes on where it stopped.
StopRemembered ==
  /\ \A a \in Actors : Idle(a)
  /\ events = <<>> /\ Alive = {} /\ thread # <<>> /\ shown = "STOPPED"
  => paused

\* Every request comes to its end: a thread told to stop stops.
RequestsEnd == \A a \in Actors : ~Idle(a) ~> Idle(a)

\* A file that cannot be played is given up.
GivesUp ==
  \A t \in 1..MaxThreads :
    (t \in Threads /\ thread[t].pc = "Open" /\ thread[t].song \in Broken)
      ~> (t \in Threads /\ thread[t].pc = "Ended")

\* Nobody waits for ever, for a thread or for a song.
Responsive == RequestsEnd /\ GivesUp

=============================================================================
