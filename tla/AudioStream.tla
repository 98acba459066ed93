---------------------------- MODULE AudioStream ----------------------------
(***************************************************************************)
(* Audio of a multiroom group on its way from the leader's decode loop to  *)
(* one follower: the tee (src/crates/playback/src/rsp/tee.rs), ingestion   *)
(* and writer of the leader (src/crates/sync/src/leader.rs), control loop  *)
(* and stream handlers of the follower (src/crates/sync/src/follower.rs)   *)
(* and the sinks they start (src/crates/playback/src/rsp/sync_sink.rs).    *)
(*                                                                         *)
(* A song, or what follows a seek, is a session with a stream of its own;  *)
(* starts and stops travel on the control stream, so either can overtake   *)
(* the other.  Every channel on the way is bounded and loses what does not *)
(* fit.  Time is not modelled: a chunk has the time its stamp says.        *)
(***************************************************************************)
EXTENDS Integers, FiniteSets, Sequences

CONSTANTS
  Session,     \* bound: sessions the leader starts, 1..n
  MaxChunk,    \* bound: chunks of a session
  TeeSlots,    \* capacity of the tee channel; 256 in the code
  FeedSlots,   \* capacity of the broadcast channel; 512 in the code
  SinkSlots    \* capacity of a sink's backlog; 256 in the code

ASSUME StreamAssumption ==
  /\ Session \subseteq Nat \ {0} /\ MaxChunk \in Nat
  /\ {TeeSlots, FeedSlots, SinkSlots} \subseteq Nat \ {0}

VARIABLES
  live,        \* the tee session of the decode loop, 0 for none
  sent,        \* chunks of the live session, as the tee counts them
  decoded,     \* chunks of the live session, as they were decoded
  ended,       \* sessions of the decode loop that are over
  tee,         \* the tee channel
  current,     \* the session ingestion is in, 0 for none
  feed,        \* broadcast messages the follower's writer has not read
  writing,     \* the session the writer has a stream for, 0 for none
  writer,      \* the follower's writer runs
  joined,      \* the connection: "No", "Yes" or "Lost"
  control,     \* control messages under way
  audio,       \* chunks under way on the stream of a session
  finished,    \* streams the writer finished
  refused,     \* streams a handler dropped before their end
  listening,   \* the follower's control loop runs
  synced,      \* the follower's clock is synchronised
  pending,     \* sessions started and not stopped, as the follower knows
  handler,     \* stream handlers
  held,        \* first chunk a handler has read
  sinks,       \* sessions whose sink the control loop can find
  sink,        \* sinks
  backlog,     \* chunks a sink has not played
  heard        \* chunks a sink has played

leader   == <<live, sent, decoded, ended>>
fanout   == <<current, feed, writing, writer>>
network  == <<joined, control, audio, finished, refused>>
member   == <<listening, synced, pending>>
handling == <<handler, held>>
output   == <<sinks, sink, backlog, heard>>
vars     == <<leader, tee, fanout, network, member, handling, output>>

Chunk == [session : Session, stamp : 0..MaxChunk, pos : 0..MaxChunk]
Event == [type : {"Start", "End"}, session : Session]
           \cup [type : {"Chunk"}, session : Session, chunk : Chunk]

TypeOK ==
  /\ live \in Session \cup {0} /\ current \in Session \cup {0} /\ writing \in Session \cup {0}
  /\ sent \in 0..MaxChunk /\ decoded \in 0..MaxChunk
  /\ ended \subseteq Session
  /\ tee \in Seq(Event) /\ Len(tee) <= TeeSlots
  /\ feed \in Seq(Event) /\ Len(feed) <= FeedSlots
  /\ writer \in BOOLEAN /\ joined \in {"No", "Yes", "Lost"}
  /\ control \in Seq([type : {"StreamStart", "StreamStop"}, session : Session])
  /\ audio \in [Session -> Seq(Chunk)] /\ finished \subseteq Session /\ refused \subseteq Session
  /\ listening \in BOOLEAN /\ synced \in BOOLEAN /\ pending \subseteq Session
  /\ handler \in [Session -> {"None", "Waiting", "Clock", "Starting", "Forward", "Draining", "Done"}]
  /\ held \in [Session -> Seq(Chunk)]
  /\ sinks \subseteq Session /\ sink \in [Session -> {"None", "Playing", "Gone"}]
  /\ backlog \in [Session -> Seq(Chunk)] /\ heard \in [Session -> Seq(Chunk)]

Nothing == [s \in Session |-> <<>>]

Init ==
  /\ live = 0 /\ sent = 0 /\ decoded = 0 /\ ended = {}
  /\ tee = <<>> /\ current = 0 /\ feed = <<>> /\ writing = 0 /\ writer = FALSE
  /\ joined = "No" /\ control = <<>> /\ audio = Nothing
  /\ finished = {} /\ refused = {}
  /\ listening = FALSE /\ synced = FALSE /\ pending = {}
  /\ handler = [s \in Session |-> "None"] /\ held = Nothing
  /\ sinks = {} /\ sink = [s \in Session |-> "None"]
  /\ backlog = Nothing /\ heard = Nothing

-----------------------------------------------------------------------------
(* The decode loop of the leader.  try_send: a full channel refuses.       *)

Fits == Len(tee) < TeeSlots

TrySend(e) == tee' = IF Fits THEN Append(tee, e) ELSE tee

Begin ==
  /\ live = 0
  /\ \E s \in Session :
       /\ \A r \in Session : r < s <=> r \in ended
       /\ live' = s
       /\ TrySend([type |-> "Start", session |-> s])
  /\ sent' = 0 /\ decoded' = 0
  /\ UNCHANGED <<ended, fanout, network, member, handling, output>>

TheChunk == [session |-> live, stamp |-> sent, pos |-> decoded]

\* Mutant: only chunks that were sent are counted.
CountSent ==
  /\ live # 0 /\ decoded < MaxChunk
  /\ TrySend([type |-> "Chunk", session |-> live, chunk |-> TheChunk])
  /\ sent' = IF Fits THEN sent + 1 ELSE sent
  /\ decoded' = decoded + 1
  /\ UNCHANGED <<live, ended, fanout, network, member, handling, output>>

\* send_chunk: the counter advances whether or not the chunk fits.
SendChunk ==
  /\ live # 0 /\ decoded < MaxChunk
  /\ TrySend([type |-> "Chunk", session |-> live, chunk |-> TheChunk])
  /\ sent' = sent + 1 /\ decoded' = decoded + 1
  /\ UNCHANGED <<live, ended, fanout, network, member, handling, output>>

\* The session is dropped: at the end of the song, on a seek, a stop or an error.
End ==
  /\ live # 0
  /\ ended' = ended \cup {live}
  /\ TrySend([type |-> "End", session |-> live])
  /\ live' = 0
  /\ UNCHANGED <<sent, decoded, fanout, network, member, handling, output>>

-----------------------------------------------------------------------------
(* Ingestion and writer of the leader.                                     *)

\* A receiver that lags behind the broadcast channel loses the oldest.
Newest(ms) == IF Len(ms) <= FeedSlots THEN ms
              ELSE SubSeq(ms, Len(ms) - FeedSlots + 1, Len(ms))
Broadcast(e) == feed' = IF writer THEN Newest(Append(feed, e)) ELSE feed

\* spawn_tee_ingestion: a chunk of a session whose start was lost is dropped.
Ingest ==
  /\ tee # <<>> /\ tee' = Tail(tee)
  /\ LET e == Head(tee)
     IN \/ e.type = "Start" /\ current' = e.session /\ UNCHANGED feed
        \/ /\ e.type = "Chunk"
           /\ IF current = e.session THEN Broadcast(e) ELSE UNCHANGED feed
           /\ UNCHANGED current
        \/ /\ e.type = "End"
           /\ current' = IF current = e.session THEN 0 ELSE current
           /\ Broadcast(e)
  /\ UNCHANGED <<leader, writing, writer, network, member, handling, output>>

Msg(type, s)  == [type |-> type, session |-> s]
Finished(s)   == IF s = 0 THEN finished ELSE finished \cup {s}
StopsOf(s)    == IF s = 0 THEN <<>> ELSE <<Msg("StreamStop", s)>>

\* run_follower_audio_writer: the first chunk of another session finishes the
\* old stream and opens a new one.
WriteChunk ==
  /\ joined = "Yes" /\ writer /\ feed # <<>> /\ Head(feed).type = "Chunk"
  /\ feed' = Tail(feed)
  /\ LET s == Head(feed).session
     IN /\ writing' = s
        /\ audio' = [audio EXCEPT ![s] = Append(@, Head(feed).chunk)]
        /\ IF writing = s
           THEN UNCHANGED <<control, finished>>
           ELSE /\ control' = control \o StopsOf(writing) \o <<Msg("StreamStart", s)>>
                /\ finished' = Finished(writing)
  /\ UNCHANGED <<leader, tee, current, writer, joined, refused, member, handling, output>>

WriteEnd ==
  /\ joined = "Yes" /\ writer /\ feed # <<>> /\ Head(feed).type = "End"
  /\ feed' = Tail(feed)
  /\ IF writing = Head(feed).session
     THEN /\ writing' = 0
          /\ control' = control \o StopsOf(writing)
          /\ finished' = Finished(writing)
     ELSE UNCHANGED <<writing, control, finished>>
  /\ UNCHANGED <<leader, tee, current, writer, joined, audio, refused, member, handling, output>>

\* A write to a stream the follower has dropped ends the writer.
WriteFails ==
  /\ joined = "Yes" /\ writer /\ feed # <<>> /\ Head(feed).type = "Chunk"
  /\ Head(feed).session = writing /\ writing \in refused
  /\ writer' = FALSE /\ feed' = <<>>
  /\ UNCHANGED <<leader, tee, current, writing, network, member, handling, output>>

\* The follower joins, before playback or in the middle of it.
Join ==
  /\ joined = "No"
  /\ joined' = "Yes" /\ listening' = TRUE /\ writer' = TRUE
  /\ UNCHANGED <<leader, tee, current, feed, writing, control, audio, finished, refused,
                 synced, pending, handling, output>>

\* The connection ends with everything that was under way on it.
Lose ==
  /\ joined = "Yes"
  /\ joined' = "Lost" /\ writer' = FALSE /\ feed' = <<>>
  /\ control' = <<>> /\ audio' = Nothing
  /\ UNCHANGED <<leader, tee, current, writing, finished, refused, member, handling, output>>

-----------------------------------------------------------------------------
(* The follower: control loop.                                             *)

StreamStart ==
  /\ listening /\ control # <<>> /\ Head(control).type = "StreamStart"
  /\ control' = Tail(control)
  /\ pending' = pending \cup {Head(control).session}
  /\ UNCHANGED <<leader, tee, fanout, joined, audio, finished, refused, listening, synced, handling, output>>

\* A sink that is stopped flushes what it has not played.
Stopped(ss) ==
  /\ sink' = [s \in Session |-> IF s \in ss THEN "Gone" ELSE sink[s]]
  /\ backlog' = [s \in Session |-> IF s \in ss THEN <<>> ELSE backlog[s]]
  /\ sinks' = sinks \ ss
  /\ UNCHANGED heard

\* Mutant: the stop takes the sink out of the map and leaves it playing.
StopForgets ==
  /\ listening /\ control # <<>> /\ Head(control).type = "StreamStop"
  /\ control' = Tail(control)
  /\ pending' = pending \ {Head(control).session}
  /\ sinks' = sinks \ {Head(control).session}
  /\ UNCHANGED <<leader, tee, fanout, joined, audio, finished, refused, listening, synced,
                 handling, sink, backlog, heard>>

StreamStop ==
  /\ listening /\ control # <<>> /\ Head(control).type = "StreamStop"
  /\ control' = Tail(control)
  /\ pending' = pending \ {Head(control).session}
  /\ Stopped(sinks \cap {Head(control).session})
  /\ UNCHANGED <<leader, tee, fanout, joined, audio, finished, refused, listening, synced, handling>>

\* The control stream ended: no stream is accepted any more, the sinks stop.
ControlEnds ==
  /\ listening /\ joined = "Lost"
  /\ listening' = FALSE
  /\ Stopped(sinks)
  /\ UNCHANGED <<leader, tee, fanout, network, synced, pending, handling>>

Sync ==
  /\ listening /\ ~synced
  /\ synced' = TRUE
  /\ UNCHANGED <<leader, tee, fanout, network, listening, pending, handling, output>>

-----------------------------------------------------------------------------
(* The follower: a handler for every stream.                               *)

Handle(s, from, to) == handler[s] = from /\ handler' = [handler EXCEPT ![s] = to]

\* The stream is accepted and its first chunk read.
Accept(s) ==
  /\ listening /\ audio[s] # <<>>
  /\ Handle(s, "None", "Waiting")
  /\ held' = [held EXCEPT ![s] = <<Head(audio[s])>>]
  /\ audio' = [audio EXCEPT ![s] = Tail(@)]
  /\ UNCHANGED <<leader, tee, fanout, joined, control, finished, refused, member, output>>

\* wait_for_pending
Found(s) ==
  /\ s \in pending
  /\ Handle(s, "Waiting", "Clock")
  /\ UNCHANGED <<leader, tee, fanout, network, member, held, output>>

\* Two seconds without a start, or ten without a clock: the stream is dropped.
GiveUp(s) ==
  /\ \/ s \notin pending /\ Handle(s, "Waiting", "Done")
     \/ ~synced /\ Handle(s, "Clock", "Done")
  /\ refused' = refused \cup {s}
  /\ UNCHANGED <<leader, tee, fanout, joined, control, audio, finished, member, held, output>>

StartSink(s) ==
  /\ synced
  /\ Handle(s, "Clock", "Starting")
  /\ sink' = [sink EXCEPT ![s] = "Playing"]
  /\ UNCHANGED <<leader, tee, fanout, network, member, held, sinks, backlog, heard>>

InsertSink(s) ==
  /\ Handle(s, "Starting", "Forward")
  /\ sinks' = sinks \cup {s}
  /\ UNCHANGED <<leader, tee, fanout, network, member, held, sink, backlog, heard>>

Queue(s, c) == backlog' = [backlog EXCEPT ![s] = IF Len(@) < SinkSlots THEN Append(@, c) ELSE @]

\* A chunk is passed on; one that does not fit is dropped.
Forward(s) ==
  /\ handler[s] = "Forward" /\ sink[s] = "Playing"
  /\ \/ /\ held[s] # <<>>
        /\ Queue(s, held[s][1]) /\ held' = [held EXCEPT ![s] = <<>>]
        /\ UNCHANGED audio
     \/ /\ held[s] = <<>> /\ audio[s] # <<>>
        /\ Queue(s, Head(audio[s])) /\ audio' = [audio EXCEPT ![s] = Tail(@)]
        /\ UNCHANGED held
  /\ UNCHANGED <<leader, tee, fanout, joined, control, finished, refused, member, handler, sinks, sink, heard>>

\* Mutant: a read that fails is tried again.
ReadsAgain(s) ==
  /\ \/ sink[s] = "Gone"
     \/ held[s] = <<>> /\ audio[s] = <<>> /\ s \in finished
  /\ Handle(s, "Forward", IF s \in sinks /\ sink[s] = "Playing" THEN "Draining" ELSE "Done")
  /\ sinks' = sinks \ {s}
  /\ refused' = IF sink[s] = "Gone" THEN refused \cup {s} ELSE refused
  /\ UNCHANGED <<leader, tee, fanout, joined, control, audio, finished, member, held,
                 sink, backlog, heard>>

\* The stream is over, or the sink is: the handler takes the sink out of the
\* map and waits for it to play out, unless it was stopped.
EndOfStream(s) ==
  /\ \/ sink[s] = "Gone"
     \/ held[s] = <<>> /\ audio[s] = <<>> /\ (s \in finished \/ joined = "Lost")
  /\ Handle(s, "Forward", IF s \in sinks /\ sink[s] = "Playing" THEN "Draining" ELSE "Done")
  /\ sinks' = sinks \ {s}
  /\ refused' = IF sink[s] = "Gone" THEN refused \cup {s} ELSE refused
  /\ UNCHANGED <<leader, tee, fanout, joined, control, audio, finished, member, held,
                 sink, backlog, heard>>

HandlerStep(s) ==
  \/ Accept(s) \/ Found(s) \/ GiveUp(s) \/ StartSink(s) \/ InsertSink(s)
  \/ Forward(s) \/ EndOfStream(s)

-----------------------------------------------------------------------------
(* The follower: sinks.                                                    *)

Play(s) ==
  /\ sink[s] = "Playing" /\ backlog[s] # <<>>
  /\ heard' = [heard EXCEPT ![s] = Append(@, Head(backlog[s]))]
  /\ backlog' = [backlog EXCEPT ![s] = Tail(@)]
  /\ UNCHANGED <<leader, tee, fanout, network, member, handling, sinks, sink>>

PlayedOut(s) ==
  /\ sink[s] = "Playing" /\ backlog[s] = <<>>
  /\ Handle(s, "Draining", "Done")
  /\ sink' = [sink EXCEPT ![s] = "Gone"]
  /\ UNCHANGED <<leader, tee, fanout, network, member, held, sinks, backlog, heard>>

\* The device cannot be opened or fails.
SinkFails(s) ==
  /\ sink[s] = "Playing"
  /\ sink' = [sink EXCEPT ![s] = "Gone"]
  /\ backlog' = [backlog EXCEPT ![s] = <<>>]
  /\ handler' = [handler EXCEPT ![s] = IF @ = "Draining" THEN "Done" ELSE @]
  /\ UNCHANGED <<leader, tee, fanout, network, member, held, sinks, heard>>

SinkStep(s) == Play(s) \/ PlayedOut(s)

ControlStep == StreamStart \/ StreamStop \/ ControlEnds

Next ==
  \/ Begin \/ SendChunk \/ End
  \/ Ingest \/ WriteChunk \/ WriteEnd \/ WriteFails \/ Join \/ Lose
  \/ ControlStep \/ Sync
  \/ \E s \in Session : HandlerStep(s) \/ SinkStep(s) \/ SinkFails(s)

\* Tasks and sink threads run; the leader need not play nor the clock be found.
Fairness ==
  /\ WF_vars(Ingest) /\ WF_vars(WriteChunk \/ WriteEnd) /\ WF_vars(ControlStep)
  /\ \A s \in Session : WF_vars(HandlerStep(s)) /\ WF_vars(SinkStep(s))

Spec     == Init /\ [][Next]_vars
FairSpec == Spec /\ Fairness

-----------------------------------------------------------------------------
(* Properties.                                                             *)

\* Whatever was dropped on the way, a chunk is heard at its own place in the
\* song: "followers hear a gap, never a permanent offset"
\* (docs/multiroom_architecture.md:67, first_frame of tee.rs:173).
InTime ==
  \A s \in Session : \A i \in DOMAIN heard[s] : heard[s][i].stamp = heard[s][i].pos

\* A sink hears its own session only, in order and nothing twice.
OwnSession ==
  \A s \in Session :
    /\ \A i \in DOMAIN heard[s] : heard[s][i].session = s
    /\ \A i, j \in DOMAIN heard[s] : i < j => heard[s][i].pos < heard[s][j].pos

\* The map holds the sinks that play, except those a handler is about to enter
\* or has taken out to drain: the control loop can stop every other one.
Reachable ==
  \A s \in Session :
    sink[s] = "Playing" => s \in sinks \/ handler[s] \in {"Starting", "Draining"}

\* A session whose stream is over falls silent in the room, wherever its
\* handler was when the stop came ("a seek cuts everywhere at once",
\* docs/multiroom_architecture.md:101: in the end it does).
FallsSilent == \A s \in Session : s \in finished ~> sink[s] # "Playing"

\* A room that lost its leader falls silent.
LeaverSilent == \A s \in Session : joined = "Lost" ~> sink[s] # "Playing"

\* What a room hears is right ...
HeardRight == InTime /\ OwnSession

\* ... and ends.
Silenced == FallsSilent /\ LeaverSilent
=============================================================================
