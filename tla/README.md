# RSPlayer: models, checks and proofs

TLA+ models of RSPlayer, a headless music player written in Rust, with TLC
configurations that check them on small instances and TLAPS proofs for all
values of their constants. Paths below are under `src/crates/` unless they begin
with `docs/` or `web-ui/`. The modules are translated from the source; the docs are quoted
only where a property states what they promise.

## The system

One process (`server`) owns everything. A task takes user commands from a channel
one at a time (`server/src/command_handler.rs:36`), a second one takes system
commands (`:106`), and state changes go out on a broadcast channel of 64 events
(`server/src/composition_root.rs:140`), whose receivers skip what they are too slow
for. Playback runs on a thread of its own; the multiroom service, the library scan,
the loudness scan and the USB link are further tasks or threads. Browsers run the web
interface, a program of its own with a copy of the state.

| component | state | operations | what is hard |
|---|---|---|---|
| Playback queue, `metadata/src/queue_service.rs` | songs by increasing key, current key, priority list, mode (stored); next id, random history (memory) | add, add next, load, remove, clear, move, next, previous, go to, modes | ids over restarts and crashes; dangling keys; off-by-ones of reordering; random history |
| Playback control, `playback/src/rsp/player_service.rs`, `server/src/{player,queue}_commands.rs` | thread handle, stop signal, position to skip to (memory); pause flag, position (stored) | play, stop, next, previous, seek, load | command handler, multiroom loop, playback thread and storing task share it without a common lock |
| Decode loop, `playback/src/rsp/symphonia.rs` | open file, output, tee session | decode, seek, drain, stop | stop against end of song |
| Audio output, `playback/src/rsp/{audio_output,device_capabilities}.rs` | ring, device stream | open, write, drain, flush, close | rates a device claims and refuses; back-pressure; a device that stalls or breaks |
| DSP hand-over, `dsp/src/dsp_processor.rs` | pending equaliser, flag, settings, gain | rebuild, update, swap | two writers, one reader without a common lock |
| Multiroom grouping, `sync/src/lib.rs` | role, followers, flags for other threads | add, remove, leave, events of the connection tasks | handshake races, crashes, dead connections, events that name no connection |
| Multiroom audio, `playback/src/rsp/tee.rs`, `sync/src/{leader,follower}.rs` | sessions, bounded channels, streams, sinks | start, chunk, end, join, stop | control and audio on different streams; dropped messages; time-outs |
| Clock synchronisation, `sync/src/clock.rs` | window of samples, smoothed offset | add a sample | outliers, too few samples |
| Synchronised sink, `playback/src/rsp/sync_sink.rs` | error filter, streak, cool-down | schedule a chunk | corrections must not oscillate; the driver's latency jumps |
| Library, `metadata/src/{metadata_service,song_repository,album_repository}.rs` | songs, albums (stored) | full and incremental scan | songs and albums are updated one after the other; two scans; absent directories |
| Playlists, `metadata/src/playlist_service.rs` | items under `name_index` (stored) | save, show page by page | prefixes and order of string keys; a save cut short |
| Loudness analysis, `metadata/src/{loudness_service,loudness_repository}.rs` | measured songs (stored), playing flag | collect, measure | yields to playback; files that come and go |
| Radio and music streams, `metadata/src/icy_reader.rs`, `server/src/server.rs` | bytes to the next metadata block; a byte range | read; answer a request | reads cut anywhere; ranges at the ends of a file |
| Settings and volume, `config/src/lib.rs`, `server/src/system_commands.rs`, `hardware/src/audio_device/*` | cached settings, settings file, volume, volume before mute | save, set, up, down, mute | read-modify-write by several tasks and pages |
| Network storage, `server/src/{storage_commands,mount_service_linux}.rs` | mounts, music directories | mount, unmount, save, remove | two lists kept together |
| Command loop and web server, `server/src/{command_handler,server}.rs` | channels, rings | take, handle, fan out | bounded channels, lagging receivers |
| Web interface, `web-ui/` | copy of the state, trees, audio element | connect, dispatch, every button and key | reconnection; optimistic edits; answers without an id; effects in no fixed order |
| USB link, `hardware/src/usb/mod.rs` | port, last song and mode | write, reopen, replay | unplugging and switching off while events arrive |
| Codecs, endpoint and mDNS, wire and model types, desktop window | none others rely on | parse, display, connect | outside this project |

How they interact:

- The command handler calls the queue and the player; loading a list stops the
  thread, replaces the queue and starts a thread.
- The playback thread reads the current song from the queue, decodes it and moves
  the queue on. It looks at the stop signal and the skip position once per packet.
- The decode loop opens an output, which builds the equaliser for its rate; the command
  thread may put another one in the same slot at any time. The device's callback
  empties the ring that the decode loop fills.
- Every state the player reports goes through the event channel. The task that
  stores the pause flag and the position is one of the channel's receivers, so it
  stores them some time after the fact. The control loop of a grouped follower
  reports the *leader's* song and position on the same channel.
- The tasks of the WebSocket connections and the USB link are receivers of the same
  channel or of one fed from it. A page asks for what it missed when it connects;
  the USB link replays what it kept.
- The multiroom service stops the player when a leader takes the instance over,
  and sets two flags that other threads read: "a follower is active" (the command
  handler drops transport commands) and "the tee is active" (the decode loop copies
  samples into a channel). A third one, "busy", is read by its own accept tasks.
- The tee feeds ingestion, which broadcasts chunks to one writer task per
  follower. A writer announces a session on the control stream and writes its chunks
  to a stream of that session; the follower joins the two by the session's id.
- Settings are a value that is read, changed and saved whole by the user command task,
  the system command task, the HTTP endpoint and, as a copy of its own, every open
  settings page.

## Modules

### Queue, PlayOrder, QueueOrder, QueueListening, QueueRace, QueueProofs

`Queue` is `QueueService`, one action per method that changes state. Songs sit
under increasing integer keys (`songs`), as `generate_id` pads its numbers so that
the order of the byte strings is that of the numbers. `current`, `priority`, `mode`
and `reserved` are the entries the code keeps on disk; `nextId`, `played`, `history`
and `historyIndex` are in memory and gone after `Restart`. `MoveToNext` is
`move_current_to_next_song` with its three branches: the priority list, a random
pick, the next key. `Reorder` follows `move_item_by_index`, which leaves the keys
in place and shifts the songs beneath them. `CrashWhileAdding` ends the process
between issuing an id and storing the song.

`PlayOrder` is what a queue promises: a list and a position in it, on a song or,
when that song was removed, between two. `QueueOrder` maps the keys to that list.

`QueueListening` adds what a listener remembers, the songs heard since random mode
started over and the song last asked to play next, to say what the two features
promise. `QueueProofs` has the theorems.

In `Queue` a call is one step. `QueueRace` takes the calls apart into their reads and
writes of the store, which no lock holds together, and lets the playback thread move the
queue on (`SongEnds` to `ReadSong`, from one song to the next) while the command handler
adds, removes and moves songs. `wanted` records which songs were asked to play next and not
yet taken, removed or shifted. Commands that stop the thread wait for its end and are left
out, as is random mode, and the mode does not change.

### Player, PlayerProofs

`PlayerService` shared by four parties. A request is the sequence of calls the code
makes (`LoadCalls` is stop, take the handle, join, remove the pause flag, spawn, store
the handle), worked off step by step by the command handler or the multiroom loop, and
between any two calls the playback thread (`ThreadStep`), the storing task
(`StoreEvent`) and the other party may move. A grain finer than that would not matter: each
call is one access to a lock, an atomic or a file, or waits for a thread. `crossed` records
the actors whose stop another's start has lowered again before they had waited for it.
Simplifications: the queue is a plain list; a file plays or fails when it is
opened, a failure in the middle of a song counts as one at its start; a stream that
cannot seek is left out; event slots are used by playback's own events only.

### MultiroomGroup, GroupLease, GroupProofs

The sync service of several instances. `HandleEvent` is one round of the main
loop; `AddToGroup`, `RemoveFromGroup` and `LeaveGroup` are its commands; `Accept`,
`AnnounceLeader`, `AckFails`, `LeaderEnds` are the accept task of a follower,
`Connected`, `DialFails`, `FollowerEnds` the dial task of a leader. `Crash` ends an
instance with its tasks and connections, `Loss` a connection. A room may be added again at
any time, by the same page or another browser; `hasty` records that it was while an earlier
dial to it was under way. The peer table and the
protocol version are left out: they decide which rooms are offered for grouping.

`GroupLease` is the promise to a follower: one leader connection at a time, a new one
only after the old one was let go, and none twice.

### AudioStream, StreamProofs

Audio from the decode loop of a leader to the sinks of one follower. `tee`, `feed`
and `backlog` are the three bounded channels: the tee refuses, the broadcast
channel loses its oldest, the sink's backlog refuses. `control` is the control
stream, `audio[s]` the stream of session `s`. `handler[s]` is the task
`handle_audio_stream` with its stages: waiting for the start, waiting for the clock,
sink started, sink in the map, draining. Time is left out; a time-out may happen
whenever what it waits for has not. A chunk carries the position it was decoded at
and the stamp the tee computed, to say that losses shift nothing. Timeline
corrections and song progress are left out.

### Library, LibraryProofs

The scans of `MetadataService` and the two keyspaces they write. `songs` gives a key
its album, `albums` an album its `song_keys`, where an album without entry has none.
`disk` and `mounted` are the music directories as a walk meets them: a file has a tag,
cannot be parsed, or is absent, and a directory may be unmounted (`Edit`, `Remount`).
`RescanMetadata` starts a thread (`Request`), and `scan[t]` is how far it is in
`scan_music_dir`: the load and the store of `scan_running` (`Check`, `Mark`), the
emptying of the keyspaces by a full scan (`DropSongs`, `DropAlbums`), the two passes of
`get_diff` (`Walk`, `Compare`), then for each new file the song (`SaveSong`, or `Skip`)
and the read and write of its album (`AddRead`, `AddWrite`), then, in an incremental
scan, for each song not met the look-up (`TakeOff`), its album (`RemoveWrite`) and the
song (`Delete`). A disc image stores its tracks one by one. `Start` is
`MetadataService::new` with the one-time clean-up of the albums of older versions;
`Crash` ends the process and keeps what was written. `torn`, `sound` and `scan[t].clean`
only record what happened to scans, so that a property can say when it is promised.
Tags other than the album, artwork, queries, likes and playing counts are left out, as
are directories inside directories and files of the same name in two directories, which
share a key (see the end).

### Output, OutputProofs

One playback thread from `play_all_in_queue` down to the device. `Tries` is the ladder of
`AudioOutput::new`: what it opens for a song, rate by rate and buffer size by buffer
size, with the fallbacks for devices that claim a range; `Opens`, `Accepted` and
`Refused` are the device's answers. `WritePacket` and `PushPart` fill the ring,
`Play` is the callback, `Drained` and `Closes` end a song; `Error` counts towards the
threshold at which the output counts as broken. `Rebuild`, `PutSlot` and `RaiseFlag` are
the playback thread's side of the equaliser hand-over, `SetFilters` to `SetFlag` the
command thread's; `Swapped` is the take-over at a packet. Samples are counted, not kept;
a rate stands for rate and channels; `spoiled` records that an update met one of the three
situations in which it is known to go wrong (see the end).

### Settings, SettingsProofs

The settings as one value in two places, `cache` and `stored`. Each writer is a small
machine of read, change, write the cache, write the disk, between whose steps the
others move: `system` (volume, mute, on five kinds of device), `user` (equaliser,
shares) and the posts of the pages, each of which holds the copy it fetched and posts it
whole (`AutoSave`, `Confirm`, ...). A press of mute, the keys and the panel's knob
follow the code of each device. What is sent to a volume control in the firmware is lost when
the panel is unplugged or does not take it (`Sent`, `Lost`). A path typed on the page may be
any, a share's too, and a line is there as often as it was typed. `GetSettings` fills the
cache with what the server finds out about itself (`probed`) and does not store it; `Chosen`
is the rest. `crossed`, `lost`, `slipped` and `missed` record overlapping saves,
older copies saved over newer ones, a page that took away the line of a share by hand, and a
level the firmware was not given. The mixers of ALSA and PipeWire belong to the desktop:
calls to them succeed and nobody else turns them, so that `VolumeKept` is claimed for
the software and the firmware only. Settings of old versions (`music_directory`) and two shares
with one mount name are left out.

### ClockOffset, SyncSink

`AddSample` is `add_sample`: the window, the best of it by round trip, their median, the
smoothing; a datagram takes any of the `Delays` or is lost. `HandleChunk` is
`handle_chunk` on an error in ticks: filter, warm-up and cool-down, streak, hard
correction (`Correct`) or stretching (`Stretched`), and `Callback` is the output's
filter for the latency its driver reports. A `Jolt` is what else may move the error.

### WebLink, LibraryTree, FrontPanel, BrowserAudio, WebProofs

What shows the server's state. `WebLink` has the connection of each browser (`Open` with
its queries, `DialFails`, `Close`), the tasks and channels of the server from `TakeCommand`
over `HandleUser` and `HandleSystem` to `Forward`, and on the page `Dispatched` with
the buttons, keys and rows that send commands, some of which change the page at once
(`RemoveItem`). Volume is set, turned up and down and muted by pages and keys, and turned by
the slider; `lastTold` is what was announced last, and `silent` says that it is not what
sounds. The firmware's volume, changes of a mixer from outside and the Focus button of the
queue page (`page/queue.rs:93`) are left out. Its queue counts how often each song is queued.
`LibraryTree` is the tree of the files and artists pages: `Toggle`, the searches, and
`Fill`, which files an answer under the node asked for last. The socket may be lost and opened
again, which asks anew, and answers to other browsers come to the page as well (`Disconnected`,
`Reconnected`, `Overheard`); `strayed` records that one of those, or of questions asked
before an earlier one was answered, may have gone to a wrong row. `FrontPanel` is the display on the USB
port with the task that writes and keeps (`Drain`, `Keep`, `Write`) and the thread that
reads, reopens and replays (`Reconnect`, `SwitchedOn`, `Replay`). A write may time out, and
nobody learns of it (`unheard`). `BrowserAudio` is playback
in the pages: the news of the server, the two effects and the listeners of the audio
element, with whatever order the browser runs them in. Each new source starts a timer that
lowers the guard against pauses, and timers end in the order they were started (`ChangeOver`);
the events of a source come before its own timer ends. `WebProofs` has the theorems of all four.

### Playlists, LoudnessScan, MediaReaders

`Playlists` keeps the keys as sequences of bytes, since prefix and order are the point;
`Radix` makes ten digits few. A save is a removal and one insertion per song (`saving`),
and may be cut short. `LoudnessScan` has the thread that collects, the pool that measures
in steps, and playback, rescans, mounts and restarts as the outside. `MediaReaders`
has `IcyReader::read` on bodies with metadata blocks, cut at will, and `parse_range` and
`serve_music` with an audio element that asks on from where it is.

## Runs

The properties a run names are those of its configuration. Several are conjunctions of
parts that are stated and commented one by one in the module.

| run | instance | shows |
|---|---|---|
| `queue` | 2 songs, 4 ids, blocks of 2, batches of 2; 3 queued songs, 2 commands, 2 songs that end | `ImplementsPlayOrder`: every call is a step of the list with a position, also across restarts and crashes. `IdsReserved`, `FreshKeys`: no key is issued twice. `ReorderKeepsSong`: a move keeps the position on its song. `RaceSound`: after an advance that overlaps commands the current key names the song that plays, a song asked to play next is in the priority list until it is taken, removed or shifted to another key by a move, and a queue that loops goes on; it excludes what "Seen while modelling" lists |
| `listening` | 3 songs, 4 ids, 3 random picks; 2 pages, 2 songs, 2 happenings | `PlayNextKept`: a song asked to play next does, if the request moved it. `NoRepeat`: random mode repeats nothing before the queue is exhausted, unless a song jumped the queue. `ListsSound`: the priority list has no key twice, and going back finds every pick. `InTune`: pages that play the songs themselves come to play the server's song, unless two sources came within the 200 ms of a timer |
| `player` | 2 lists, one with a broken file, 2 commands, 3 threads | `OneThread`; `StopRemembered`: a stop reaches the disk; `Responsive`: every command ends, and a broken file is given up |
| `player_two` | 1 list, 2 commands, 1 leader | *violated*: `OneThread` |
| `group` | 3 instances, 2 connections, one fault (a crash or a lost connection) | `RoomsAgree`: flags follow the role in every state, and leader and follower agree once nothing is under way, unless the room was added again while it was being dialled; `ImplementsLease`; `DeathReverts`: both ends let a dead connection go |
| `stream` | 2 sessions of 2 chunks, channels of 2, 2 and 1 | `HeardRight`: what is heard is in place and of its session whatever was dropped; `Reachable`: a sink can be stopped unless a handler holds it; `Silenced`: no sink plays on after its stream or its leader |
| `follower` | 1 list, 1 command, 1 leader, 2 threads | `Controlled`: while a leader takes the room over no thread plays that nobody holds or has told to stop, except one whose stop was crossed by a start |
| `room` | 8 exchanges of a clock; a sink with 5 onsets and 2 jolts | `KeepsTime`: what delays some datagrams never gets into the estimate, and no correction carries the sink past its time. `SinkSettles`: the sink comes in time, and stays |
| `library` | 3 files in 2 directories, one a disc image; 2 scan threads, 2 scans, one change or crash; 4 playlist names, 3 saves; 3 songs, 2 workers; bodies of 3 blocks, files of 0 to 5 bytes | `AlbumsInStep`: no album names a song that is gone, and between scans each song is in its album and no other. `ScanExact`: what an undisturbed scan leaves, whatever it started from. `ScanEnds`. `PlaylistKept`: what was saved is what is shown. `Analysed`: every song gets its measurement once playback stays stopped, once, and only what cannot be measured is written off. `PiecesFit`: no byte of a stream or a file is lost, doubled or foreign |
| `settings` | a share, an fstab mount, 2 devices, a panel that may be unplugged, 2 pages, 2 moves, 2 posts | `MountsAreSources`: every share is a directory, unless a page took its line away by hand. `Synced`: what was chosen is on disk, unless two saves overlapped. `VolumeKept`, `MuteRestores`: the level survives, unless an older copy was saved over a newer, or the firmware was not given it |
| `output` | 3 devices, songs of 2 packets, ring of 2, 2 songs, 1 update | `EqualiserFits`: what plays goes through the equaliser last set. `HeardOut`: a finished song was heard to the end. `EveryRateTried`: a song fails to open only when every rate was refused. `StopEnds` |
| `web` | 2 browsers, 2 songs, 2 acts, 1 lost connection, an ALSA mixer of levels 0 and 1; trees of 2 levels, 2 open questions, 6 steps; 2 announcements and 2 pulls of the panel | `InStep`, `PageFaithful`: a page comes to show the server's mode and queue and the volume announced last, which is the one there is unless the last change was a step. `Browsable`: library pages show what the server has and never abort, until an answer may have gone to a wrong row. `PanelShows`: so does the panel, but for writes that timed out. `Reconnects`: browsers and panel come back |

Composition. `MCQueue`, `MCLibrary`, `MCRoom`, `MCWeb` and `MCListening` run several modules side
by side: a variable `part`, set at the start, says which of them a behaviour is of, and
the others stand still in one initial state. The modules of a run share a topic and no
variable (`Queue` and `QueueRace` are two
grains of the same code, the sink meets the clock only in the error of a chunk, the pages of the web
interface meet each other only in the server's state), so nothing is lost by checking
them one at a time, and the product of their states is never built. Modules that do
interact are one module: player and storing task, tee and sinks, pages and server, songs
and albums, the two writers of an equaliser.

Bounds. A queue of four keys over two blocks has songs before, at and after the
current one, removed ones, a restart inside and at the end of a block, and every
relative order of the two songs of a move. Two commands and two songs that end fall between
any two steps of each other, around a current song at either end or in the middle.
Three threads are one more than two
commands can leave alive at once; two retries or positions more repeat the same
steps. Two connections among three instances are two leaders after one room, or one
leader and its room twice. Two sessions are a seek, with both streams under way. The
channels are shorter than what is sent through them, so that each overflows. The three
files share one album and one directory two by two, and the image has a track that
may be missing; two scans either overlap or the second finds what the first left, and
one change or crash falls between any two of their steps. The names of playlists are two
that stand apart, one that another begins with and one that reads like its item; a list
has more songs than digits. Blocks of metadata come with a title, with the same one, empty
and illegible, and reads end in each of them. A device claims a range, two rates, or is
fixed to one; its ring holds one packet and it takes one at a time, so that every push may
wait. Two pages and two moves are one writer overtaking another on either side of a
command. The sink's time constants are those of the code divided down, in the same order
of size; its onset is late, early, beyond and within each threshold. Two browsers are one
that edits and one whose connection is lost; the mixer of two levels has a step that ends at
0, one that ends at the top and one that changes nothing. The tree has the steps it takes to open, search
and open again, or to lose the socket in between. Two happenings are the end of a song in both pages, or a pause
and what follows it.
`MaxId`, `MaxHistory`, `MaxCommands`, `MaxConn` and the like bound counters and are
marked `bound` where they are declared. Deadlock is not checked: each model stops when
its bounds are used up, and a player or a group at rest is a legal end.

Fairness. Tasks of the runtime and threads of the operating system run: the storing
task, a playback thread that is not told to wait, an actor whose call can be made,
the main loop and the connection tasks, the control loop, the handlers, the sinks, the
scans, the pool that measures, the command loops, the tasks of WebSocket connections and
the thread that reads the USB port. The playback thread of `Output` needs no device that
takes anything: its waits have time limits. A browser whose connection may be lost dials
again every three seconds (`web-ui/hooks/use_websocket.rs:97, 117`), and one of its attempts succeeds in the end; a
panel that is plugged in can be opened. No request, failure, time-out of the network,
leader, rescan, user or restart is owed: those actions have no fairness. `Sync` has none
either, as probes may be lost forever.

## Proofs

The proofs hold for every value of the constants, the bounds included, under the named
assumptions of the modules. Each of them names an inductive invariant, shows that the
initial states have it and every action keeps it, one lemma per action or group of
actions, and derives the property. Most of the effort is in the invariants, which were put
to TLC on the runs' instances, and larger ones, before they were proved.

| theorem | states |
|---|---|
| `QueueProofs`: `TypeCorrect`, `Reserved`, `Fresh` | `Spec => []TypeOK`, `[]IdsReserved`, `FreshKeys` |
| `QueueProofs`: `ListsKept`, `Reordered` | `Spec => []ListsSound`, `ReorderKeepsSong` |
| `QueueProofs`: `PlayOrderKept`, `Raced` | `Spec => ImplementsPlayOrder`, `RaceSpec => []RaceSound` |
| `QueueProofs`: `PlaysNextKept`, `NothingRepeats` | `ListenSpec => []PlayNextKept`, `NoRepeat` |
| `GroupProofs`: `Flags`, `Rooms`, `OneLeader` | `Spec => []FlagsMatchRole`, `[]RoomsAgree`, `ImplementsLease` |
| `StreamProofs`: `Heard`, `Stoppable` | `Spec => []HeardRight`, `[]Reachable` |
| `PlayerProofs`: `InControl`, `OneAtMost`, `Remembers` | `Spec => []Controlled`, and without a leader `[]OneThread`, `[]StopRemembered` |
| `OutputProofs`: `EqualiserKept`, `SongsHeardOut`, `AllRatesTried` | `Spec => []EqualiserFits`, `[]HeardOut`, `[]EveryRateTried` |
| `SettingsProofs`: `SharesListed`, `DiskAgrees`, `VolumeStays`, `MuteReturns` | `Spec => []MountsAreSources`, `[]Synced`, `[]VolumeKept`, `MuteRestores` |
| `LibraryProofs`: `Catalogue`, `Scanned` | `Spec => []AlbumsInStep`, `[]ScanExact` |
| `LibraryProofs`: `FewWrittenOff`, `EntriesStay` | `LoudnessSpec => []WrittenOff`, `MeasuredOnce`: the parts of `Analysed` that are safety |
| `WebProofs`: `PagesInStep`, `QueuePageFaithful` | `LinkSpec => []InStep`, `[]PageFaithful` |
| `WebProofs`: `PanelIsShown`, `PagesInTune` | `PanelSpec => []PanelShows`, `AudioSpec => []InTune` |
| `WebProofs`: `PagesBrowse` | `PageSpec => []Browsable` |

In each module `Invariant` (in `QueueProofs` also `ListenInvariant` and `HeardIsPlayed`, in
`WebProofs` one per component) is the inductive invariant as a theorem.

*Queue*, from `QueueAssumption` (a block is not empty, the absent key is no number). The
invariant is `TypeOK /\ IdsReserved`. `IdsReserved` is inductive only because it speaks of
all keys mentioned and not of the queue's alone: after a removal the current key or an
entry of the priority list may be the greatest key left, and an id issued anew would make
it point to the wrong song. The proof splits the actions into those that issue ids
(`ReservationFacts`: rounding up to the block passes every id issued), those that pass
keys on (`KeyStepKeepsIInv`: what is mentioned afterwards was mentioned before or issued
now) and those that reorder (`ReorderFacts`: the keys stay). `ListsSound` is inductive
beside it: new keys are in no list, and `Without` takes an entry out before it is put in
front (`PushFrontOnce`). For `ReorderKeepsSong`, `Source` says where a song comes from;
it and `NewPosition` undo each other (`SourceOfPosition`, `PositionOfSource`), because the
neighbour of a neighbour is the song itself. So the entries of a song before and after are
matched one to one, and there are as many of them; and no other action changes songs under
keys that stay (`OnlyMovesShift`).

*The list the queue implements.* `Rank` counts the keys up to one, `Nth` is its inverse
(`RankFacts`, `NthFacts`: an injection of a finite set into as many places meets every
place), and the list is the queue in this order wherever the position is (`ListWhole`). So
a step that moves the position alone is `GoTo`. New keys are behind all others (`Fresh`),
so their songs come to the end (`BeyondGrows`); without a key the later ranks are one less
(`DropParts`); and the rank of the key whose song comes under `k` is where the element at
the rank of `k` was before one element moved (`RankOfSource`, `MoveOneFacts`).

*The queue and the playback thread.* A move writes the songs one by one, so that in between a
song may be in the queue twice or not at all. The invariant of `Raced` speaks of what will stand
under each key when the move is done (`Due`): no song is due twice (`DueOnce`), the song
that plays is due where the current key will be (`Placed`), and where a wanted song is due is
in every copy of the priority list that will be written back (`Listed`). Each action owes this
unless it makes one of the exceptions that `RaceSound` names come true.

*What a listener hears*, from `ListeningAssumption`. Every step of the listener is a call
of the queue, so that its invariant holds. `Asked`: the song asked for stands under the
first entry of the priority list that is queued; entries before it are of songs that are
gone. `Matching`: in random mode the keys heard and the keys the service takes for played
are the same, as far as they are queued and up to the current one, unless a song jumped the
queue. That needs `heard` to mention no key that may still be issued.

*Grouping*, from `GroupAssumption`. The invariant says of every connection that its hello is
told once and handled once, that its tasks end after it, and that whoever keeps a dead
connection, or has an event before it that will make it keep one, has an event behind that
which takes it away (`Alive`): without the second half a lost connection whose
`Connected` is still queued would be kept for good. `Single` adds, for a room that was never
added again while it was dialled (`Patient`), that there is one dial or connection to it
at a time, which is where `RoomsAgree` makes its exception. `OneLeader` shows that every step is a step of `GroupLease` or
leaves it as it is (`LeaseMoves`).

*Audio*, from `StreamAssumption`. `Line(s)` lists the seven places where chunks of a session can
be, from the sink back to the decoder. The invariant says that each place is in order and
that all of an earlier place come before all of a later one (`InOrder`), that each chunk
carries its own place in the song, and that only sessions that were begun have any. Every
step moves chunks one place on or drops some (`Flows`).

*Player*. What is left of a request is a list of calls. The invariant describes these
lists: who takes the handle waits for the thread, who starts a thread stores its handle at
once and last (`Linked`, `Proper`), and nobody comes to start one before the handle was taken
or found idle (`Prepared`). Who waits has the signal raised, or its stop was crossed
(`Controlled`). `OneThread` and
`StopRemembered` assume `~Grouping`: with a leader the first is false, as `player_two`
shows, and the leader's own events can push the stop out of the storing task's channel. For
`Remembers` a second invariant follows the stop through that channel.

*Output*, from `OutputAssumption`. `Ladder` is what a song's opening tries. `CandidatesFacts` shows
that the order of the fallback rates (`Sooner`) is total, so that each rate claimed has a place in it
(`PlaceTaken`, `FirstTaken`); `LadderFacts` that a rate is tried only after its equaliser was built
or after another attempt at it, and that what `play_file` adds comes after the first call. So when a
song has failed, the first call has been gone through (`Exhausted`), which is `EveryRateTried`. For
`EqualiserFits` the invariant speaks of the equaliser that plays or waits in the slot (`Latest`), from
the moment it is built for the output: its rate, settings, flag and gain fit, or an update under way is
at a step that will put it right (`Fits`); while the playback thread builds, the lock keeps the
command thread out of it (`Locked`). For `HeardOut` every sample written is heard, in the
ring or in the thread's hands (`Counted`), unless the song was cut.

*Settings*. Every copy of the settings that anybody holds, the server, a page or a post,
has its shares among its directories (`Sound`), for any of them may be saved next; there is
one writer at most between memory and disk, unless two were; only system commands change
a volume, and what memory will say when the command is over is what sounds (`Ahead`), unless
the firmware was not given it. No assumption keeps typed paths apart from those of shares: removing
a share takes all its lines (`Without`), and a copy that was sound before is sound after.

*Library*, from `LibraryAssumption`. `Placed` says what a scan holds at each stage, whatever
else runs. `Fit` says what it and the database owe each other, in four degrees: what it
read is what is there, if no other scan runs beside it (`Held`); albums name songs of their
own, unless `torn` (`Named`); every song but the one in hand is in its album, if all scans
were sound or this is a full one (`Filed`); what it knows of the disk is so, if it is undisturbed
(`Surveyed`), and for a full one what it has made of the library (`Rebuilt`). Two scans
at once can be trusted with none of it (`Alone`), so that a step of one owes the other
nothing (`ThreadKeeps`); and after the last one the database is as a scan that has not begun
would find it. The assumption says that files share no key, that the tracks of a disc
image have no album (`metadata_service.rs:562`), and that files are numbered in the order of
the walk, in which the new ones are taken from a set.

*Loudness*, from `LoudnessAssumption`. `LoudInv`: what is pending or with a worker has no
entry, no two workers are at one song, nor is it still pending, and the pool rests between two
batches. So `Measure` never meets an entry; that every song gets one (`AllAnalysed`) is liveness
and model-checked.

*Pages and the panel*. `LinkInv` says of a page that lacks the server's state what will
still bring it: an event or an answer on the way, a command that waits, or a query it has
still to send; nothing else is told to a page, and in their order. `PanelInv` says the same of
the panel and its cache. `AudioInv`: a page whose song is not the server's has its news before it
or was overruled, and a pause of an old source is still ahead only while the guard is up or a
timer was `early`. `TreeInv`: until the tree has `strayed`, at most one answer is
awaited, and it goes to the row that asked.

Not proved, and why. Liveness and refinement under fairness are out of the prover's reach
(`Responsive`, `ScanEnds`, `DeathReverts`, `Silenced`, `Reconnects` and the like). What
recursive functions and folds compute needs induction over data, which the provers cannot
do: the median and the window of `KeepsTime`, the pieces of `PiecesFit`, the order of
keys in `PlaylistKept`.

## Where the code and its descriptions differ

Shown by a run:

- *Two callers of stop* (`player_service.rs:251`): the multiroom loop holds the
  handle, the command handler finds none, lowers the signal and starts a second thread.

Seen while modelling. Queue and player:

- *Play next* on the following song (`queue_service.rs:519`) returns early and
  registers nothing; in random mode another song plays.
- The priority list holds keys, and a move shifts the songs under them
  (`queue_service.rs:519-528`): of two songs asked to play next the second may shift the first to a
  key in no list (`:144`), and it does not play next.
- A song played through the priority list is not entered in the random history
  (`queue_service.rs:152`), so `NoRepeat` excludes it; the first random pick leaves
  no entry to go back to (`:201`).
- The playback thread and a request to play a song next both rewrite the whole priority
  list (`queue_service.rs:142, 152`): if they overlap, the request may be lost or a song
  play twice.
- If the thread moves on while a song is moved, the move may leave the current key on
  another song than the one that plays, or put it back to the song before, which plays
  again (`queue_service.rs:554`, `:569`).
- If the next song is removed after the thread chose it and before it read it, playback
  ends, also in a queue that loops (`player_service.rs:337`).
- The position stored at the last exit is still to be skipped to when the first
  command loads another list (`player_service.rs:189`).
- A start that crosses a stop lowers the one signal there is (`player_service.rs:295`): who
  waits for the stopped thread then waits until that has played to the end of the queue.
- *Next while playing* (`player_service.rs:238`): the storing task may store the stop
  after the pause flag was removed, and the next song begins at the old position.
- A stop during the drain at a song's end moves the queue on (`symphonia.rs:392`):
  "next" then skips two.
- Load commands on a grouped follower start local playback
  (`queue_commands.rs:57`); after leaving, the leader's position is resumed
  (`sync/src/follower.rs:108`).

Multiroom:

- `LeaderGone` and `FollowerGone` name no connection (`sync/src/lib.rs:294`, `:284`): the
  refused of two leaders makes the follower leave the other, and a room that was added
  again may be dropped.
- *A room added twice* (`sync/src/lib.rs:397`): the second connection replaces
  the first in the table; the room stays with a leader that has forgotten it, against
  `docs/multiroom_architecture.md:46`. It takes a second click before the first answer
  (`page/player.rs:533-549` does not wait), or a second browser; `RoomsAgree` excepts the pair.
- One failed write (`sync/src/leader.rs:168`) ends the writer of a room for as long as
  it is in the group.
- A full tee drops the end of a session (`tee.rs:230`); a stop that comes while a
  handler opens its sink does not flush it (`follower.rs:235`); the stop after a
  song's natural end flushes a room that plays late (`leader.rs:175`).
- A first chunk that comes late is dropped alone, and the warm-up of 7 s holds back
  the correction of those behind it (`sync_sink.rs:289`).

Output:

- *An equaliser set while the output resamples* (`dsp_processor.rs:231`) is built for the
  rate and channels of the song, not of the output, against `docs/release_notes.md:1204`;
  `EqualiserFits` makes this exception (`spoiled.misfit`). Before the first
  `PlayerInfoEvent` an update switches filtering off; one that overlaps a `rebuild` may leave flag
  and gain of the song before. A follower's session plays with the gain of the last local song.
- The outer fallback of `play_file` (`symphonia.rs:279`) ends in `Err` even when a try
  succeeded. Its module comment (`:6`) says a change of format in the middle of a track
  reopens the output; no code does.
- The tail that the resampler holds at the end of a song is not flushed.

Library and stores:

- *Two scans at once* (`metadata_service.rs:284`): the flag that guards scans is read and
  set in two steps, and two requests in a row may both find it down. Their
  read-modify-writes of an album then lose songs. `ScanExact` and `AlbumsInStep` exclude
  overlapping scans.
- An incremental scan skips a directory that is not there, as it logs, and then deletes
  the songs that were in it (`metadata_service.rs:374`).
- A crash between a song and its album leaves the song out of the album, and a disc image
  interrupted between two tracks incomplete (`metadata_service.rs:420`): later incremental
  scans take both for scanned. Only a full scan mends them, as it alone notices new tags.
- A rescan asked for while one runs is dropped, although the disk may have changed behind
  the walk.
- Likes and playing counts are read and written by two threads
  (`metadata_service.rs:202`, `player_service.rs:342`); one may be lost.
- Saving a playlist removes the items of every playlist whose keys begin with its name
  (`playlist_service.rs:41`), and showing it shows them; item 10 sorts before item 2
  (`:50`); a save cut short leaves part of a list; an empty queue is not saved, and
  the notice says it was.
- A file that goes away or cannot be opened while it is measured is written off for
  ever (`loudness_service.rs:138`); an entry outlives its file; the playing flag is lowered by
  the end of an older thread while a newer one plays (`player_service.rs:477`);
  normalisation switched on later starts no measurement before a restart
  (`composition_root.rs:147`); nothing sets the `stop` of the service.
- The range `-0` underflows (`server.rs:444`): the model has the empty answer that wrapping
  gives, a build that checks arithmetic drops the request. A closed range beyond the end of a file is refused instead of
  clipped; a request without a range gets the first piece with status 200
  (`server.rs:506`). A file replaced between two pieces gives a mixture.

Settings and volume:

- Cache and disk may stay apart after overlapping saves, against the comment of
  `config/src/lib.rs:5`; so they do after `GET /api/settings`, which writes what it
  probes into the cache only (`server.rs:221-275`). The automatic save of a settings page restores volume and
  mounts of the time it was opened; a directory is removed by its index in a list that may
  have changed.
- The settings page takes any path as a directory (`page/settings.rs:1271`), that of a share too,
  and again if it is listed already; when such a line is then removed while the share is saved
  elsewhere, the share is left without a directory. A question answered after the list
  has become shorter aborts the page (`:203`).
- A level that the panel does not take is saved and announced all the same, at start-up too
  (`rsp_firmware.rs:23-36`, `hardware/src/usb/mod.rs:61-68`).
- Firmware volume reads as 0: the toggle always goes to half of the maximum, the query
  announces 0. Turning down to 0 is neither saved nor announced
  (`server/src/system_commands.rs:63-70`), so pages keep the level before; an ALSA mixer
  announces the level before each step.
- A mount that failed is saved by the settings page all the same; `Remove` ignores a
  failed unmount.

Web interface and panel:

- The end of the queue is announced to nobody: pages go on showing "playing". After a
  reconnection a stopped server may still be shown playing.
- Fetches that answer late put an older cover, lyrics or list of stations over the newer one
  (`web-ui/main.rs:255`, `web-ui/page/player.rs:91`).
- Removing a song that is queued twice takes all its rows off the page and one entry out of
  the queue; an older page of the queue undoes a removal; editors do not see each other's
  changes, and the answers to one go to all.
- Library pages: a reconnection runs the query of the page again (`library_files.rs:82-92`,
  `library_artists.rs:72-79`), and its answer comes under the row expanded last, or the
  page aborts if that row is gone. The same happens with two queries under way, and when another
  browser opens the library, for answers go to all (`metadata_commands.rs:25`). Editing
  the search field of the files page after a directory was opened does the same. What a search
  finds is opened at the top of the tree with its prefix lost.
- Playback in the browser: every open page sends `Next` at the end of a song, so that two
  pages skip one; the last song of the queue repeats; a page that opens and asks for
  the song restarts it in all pages, and starts it at a server at rest; play after pause
  begins from the start. Two new sources within 200 ms may leave a page paused: the first one's timer
  lowers the guard of the second (`page/player.rs:619-624`).
- A write to the panel that times out is ignored (`hardware/src/usb/mod.rs:63`, `:77`, `:127`);
  the panel shows the older state until something is announced again.
- `resync_state` (`hardware/src/usb/mod.rs:120`, "Idempotent") keeps again what it read: an
  event handled meanwhile can be overwritten by an older one.

## Not modelled, and the plan

Not to be modelled: codecs, tags, sample formats, filters and resampling (arithmetic
on samples), mDNS and the QUIC endpoint (libraries), other HTTP routes and TLS, the desktop
window, what mount helpers do with their arguments, the drawing of meters, the pages of
statistics, stations and lyrics (they fetch and show).

Of modelled components the following is left out: the ageing of a latency report and the
fade after a splice in the sink, timeline corrections and song progress of a session, tags
other than the album, likes and playing counts, the order of the queue in `WebLink`.

Next:

1. Likes and playing counts, written by two threads.
2. Proofs: what is left needs induction over data.
