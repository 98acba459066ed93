------------------------------ MODULE FrontPanel ------------------------------
(***************************************************************************)
(* The display of a front panel on the USB port                            *)
(* (src/crates/hardware/src/usb/mod.rs). A task of its own writes the song *)
(* and the mode that are announced to the port and keeps them; the thread  *)
(* that reads the panel's messages opens the port again when the panel was *)
(* unplugged, and replays what is kept. Progress and level meter, which    *)
(* are sent again all the time, and the volume (Settings) are left out.    *)
(***************************************************************************)
EXTENDS Integers, Sequences

CONSTANTS
  Title,       \* songs and modes that may be announced
  PanelSlots,  \* events the task may lag behind; 64 in the code
  MaxNews,     \* bound: announcements
  MaxPulls     \* bound: times the panel is unplugged or switched on

ASSUME PanelAssumption ==
  PanelSlots \in Nat \ {0} /\ MaxNews \in Nat /\ MaxPulls \in Nat /\ "" \notin Title

VARIABLES
  latest,   \* what was announced last
  news,     \* events the task has not received
  missed,   \* it has lagged and skipped some
  batch,    \* events it has drained from the channel
  writing,  \* message it is about to write
  kept,     \* last_song_cache and last_playback_mode_cache
  plugged, panel, power, \* the panel: its display, messages that it was switched on
  port,     \* the service's handle: of the panel, of one that is gone, or none
  reader,   \* the reading thread
  replay,   \* where it is in resync_state
  carried,  \* what it has read there
  crossed,  \* history: an event was handled during a replay
  unheard,  \* history: what the panel, though there, did not take in time
  told, pulls

panelVars == <<latest, news, missed, batch, writing, kept, plugged, panel, power,
               port, reader, replay, carried, crossed, unheard, told, pulls>>

channel == <<latest, news, missed, told>>
device  == <<plugged, power, pulls>>
resync  == <<replay, carried>>

Sides  == {"song", "mode"}
Dark   == [x \in Sides |-> ""]
Stages == {"Off", "ReadSong", "KeepSong", "WriteSong", "ReadMode", "WriteMode"}
Calm   == replay = "Off" \* no replay is under way
News   == [on : Sides, value : Title]

\* The port is opened, if the panel is there, before the threads start.
PanelInit ==
  /\ latest = Dark /\ news = <<>> /\ missed = FALSE /\ batch = <<>> /\ writing = <<>>
  /\ kept = Dark /\ panel = Dark /\ power = 0 /\ Calm /\ crossed = FALSE
  /\ carried = "" /\ unheard = {}
  /\ plugged \in BOOLEAN
  /\ port = (IF plugged THEN "Live" ELSE "None") /\ reader = (IF plugged THEN "Read" ELSE "Sleep")
  /\ told = 0 /\ pulls = 0

-----------------------------------------------------------------------------
(* The task that writes.                                                   *)

Announce ==
  /\ told < MaxNews /\ told' = told + 1
  /\ \E n \in News :
       LET all == Append(news, n)
       IN /\ latest' = [latest EXCEPT ![n.on] = n.value]
          /\ news' = IF Len(all) > PanelSlots THEN Tail(all) ELSE all
          /\ missed' = (missed \/ Len(all) > PanelSlots)
  /\ UNCHANGED <<batch, writing, kept, device, panel, unheard, port, reader, resync, crossed>>

\* UsbService::send: without a port, or to a panel that is gone, it fails; and so it may
\* after the second that the port grants a write. Nobody looks at the result.
Write(x, v) ==
  \/ /\ panel' = IF port = "Live" THEN [panel EXCEPT ![x] = v] ELSE panel
     /\ unheard' = unheard \ {x}
  \/ port = "Live" /\ panel' = panel /\ unheard' = unheard \cup {x}

Drain ==
  /\ batch = <<>> /\ writing = <<>> /\ news # <<>>
  /\ batch' = news /\ news' = <<>>
  /\ UNCHANGED <<latest, missed, told, writing, kept, device, panel, unheard, port, reader, resync, crossed>>

\* Mutant: what cannot be sent is not kept.
KeepIfSent(n) == IF port = "Live" THEN [kept EXCEPT ![n.on] = n.value] ELSE kept

Keep(n) == [kept EXCEPT ![n.on] = n.value]

KeepNews ==
  /\ writing = <<>> /\ batch # <<>>
  /\ kept' = Keep(Head(batch))
  /\ writing' = <<Head(batch)>> /\ batch' = Tail(batch)
  /\ crossed' = (crossed \/ ~Calm)
  /\ UNCHANGED <<channel, device, panel, unheard, port, reader, resync>>

WriteNews ==
  /\ writing # <<>>
  /\ Write(Head(writing).on, Head(writing).value) /\ writing' = <<>>
  /\ UNCHANGED <<channel, batch, kept, device, port, reader, resync, crossed>>

-----------------------------------------------------------------------------
(* The thread that reads.                                                  *)

Reading == UNCHANGED <<channel, batch, writing, device, crossed>>

\* Mutant: the handle of the panel that is gone is left where it is.
ForgetsToClear ==
  /\ reader = "Read" /\ Calm /\ port = "Dead"
  /\ reader' = "Read"
  /\ UNCHANGED <<kept, panel, unheard, port, resync>> /\ Reading

\* The port reports an error or the end.
ConnectionLost ==
  /\ reader = "Read" /\ Calm /\ port = "Dead"
  /\ port' = "None" /\ reader' = "Sleep"
  /\ UNCHANGED <<kept, panel, unheard, resync>> /\ Reading

\* try_reconnect after two seconds; without a panel it fails, and the thread
\* sleeps again.
Reconnect ==
  /\ reader = "Sleep" /\ plugged
  /\ port' = "Live" /\ reader' = "Read" /\ replay' = "ReadSong" /\ carried' = ""
  /\ UNCHANGED <<kept, panel, unheard>> /\ Reading

SwitchedOn ==
  /\ reader = "Read" /\ Calm /\ port = "Live" /\ power > 0
  /\ power' = power - 1
  /\ replay' = "ReadSong" /\ carried' = ""
  /\ UNCHANGED <<channel, batch, writing, kept, plugged, pulls, panel, unheard, port, reader, crossed>>

\* resync_state. What it reads is kept again before it is written.
Replay ==
  /\ Reading /\ UNCHANGED <<port, reader>>
  /\ \/ /\ replay = "ReadSong" /\ carried' = kept["song"]
        /\ replay' = IF carried' = "" THEN "ReadMode" ELSE "KeepSong"
        /\ UNCHANGED <<kept, panel, unheard>>
     \/ /\ replay = "KeepSong" /\ replay' = "WriteSong"
        /\ kept' = [kept EXCEPT !["song"] = carried]
        /\ UNCHANGED <<carried, panel, unheard>>
     \/ /\ replay = "WriteSong" /\ replay' = "ReadMode" /\ carried' = ""
        /\ Write("song", carried)
        /\ UNCHANGED kept
     \/ /\ replay = "ReadMode" /\ carried' = kept["mode"]
        /\ replay' = IF carried' = "" THEN "Off" ELSE "WriteMode"
        /\ UNCHANGED <<kept, panel, unheard>>
     \/ /\ replay = "WriteMode" /\ replay' = "Off" /\ carried' = ""
        /\ Write("mode", carried)
        /\ UNCHANGED kept

-----------------------------------------------------------------------------
(* The panel.                                                              *)

Pull == pulls < MaxPulls /\ pulls' = pulls + 1

Unplug ==
  /\ plugged /\ Pull
  /\ plugged' = FALSE /\ panel' = Dark /\ power' = 0
  /\ port' = IF port = "Live" THEN "Dead" ELSE port
  /\ UNCHANGED <<channel, batch, writing, kept, reader, resync, crossed, unheard>>

Plug ==
  /\ ~plugged /\ plugged' = TRUE
  /\ UNCHANGED <<channel, batch, writing, kept, panel, unheard, power, pulls, port, reader, resync, crossed>>

\* It is switched off and on, and says so.
PowerUp ==
  /\ plugged /\ Pull
  /\ panel' = Dark /\ power' = power + 1
  /\ UNCHANGED <<channel, batch, writing, kept, plugged, port, reader, resync, crossed, unheard>>

PanelNext ==
  \/ Announce \/ Drain \/ KeepNews \/ WriteNews
  \/ ConnectionLost \/ Reconnect \/ SwitchedOn \/ Replay
  \/ Unplug \/ Plug \/ PowerUp

PanelSpec == PanelInit /\ [][PanelNext]_panelVars

-----------------------------------------------------------------------------
(* Properties.                                                             *)

PanelTypeOK ==
  /\ port \in {"None", "Live", "Dead"} /\ reader \in {"Read", "Sleep"}
  /\ port = "Live" => plugged /\ reader = "Read"
  /\ power \in Nat /\ Len(news) <= PanelSlots

PanelQuiet ==
  /\ port = "Live" /\ Calm /\ power = 0 /\ ~missed
  /\ news = <<>> /\ batch = <<>> /\ writing = <<>>

\* Once nothing is under way a panel that was unplugged, or switched off, shows a
\* song and a mode if there were any, and the last ones unless an event came
\* while older ones were replayed; each but for what it did not take in time and was
\* not written again.
PanelShows ==
  PanelQuiet => \A x \in Sides \ unheard :
                  /\ latest[x] # "" => panel[x] # ""
                  /\ ~crossed => panel[x] = latest[x]

\* The service finds a panel that is plugged in again.
PanelReturns == []<>(plugged => port = "Live" /\ Calm)
=============================================================================
