------------------------------ MODULE Settings ------------------------------
(***************************************************************************)
(* The settings of the server, one value cached in memory and stored whole *)
(* (src/crates/config/src/lib.rs), and who rewrites it: the task of system *)
(* commands with volume and mute (src/crates/server/src/                   *)
(* system_commands.rs, src/crates/hardware/src/audio_device), the task of  *)
(* user commands with equaliser and network storage (storage_commands.rs,  *)
(* mount_service_linux.rs), and the settings page of a browser             *)
(* (src/web-ui/src/page/settings.rs), which edits a copy it fetched and    *)
(* posts it whole.                                                         *)
(*                                                                         *)
(* Each of them reads the cache, changes its copy, writes the cache and    *)
(* then the disk: four steps, between which the others move.               *)
(***************************************************************************)
EXTENDS Integers, FiniteSets, Sequences, SequencesExt

CONSTANTS
  Share,       \* network shares mounted below /mnt/rsplayer
  External,    \* shares that fstab mounts elsewhere
  Local,       \* other music directories
  Devices,     \* kinds of volume control this machine may have
  Page,        \* browsers with the settings page
  MaxLevel,    \* the loudest level of the device
  MaxMoves,    \* bound: commands, edits and restarts
  MaxPosts     \* bound: posts of the page under way

ASSUME SettingsAssumption ==
  /\ MaxLevel \in Nat \ {0} /\ MaxMoves \in Nat /\ MaxPosts \in Nat \ {0}
  /\ Devices \subseteq {"Software", "Alsa", "Pipewire", "Firmware", "Off"}
  /\ IsFiniteSet(Share) /\ IsFiniteSet(External) /\ IsFiniteSet(Local)
  /\ Share \cap External = {}

VARIABLES
  device,      \* the volume control, chosen at start-up
  level,       \* the level it has
  reports,     \* levels the firmware has reported and nobody has read
  plugged,     \* the panel with the firmware is plugged in
  cache,       \* the settings in memory
  stored,      \* the settings on disk
  mounted,     \* shares that are mounted
  system,      \* the task of system commands
  commands,    \* commands for the task of user commands
  user,        \* that task
  page,        \* what each browser shows
  posts,       \* settings posted and not answered
  shown,       \* the level announced last by this process
  moves,       \* commands, edits and restarts so far
  mutedAt,     \* the level the last volume command muted, if it did
  lost,        \* a volume was overwritten by a copy made before it
  crossed,     \* two writers were between cache and disk at once
  slipped,     \* a page took away the line of a share by hand
  missed       \* a level was not given to the firmware, and no report came since

settings == <<cache, stored>>
sound    == <<device, level, reports, plugged>>
ghosts   == <<mutedAt, lost, crossed, slipped, missed>>
vars == <<device, level, reports, plugged, cache, stored, mounted, system, commands, user,
          page, posts, shown, moves, mutedAt, lost, crossed, slipped, missed>>

NoLevel == -1
Level   == 0..MaxLevel
Mount   == Share \cup External
Asked   == 0..(MaxLevel + 1)
Saved   == {NoLevel} \cup Asked

\* probed stands for what the server fills in when it is asked for the settings:
\* version, mode, cards and mixer, kinds of volume control.
Setting == [volume : Saved, before : Saved, dsp : BOOLEAN, other : BOOLEAN,
            mounts : SUBSET Mount, dirs : Seq(Mount \cup Local), probed : BOOLEAN]
Command == [do : {"Dsp"}, on : BOOLEAN] \cup [do : {"Query"}]
             \cup [do : {"Mount", "Unmount", "Remove", "SaveExternal"}, share : Mount]
Post    == [at : {"Cache", "Disk"}, new : Setting, base : Setting, from : Page, id : Nat]

First == [volume |-> NoLevel, before |-> NoLevel, dsp |-> FALSE, other |-> FALSE,
          mounts |-> {}, dirs |-> <<>>, probed |-> FALSE]

Chosen(s) == [s EXCEPT !.probed = FALSE]     \* all but what is filled in

IdleSystem == [at |-> "Idle", new |-> First, base |-> First, show |-> NoLevel]
IdleUser   == [at |-> "Idle", new |-> First, base |-> First, refresh |-> FALSE]
Shows(s)   == [loaded |-> TRUE, copy |-> s, base |-> s, asked |-> FALSE, click |-> 0]

TypeOK ==
  /\ device \in Devices /\ level \in Level /\ reports \in Seq(Level)
  /\ cache \in Setting /\ stored \in Setting /\ mounted \in SUBSET Mount
  /\ system \in [at : {"Idle", "Cache", "Disk"}, new : Setting, base : Setting, show : Saved]
  /\ user \in [at : {"Idle", "Cache", "Disk"}, new : Setting, base : Setting,
               refresh : BOOLEAN]
  /\ commands \in Seq(Command) /\ posts \in SUBSET Post
  /\ page \in [Page -> [loaded : BOOLEAN, copy : Setting, base : Setting,
                         asked : BOOLEAN, click : Nat]]
  /\ shown \in Saved /\ moves \in 0..MaxMoves /\ mutedAt \in Saved
  /\ {plugged, lost, crossed, slipped, missed} \subseteq BOOLEAN

\* The settings are those of an earlier run, with or without a volume, and with any
\* path typed as a directory; the pages were opened before.
Init ==
  /\ device \in Devices
  /\ \E saved \in {NoLevel, 1}, typed \in SUBSET External : \E external \in SUBSET typed :
       /\ cache = [First EXCEPT !.volume = saved, !.mounts = Share \cup external,
                     !.dirs = SetToSeq(Share) \o SetToSeq(Local) \o SetToSeq(typed)]
       /\ level = IF saved = NoLevel THEN MaxLevel ELSE saved
  /\ stored = cache
  /\ mounted = cache.mounts
  /\ reports = <<>> /\ commands = <<>> /\ posts = {}
  /\ system = IdleSystem /\ user = IdleUser
  /\ page = [p \in Page |-> Shows(cache)]
  /\ shown = NoLevel /\ moves = 0
  /\ plugged = TRUE /\ mutedAt = NoLevel
  /\ lost = FALSE /\ crossed = FALSE /\ slipped = FALSE /\ missed = FALSE

Move == moves < MaxMoves /\ moves' = moves + 1

\* What a volume control does: set_vol, vol_up and vol_down, and what they return.
Clamp(v) == IF v > MaxLevel THEN MaxLevel ELSE v
UpOf     == Clamp(level + 1)
DownOf   == IF level = 0 THEN 0 ELSE level - 1

\* Mutant: the software control returns the level asked for.
ReturnedAsked(v) == IF device = "Off" THEN 0 ELSE v

\* The mixer returns the level asked for, the others the level set.
Returned(v) == IF device = "Off" THEN 0
               ELSE IF device \in {"Alsa", "Firmware"} THEN v ELSE Clamp(v)

\* The mixer returns the level before the step, the firmware answers later.
Stepped(v) == IF device = "Alsa" THEN level
              ELSE IF device \in {"Off", "Firmware"} THEN 0 ELSE v

Current == IF device \in {"Off", "Firmware"} THEN 0 ELSE level

\* What is sent to the firmware is lost when the panel is unplugged or does not take
\* it in time, and nobody is told: rsp_firmware.rs drops the error.
Sent == device # "Firmware" \/ plugged
Lost == device = "Firmware"

SetFrom(v, queue) ==
  /\ \/ /\ Sent
        /\ level' = IF device = "Off" THEN level ELSE v
        /\ reports' = IF device = "Firmware" THEN Append(queue, v) ELSE queue
        /\ missed' = FALSE
     \/ /\ Lost
        /\ level' = level /\ reports' = queue /\ missed' = TRUE
  /\ UNCHANGED <<device, plugged>>

SetTo(v) == SetFrom(v, reports)

\* What a question for the level brings: the firmware's report, if it gets through.
Answers == {<<>>} \cup (IF device = "Firmware" /\ plugged THEN {<<level>>} ELSE {})

-----------------------------------------------------------------------------
(* The writers of the settings.                                            *)

Volumes(s) == <<s.volume, s.before>>

\* Some writer is between cache and disk.
Midway == "Disk" \in {system.at, user.at} \cup {post.at : post \in posts}

\* save_settings: the cache ...
WriteCache(base, new) ==
  /\ cache' = new
  /\ lost' = (lost \/ (Volumes(base) # Volumes(cache) /\ Volumes(new) # Volumes(cache)))
  /\ crossed' = (crossed \/ Midway)
  /\ UNCHANGED <<stored, mutedAt, slipped, missed>>

\* Mutant: only the cache is written.
WriteNothing(new) == UNCHANGED settings

\* ... and then the disk.
WriteDisk(new) == stored' = new /\ UNCHANGED cache

-----------------------------------------------------------------------------
(* System commands, one at a time.                                         *)

\* The volume is changed, the settings read and changed.
Volume(new, show) ==
  /\ system' = [at |-> "Cache", new |-> new, base |-> cache, show |-> show]
  /\ UNCHANGED <<settings, mounted, commands, user, page, posts, shown, lost, crossed,
                 slipped>>

SetVol(v) ==
  /\ system.at = "Idle" /\ Move
  /\ device = "Alsa" => v \in Level    \* the page offers no other
  /\ SetTo(Clamp(v))
  /\ Volume([cache EXCEPT !.volume = v], Returned(v))
  /\ mutedAt' = NoLevel

\* Mutant: the level is not remembered when it is muted.
MuteForgets ==
  /\ system.at = "Idle" /\ Move /\ Current > 0
  /\ SetTo(0)
  /\ Volume(cache, Returned(0))
  /\ mutedAt' = level

\* ToggleMute on a device that sounds ...
Mute ==
  /\ system.at = "Idle" /\ Move /\ Current > 0
  /\ SetTo(0)
  /\ Volume([cache EXCEPT !.before = level], Returned(0))
  /\ mutedAt' = level

\* ... and on one that is silent, or does not tell.
Unmute ==
  LET restore == IF cache.before = NoLevel THEN MaxLevel \div 2 ELSE cache.before
  IN /\ system.at = "Idle" /\ Move /\ Current = 0
     /\ SetTo(Clamp(restore))
     /\ Volume([cache EXCEPT !.before = NoLevel, !.volume = restore], Returned(restore))
     /\ mutedAt' = NoLevel

\* VolUp, VolDown: a return of 0 is neither saved nor announced.
StepTo(v) ==
  /\ system.at = "Idle" /\ Move
  /\ SetTo(v)
  /\ IF Stepped(v) > 0
       THEN Volume([cache EXCEPT !.volume = Stepped(v)], Stepped(v))
       ELSE UNCHANGED <<settings, mounted, system, commands, user, page, posts, shown,
                        lost, crossed, slipped>>
  /\ mutedAt' = NoLevel
VolUp   == StepTo(UpOf)
VolDown == StepTo(DownOf)

\* Mutant: a report is announced only.
ReportShown ==
  /\ system.at = "Idle" /\ reports # <<>>
  /\ reports' = Tail(reports)
  /\ Volume(cache, Head(reports))
  /\ UNCHANGED <<device, level, plugged, moves, mutedAt, missed>>

\* The firmware reports a level, after a command or the turn of its knob.
ReportVolume ==
  /\ system.at = "Idle" /\ reports # <<>>
  /\ reports' = Tail(reports)
  /\ Volume([cache EXCEPT !.volume = Head(reports)], Head(reports))
  /\ UNCHANGED <<device, level, plugged, moves, mutedAt, missed>>

Knob ==
  /\ device = "Firmware" /\ plugged /\ Move
  /\ \E v \in Level \ {level} : level' = v /\ reports' = Append(reports, v)
  /\ missed' = FALSE
  /\ UNCHANGED <<device, plugged, settings, mounted, system, commands, user, page, posts,
                 shown, mutedAt, lost, crossed, slipped>>

\* The panel is unplugged, and the reports not yet read from it are lost ...
Unplug ==
  /\ device = "Firmware" /\ plugged /\ Move
  /\ plugged' = FALSE /\ missed' = TRUE
  /\ \E kept \in 0..Len(reports) : reports' = SubSeq(reports, 1, kept)
  /\ UNCHANGED <<device, level, settings, mounted, system, commands, user, page, posts,
                 shown, mutedAt, lost, crossed, slipped>>

\* ... and plugged in again, at any level, which resync_state asks for.
Plug ==
  /\ device = "Firmware" /\ ~plugged /\ Move
  /\ plugged' = TRUE
  /\ level' \in Level
  /\ \E heard \in {<<>>, <<level'>>} : /\ reports' = reports \o heard
                                      /\ missed' = (heard = <<>>)
  /\ UNCHANGED <<device, settings, mounted, system, commands, user, page, posts, shown,
                 mutedAt, lost, crossed, slipped>>

QueryCurrentVolume ==
  /\ system.at = "Idle" /\ Move
  /\ shown' = Current
  /\ \E heard \in Answers : /\ reports' = reports \o heard
                           /\ missed' = (missed /\ heard = <<>>)
  /\ UNCHANGED <<device, level, plugged, settings, mounted, system, commands, user, page,
                 posts, mutedAt, lost, crossed, slipped>>

SystemCaches ==
  /\ system.at = "Cache"
  /\ WriteCache(system.base, system.new)
  /\ system' = [system EXCEPT !.at = "Disk"]
  /\ UNCHANGED <<sound, mounted, commands, user, page, posts, shown, moves>>

SystemStores ==
  /\ system.at = "Disk"
  /\ WriteDisk(system.new)
  /\ system' = IdleSystem
  /\ shown' = system.show
  /\ UNCHANGED <<sound, mounted, commands, user, page, posts, moves, ghosts>>

-----------------------------------------------------------------------------
(* User commands, one at a time.                                           *)

Listed(dirs, m) == IF m \in Range(dirs) THEN dirs ELSE Append(dirs, m)

\* Mutant: a share is added to the mounts only.
AddOnly(s, m) == [s EXCEPT !.mounts = @ \cup {m}]

\* retain: the lines that are not m (Remove of SequencesExt, without recursion).
Without(dirs, m) ==
  LET kept    == {i \in DOMAIN dirs : dirs[i] # m}
      line(k) == CHOOSE i \in kept : Cardinality({j \in kept : j <= i}) = k
  IN [k \in 1..Cardinality(kept) |-> dirs[line(k)]]

\* What Mount and SaveExternalMount add, and Remove takes away.
Added(s, m)   == [s EXCEPT !.mounts = @ \cup {m}, !.dirs = Listed(@, m)]
Removed(s, m) == [s EXCEPT !.mounts = @ \ {m}, !.dirs = Without(@, m)]

\* discover_external_mounts: mounted or in fstab, and not in the settings.
Discovered(s) == (mounted \cup External) \ s.mounts

\* mount_share, unmount_share: a share that is mounted is unmounted first; each
\* system call may fail.
Mounts(m)   == [ok : {TRUE}, then : {mounted \cup {m}}]
                 \cup [ok : {FALSE}, then : {mounted, mounted \ {m}}]
Unmounts(m) == {mounted \ {m}, mounted}

\* Browsers fetch the settings again when the external mounts are announced, but not
\* one whose page has died.
Refetch == [p \in Page |-> [page[p] EXCEPT !.asked = @ \/ page[p].loaded]]

Over(refresh) ==      \* the command is over
  /\ user' = IdleUser
  /\ page' = IF refresh THEN Refetch ELSE page

Saves(new, refresh) ==
  /\ user' = [at |-> "Cache", new |-> new, base |-> cache, refresh |-> refresh]
  /\ UNCHANGED page

Perform(c) ==
  \/ /\ c.do = "Dsp"
     /\ Saves([cache EXCEPT !.dsp = c.on], FALSE)
     /\ UNCHANGED mounted
  \/ /\ c.do = "Mount"
     /\ \E result \in Mounts(c.share) :
          /\ mounted' = result.then
          /\ IF result.ok THEN Saves(Added(cache, c.share), FALSE) ELSE Over(FALSE)
  \/ /\ c.do = "Unmount"
     /\ mounted' \in Unmounts(c.share)
     /\ Over(FALSE)
  \/ /\ c.do = "Remove"
     /\ mounted' \in IF c.share \in cache.mounts \cap Share THEN Unmounts(c.share) ELSE {mounted}
     /\ Saves(IF c.share \in cache.mounts \cup Share THEN Removed(cache, c.share) ELSE cache,
              TRUE)
  \/ /\ c.do = "SaveExternal"
     /\ IF c.share \in Discovered(cache) THEN Saves(Added(cache, c.share), TRUE)
        ELSE Over(FALSE)
     /\ UNCHANGED mounted
  \/ /\ c.do = "Query"
     /\ Over(TRUE)
     /\ UNCHANGED mounted

UserTakes ==
  /\ user.at = "Idle" /\ commands # <<>>
  /\ Perform(Head(commands))
  /\ commands' = Tail(commands)
  /\ UNCHANGED <<sound, settings, system, posts, shown, moves, ghosts>>

UserCaches ==
  /\ user.at = "Cache"
  /\ WriteCache(user.base, user.new)
  /\ user' = [user EXCEPT !.at = "Disk"]
  /\ UNCHANGED <<sound, mounted, system, commands, page, posts, shown, moves>>

UserStores ==
  /\ user.at = "Disk"
  /\ WriteDisk(user.new)
  /\ Over(user.refresh)
  /\ UNCHANGED <<sound, mounted, system, commands, posts, shown, moves, ghosts>>

-----------------------------------------------------------------------------
(* The settings page.                                                      *)

\* The page is opened, or loaded again: it fetches the settings and asks for the mounts.
Open(p) ==
  /\ Move
  /\ page' = [page EXCEPT ![p] = [Shows(First) EXCEPT !.loaded = FALSE, !.asked = TRUE]]
  /\ commands' = Append(commands, [do |-> "Query"])
  /\ UNCHANGED <<sound, settings, mounted, system, user, posts, shown, ghosts>>

\* GET /api/settings fills in the cache and nothing else; the page takes what it
\* answers, and a question stays open.
GetSettings(p) ==
  /\ page[p].asked
  /\ cache' = [cache EXCEPT !.probed = TRUE] /\ UNCHANGED stored
  /\ page' = [page EXCEPT ![p].asked = FALSE, ![p].loaded = TRUE,
                          ![p].copy = cache', ![p].base = cache']
  /\ UNCHANGED <<sound, mounted, system, commands, user, posts, shown, moves, ghosts>>

\* auto_save: the page posts its whole copy, in a request of its own.
AutoSave(p, new, more) ==
  /\ Cardinality(posts) < MaxPosts
  /\ posts' = posts \cup {[at |-> "Cache", new |-> new, base |-> page[p].base,
                           from |-> p, id |-> moves]}
  /\ commands' = commands \o more
  /\ page' = [page EXCEPT ![p].copy = new, ![p].base = new, ![p].click = 0]

\* A switch or choice that is saved at once.
Toggle(p) == AutoSave(p, [page[p].copy EXCEPT !.other = ~@], <<>>)

\* The equaliser is applied by a command and saved by a post.
ApplyDsp(p) ==
  LET on == ~page[p].copy.dsp
  IN AutoSave(p, [page[p].copy EXCEPT !.dsp = on], <<[do |-> "Dsp", on |-> on]>>)

\* A new share: shown and posted at once, mounted by a command.
AddMount(p, m) == AutoSave(p, Added(page[p].copy, m), <<[do |-> "Mount", share |-> m]>>)

RemoveMount(p, m) == /\ m \in page[p].copy.mounts
                     /\ AutoSave(p, Removed(page[p].copy, m),
                                 <<[do |-> "Remove", share |-> m]>>)

\* Any path can be typed, one that is listed already or a share's too.
AddDirectory(p, d) == AutoSave(p, [page[p].copy EXCEPT !.dirs = Append(@, d)], <<>>)

\* A directory that is no share's is removed by its place in the list, after a
\* question.
Click(p) ==
  /\ page[p].loaded /\ page[p].click = 0
  /\ \E i \in DOMAIN page[p].copy.dirs :
       /\ page[p].copy.dirs[i] \notin page[p].copy.mounts
       /\ page' = [page EXCEPT ![p].click = i]
  /\ UNCHANGED <<sound, settings, mounted, system, commands, user, posts, shown, moves,
                 ghosts>>

\* The copy may have been replaced meanwhile: the line may be that of a share now.
Confirm(p) ==
  LET i == page[p].click IN
  /\ Move
  /\ i \in DOMAIN page[p].copy.dirs
  /\ AutoSave(p, [page[p].copy EXCEPT !.dirs = RemoveAt(@, i)], <<>>)
  /\ slipped' = (slipped \/ page[p].copy.dirs[i] \in page[p].copy.mounts)
  /\ UNCHANGED <<sound, settings, mounted, system, user, shown, mutedAt, lost, crossed,
                 missed>>

\* The list has become shorter: the page dies until it is loaded again.
ConfirmNothing(p) ==
  /\ page[p].click # 0 /\ page[p].click \notin DOMAIN page[p].copy.dirs
  /\ page' = [page EXCEPT ![p] = [Shows(First) EXCEPT !.loaded = FALSE]]
  /\ UNCHANGED <<sound, settings, mounted, system, commands, user, posts, shown, moves,
                 ghosts>>

\* The question hides the rest of the page.
Edit(p) ==
  /\ page[p].loaded /\ page[p].click = 0 /\ Move
  /\ \/ Toggle(p) \/ ApplyDsp(p)
     \/ \E m \in Share : AddMount(p, m)
     \/ \E m \in Mount : RemoveMount(p, m)
     \/ \E d \in Mount \cup Local : AddDirectory(p, d)
  /\ UNCHANGED <<sound, settings, mounted, system, user, shown, ghosts>>

\* Buttons that only send a command.
Send(p) ==
  /\ page[p].loaded /\ page[p].click = 0 /\ Move
  /\ \/ \E m \in page[p].copy.mounts, do \in {"Mount", "Unmount"} :
          commands' = Append(commands, [do |-> do, share |-> m])
     \/ \E e \in Discovered(page[p].copy) :
          commands' = Append(commands, [do |-> "SaveExternal", share |-> e])
  /\ UNCHANGED <<sound, settings, mounted, system, user, page, posts, shown, ghosts>>

\* POST /api/settings; two posts are handled in any order.
PostCaches(post) ==
  /\ post.at = "Cache"
  /\ WriteCache(post.base, post.new)
  /\ posts' = (posts \ {post}) \cup {[post EXCEPT !.at = "Disk"]}
  /\ UNCHANGED <<sound, mounted, system, commands, user, page, shown, moves>>

PostStores(post) ==
  /\ post.at = "Disk"
  /\ WriteDisk(post.new)
  /\ posts' = posts \ {post}
  /\ UNCHANGED <<sound, mounted, system, commands, user, page, shown, moves, ghosts>>

-----------------------------------------------------------------------------
\* mount_all: each share of the settings that is not mounted is tried.
MountAll(s) == {mounted \cup ok : ok \in SUBSET (s.mounts \ mounted)}

\* try_reconnect asks the firmware for its level, then AudioInterfaceService::new sets
\* the stored one: without it the device is left alone.
Restored(s) ==
  \E heard \in Answers :
    IF s.volume = NoLevel
      THEN /\ reports' = heard
           /\ UNCHANGED <<device, level, plugged, missed>>
      ELSE SetFrom(Clamp(s.volume), heard)

\* The process ends, wherever its tasks are, and starts again.  Pages stay.
Restart ==
  /\ Move
  /\ cache' = stored /\ UNCHANGED stored
  /\ mounted' \in MountAll(stored)
  /\ Restored(stored)
  /\ system' = IdleSystem /\ user' = IdleUser
  /\ commands' = <<>> /\ posts' = {}
  /\ shown' = NoLevel /\ mutedAt' = NoLevel
  /\ UNCHANGED <<page, lost, crossed, slipped>>

Next ==
  \/ \E v \in Asked : SetVol(v)
  \/ Mute \/ Unmute \/ VolUp \/ VolDown \/ ReportVolume \/ QueryCurrentVolume
  \/ Knob \/ Unplug \/ Plug
  \/ SystemCaches \/ SystemStores
  \/ UserTakes \/ UserCaches \/ UserStores
  \/ \E p \in Page : \/ Open(p) \/ GetSettings(p) \/ Edit(p) \/ Send(p)
                   \/ Click(p) \/ Confirm(p) \/ ConfirmNothing(p)
  \/ \E post \in posts : PostCaches(post) \/ PostStores(post)
  \/ Restart

Spec == Init /\ [][Next]_vars

-----------------------------------------------------------------------------
(* Properties.                                                             *)

AtRest == system.at = "Idle" /\ user.at = "Idle" /\ posts = {}

\* "Mounts are created under /mnt/rsplayer/<name> and automatically added as music
\* directories" (settings.rs:1428): every share in the settings is a music
\* directory, in memory and on disk, whoever overwrites whom and whatever paths are
\* typed, unless a page took away by hand a line that was a share's when the
\* question was answered.
MountsAreSources ==
  ~slipped => \A s \in {cache, stored} : s.mounts \subseteq Range(s.dirs)

\* Memory and disk agree when nobody is saving, so that a restart changes nothing
\* anybody chose, unless two writers were between the two at once.  What
\* GET /api/settings fills in stays in memory and is not meant.
Synced == AtRest /\ ~crossed => Chosen(cache) = Chosen(stored)

\* The level that sounds is the level a restart brings back, and the one the
\* clients have been told, unless a copy older than it was saved since, or the
\* panel did not take a level and has not reported since.
VolumeKept ==
  /\ system.at = "Idle" /\ reports = <<>> /\ level > 0 /\ ~lost /\ ~missed
  /\ device \in {"Software", "Firmware"}
  => /\ cache.volume # NoLevel => Clamp(cache.volume) = level
     /\ shown # NoLevel /\ device # "Firmware" => shown = level

\* The second press of mute brings back the level of the first, if no other volume
\* command came between and no older copy of the settings was saved.
MuteRestores ==
  [][Unmute /\ mutedAt # NoLevel /\ ~lost => level' = mutedAt]_vars
=============================================================================
