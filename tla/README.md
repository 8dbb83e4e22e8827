# A verification development for webrtc-c

`webrtc-c` runs on a Jetson board beside a pan-tilt-zoom camera with an RGB and
a thermal sensor. `gstream_main` captures, analyses and streams; for every
viewer it forks a `webrtc_sender`; Python programs record, clean the disk and
restart what has died. This directory holds TLA+ modules that model its
control, TLC configurations that check them on small instances, and theorems
that TLAPS checks for every instance.

## 1. Inventory

### Processes and threads

| process | threads | talks to |
|---|---|---|
| `gstream_main` | GLib main loop; heartbeat; one UDP receiver per viewer slot; auto-PTZ tour; event sender; one detached clip writer per event; GStreamer streaming threads with detection probes | signalling server (websocket), senders (UDP), PTZ (serial), recorder (named pipe) |
| `webrtc_sender`, one per viewer | GLib main loop; UDP receiver; WebRTC threads | `gstream_main` (UDP), the viewer (WebRTC) |
| `camera.py`, `disk_manager.py`, `gstream_manage.py`, `watchdog.py`, `thermal_check.py` | one each, `camera.py` one process per camera | files, named pipe, process table |

### Components

| component | state | operations | hard behaviour | what makes it correct |
|---|---|---|---|---|
| Peer table, `webrtc_peer.c` | `g_PeerInfos[i]`: `peer_id`, `child_pid`, socket | add (fork, poll for CONNECT), remove (STOP_WEBRTC, waitpid), forward, sweep | lost datagrams, late CONNECTs, stale addresses, blocking `waitpid` | one session per viewer; a slot is reused only after its process has gone; messages reach the right sender |
| Control sockets, `socket_comm.c` | `connect`, `clientaddr`, `call_fun` | CONNECT, send, close | thread starts before its handler is set | as above |
| Sender, `webrtc_sender.c` | `loop`, `app_state`, retry timer | start, offer/answer/ICE, restart on DTLS error, quit | three threads share the state without locks | stops when told; a call that has started is negotiated; restarts up to three times |
| Settings file, `device_setting.c` | main, `.tmp`, `.bak`, `.good` files; `g_setting` | save, validate, recover, back up | failing calls, crashes, power cuts between any two calls | saving is atomic; nothing is reset; a reported save is stored |
| Signalling and watchdog, `gstream_main.c`, `gstream_control.c` | `g_app_state`, `ws_conn`, `g_wait_reply_cnt` | connect, close, reconnect, heartbeat, terminate | cleanup on two threads, mutex held over blocking calls | a dead connection is noticed; peers are cleaned up once |
| Event detection and notification, `nvds_process.c` | per-object counters, `g_event_class_id`, throttle times, 30 s flag | probe, trigger, sender thread, throttle | one slot between threads | an event is notified once, and only if optical flow agrees |
| Event clips, `circular_buffer.c` | ring of 1200 frames per camera | add frame, extract, save worker | ring overwritten while a clip is waited for | the clip holds the frames of the requested interval, from a key frame |
| PTZ, `ptz_control.c`, `serial_comm.c` | tour sequence and flags, stop timer, one serial line | tour start/stop, move with stop timer, read/write | several threads stop the tour; one line for all | one tour at a time; a move is stopped; answers match requests |
| Recording supervisor, `python/camera.py` | process per camera, restart counters | stall watchdog, pipeline and process restart, stop | restart racing stop | a stalled camera is restarted; a stopped one is not |
| Disk space, `disk_check.c`, `disk_manager.py` | recording directories | delete the oldest until below a limit | two programs delete | the newest recordings survive |
| Viewers' commands, `gstream_control.c`, `gstream_main.c` | `g_setting`, its file, the camera's picture, two lists of presets | palette, day or night, presets, other settings, factory reset; `apply_setting` | two threads tell the camera; saves fail unseen; the presets are kept twice | camera, memory and presets agree |
| Command pipe, `gstream_main.c`, `command_handler.c` | the named pipe, its watch | read and split, carry out; `system("echo ...")`, programs whose output is the answer | reads cut lines; the main thread waits while others write | a line is carried out once, in order |
| JSON, pipelines, logging, scripts | little | conversions, launch strings, text | – | not modelled: conversions and I/O |

They interact by calls (signalling to peer table, command handler to settings
and PTZ), by datagrams (peer table and senders), by shared globals (detection
to event sender to tour) and by files (settings; recordings).

The hazards, each at its line, are listed in `PROJECT.json`.

## 2. How the development is organised

Each component has a module of its own; where the promise of a component can be
said without its code, an abstract module states it and the detailed one is shown
to implement it.

| component | abstract | detailed | proofs |
|---|---|---|---|
| peer table, control sockets, start and end of a sender | `PeerTable` | `PeerSessions` | `PeerSessions_proofs` |
| settings file | `AtomicStore` | `SettingsStore` | `SettingsStore_proofs` |
| event clips | `RecentFrames` | `ClipBuffer` | `ClipBuffer_proofs` |
| detection and notification | – | `ObjMonitor`, `EventPath` | `EventPath_proofs` |
| tour of the camera | – | `AutoPtz` | `AutoPtz_proofs` |
| moves and the serial line | – | `PtzMotion` | `SerialLine_proofs` |
| command pipe, viewers' commands | – | `CommandPipe`, `ViewerCommands` | `SerialLine_proofs` |
| signalling link and watchdog | – | `Watchdog` | `Supervision_proofs` |
| recording supervisor | – | `Recorder` | `Supervision_proofs` |
| call of a sender | – | `SenderCall` | `SenderCall_proofs` |

`EventPath` builds on `ObjMonitor`. `ViewerCommands` is composed with `CommandPipe`:
both have one main thread, and the composition implements the component. The others
meet where the code's components
do: `Watchdog` counts the sessions that `PeerSessions` controls; `EventPath` hands
events to `ClipBuffer`, and has the pauses of the analysis that `AutoPtz` causes as
steps of the environment; `PtzMotion` has the line that `AutoPtz` uses, and of the
tour only that it moves and polls; `SenderCall` begins where `PeerSessions` has
started a sender.

## 3. The modules

### PeerTable, PeerSessions

`PeerTable` is the promise: sessions in slots, at most one per viewer; a slot is
opened only when no process of the session before is left.

`PeerSessions` is the code. One slot is one record of `g_PeerInfos` with its
`SOCKETINFO`; `peer`, `child`, `connect`, `addr` are its fields, `srv` and
`inbox` the datagrams waiting in the two sockets. `pc`, `job`, `at` say where
`gstream_main`'s main thread is: idle in the main loop, polling in
`add_peer_to_pipeline`, inside `waitpid`, between slots of `free_webrtc_peer`.
`phase` says where a sender's main thread is. Each action is one step between
two accesses to shared state: `AddPeer` is the code up to the first `sleep`,
`PollClient` one round of the loop, `BeginRemove` the code up to `waitpid`,
`ClearSlot` the code after it. `RecvConnect` and `HandleDatagram` are the two
receive threads. A fork may fail; either side may die at any time; datagrams to
dead processes or full sockets are lost.

`NoPeer` and `NoProc` stand for the null peer and pid 0. `Procs` bounds the
number of forks; a pid is not used again.

Requests that the code refuses (unknown peer, full table, second join) change
nothing and are stuttering steps. Messages of a sender to the signalling server
do not touch this state.

### AtomicStore, SettingsStore

`AtomicStore` is the promise: a restart finds one value; a save replaces it in
one step; a power cut brings back at worst what was stored before the last sync.

`SettingsStore` has the four files, the states a power cut can bring back
(`behind`), `g_setting` (`mem`), and the program counter through start-up
(`ensure_valid_settings_file`, `load_device_setting`,
`create_settings_backup`) and through `update_setting`. Each system call that
changes a file is one step that succeeds, or fails and leaves the files.
`Torn` is any content `validate_settings_file` rejects. The main file may be found
damaged at any start (`Corrupt`). Three histories remember what the properties
exclude: `damaged`, that it was, or that the rename of `.bak` failed, since the last
synced save; `refused`, that this rename has failed; `bare`, that the file was damaged
while neither `.bak` nor `.good` was valid. That happens before the first backup, and
when `create_settings_backup`, which deletes `.good` before it writes it again, was cut
short: the defaults then come up. `NoReset` leaves out `refused` and `bare`, and nothing
else: damage with a copy at hand, and every way of cutting start-up and saving short,
are within it.

The file system is outside the program. Assumed: directory operations are
atomic; operations reach the disk in order (an ordered journal, the default
for ext4); `fsync` makes all that came before it last.

Contents are opaque: `Values` are settings told apart, `Default` the built-in
ones. That a file which parses as JSON also loads is part of this abstraction.

### RecentFrames, ClipBuffer

`RecentFrames` is the promise: the last `Capacity` frames of the camera, each
under its number in the stream.

`ClipBuffer` has one camera's `H264CircularBuffer` (`frames`, `write_pos`,
`frame_count`, `total_frames_written`, `total_bytes`), one worker for each
event, and `g_curlinfo.video_url`, which the workers share without a lock. The
ring is only touched under its mutex: `add_frame_to_buffer` and
`extract_event_clip` are one step each. A worker sleeps (`asleep` until `Due`),
cuts its clip, lets ffmpeg make a file of it (`save_mp4_clip`, with
`on_event_save_complete`), builds the message (`attach_url`) and sends it
(`clear_url`). `log` is a history of the frames the ring accepted; the
properties compare the ring and the clips with it. The scan of
`extract_event_clip` is written as sets: `Past` are the frames that end it,
`InTime` those that may start the clip, `KeysBack` the keyframes it goes back to.

Assumed: time in whole seconds, never set back; the encoder keeps its rate
(`WithinRate`); a worker is woken at most `Late` seconds late; the ring is long
enough (`SizeAssumption`). The code's ring of 1200 frames holds 32 + `Late`
seconds and 50 frames: at the 10 frames a second it is made for `Late` may be
83, at 30 frames a second 6. Frames that cannot be mapped or are
too large change nothing. The other camera's workers also share `video_url`; for
`NamesSavedClip` they are further events.

### ObjMonitor, EventPath

`ObjMonitor` is one `ObjMonitor` record of `nvds_process.c` as pure operators: what
a detection (`Observe`), the end of a second (`Checked`, `Tempered`, `Flowed`), a
notification (`Notified`), a second of the clock (`Dec`) and a pause
(`Forgotten`) do to it. Boxes, pixels, confidences and temperatures are
abstracted to the outcome of the comparison they end in, chosen by the
environment; counts that are only compared with a threshold stop there.

`EventPath` has the records of all objects of the analysed cameras, the threads
and what they share. The probe of a camera handles a frame in one step
(`Frame`, or `Second` for the frame of the source camera that ends a second)
until it reaches `trigger_notification`; from there `Publish` and `Finish` are the
two halves of a round of its loop, because the sender runs beside it. The
sender's steps are its accesses to shared variables: it sees an event
(`SeeEvent`), reads it (`TakeEvent`), clears the slot (`ClearSlot`), reads the
camera twice (`ReadCamera`, `CompareSource`), sets the flag and its timer, and
asks for a clip (`AskForClip`, both outcomes of the throttle). The main thread
switches the source camera when a viewer joins, switches the analysis (two
steps: the objects are forgotten before the status changes), counts the gap down
and runs the timers. The tour only pauses the analysis here.

`Notified(o, raced)`: the gap is set while another thread may be counting it down;
`raced` is the outcome in which the count is written last.

`evidence`, `confirmed`, `sinceHot` and `fresh` are histories that the properties
compare with what is published. `evidence` is the number of alarm frames of an
object since its last alarm, its last second with too few of them, or the last
pause. `sinceHot` counts the seconds from the moment an object is published as too hot,
whatever the rest of that round of `trigger_notification` does.

Atomic although the code is not: a frame up to `trigger_notification`, where the
source camera is read once; and forgetting all objects. `AskForClip` hands over to
`ClipBuffer`, whose events may come at any time.

### AutoPtz

`AutoPtz` has the tour thread, `process_auto_move_ptz`, beside the main thread
(commands of viewers, `init_auto_pan`) and the heartbeat thread, whose first tick
applies the settings and may stop a tour. `SEQ` is `AUTO_PTZ_MOVE_SEQ`: the flag
that is run condition and join guard in one, the count and the presets; `index` and
`prev_index` are the function's statics, which every tour inherits from the one
before. `pc` and `cmd` say how far each of the two threads is with its command:
`Clear`, `Join`, `Joined` are `request_auto_move_ptz_stop`, followed by what the
command does then (`DoAuto`, `DoMove`, `DoSet`). A tour's steps are the accesses to
the variables it shares: the head of the loop with its move (`Move`), reading
`analysis_status` and switching the detectors (`AskOff`, `SwitchOff`, `AskOn`,
`SwitchOn`), a second of `wait_for_ptz_completion` (`WaitsOn`, `Completes`) and the stay
(`Leave`). A join of a thread that is or has been joined returns at once.

What the camera does is open: each question for its position may be answered "there",
"not there" or not at all. `crowded` remembers that two tours have run at once, which
can happen when the main thread starts a tour while the heartbeat thread still
waits for the one before; the properties are about tours before that.

### PtzMotion

`PtzMotion` is the serial line and what depends on its answers: a move for a
time (`MoveAndStop`) with its stop timer, the stop that is retried every other second
(`Retry`, `CountSecond`), moves to presets and the polls of a tour, and
`g_move_speed`. `ReadCmd` is `read_cmd_timeout` under `g_mutex_2`: one command and what
is read for it. An answer that comes after the second is read by the next command:
taken for its answer when the length is the same, refused otherwise. In a behaviour
one kind of fault happens: commands are lost or refused, or answers are late. With
both, a stop may be lost and a late acknowledgement of another command be read for
it; nothing in the code can tell, and `MoveEnds` does not hold. The same can happen
after a viewer's raw `ptz` command, which is not modelled (section 7).

### CommandPipe, ViewerCommands

`CommandPipe` is the named pipe: `pipe` is the bytes written and not yet read, each
known by its line and its place there, `asked` and `done` are histories of the lines
written and carried out. A line is written at once, when there is room, by a shell that the main
thread waits for (`AskEcho`, `Echoed`) or by someone else (`WriteLine`). `Read` takes
`READ_SIZE` bytes at most and splits them at the ends of lines: a line whose text is
whole is a command, the pieces of another are unknown commands (`lost`). `CarryOut` is
a line in its turn, `EndPause` the second part of `ir_init`. `AskQuery` and `Answer` are
the commands that are answered with the output of a program. What GLib has read
ahead counts as part of the pipe. No piece of a command is a command.

`ViewerCommands` adds `process_message_cmd` on the same main thread: what is changed
first, the camera (`AskPalette`, `CamCtl`, `StorePalette`) or the setting (`AskMode`,
`ModeOut`), and the save that ends each (`Save`, which may fail unseen). `SetPreset`
writes `g_setting` and the list of the moves, `DeletePreset` only the first;
`ChangeOther` is any command that changes a member of no concern here and saves all.
`TickStarts` to `TickEnds` are `apply_setting` on the heartbeat thread, in between all
of these. `overlapped` remembers that a command met that tick; `Settled` is about
runs in which none did, because the tick may then undo the viewer's choice in the camera.
Assumed: `cam_ctl` and the writes to an open line reach the camera. Saves that fail half way are
in `SettingsStore`; here a save stores all or nothing.

### Watchdog

`Watchdog` has the link to the signalling server: `g_app_state`, `ws_conn`, the
connections libsoup knows of, `g_wait_reply_cnt`, and the two threads that may run
`cleanup_and_retry_connect` under `g_retry_connect_mutex`. `Lock`, `SweepPeer`, `Close`,
`Drop`, `Reconnect` are its parts in order; the heartbeat leaves it before the
reconnection and stops the program (`Terminate`). The counter is read and written in
two steps by both threads (`Read`, `Count`, `Decrement`), so that updates get lost,
`MaxLost` times. A connection may fall silent without a sign (`Break`), be found
closed (`Lose`), or be closed on request (`Closed`).

Viewers are counted only. A sender that does not exit holds up `SweepPeer` for ever;
the properties say so (`WaitsForSender`).

### Recorder

`Recorder` is `python/camera.py`: for each camera its process, with the watchdog
thread and the bus handler that restart the pipeline (`AllowRestart` is the check,
`BeginRestart` the count, without a lock between), the exit with code 100
(`RequestProcessRestart`, `Quit`); in the parent the monitor thread (`StartAnew`) and the
main thread in `wait` and `stop`. `replaced` says that the process object that `wait`
joins is no longer the current one.

### SenderCall

`SenderCall` is the call in one sender: `app_state`, which the main thread, a
WebRTC thread and the receive thread write without a lock and assert. A failed
`g_assert` ends the process (`Abort`), and `gstream_main` may start another.
`NegotiationNeeded`, `OfferCreated`, `SendOffer`, `AnswerCreated`, `SendAnswer` are the
callbacks, `Answer`, `AnswerTaken`, `Answered`, `Offer`, `Offered`, `BadSdp`, `Stop` the
receive thread, `Restart` and `Attempt` the restart after a DTLS error with its
recursion. An answer takes three steps, with the two assertions, the hand-over to
webrtcbin and the write of `ROOM_CALL_STARTED` apart: other threads run in between.
`DtlsFails` needs a description, webrtcbin's own or the viewer's, as the DTLS elements do;
an error may come before any answer, and the restart then finds an answer under way.
`timer` is `retry_timeout_id`: 0, of a pending timer, or of one that has fired. That the
global loop is made and entered is one step here; the race there is in `PeerSessions`.

A restart does not tell the viewer. `viewer` and `receive` tell answers to this
pipeline's offer from those to the one before; the code cannot, and `described` is
"stale" when webrtcbin has been given such an answer. `belated` remembers that one has
come since the pipeline was begun, or was being handled then. `StartedIsNegotiated`
leaves out two cases in which it does not hold: the viewer makes an offer of its own,
or an answer is `belated` (section 5). In all others no `ROOM_CALL_STARTED` survives the
pipeline it was for, whatever steps an error and its restart come between.

## 4. The runs

| run | instance | shows |
|---|---|---|
| `peers` | 2 slots, 2 viewers, 2 processes, 1 poll round, 1-datagram buffers | `PeerOnce`, `NoLostSender`, `RightSender`, refinement of `PeerTable`, `StopFreesSlot` |
| `peers_stop_exits` | 1 slot, 1 viewer | *violated*: `StopExits` |
| `settings` | 3 contents, 2 faults | `AtMostOneLost`, `NoReset`, `DiskFollowsMemory`, refinement of `AtomicStore`, `BootsAgain` |
| `clips_safety` | ring of 5, 1 frame a second, 2 events, 7 seconds | `BytesExact`, `ClipCoversEvent`, `ClipDecodable`, `NamesSavedClip`, refinement of `RecentFrames` |
| `events` | thermal camera, 1 animal, 2 frames a second, gap of 1, heat after 2 seconds, notification on, 1 timer | `AlarmEarned`, `HeatConfirmed`, `OverTempSpaced`, `EventOnce`, `RecordingEnds` |
| `ptz` | 2 presets, tours of 2 and 3 stops, 2 tour threads, 2 commands | `OneTour`, `VisitsAsked`, `StopReturns`, `AnalysisReturns` |
| `ptz_motion` | 2 moves for a time, 5 retries, lost or late answers | `StopsBounded`, `MoveEnds` |
| `watchdog` | 2 connections, 2 viewers, 2 missing replies, 1 lost update | `OneConnection`, `NoStaleSession`, `BrokenStops`, `Reconnects` |
| `recorder` | 2 cameras, 1 restart before a new process | `NoneLeft`, `Recovers` |
| `commands` | 2 lines, a long and a short command, reads of 4 bytes, 2 palettes, 2 modes, 1 preset | `OnceInOrder`, `Settled`, `ShownIsSet` |
| `call` | 3 retries, 1 offer of the viewer | `GivesUpLast`, `StartedIsNegotiated`, `RestartEnds`, `StopEnds` |
| `call_dtls` | the same, no such offer | *violated*: `DtlsRestarts` |

Bounds. Two slots let a slot be reused while the other is busy; with two processes
one slot sees a second process after a late CONNECT of the first. The proofs hold
for any number of each. A one-datagram buffer makes losing STOP_WEBRTC possible.
Three contents are needed for `AtMostOneLost` to say anything; two faults allow a
failed call and a crash or power cut in its recovery. Seven
seconds let the ring of five wrap around and a clip be cut from it afterwards; five
is the least that `SizeAssumption` allows for one second before and after, so
that a worker that slept a second longer would lose a frame. Two
events are enough for their workers to interleave on `video_url`.
Two frames a second make one alarm frame enough for a second and none too few;
two seconds for heat let a worse second, a pause or a switch of the camera fall in
between. The event properties are about one object each, and objects meet only in
the slot; the proofs are for any number of objects and both cameras, except that
`OverTempIsSpaced` needs one camera, or the optical flow off (section 5).
A tour of three stops after one of two (and the reverse) lets an old index and old
presets be left over; two commands let one replace or stop what the other
started, beside the tour the settings start and the heartbeat's first move. Two
moves let one replace the stop timer of the other while its stop has failed. Two
connections are the most that are not over at once, unless a second is made too
early. One restart of the pipeline is enough to reach the limit; the code's limit
is 5 (`camera.py:87`). `max_retries` is the code's 3. In `commands` a read takes one long line with its
end, or two short ones, and cuts a long one that follows another: the cases of 255
bytes and commands of 2 to 14. One preset, set or deleted, meets the others only in
the save of all.

The `peers`, `ptz`, `watchdog`, `recorder` and `call` runs do not check deadlock:
`gstream_main`, a sender or the recorder ends, a main thread may really wait for
ever, and bounds on commands and moves run out (`ptz`, `ptz_motion`); `clips_safety`
does not, because time ends at `MaxTime`. `settings`, `events` and `commands` do.

Symmetry is used in `clips_safety` only, which has no fairness; events are compared
for equality only.

Fairness. In `PeerSessions` every step a running thread can take is weakly
fair; joins, messages, removals, crashes and WebRTC failures are not.
In `SettingsStore` the program's own steps are, because something always
starts it again. In `EventPath` the sender's steps are (its loop has no exit, and
nothing in it blocks) and so is a pending timer, which the main loop calls once it
has expired; frames, switches and commands are not. In `AutoPtz` each of the threads
runs on; commands need not come. In `PtzMotion` GLib calls the timers, and the camera
reaches a preset. In `Watchdog` both threads run on, except that a sender need not
exit when it is waited for; a server that is asked again and again answers at last,
what waits in the main loop is delivered even if other messages come first, and the
snapshots can be read again and again (strong fairness, because these steps are
disabled in between). In `Recorder` each thread runs, and the monitor looks at each
process in each of its rounds (strong fairness of `StartAnew`, which is enabled in a
round only); a pipeline need never come up again. In `SenderCall` the three threads
run; the viewer need not answer.

## 5. What the violated runs show

- `peers_stop_exits`: a sender that handles STOP_WEBRTC before its main loop runs does
  not exit: `cleanup_and_quit_loop` finds `loop == NULL`, or quits a loop that
  `g_main_loop_run` then starts. The main thread of `gstream_main` waits for it
  in `waitpid`. `StopFreesSlot` states what does hold.
- `call_dtls`: `retry_timeout_id` is not reset when the timer fires, so that a second
  DTLS error restarts nothing.

Met while modelling, and not shown by a run:

- "Wait Client Fail" is logged when the sender connects in the sixth second
  (`webrtc_peer.c:204`), and not when it never does.
- `atexit` does not run when a signal ends `gstream_main`, so the senders live
  on, against the comment at `gstream_main.c:1388`.
- On the thermal camera the temperature check makes every object that is not too
  hot a normal cow after the event check has flagged it, so that its alarm is
  published as "normal", which the sender takes for an empty slot
  (`nvds_process.c:1092`).
- When create_settings_backup is cut short between the deletion of `.good` and its
  refill (`device_setting.c:774`), and the main file is found damaged at the next start,
  the defaults are written, although the comments and logs there promise a recovery
  from a backup. `Corrupt` with `bare` has it.
- `trigger_notification` reads the class back from `g_event_class_id`, which the probe of
  the other camera writes too (`nvds_process.c:464`). A FLIP of the other camera in
  between makes the round of an object that is too hot take the optical flow's way out,
  without setting the gap: the object is reported again at once. `EventPath` with both
  cameras shows it, and `OverTempSpaced` does not hold there.
- An answer to the offer before a restart is taken for one to the offer after it, since
  nothing tells them apart: the call counts as started with a description of the old
  pipeline (`webrtc_sender.c:556`), or the assertions at `:554` and `:486` end the sender
  when it comes before the new offer.
- The assertion in `on_offer_created` may fail, because `start_pipeline` writes
  ROOM_JOINED over ROOM_CALL_OFFERING (`webrtc_sender.c:400`).
- A tour that is stopped while the camera moves leaves the analysis off
  (`ptz_control.c:488`); its zoom value is read one byte too early (`:438`); a viewer's
  move to a preset while a tour is set leaves `g_move_speed` positive until the next
  answered command.
- `index` of a longer tour is used by the first stop of the next one, which may then
  be a preset of the sequence before (`ptz_control.c:453`).
- Replies are counted over connections: a late reply to a report of the connection
  before makes the counter one too small (`gstream_main.c:781`).
- Once the Internet has been lost and found, each minute in which the program is not
  registered stops it (`gstream_main.c:1171`).
- `wait` joins the process objects it saw when their turn came. When each camera has
  been replaced once, it returns, `main` calls `stop`, and recording ends although both
  new processes run (`camera.py:769`; `StopsOnlyWhenAsked` of `Recorder`, which is no
  invariant).
- A recorder whose `start` fails exits with 0 and is not started again
  (`camera.py:520`).
- A read of the command pipe takes 255 bytes and keeps no rest: it loses the command it
  cuts (`gstream_main.c:199`), and the branch for a closed pipe cannot be reached, since
  the program itself holds the pipe open for writing. A command that goes through the
  pipe is carried out after those of viewers that come in the meantime.
- Of the four commands of `execute_sudo_command` three are not on the list of
  `execute_safe_command`, which it calls (`command_handler.c:97`). "output truncated"
  is appended to what is full already or nearly so (`:58`); the loop that escapes a
  result stops ten bytes before its buffer ends, which cuts results of a few
  characters (`:220`).
- `del_ptz_pos` leaves the preset in the list of the moves until the next start
  (`gstream_control.c:648`); after that a stored tour with this preset does not start.
- A save between the factory reset's copy and its reboot writes the old settings back
  (`gstream_control.c:830`).
- A FLIP is published before the optical flow vetoes it, and the sender may take it in
  between (`Publish`, `Finish`); a second flagged object overwrites the first in the
  slot; the first timer to fire ends the flag of every later recording; the throttle
  interval is 60 s where its comment says 10 (`nvds_process.c:59`); `endup_nv_analysis`
  waits for the sender thread, whose running flag nothing clears
  (`nvds_process.c:1844`); when `execvp` fails the child returns from
  `add_peer_to_pipeline` and goes on as a second `gstream_main` (`webrtc_peer.c:186`);
  and a failed save leaves memory and disk apart without any caller noticing.

## 6. The proofs

The eight modules `*_proofs` are checked by TLAPS for every value of the constants,
under the modules' named assumptions only: there is a slot, a poll round and room
for a datagram; the markers are not members of the sets they mark; the default is
one of the contents; the ring is long enough for an event (`SizeAssumption`); a second
has more than one frame, and the history `evidence` can count to the longest
threshold; a sequence asked for is empty or has 2 to `MaxLen` presets, and what the
tour starts from is well-formed (`PtzAssumption`); the limits of retries are natural
numbers, that of the call's restarts not 0; a command is shorter than the pipe, the other handlers of the main thread
are told apart from those of the pipe (`PipeAssumption`, `ViewAssumption`). `OverTempIsSpaced`
has an assumption of its own, `OneWriter`. The type
invariants are theorems and are not among the properties of the runs.

| theorem | property |
|---|---|
| `PeerSessions_proofs!TypeCorrect` | `TypeOK` |
| `OneSlotEach` | `PeerOnce` |
| `SendersAccounted` | `NoLostSender` |
| `MessagesReachOwner` | `RightSender` |
| `TableRefined` | `TableSpec` |
| `SettingsStore_proofs!TypeCorrect` | `TypeOK` |
| `OneSaveAtMost` | `AtMostOneLost` |
| `NeverReset` | `NoReset` |
| `SaveIsStored` | `DiskFollowsMemory` |
| `StoreRefined` | `Atomic` |
| `ClipBuffer_proofs!TypeCorrect` | `TypeOK` |
| `ClipsCover` | `ClipCoversEvent` |
| `ClipsDecode` | `ClipDecodable` |
| `UrlsNameClips` | `NamesSavedClip` |
| `RingRefines` | `KeepsRecentFrames` |
| `BytesAreExact` | `BytesExact` |
| `EventPath_proofs!TypeCorrect` | `TypeOK` |
| `AlarmsEarned` | `AlarmEarned` |
| `HeatIsConfirmed` | `HeatConfirmed` |
| `OverTempIsSpaced` | `OverTempSpaced` |
| `EventsTakenOnce` | `EventOnce` |
| `AutoPtz_proofs!TypeCorrect` | `TypeOK` |
| `ToursExclude` | `OneTour` |
| `VisitsRight` | `VisitsAsked` |
| `SerialLine_proofs!TypeCorrect` | `TypeOK` of `PtzMotion` |
| `RetriesBounded` | `StopsBounded` |
| `PipeTypeCorrect`, `ViewTypeCorrect` | `PipeTypeOK`, `ViewTypeOK` |
| `CommandsKeepPipe` | `PipeSpec` |
| `LinesInOrder`, `CommandsInOrder` | `OnceInOrder`, of `PipeSpec` and of `ViewSpec` |
| `CamerasSettled` | `Settled` |
| `PresetsShown` | `ShownIsSet` |
| `Supervision_proofs!TypeCorrect` | `TypeOK` of `Recorder` |
| `StopLeavesNone` | `NoneLeft` |
| `LinkTypeCorrect` | `LinkTypeOK` |
| `OnlyOneConnection` | `OneConnection` |
| `SessionsEndFirst` | `NoStaleSession` |
| `SenderCall_proofs!TypeCorrect` | `TypeOK` |
| `RetriesUsed` | `GivesUpLast` |
| `NothingLeftOver` | `StartedIsNegotiated` |

The argument for the peers. `RightSender` is not inductive: a CONNECT still
waiting in a socket, or an address from an earlier session, could lead
anywhere. The invariant adds that an address and a waiting CONNECT of slot *i*
name a process started for slot *i*; that an unreaped process is recorded by its
slot; and that the main thread, while it polls or waits, works on a slot that is
taken. `ClearSlot` is the step that needs `waitpid`: after it no unreaped
process has this slot as its home, so whatever the address still names is dead.

The argument for the settings. Each point of start-up and of a save knows
something about the four files: during a save of the running program the old
settings are intact in the main file or in `.bak`, and once written the new
ones in `.tmp`; at the rename every state a power cut can bring back is worth
the same, because `fsync` came before it. During the save of the defaults there
is nothing to lose. Hence only the rename changes what a restart finds.

The argument for the clips. `RingHoldsLog` says that the *i*-th oldest slot of
the ring holds the *i*-th of the last `frame_count` frames; adding a frame keeps
it, with one case for a ring that is not full and three for where the write
position stands in a full one. `RateHeld` bounds the frames between two times,
`OnTime` how late a worker is; together with `SizeAssumption` they give
`StillThere`: while a worker sleeps, no frame it needs, nor any of the
`MaxBack` before one, has left the ring. The scan then reaches every wanted
frame (`ScanReaches`), begins where the first of them is or at a keyframe before
it (`StartPlace`), and `ClipIsGood` concludes. After the cut time is past the
end of the interval, so that no later frame is wanted.
`BytesAreExact` is about a sum over the ring. A recursive function in its statement
has to be shown to exist, which is an induction; it is done by a minimal
counterexample (`MinOfNats`, `SumExists`), as no induction theorem can be used.
What a new frame displaces is the oldest in the ring (`DisplacedIsOldest`).

The argument for the events. `Good` says what holds of one object: its evidence
covers the seconds it has lasted and the frames counted since (`Earns`); a heat
count comes from ResNet (`Confirms`); an object that is over-temperature is on the
thermal camera and, while flagged, has no gap left (`HotAfterGap`). Each operator
of `ObjMonitor` keeps it, whichever camera and object, and those lemmas carry
over to the steps. The rest of the invariant is about the threads: an object stays
flagged only between the end of its second and its notification
(`IdleUnflagged`, `FinishUnflagged`), so that nothing but the forgetting touches it
there; the gap and the seconds since the last report add up to `TempGap` at
least (`GapKept`), which survives the lost update because a report happens only
with the gap at zero, when the other thread does not write (`HotUncounted`), and
because no FLIP gets into the slot between the publication and the setting of the gap
(`SlotHot`): both need `OneWriter`, that the thermal camera alone is analysed or the
optical flow is off, which `OverTempIsSpaced` assumes; a
filled slot that the sender is not clearing was written since it last read
(`SlotFresh`); and a timer about to be added still fits the bound of the model
(`TimerRoom`).

The argument for the tour. The steps are of six kinds: a step of the tour, a step of
a thread with its command, a start, and the three steps of a stop (`TourEffect`,
`ThreadEffect`, `AutoEffect` say which action is of which kind). `JoinedOnce` says that
a thread is waited for by exactly the one that has marked it, and joined only when it
has ended; `MainStops` that the main thread starts a tour only with the flag clear.
From both, `LastTourRuns`: as long as no tour was started beside another, a live tour
is the last one, somebody waits for it if its flag is clear, and if the main thread
is about to start a tour that somebody is the heartbeat thread. That is `OneTour`.
`SequenceRead` and `PresetsSet` follow the index: it is left by the tour before, but
once the tour has gone on it is within the sequence asked for, and a preset that has
been set is never unset.

The argument for the link. `OneConnection` and `NoStaleSession` need to know where both
threads are. `ThreadInv` says that who is past `Lock` holds the mutex. `ConnInv` says that
all connections but one are over and forgotten, that all are while the main thread
cleans up, that one in use is `ws_conn`, and that there is no viewer from the sweep until
the next connection is registered. `CounterInv` relates the replies still to come to the
counter, where it has been read and not yet written, and the lost updates: the counter
falls below zero by the updates lost and one report under way, no more.

The argument for the command pipe. The bytes that wait are in the order of the lines and
of their text (`ByteInv`); those of lines already taken come before them (`TakenInv`);
and the lines of a read come after all that were carried out (`DoneInv`). So a line that a
read takes whole is later than all before. As long as every read has taken all there
was, each line that has begun in the pipe is there to its end (`WholeInv`), and none is
missing (`NoneMissing`). `CommandsKeepPipe` then carries this over to the composition: a
step of `ViewerCommands` is a step of the pipe or one of the main thread elsewhere.

The argument for the settings and the camera. `CarriesInv` says what a thread holds
between its steps, `MeetInv` that without `overlapped` no command is under way in the first tick;
`PaletteInv` and `ModeInv` follow the value from where it is read to the camera, for
each place of both threads. `ShownIsSet` is inductive as it stands, as the file's presets
are loaded into both places.

The arguments for the others are short. A move has had no stop until its timer fires,
and a failed stop is the timer's or the last of the retries (`EachStopCounted`). A
caller that was allowed to restart has seen a count below the limit, and the other
caller can raise it by one before (`LimitKept`); `stop` looks at the processes after
the monitor has ended (`StoppedInOrder`). A restart counts an attempt when it begins
and its failure when it fails (`AttemptsCounted`). A pipeline makes its one offer once it
plays (`NewUntilPlayed`), and until the viewer has that offer nothing can be its answer:
an answer under way, or a description webrtcbin has, is to this offer or `belated`
(`OneOffer`). `ROOM_CALL_STARTED` is therefore of this pipeline, or about to be overwritten
by the start that is under way (`StartedHere`).

Every safety property of the passing runs is stated by a theorem. Model-checked only: the
liveness properties (`StopFreesSlot`, `BootsAgain`, `RecordingEnds`, `StopReturns`,
`AnalysisReturns`, `MoveEnds`, `BrokenStops`, `Reconnects`, `Recovers`, `RestartEnds`,
`StopEnds`), which need fairness, and the two violations.

## 7. Not modelled

- `disk_check.c` and `disk_manager.py`: each scans the recordings and unlinks the
  oldest until the disk is below a limit. They share nothing but the directory and
  keep no state from one pass to the next.
- The ranch presets of `ptz_control.c` (a build option), `get_ptz_pos`, a viewer's move
  with speed 0, `pause_auto_ptz` and `resume_auto_ptz`, whose flag nothing reads.
- A viewer's raw `ptz` command (`send_ptz_serial_data`, `gstream_control.c:56`): bytes of
  the viewer's choice, written outside `g_mutex_2`, whose answer stays on the line. The
  next command reads it as its own: with it, a stop that is lost can count as answered,
  against `MoveEnds`, which is about the other commands.
- What `MINDULE_INCLUDE` (0 in `global_define.h`) compiles out: the rest server and the
  queue of tag positions of `socket_comm.c`, among them `move_ptz_and_send_event`, a second writer
  of the event slot on a thread of its own.
- Which slot the heartbeat's sweep clears while the main thread adds a peer: the table
  has one sweeping thread in `PeerSessions`, and `Watchdog` only counts.
- The throttle's clock; overlays; the settings that viewers change without telling the
  camera are one step (`ChangeOther`).
- What happens when the pipe of commands is full of an unread 64 KiB: the main thread
  would wait in `system()` for room that only it can make.
- JSON, launch strings, logging, the start and stop scripts, media.
- When `execvp` fails, the child goes on as a second `gstream_main`: two whole programs on
  the same sockets are not modelled. A camera that stalls around an event gives no clip,
  or one of earlier frames, and nothing retries it; `ClipCoversEvent` is about the
  frames the camera gave.
