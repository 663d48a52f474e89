# TLA+ for yi-hack-v5

yi-hack-v5 is a firmware extension for Yi cameras. It leaves the vendor's
programs running and adds its own beside them: C programs that tap the vendor's
message queues and video buffer, shell scripts that start, watch and stop them,
and a web interface made of CGI scripts. Nothing in it is distributed, but nearly
everything is concurrent: processes that share queues, a ring buffer without a
lock, files in `/tmp` and on the SD card, pid files and `killall`.

This directory holds TLA+ models of those parts, TLC configurations that check
them, and TLAPS proofs. Paths below leave out the leading `src/src/`; `script/`
is `static/static/home/yi-hack-v5/script/` and `ipc_cmd/` is `ipc_cmd/ipc_cmd/`.

1. Inventory
2. Modules, and how they correspond to the code
3. Runs
4. What the checks found
5. Proofs
6. What is not modelled
7. Plan

## 1. Inventory

| Component | State | Operations | Meets |
|---|---|---|---|
| **IPC multiplexer** `ipc_cmd/ipc_multiplex.c` | nine message queues `/ipc_dispatch_1..9` of depth 64, `is_initialized` | a preloaded `mq_receive`: receive from the camera's queue, copy with nine non-blocking sends | the camera's dispatch process runs it; ipc2file, ipc_read and ipc_notify read the copies |
| **ipc2file** `ipc_cmd/ipc2file.c` | pid file, alarm files under `/tmp/onvif_notify_server`, `last_alarm`, `exit_main`, sleeping threads | launch, pid check, draining of the queue, loop, `process_event`, timeout of a sound, SIGTERM | reads queue 2; started by `system.sh` and `service.sh`; ONVIF server shows the files |
| **ipc_cmd** `ipc_cmd/ipc_cmd.c`, `ptz.c` | none of its own | the settings and moves of one command line, sent to the camera's queue one after the other; `-S` forks a process that sends the stop later | run by CGI scripts, ONVIF, `ptz_presets.sh`, several at a time |
| **ipc_read, ipc_notify** `ipc_cmd/` | the queue they were given | drop what the queue holds, then print each message, or run a command for each | started by hand, on any of the nine queues |
| **h264grabber** `h264grabber/h264grabber/h264grabber.c` | position in the shared table, last counter, `frame_counter_invalid` | find the latest frame, then follow the table and write to a fifo | the camera writes the table with no lock; rRTSPServer reads the fifo |
| **imggrabber** `snapshot/snapshot/imggrabber.c` | the same position, the buffer of the frame it collects | collect SPS, PPS and an I frame, decode, encode | reads the same table; run by a CGI script and by ONVIF |
| **rRTSPServer** `rRTSPServer/src` | a source for each fifo, whether the event loop watches it, the description of each stream | open and read fifos, find the frames in the audio, describe and serve the streams | reads the fifos of h264grabber; restarted by the watchdog |
| **ftppush.sh** `script/` | the mark `/tmp/last_file_sent`, the recordings, the server | a pass over the sorted list every 45 s, upload, mark, removal; start and stop | shares the card with the camera and `clean_records.sh` |
| **clean_records.sh** `script/` | the recordings | delete the least recently modified directory while the card is too full | an hourly job next to ftppush.sh |
| **wd_rtsp.sh** `script/` | a counter, the processes it sees | check and restart rRTSPServer, the grabbers, the cloud, rmm, mqttv4 | next to `service.sh`, which stops and starts the same |
| **system.sh, service.sh** | processes, crontab, the files of a firmware upgrade | start everything at boot; stop and start a service on request | all of the above |
| **mqtt-config** `mqtt-config/mqtt-config` | connection, configuration files | connect and reconnect, validate a setting, rewrite a file | the broker; `set_configs.sh` edits the same files |
| **PTZ presets** `script/ptz_presets.sh` | a table of eight presets | add, delete, go to, set home | CGI scripts and ONVIF run it at the same time |
| **firmware update** `script/check_update.sh`, `fw_upgrade.sh` | files of two phases, a reboot between | compare versions, download, unpack, reboot, move | `system.sh` runs the second phase |
| **web interface** `www/httpd/cgi-bin` | configuration files | read and write settings, list and delete recordings | mqtt-config, service.sh, ipc_cmd |
| **MQTT advertisement** `script/mqtt_advertise` | crontab | publish, subscribe to settings | `system.sh` writes the same crontab |
| WiFi and boot scripts, `cloudAPI_fake`, `proccgi`, water mark and JPEG code, builds of third-party programs | - | straight-line code | - |

What makes this code hard, and what therefore has to be true of it:

* **Non-blocking fan-out** (multiplexer). A reader that stops must not hold up
  the camera or another reader, and what a reader sees must be one ordered stream
  whatever is lost to a full queue.
* **A daemon that keeps its state in files** (ipc2file). Several launches, crashes
  and reused pids race for the pid file; an alarm file must disappear when the
  event is over, though the daemon only remembers the last alarm.
* **Timed commands** (`ipc_cmd -S`). The stop comes from a process of its own, much
  later, and other events come in between.
* **A ring without a lock** (h264grabber, imggrabber). Only the counters of the
  records tell a new frame from an old one, the camera may overwrite a record
  while it is read, and counters wrap.
* **One mark for many files** (ftppush.sh). Failures, deletions, kills between any
  two commands and recordings made meanwhile all act on one timestamp, and a
  recording deleted by mistake cannot be made again.
* **Start, stop and restart from three sides** (watchdog, service.sh, system.sh),
  and **read-modify-write of shared files** (configuration, presets, crontab).

`PROJECT.json` lists each hazard at its line with the properties that cover it.

## 2. Modules, and how they correspond to the code

    LossyFifo  <--implements-- IpcMultiplex <--EXTENDS-- MotionEvents --INSTANCE--> Ipc2File
                                    ^-------EXTENDS-- IpcReaders (ipc_read, ipc_notify)
                               IpcCmd <--EXTENDS-- Presets (ptz_presets.sh, ptz.sh)
                               H264Grabber (video and audio by constants)
                               RtspServer (reads the fifos h264grabber writes)
                               ImgGrabber (reads the same table)
                               FtpPush (ftppush.sh with clean_records.sh)
                               Services (system.sh, service.sh and wd_rtsp.sh)
                               MqttConfig (mqtt-config with set_configs.sh)

Every component has a module; the module `MC...` gives the constants that a
`.cfg` cannot write, and `...Proofs` holds the theorems. Definitions marked
"Variant" in a comment are not used by the specification: each is a mistake one
could make in that place of the code, and each property is known to fail when the
variant takes the place of the definition below it (`PROJECT.json`, "mutants").

### IpcMultiplex, LossyFifo

`mq_receive` of `ipc_multiplex.c` is split where other processes can come in
between: `Initialize` / `Call` (the entry, the first time with one step for every
queue that is opened), `Receive` / `ReceiveFails` (the original `mq_receive`), and one
`Forward` for every turn of the loop. `pc` is where the dispatch process is, `i`
the loop variable, `msg` the caller's buffer. A message carries the number of its
send, so that two sends of the same payload differ. `Send` is the environment
(camera, ipc_cmd) and blocks on a full queue, `Take` is a reader.

`LossyFifo` is what one queue promises its reader: offered messages come out in
order, none twice, and a message is lost only when the queue is full at that
moment. `FifoForEach` states that every queue, seen alone, implements it, whatever
the loop and the other queues are doing; "offered" is the sequence of messages
received, without the one that has not yet reached this queue.

### IpcReaders

The other readers. A process is launched with options that name a queue (`OpenQueue`) or
end it (`Refused`: a number out of range, `-h`, no queues yet). `GetAttr` and `Clear` are
the two calls of `clear_queue`, `Show` and `Notify` a turn of the loop of ipc_read and
ipc_notify; each receive is the `Take` of `IpcMultiplex`, so that whatever holds of that
module for all readers holds here (theorem `ReadersRefineMultiplexer`). `followers` is a
history variable: the queues that two programs have opened. A command line is too long
when the digits of the message do not fit behind the command (`Fits`): then ipc_notify
ends, and it also ends when its command was killed by signal 7, since the status
`system` returns then is the value of E2BIG (`ipc_notify.c:200`).

### Ipc2File

One process per launch. `CheckPid`, `CreatePid` (the `fopen` of the pid file, which
empties it) and `WritePid` are three steps, as in the code, and the two calls of
`clear_queue` are `ClearTest` and `ClearDrop`. `LoopTest` is the test of `exit_main`, `Receive` is `mq_receive` with `parse_message` and
`process_event`, whose effects on files and on `last_alarm` are `FilesAfter` and
`LastAfter`. `SoundTimeout` is `sound_stop_thread`. `Terminate` is the signal
handler, `Interrupt` an `mq_receive` that a signal ends early, `Crash` a kill.
`DeadPid` is a pid file whose process is gone. A pid in the file that another
program has got in the meantime makes `CheckPid` end the launch.

Launches overlap as they like, and two can both find no pid file, so that two daemons
serve: nothing in the code excludes it. The history `raced` says that it has come to this:
since a process was last launched alone, two were between the end of `check_pid` and the
end of `create_pid` at once. `AtMostOneDaemon` names it as the only way to two daemons
(a launch that is killed, a pid file that is empty or left over, a stop and a start are no
others). The files are right with two daemons too, each with a `last_alarm` of its own.

### MotionEvents

Composes the two. It EXTENDS `IpcMultiplex` and instantiates `Ipc2File` with
forwarding queue 2 as its queue: every step of the daemon that takes a message is
at the same time a `Take` of the multiplexer. `SendStart`, `Fork`, `Wake` and
`SendStop` are a run of `ipc_cmd -S`; a run of `-T` starts at `SendStop`. `Camera` sends
what the camera sends by itself: a sound, or a human detection, which raises an alarm of
its own, without a stop, and takes the place of the motion in `last_alarm`. `Overtaken` says that such
an alarm came between a motion and its stop, which then does not end the motion. Crashes
and failing receives, which the two modules have, are left out of the composition.

### IpcCmd, Presets

`IpcCmd` is what a run does with its command line: the options it accepts and what it
stores for each (`Words`, `Accepted`; the last one wins), then the messages in the order
`main` sends them (`Program`), with the differences between the models of cameras
(`PtzClass`). `SendNext` is one `mq_send`, which blocks while the queue is full;
`ReadPosition`, `PrintPosition` and `ReadFile` are the three places where a run reads
something at the moment it gets there. A position is in steps of the motors, as the
camera keeps it, an angle in tenths of a degree; `JumpTo` and `JumpBy` are the arithmetic
of an absolute and a relative jump, `Degrees` that of `-g`, with the rounding of the C
code. The camera (`Handle`) is external; it moves by what a jump says, puts a preset in
the first free place, as the usage says, and moves until it is told to stop.

The number of a preset is the text of an argument: how it is spelt (`Spellings`: as the
script writes it, with zeros or a sign in front, with something behind, as a word) and what
`strtol` reads in it; 255 is for ipc_cmd the same as `AllWord`. ipc_cmd goes by what it reads (`Read`), the script compares texts (`Deletes`). `BeginFails` is an `ipc_start` that fails. Names are single words
without the separators of the table.

`Presets` adds `ptz_presets.sh` and `ptz.sh`. A script is the list of calls it has still
to make (`work`); `CallFails` is a call whose ipc_cmd does not start. `add_del_preset` is
taken apart where another run can come between: `Open`, one `ReadLine` for each line,
`Change`, `Truncate` (the first `echo >` has emptied the file and not yet written), and one
`WriteLine` for each `echo`. The first echo writes at the front of the file, over whatever
other runs have appended since (`WriteInFront`): any number of their lines may be left
behind it, and the first of them may be the end of one (`Torn`). The others append. A run
that reads meanwhile is `astray`: it may find itself at any line, at the end of one, or at
the end of the file. Three histories name exceptions: `overlapped`, two runs were under way
at once; `parted`, a script has changed its table and not the camera or the other way round
("Home" is already there, a preset without a name, whose arguments shift, a number that
the two read differently, an ipc_cmd that did not start); and `loose`, the last move was sent by
an ipc_cmd that is run by itself, as ONVIF is configured to do (`system.sh:378-382`), or
ptz.sh could not start its stop.

### MqttConfig

mqtt-config has one thread. `Connect`, `Subscribe`, and then one `mosquitto_loop` after
the other, each of which ends with a callback - `Connack`, `Lost`, a setting that arrives
- or with nothing. `mosquitto_subscribe` can fail on a living connection; `unasked` is the
history of that. "first" is the loop inside `mqtt_connect`, "loop" the one of `main`. `Table` is
`config_params`: 48 settings of system.conf, in three of which a comma is missing, so that
their last column is NULL, and 21 of the camera. A setting is ignored, passed to ipc_cmd, or written:
`Copy` (the temporary file), `OpenFile` (which empties the configuration file),
`WriteBack`. A file is a value for each key; stdio reads and writes it at once, since it
is shorter than a buffer. `EditRead` and `EditWrite` are `sed -i` of `set_configs.sh`, which puts a new file
(`number`) in place of the old: what mqtt-config then writes goes to a file that has no name.
A value is a token without a "="; `set_configs.sh:86` would cut it off there (`cut -f2`).

### H264Grabber

One module for the two loops of `h264grabber.c`, which differ in constants only:

| | video | audio |
|---|---|---|
| `Width` | 2^16 (frame counter) | 2^32 (timestamp) |
| `MinStep`, `MaxStep` | 1, 10 | 0, 256 |
| `Lowest` | -1 | 0 |

`SearchRecord` looks at one record of the search (the camera goes on writing
between two), `Found` the test behind it, `Compare` reads the next record and
decides, `WriteFrame` writes what the current record holds by then. A frame is the
number of its write; `Counter` is what the code reads of it. `out` are the frames handed to
`fwrite`, whose result is not looked at; a full fifo makes the step late. `lapped` is a history
variable: the camera has overwritten the record the grabber stands at.
`GrabberAssumption` says that counters of consecutive frames fit and that a turn of
the table is shorter than a turn of the counter (300 records, 65536 values).

### RtspServer

One event loop, one audio fifo, one video fifo. A fifo is what it holds (`pipe`), in
units: an audio frame is four of them, syncword, rest of the header, two of data, so that
a read can end anywhere in it; `LooksLikeSync` are the parts that pass for a syncword.
`OpenAudio`, `Search`, `ReadHeader` and `SkipFrame` are `ADTSAudioFifoSource::createNew`, before
the event loop starts; `GetNextFrame`, `NotReady`, `ReadVideo`, `ReadFrame`,
`ShortHeader`, `BadSyncword` and `Resync` are the two sources. `awaiting`, `started` and
`handler` are `isCurrentlyAwaitingData`, `fHaveStartedReading` and the handler in the
task scheduler. `OpenAudioFails` and `OpenVideoFails` are an `fopen` that gives NULL.
`Describe` and `CheckAux` are `getAuxSDPLine`; `DescribeAgain` is a second DESCRIBE while one
waits in its own event loop: it opens the video a second time, and what it reads of the fifo
is gone for the first, or it waits for ever for a grabber that is not there ("held").
A header gives at most 8191 bytes and a sink takes 262144, so that no frame is cut
off at `fMaxSize`. `StartGrabber` and `Write` are the
other end of the fifos in h264grabber: each start makes a new fifo, which leaves a source
that has the old one open, or waits for it, with a fifo nobody writes ("stale"). `cut` is a
history variable: some read did not end at the end of a frame.

### ImgGrabber

One process per launch, since a CGI script and the MQTT program start the same
program. `Look` is the search of `/proc` for another one, `Open` the mapping of the
camera's memory. `SearchRecord` and `SearchEnds` are the search, `Compare` the test
of a turn of the loop, `Collect` and `Drop` the two branches behind it, `Decode` the
end, `Timeout` the alarm of the loop. The table itself is not a variable: which
frame a record holds is a function of `written` (`Frame`), since the camera goes
around the table. The search stops at the first counter that is not larger; a table
that only ascends leaves `current_frame` at -1, the record before the table, which is
kept. `ByPath` are processes started with a path, whom `proc_find` does not see.

`pointer` is `bufferh264`. `Drop` frees the block and keeps the pointer, so that the
next `realloc` or `free` gets a freed block: what happens then is undefined, and the
model lets the process end there (`Abort`) or go on. `newest` and `lapped` are history
variables. The camera writes SPS, PPS and I frame at the start of every `Gop` frames;
`ImgAssumption` says that the table holds a group and three more records, because a
process compares with the one counter of its search and cannot tell its second turn
of the table from the first.

### FtpPush

One service, one run of `ftppush.sh stop` at a time, and `clean_records.sh`. The
actions of the service are the commands of `checkFiles` between which something
else can happen: `List` (the sorted snapshot), `Send` / `Skip` (the test of one
file against the mark, which is read again for each), `UploadFails` /
`UploadSucceeds`, `EmptyMark` and `WriteMark` (`echo ... > file` first empties the
file), `Remove`, `EndPass`. The script reads and rewrites the mark before it looks
at its argument, so "stop" does too: `StopReads`, `StopEmpties`,
`StopWrites`, `Stop`. A mark that
is empty makes every test of `checkFiles` fail, and the file is passed over as
already sent. `Reboot` loses the mark, which is in `/tmp`, and keeps the card.

A recording is its position among all names; `NamesAssumption` says that names
sort as their dates do, which the format of the names gives. `excused` is a history
variable that names every reason why a file may be passed over, where it arises.

### Services

The processes of the stream, and the three scripts that start and stop them. A script
is the list of the commands it has still to execute (`todo`): `SystemInit` at boot,
`Start` and `Stop` for a run of `service.sh`, and for a watchdog what a check has
found to restart. `RunProgram`, `RunWatchdog` and `Kill` execute the next command of
any script, so that everything interleaves between two commands. A sleep only
lets more of that happen and needs no step.

A watchdog is started (`RunWatchdog`), looks for another one (`Enter`), and goes
through `CheckGrabber`, `CheckRtsp`, `CheckRmm`, `CheckCloud` and `CheckMqtt` in turn;
the commands of a check come before the next check. `CheckRmm` reboots the camera
when rmm is gone: the step leads to the state a boot begins with. `killall` of the
watchdog drops the commands it had left. `procs` counts the processes of each
program; a second rRTSPServer finds its port taken and ends, a second h264grabber
does not. `locked` is a server that no longer answers and uses no processor time.

The settings are constants. `asked` is a history variable for the last request,
`mixed` says that requests overlapped or that a start came without a stop, `lost`
are grabbers that ended by themselves and were not started again.

## 3. Runs

| Run | Module, cfg | Instance | Distinct states |
|---|---|---|---|
| `mux` | MCIpcReaders, IpcReaders.cfg | 2 queues of depth 2, ipc_read and ipc_notify, 3 messages, 1 failing receive | 344 thousand |
| `ipc2file` | MCIpc2File, Ipc2File.cfg | 2 processes, 2 launches, queue of 2, 3 events | 600 thousand |
| `motion` | MCMotionEvents, MotionEvents.cfg | 2 runs of `ipc_cmd -S`, 1 message of the camera (a sound or a human detection), 1 daemon | 505 thousand |
| `grab_video` | MCH264Grabber, H264GrabberVideo.cfg | 4 records, 9 frames, counters modulo 8 | 15 thousand |
| `imggrab` | MCImgGrabber, ImgGrabber.cfg | 2 processes, 3 launches, 7 records, groups of 4, 20 frames | 140 thousand |
| `img_free` | MCImgGrabber, ImgGrabberFree.cfg | 1 process, 1 launch, the same table | (violated) |
| `ftp` | MCFtpPush, FtpPush.cfg | 3 recordings, 2 set-backs of the mark | 1.19 million |
| `services` | MCServices, Services.cfg | one video stream with audio, 2 requests, 2 faults | 217 thousand |
| `services_lock` | MCServices, ServicesLock.cfg | no request, 1 fault | (violated) |
| `ptz` | MCPresets, Presets.cfg | 2 processes (symmetric), 3 requests, 2 presets, a queue of 1 | 2.2 million |
| `mqtt` | MCMqttConfig, MqttConfig.cfg | 3 keys, 2 settings published, 2 edits, 2 faults | 187 thousand |
| `rtsp` | MCRtspServer, RtspServer.cfg | fifos of 4 units, 3 audio frames, 2 video units, 3 starts of grabbers, 3 requests | 598 thousand |

**mux.** `Lossless`: a queue that was never full has missed nothing, so that a copy is lost
to its own full queue and to nothing else, failing receives included. `Dispatched`:
the camera's queue moves on behind readers that never read. `FifoForEach`: see
above. `ClearNeverWaits`: `clear_queue` never blocks in a receive, where it would throw
away the next message, as long as the queue has one reader. `Answered`: a message on the queue
of a program in its loop is printed or handed to the command, unless that program
ends. Two queues let the two readers be on one queue or on two; three messages
overflow a queue of two, and with one that is too long ipc_notify ends among others.

**ipc2file.** `AtMostOneDaemon` over all orders of launches, crashes, terminations and
failing writes of the pid file, except where two launches raced (`raced`). `AlarmFilesMatchHistory` compares the files with a
reference definition over the history of events: a file exists exactly when the
alarm was raised and no stop came while it was the last alarm - across restarts,
which forget `last_alarm`, failing `fopen`s and sounds. `SoundEnds`,
`TerminateWorks`: leads-to properties. Two launches of two processes are a
daemon and its successor, one that finds the first, or two that race; three events are
two alarms and a stop, or an alarm between two stops.

**motion.** `MotionShown`: an event started while the daemon runs gets its file.
`MotionEnds`: once all runs are over no motion file is left. Both except a queue
that was full, `MotionEnds` also a fork that failed and an alarm that came between a motion
and its stop (`Overtaken`). The queues' depth is two, so
that full queues occur, and the camera's own queue has depth one, so that `mq_send`
blocks. `DaemonIsIpc2File`: the composition implements `Ipc2File`, so that what is
proved of the daemon alone holds of the daemon fed by the multiplexer.

**grab_video.** `SessionInOrder`: between two searches the frames are consecutive
while the grabber is not lapped. `NoReplay`: no frame twice across searches, until
the counter wraps. `FindsLatestUntilWrap`: the search, which reads record after
record while the camera writes, ends at a frame as new as the newest at its start.
`FrameShown`: a frame that follows is written, also around the wrap of the counter.
Nine frames write the table of four more than twice, and counters modulo 8 wrap
within the table; `Width` is as small as `GrabberAssumption` allows.

**imggrab.** `PictureWhole`: what is decoded is SPS, PPS and I frame of one picture,
newer than the launch, wherever in a group the process began. `PictureTaken`: once the
camera has written a whole group behind a partial one, the process gets its picture
even if the camera stops then. `AtMostOneGrabs`: two launches by name do not grab
together. Seven records are the smallest table for groups of four, the smallest
groups with a frame that is none of the three; twenty frames write it almost three
times, and with counters modulo 16 they wrap in the third.

**ftp.** `RemovedWereSent`: only what the server has is deleted from the card.
`SentOncePerSetback`: a file is sent again only after the mark was set back (a
reboot, a stop at a bad moment). `LossesExplained`: every file passed over unsent
has a reason of its own: its upload failed, it shares its minute, it came with an
older date, or the mark was empty. `EverySent`: a file that stays on the card is
sent or excused, whatever else fails. The dates cross a year (the comparison is by
year first) and two share a minute; the clock may go back; `clean_records.sh` may
leave one file. A stop sets the mark back twice (it writes an old mark and then may
leave the file of the service empty), so that two is the smallest number that has one.

**services.** `StopHolds`: after a stop nothing of the stream runs, though the watchdog
may have been about to start it. `OneGrabberEach`: after a stop and a start no stream
has two grabbers. Both leave out requests that overlap and a start without a stop
before it (`mixed`), where the scripts do start things twice. `OneWatchdog`: one
watchdog in its loop, also when the boot and a request start one each. `StartWorks`:
a boot or a start brings up watchdog, server and grabbers, even though the boot
does not start the server for a single stream, and whatever dies on the way; a
grabber that dies while another runs is excused, since `check_grabber` does not see
it. `WatchedComeBack`: mqttv4 and the cloud program come back while a watchdog
runs. Two requests are a stop and a start, or two stops; with two faults a program can
die and die again while it is restarted, or two programs together. One resolution is the
harder case: the boot leaves the server to the watchdog. Requests name the stream or
mqttv4; "all" is the one after the other. "all", several runs of `service.sh` at once
and more of everything are covered by the proofs.

**ptz.** `TableComplete`: however many runs rewrite the table at once, and write over each
other's lines, when all are over it has a line for each number; it says nothing of the
names they give. `NamesUnique` and `TableMatchesCamera`: runs that do not overlap never give
a name twice, and a number has a name exactly when the camera has a preset there, though
the script never learns which number the camera chose; the latter except what `parted` names.
`CameraStops`: the camera stands still when all is over, unless the last move is nobody's
to stop (`loose`). `JumpLands`: a jump ends within a degree of what was asked,
unless the camera moved between the read and the jump. Two presets
make a first and a last line; three requests of two processes are two that overlap and one before or
behind; the queue of one keeps a run waiting in the middle of its sends. The requests have every kind
of text for a number, and among the lines others run is a move by itself. The two processes
are interchangeable, and no property is about liveness, so that symmetry is sound. The model is
one of the upside-down ones, whose arithmetic has everything the others have; the proofs cover all.

**mqtt.** `NotDeaf`: the program never takes itself for connected without its subscription.
`Reconnects`: once the broker stays, the program subscribes again. Both except a
`mosquitto_subscribe` that failed on a connection that lives (`unasked`). `TerminateStops`: told to stop while
the broker is there, it ends. `SettingsKept`: as long as the two writers of the file take
turns, it holds every line it had with the value set last. The file has a line
without a value, as system.conf has; the settings are one of each kind: written, written to
such a line, out of range, NULL column, command, empty. Two faults are a broker that goes and comes back.

**rtsp.** `AudioInStep`: as long as every read ends at the end of a frame, the sinks get whole
frames, one after the other, and no syncword is missed. `DataDelivered`: data for a sink that awaits it is
delivered, however reading stops and starts, unless a second DESCRIBE has taken it
out of the fifo. `Described`: a description that was begun is
finished, with the parameter sets or, when the grabber ends first, without. A fifo of one
frame fills; three frames are one skipped at the start, one delivered, and its successor;
three requests are one DESCRIBE, one PLAY and a client of the audio, or a client that comes twice.

**Fairness.** In `mux` the dispatch process is scheduled, and so is each step of a reader
that is running; nobody has to launch one. In `ipc2file` and `motion` each process takes a step that it can take (they
are ordinary processes of a preemptive kernel) and sleeping threads wake; nobody
has to launch, to send a message, or to interrupt a receive. In `grab_video` and
`imggrab` the process polls, the camera may stop, and the timeout of a snapshot need
not come. In `services` every script goes on; nobody has to make a request, and no
program has to die. In `ftp` the service goes on, and `ftpput`
is taken to return: the script gives it no timeout (a listed hazard). Strong
fairness is assumed nowhere. In `mqtt` the one thread goes on, and its `mosquitto_loop`
returns; the broker need not come back. In `rtsp` the event loop serves every handler and timer
(live555 goes around the handlers) and a sink that got a frame asks for the next, as RTP sinks do; grabbers
and clients need do nothing. `ptz` has no liveness property.

**Bounds.** Every bound is a constant with "bound" in its comment, used in the
guard of an action of the environment (messages sent, launches, frames, recordings,
set-backs, failing receives), never in a guard of the code's own steps; when the
environment has used them up the system goes on and comes to rest. That is why the
runs that can come to rest say `CHECK_DEADLOCK FALSE`: the programs wait for
input. `frame_counter_invalid` is not counted beyond the limit it is compared with.

## 4. What the checks found

Two runs show the code do other than its own messages say.

* `img_free` - "Error, buffer is empty" is said when `bufferh264` is NULL; after a
  frame that is dropped it is not NULL but points to a freed block.
* `services_lock` - "Detected possible locked process": the watchdog looks for a
  socket on `$RTSP_PORT`, a variable that it does not set and that no script
  exports, so that a locked server is never restarted. With `RtspPortExported =
  TRUE` the property holds.

More came up while the models were written. Each is in a model as the code has it, and
the properties name it as an exception where it matters.

*Events.* A stop ends only the alarm in `last_alarm`: after a motion start, a human detection and
a motion stop `motion_alarm` stays until a later motion event ends (`ipc2file.c:387`), and a
human detection by itself stays until some motion stops. Two launches at once can both pass `check_pid` (`ipc2file.c:541`).
In ipc_notify the terminating NUL of the digits is written one place too far (`ipc_notify.c:83`).

*Frames.* Once the counter has wrapped inside the table, the search of h264grabber takes the
largest counter for the latest, a frame of before the wrap (`h264grabber.c:603`).

*Uploads.* After one failed upload and a later successful one, the failed file is passed
over for good as "already sent" (`ftppush.sh:76`); it stays on the card until `clean_records.sh` takes it.

*rRTSPServer.* The recovery of sync takes the length from the header that was bad
(`ADTSAudioFifoSource.cpp:256`). The first frame is skipped with `fread`, whose buffer keeps
what else it read from every later `read` (line 122). When the first header is not one, there is
no audio source, but a replicator, and the first client of the audio ends the server
(`ADTSAudioFifoServerMediaSubsession.cpp:118`). `fopen` of a fifo
waits for its writer, and the whole server with it; when h264grabber is started in that
moment it makes another fifo and the wait is for ever. An audio fifo
whose grabber is gone gives empty frames, at once and again. A DESCRIBE that
failed leaves the description empty until the server is restarted
(`H264VideoFifoServerMediaSubsession.cpp:89`). A read that fails is a frame of 2^32 - 1
bytes (`ByteStreamFifoSource.cpp:143`).

*mqtt-config.* Three rows of `config_params` lack a comma (`validate.c:32,46,47`), so
that a value for NTP_SERVER, FTP_USERNAME or FTP_PASSWORD ends the program in `strcpy`
(`validate.c:180`). The command of a camera setting does not fit into `ipc_cmd_param[2]`
(`mqtt-config.c:67`). A line without a value is never replaced (`config.c:81`: `sscanf` has
to read both). SIGTERM is not looked at while the broker is away.
When `mosquitto_subscribe` fails on a connection that lives, the answer to the connection
still sets "connected", and the program stays without its subscription (`mqtt-config.c:294`). An `fopen` that fails half
way leaves the temporary file, or the configuration file empty.

*ipc_cmd.* The number of `-p` is not checked against the number of presets and goes out as
a byte. A bad argument of `-B` has no
effect and no message. `load.sh:135` calls `ipc_cmd -r o`, which is none of the words of `-r`.
An absolute jump that was overtaken by another move lands elsewhere.

*Presets.* `preset.sh` passes any text for a number: 255 removes every preset of the camera and 01 one, and
neither a line of the table (`ptz_presets.sh:52`, `ipc_cmd.c:511`). A preset added without a name gets the pan angle for one and
is not set in the camera. Two runs at once write over each other's lines
(`ptz_presets.sh:59`), so that a number can have two. An `ipc_cmd` that does not
start leaves the table changed. ONVIF's moves are stopped by a request of their own, so that one that
does not come leaves the camera moving (`system.sh:378-382`).

## 5. Proofs

All theorems hold for every value of the constants that the named assumptions
admit: any number of queues, messages, processes, records, recordings.

| Module | Theorem | States | Argument |
|---|---|---|---|
| IpcMultiplexProofs | `TypeCorrect` | `TypeOK` | inductive; the depth of a queue is kept by `Enqueue` |
| | `NothingLostButToFullQueues` | `Lossless` | `LosslessInv`: adds that the message being forwarded is the last one received, which is what makes `Offered` grow by exactly it when the loop passes a queue |
| | `CopiesStayInOrder` | `InOrder` | `OrderInv`: ids ascend along log, message in the buffer, inbox, and stay below `sent` |
| | `QueuesImplementLossyFifo` | `FifoForEach` | each step maps to `Accept`, `Lose`, `Take` or a stutter of each queue |
| | `ReadersRefineMultiplexer` | - | every step of a reader is a `Take` or a stutter, so that the theorems above hold with IpcReaders |
| | `ClearDoesNotWait` | `ClearNeverWaits` | `ReaderInv`: two programs on one queue make it a queue of followers, so that only the reader that clears can empty the others |
| | `EventsRefineMultiplexer` | - | every step of MotionEvents is one of the multiplexer, so that its theorems hold there too |
| | `DaemonImplemented` | `DaemonIsIpc2File` | a step simulation: a copy put on queue 2, or lost there, is an `Arrive` of Ipc2File, the opening of the queues its `CreateQueue`, and the daemon's own steps are the same. `CountInv`: nothing is copied before the queues are open, and no more than was sent, which bounds Ipc2File |
| Ipc2FileProofs | `TypeCorrect` | `TypeOK` | inductive; in particular a sound never becomes the last alarm |
| | `OneDaemon` | `AtMostOneDaemon` | `PidInv`: the pid file names whoever serves; unless launches have raced, at most one launch is past the check without its pid in the file, and meanwhile nobody serves |
| | `AlarmFiles` | `AlarmFilesMatchHistory` | `AlarmInv`: the files are `RaisedOf` of the history, and `last_alarm` of each daemon in its loop is the last alarm or stop that it took itself, however many daemons there are. `OneMore` and `RaisedMore` are what one more event does to that definition, which speaks of whole histories |
| H264GrabberProofs | `TypeCorrect` | `TypeOK` | inductive, with the range of `%` |
| | `FramesInOrder` | `SessionInOrder` | `TableInv`: which frame each record holds, as a function of `written`; `StandInv`: where the grabber stands. `StaleIsInvalid` is the arithmetic at its heart: the counter of a record from the turn before never passes the validity test |
| | `FindsLatestFrame` | `FindsLatestUntilWrap` | `SearchInv`: the search is in one turn of the table (`Turn`), and the record it remembers is as new as the search, or comes right before the one it looks at |
| | `NoFrameTwice` | `NoReplay` | `ReplayInv`: what was written to the fifo before a search is older than the newest frame when it began, and what is written since is not |
| ImgGrabberProofs | `TypeCorrect` | `TypeOK` | inductive; a frame read from a record of the table is a natural number |
| | `OneGrabber` | `AtMostOneGrabs` | inductive: `GrabSteps` shows that only `Look` adds a process that grabs, and it has found no other |
| | `WholePicture` | `PictureWhole` | `PicInv`: until the camera laps a process, the record it stands at holds the frame after what it has in its buffer (`At`, `Collected`), and it has passed no SPS except one whose PPS and I frame it is about to take; the search ends at the newest of the frames it has seen (`Held`) |
| FtpPushProofs | `TypeCorrect` | `TypeOK` | inductive |
| | `DeletesOnlySent` | `RemovedWereSent` | `SentInv`: after a successful upload `file` is on the server until the loop goes on |
| | `SendsOnce` | `SentOncePerSetback` | `MarkInv`: while the service runs the mark has its file; `OnceInv`: a file sent as often as allowed is on its way into the mark, or not later than it |
| | `NoUnexplainedLoss` | `LossesExplained` | assumes `SortInstalled`; `LossInv`: no mark that exists anywhere (in the file, in the shell of the service, in that of a "stop") has passed anything that is not sent or excused, and the list is worked off in order |
| ServicesProofs | `TypeCorrect` | `TypeOK` | inductive; every script is a sequence of commands, and a locked server runs |
| | `OneWatchdogOnly` | `OneWatchdog` | inductive: only `Enter` adds a watchdog to those in the loop, and it has found no other |
| | `StopsHold` | `StopHolds` | `WatchdogInv`: a watchdog outside its loop has no commands; `StopInv`: while a stop is under way, every watchdog, the server and the grabbers live only as long as a run of `service.sh` has their `killall` ahead, and the watchdog's comes first |
| | `OneGrabberOnly` | `OneGrabberEach` | `SingleInv`: only one script has grabbers or the watchdog still to start, each once and the watchdog last, and a stream that has its grabber is killed before it is started again |
| | `ServerTypeCorrect` | `RtspTypeOK` | inductive; `PlainOK` and `PipeOK` are its parts. RtspServer is proved in this module too, with the scripts that start it |
| | `AudioStaysInStep` | `AudioInStep` | `StepInv`: until a read was cut, the fifo holds the units from the p-th on (`Stream`), for a p that fits where the server is (`Place`) - before the loop what passed for a syncword was one, in the loop the p-th unit begins the frame behind the one delivered last - or it is empty for good (`Dry`) |
| PresetsProofs | `TableIsComplete` | `TableComplete` | `TableInv`: each number has a line in the table, or some run has just emptied it (`Opening`), or has written at the front and appended its lines so far (`Filling`) - the last run to write at the front, which may take away lines of all the others - and whoever works on the table has a call left to finish |
| | `NamesAreUnique` | `NamesUnique` | `UniqueInv`: a run that is alone has the names of the lines it has read, none of which is the one it is to add (`Reading`), and writes names that are unique, as far as it has come (`Writing`) |
| | `NamesMatchCamera` | `TableMatchesCamera` | `MatchInv`: some set of numbers `Y` is where the messages under way lead the camera (`Ends`), what the run has still to send leads from there to an `X` (`Sends`), and the names it makes are `X`, or ahead of it by the one call the script makes next (`Ahead`). `LowInv`: FIRST_AVAIL is the first free number among the lines read, which is the one the camera takes for the same message (`Filled`). All of it `~overlapped /\ ~parted` |
| | `CameraIsStopped` | `CameraStops` | `MoveInv`. `ShapeInv`: no script moves the camera except between the two calls of `ptz.sh`, for which `ProgramQuiet` looks at every message a command line can make ipc_cmd send; an ipc_cmd by itself may send any. `StopInv`: unless `loose`, behind every move in the queue, and for a camera that moves, a stop is still to come, in the queue or from a ptz.sh |
| | `JumpsLand` | `JumpLands` | `QueueInv`: each jump in the queue was computed from whole angles and a position in range, to which the two theorems of the next line apply |
| | `CommandTypes` | `CmdTypeOK` | from `MoveInv`; the camera stays in range because `Moved` clamps |
| | `AbsoluteJumpLands`, `RelativeJumpLands` | - | the roundings of `jump_abs`, `jump_rel` and of the angles, one lemma for each, bounded one by one: from every position, on every model, a jump ends within a degree of what was asked |
| MqttConfigProofs | `TypeCorrect` | `TypeOK` | inductive; `ControlOK`, `FlagsOK` and the rest are its parts, one lemma for each |
| | `NeverDeaf` | `NotDeaf` | `LinkInv`: behind `mqtt_connect` there is a connection or `conn_state` says there is none, and a connection that was not refused is subscribed, or subscribing failed on it (`unasked`) |
| | `SettingsAreKept` | `SettingsKept` | `TurnsInv`: while the two writers take turns, the file is what was meant except between the opening and the writing, where the copy is (`CopyIsMeant`) |

The properties alone are not inductive: `Lossless` says nothing of the message in
the buffer, `AtMostOneDaemon` nothing of the launch that has just checked,
`SessionInOrder` nothing of what the other records hold, `LossesExplained`
nothing of files that are still to be passed, `StopHolds` nothing while a stop is
at work, `TableComplete` nothing of a table that is half written, `CameraStops` nothing of
the messages under way, `TableMatchesCamera` nothing of a run that has changed its table and
not yet called ipc_cmd, and `SettingsKept` nothing of the copy.

The library's induction theorems take a predicate as a parameter, which the provers cannot
instantiate. `Least` of PresetsProofs is the way round it that this project uses: a set of natural
numbers has a least one, from `NatLessThanWellFounded` and `WFMin`; so that where the last
option of a command line is a maximum of a set, it exists. It is of no use for a recursive
definition, whose value no prover unfolds. What all the messages of a queue do to the camera
one after the other is therefore not a fold: `Ends` says that there is a function with the set
behind each message, of which `EndsMore` and `EndsTail` are what a message put and one handled
make.

Assumptions on the constants: `SizesAssumption`, `NoMessageAssumption`, `ReadersAssumption`,
`ConstantsAssumption`, `EventsAssumption`, `GrabberAssumption`, `ImgAssumption`, `FilesAssumption`,
`NamesAssumption`, `SettingsAssumption`, `MarkAssumption`, `ServicesAssumption`,
`RtspAssumption`, `IpcCmdAssumption`, `PresetsAssumption`, `LinesAssumption`, `OnlyTheScript`, `MqttAssumption` (TLC evaluates each on its runs).
`IpcCmdAssumption` has at least two presets and fewer than 256, as the numbers of the
messages are bytes. `LinesAssumption` is about what others than the two scripts run: any command lines, moves of
the camera included; only a file that is sent to the queue holds no jump and no unknown
direction, which nothing in the repository makes. `OnlyTheScript`, which only
`NamesMatchCamera` needs: nobody sets or removes a preset past `ptz_presets.sh`, as nothing
in the repository does (ONVIF and the web interface run the script); a preset set by hand
has no name. And the hypothesis `SortInstalled` that stands in the statement of the theorem
that needs it.

The type invariants of the modules with a `TypeCorrect` are proved and therefore not checked
by the runs again; that of IpcReaders (`ReadersTypeOK`)
documents the variables. `PidFileOwned` is part of `PidInv`.

Only model-checked is everything with fairness, since the prover does not reason about ENABLED:
`Answered`, `Dispatched`, `SoundEnds`, `TerminateWorks`, `MotionShown`, `MotionEnds`,
`FrameShown`, `PictureTaken`, `EverySent`, `StartWorks`, `WatchedComeBack`, `Reconnects`,
`TerminateStops`, `DataDelivered`, `Described`. Every safety property of a passing run has its theorem.

## 6. What is not modelled, and why

* The bytes of messages, frames and files; logging; command line options; the
  debug output of the programs. No property is about them.
* In the multiplexer the filter on the target of a message, which is commented out
  in the code.
* In h264grabber the mapping of the buffer, which runs once before the loop, and the
  tearing of one frame while the camera overwrites it within one `fwrite`: a frame written
  from a record that the camera has lapped counts as the frame it holds. (The creation
  of the fifo is `StartGrabber` of RtspServer.)
* In rRTSPServer the protocol itself and the packets, which live555 does: it is external,
  with the order in which it calls the sources; the options and the names of the streams.
* In mqtt-config the reading of its own configuration at the start.
* In ipc_cmd the wording of its output.
* In imggrabber the options, decoding and encoding, and the native API, which takes
  pictures of low resolution without a water mark past the table.
* In ftppush.sh the directories on the server; in clean_records.sh the order in
  which directories go (it is left open, which includes the code's).
* In system.sh and service.sh the services that nobody watches (ONVIF, WSDD, FTP,
  mp4record, the start of mqtt-config), the crontab and the WiFi settings; a change of the
  configuration while the scripts run.
* The firmware update, the web interface and the MQTT advertisement: planned in section 7 as
  far as more than one process writes the same file; the rest is one script that runs from top
  to bottom.
* The WiFi and boot scripts, `cloudAPI_fake` and `proccgi` are straight-line code, the water
  mark and JPEG code is arithmetic on pixels, and the builds are of third-party sources.

## 7. Plan

Done, in this order: `IpcMultiplex` with `LossyFifo`, which feeds everything else;
`Ipc2File`; `MotionEvents`, the composition of the two with `ipc_cmd -S`; `H264Grabber`;
`FtpPush`; `ImgGrabber`; `Services`; `IpcReaders`; `IpcCmd` with `Presets`; `RtspServer`;
`MqttConfig`; each with the proofs of section 5.

Left:

1. `Upgrade`: the two phases of a firmware update with a power loss at any point. Property:
   the system that boots is wholly old or wholly new.
2. `Crontab`: `system.sh`, the advertisement scripts and the web interface write the same
   files; the settings that `mosquitto_sub -C 1` misses.

Runs are kept to one for each question: one passing run per module or composition, small
enough to finish within a few minutes, and a violated run only where the code disagrees with
its own words.
