-------------------------------- MODULE Ipc2File --------------------------------
(***************************************************************************)
(* ipc2file (src/ipc_cmd/ipc_cmd/ipc2file.c): the daemon that turns the    *)
(* events of forwarding queue 2 into files under /tmp/onvif_notify_server, *)
(* one file per alarm, which the ONVIF server shows while they exist.      *)
(*                                                                         *)
(* Modelled: the pid file, the start with its draining of the queue, the   *)
(* loop, process_event, the threads that end a sound alarm, SIGTERM, and   *)
(* several launches of the program, by the boot script and by the web      *)
(* interface.                                                              *)
(***************************************************************************)
EXTENDS Naturals, Sequences

CONSTANTS
  Procs,       \* the processes that launches of ipc2file can be
  NoPid,       \* there is no pid file
  DeadPid,     \* the pid file names a process that is gone
  Wires,       \* the messages that can arrive
  QueueDepth,  \* depth of the queue: 64 in the code
  MaxEvents,   \* bound: messages sent to the queue
  MaxLaunches, \* bound: launches of the program
  MayFail,     \* whether fopen may fail
  MayEnd       \* whether SIGTERM and crashes happen

ASSUME ConstantsAssumption ==
  /\ NoPid \notin Procs /\ DeadPid \notin Procs /\ NoPid # DeadPid
  /\ QueueDepth \in Nat \ {0}
  /\ MaxEvents \in Nat /\ MaxLaunches \in Nat
  /\ MayFail \in BOOLEAN /\ MayEnd \in BOOLEAN

Alarms == {"motion_alarm", "human_detection", "vehicle_detection",
           "animal_detection", "baby_crying"}
Sound == "sound_detection"
Stop == "stop"

\* The event of each message parse_message knows; messages of two firmware
\* generations give one event.
EventOf ==
  [ MOTION_START           |-> "motion_alarm",
    MOTION_START_C         |-> "motion_alarm",
    MOTION_STOP            |-> Stop,
    AI_HUMAN_DETECTION     |-> "human_detection",
    AI_BODY_DETECTION_C    |-> "human_detection",
    AI_VEHICLE_DETECTION_C |-> "vehicle_detection",
    AI_ANIMAL_DETECTION_C  |-> "animal_detection",
    BABY_CRYING            |-> "baby_crying",
    SOUND_DETECTION        |-> Sound ]

Unrecognized == "unrecognized"
Events == Alarms \cup {Sound, Stop, Unrecognized}
Parse(m) == IF m \in DOMAIN EventOf THEN EventOf[m] ELSE Unrecognized

NoAlarm == "none"    \* last_alarm = -1

VARIABLES
  queueExists,   \* whether the multiplexer has created the queue
  queue,         \* the messages in it
  events,        \* how many were sent to it
  launches,      \* how many times the program was launched
  files,         \* the alarm files that exist
  pidFile,       \* what the pid file names
  pc,            \* where each process is
  lastAlarm,     \* last_alarm of each process
  exitMain,      \* exit_main of each process
  soundThreads,  \* the sound_stop_threads each process has asleep
  handled,       \* history: events that took effect, and starts, each with its daemon
  ended,         \* history: a process has ended
  raced          \* history: since a process was last launched alone, two were
                 \* between check_pid and the end of create_pid at once

queueVars == <<queueExists, queue, events>>
memory == <<lastAlarm, exitMain, soundThreads>>   \* of the processes
procVars == <<launches, pidFile, pc, memory, ended, raced>>
world == <<launches, queueVars, files, handled>>
vars == <<queueVars, files, procVars, handled>>

PC == {"off", "check", "create", "write", "open", "clear", "drop", "loop", "receive",
       "stop"}

TypeOK ==
  /\ queueExists \in BOOLEAN
  /\ queue \in Seq(Wires) /\ Len(queue) <= QueueDepth
  /\ events \in Nat
  /\ launches \in Nat
  /\ files \subseteq Alarms \cup {Sound}
  /\ pidFile \in Procs \cup {NoPid, DeadPid}
  /\ pc \in [Procs -> PC]
  /\ lastAlarm \in [Procs -> Alarms \cup {Stop, NoAlarm}]
  /\ exitMain \in [Procs -> BOOLEAN]
  /\ soundThreads \in [Procs -> Nat]
  /\ handled \in Seq(Procs \X (Events \cup {"start"}))
  /\ ended \in BOOLEAN
  /\ raced \in BOOLEAN

Init ==
  /\ queueExists = FALSE
  /\ queue = <<>>
  /\ events = 0
  /\ launches = 0
  /\ files = {}
  /\ pidFile = NoPid
  /\ pc = [p \in Procs |-> "off"]
  /\ lastAlarm = [p \in Procs |-> NoAlarm]
  /\ exitMain = [p \in Procs |-> FALSE]
  /\ soundThreads = [p \in Procs |-> 0]
  /\ handled = <<>>
  /\ ended = FALSE
  /\ raced = FALSE

--------------------------------------------------------------------------------
(* The multiplexer, seen from the queue. *)

CreateQueue ==
  /\ ~queueExists
  /\ queueExists' = TRUE
  /\ UNCHANGED <<queue, events, files, procVars, handled>>

\* A copy arrives; a full queue loses it.
Arrive(m) ==
  /\ queueExists
  /\ events < MaxEvents
  /\ events' = events + 1
  /\ queue' = IF Len(queue) < QueueDepth THEN Append(queue, m) ELSE queue
  /\ UNCHANGED <<queueExists, files, procVars, handled>>

--------------------------------------------------------------------------------
(* Start of a process. *)

Goto(p, from, to) == pc[p] = from /\ pc' = [pc EXCEPT ![p] = to]

\* The memory of a process and its threads die with it.
Forget(p) ==
  /\ lastAlarm' = [lastAlarm EXCEPT ![p] = NoAlarm]
  /\ exitMain' = [exitMain EXCEPT ![p] = FALSE]
  /\ soundThreads' = [soundThreads EXCEPT ![p] = 0]
Exit(p, from) == Goto(p, from, "off") /\ Forget(p)

\* The process that ends may leave its pid in the file.
LeavePid(p) == pidFile' = IF pidFile = p THEN DeadPid ELSE pidFile

Launch(p) ==
  /\ launches < MaxLaunches
  /\ launches' = launches + 1
  /\ Goto(p, "off", "check")
  /\ raced' = (raced /\ \E o \in Procs : pc[o] # "off")
  /\ UNCHANGED <<queueVars, files, pidFile, memory, handled, ended>>

\* The processes that have passed check_pid and not yet written their pid.
Creating(p) == pc[p] \in {"create", "write"}

\* Nothing keeps a launch from passing check_pid while another one has.
Races == raced' = (raced \/ \E o \in Procs : Creating(o))

\* check_pid: "Program is already running" if the process in the pid file
\* exists, and also if an unrelated process has got the pid of one that is gone.
CheckPid(p) ==
  /\ \/ /\ pidFile \notin Procs
        /\ Goto(p, "check", "create")
        /\ Races
        /\ UNCHANGED memory
     \/ /\ pidFile # NoPid
        /\ Exit(p, "check")
        /\ UNCHANGED raced
  /\ UNCHANGED <<world, pidFile, ended>>

\* fopen empties the file ...
CreatePid(p) ==
  /\ \/ /\ Goto(p, "create", "write")
        /\ pidFile' = NoPid
        /\ UNCHANGED memory
     \/ /\ MayFail
        /\ Exit(p, "create")
        /\ UNCHANGED pidFile
  /\ UNCHANGED <<world, ended, raced>>

\* Variant of WritePid: the pid of the process that daemonize has left behind.
WritePidOfParent(p) ==
  /\ Goto(p, "write", "open")
  /\ pidFile' = DeadPid
  /\ UNCHANGED <<world, memory, ended, raced>>

\* ... and the pid gets into it later; the last one to write is read.
WritePid(p) ==
  /\ \/ /\ Goto(p, "write", "open")
        /\ pidFile' = p
        /\ UNCHANGED memory
     \/ /\ MayFail
        /\ Exit(p, "write")
        /\ UNCHANGED pidFile
  /\ UNCHANGED <<world, ended, raced>>

\* mq_open has no O_CREAT: before the multiplexer has created the queue the
\* process exits, and leaves its pid file.
OpenQueue(p) ==
  /\ IF queueExists
       THEN Goto(p, "open", "clear") /\ UNCHANGED <<pidFile, memory>>
       ELSE Exit(p, "open") /\ LeavePid(p)
  /\ UNCHANGED <<world, ended, raced>>

\* clear_queue reads the number of messages, then receives one, as two steps.
ClearTest(p) ==
  /\ IF queue = <<>>
       THEN Goto(p, "clear", "loop") /\ handled' = Append(handled, <<p, "start">>)
       ELSE Goto(p, "clear", "drop") /\ UNCHANGED handled
  /\ UNCHANGED <<launches, queueVars, files, pidFile, lastAlarm, exitMain,
                 soundThreads, ended, raced>>

ClearDrop(p) ==
  /\ queue # <<>>
  /\ Goto(p, "drop", "clear")
  /\ queue' = Tail(queue)
  /\ UNCHANGED <<launches, queueExists, events, files, pidFile, lastAlarm, exitMain,
                 soundThreads, handled, ended, raced>>

--------------------------------------------------------------------------------
(* The loop. *)

\* Variant of LoopTest: the loop does not look at exit_main.
LoopTestForever(p) ==
  /\ Goto(p, "loop", "receive")
  /\ UNCHANGED <<world, pidFile, memory, ended, raced>>

\* while (exit_main != 1), after the pause of half a second.
LoopTest(p) ==
  /\ Goto(p, "loop", IF exitMain[p] THEN "stop" ELSE "receive")
  /\ UNCHANGED <<world, pidFile, memory, ended, raced>>

\* The files and last_alarm after process_event: a stop removes the file of the
\* last alarm only, and a sound is no alarm a stop could end.
FilesAfter(fs, last, e) ==
  IF e = Stop THEN fs \ {last}
  ELSE IF e \in Alarms \cup {Sound} THEN fs \cup {e} ELSE fs

\* Variant of LastAfter: a sound becomes the last alarm.
LastAfterSound(last, e) == IF e = Unrecognized THEN last ELSE e

LastAfter(last, e) == IF e \in Alarms \cup {Stop} THEN e ELSE last

\* Variant of Receive: the thread that ends a sound alarm is not started.
ReceiveNoThread(p) ==
  /\ queue # <<>>
  /\ Goto(p, "receive", "loop")
  /\ queue' = Tail(queue)
  /\ LET e == Parse(Head(queue)) IN
       /\ files' = FilesAfter(files, lastAlarm[p], e)
       /\ lastAlarm' = [lastAlarm EXCEPT ![p] = LastAfter(@, e)]
       /\ handled' = Append(handled, <<p, e>>)
  /\ UNCHANGED <<launches, queueExists, events, pidFile, exitMain, soundThreads, ended,
                 raced>>

\* mq_receive, parse_message and process_event.  If the file of an alarm cannot
\* be opened the event has no effect at all.
Receive(p) ==
  /\ queue # <<>>
  /\ Goto(p, "receive", "loop")
  /\ queue' = Tail(queue)
  /\ LET e == Parse(Head(queue)) IN
       \/ /\ files' = FilesAfter(files, lastAlarm[p], e)
          /\ lastAlarm' = [lastAlarm EXCEPT ![p] = LastAfter(@, e)]
          /\ soundThreads' = [soundThreads EXCEPT ![p] = IF e = Sound THEN @ + 1 ELSE @]
          /\ handled' = Append(handled, <<p, e>>)
       \/ /\ MayFail /\ e \in Alarms \cup {Sound}
          /\ UNCHANGED <<files, lastAlarm, soundThreads, handled>>
  /\ UNCHANGED <<launches, queueExists, events, pidFile, exitMain, ended, raced>>

\* A signal may end a blocked mq_receive early; the C library may also restart it.
Interrupt(p) ==
  /\ exitMain[p]
  /\ Goto(p, "receive", "loop") \/ Goto(p, "drop", "clear")
  /\ UNCHANGED <<world, pidFile, memory, ended, raced>>

\* sound_stop_thread after its 60 seconds.
SoundTimeout(p) ==
  /\ soundThreads[p] > 0
  /\ soundThreads' = [soundThreads EXCEPT ![p] = @ - 1]
  /\ files' = files \ {Sound}
  /\ UNCHANGED <<launches, queueVars, pidFile, pc, lastAlarm, exitMain, handled, ended,
                 raced>>

\* The end of main: the pid file is unlinked, whatever it names.
Finish(p) ==
  /\ Exit(p, "stop")
  /\ pidFile' = NoPid
  /\ ended' = TRUE
  /\ UNCHANGED <<world, raced>>

--------------------------------------------------------------------------------
(* The outside: killall ipc2file, and a crash. *)

Terminate ==
  /\ MayEnd
  /\ exitMain' = [p \in Procs |-> exitMain[p] \/ pc[p] # "off"]
  /\ exitMain' # exitMain
  /\ UNCHANGED <<world, pidFile, pc, lastAlarm, soundThreads, ended, raced>>

Crash(p) ==
  /\ MayEnd
  /\ pc[p] # "off"
  /\ Exit(p, pc[p])
  /\ LeavePid(p)
  /\ ended' = TRUE
  /\ UNCHANGED <<world, raced>>

--------------------------------------------------------------------------------

Step(p) ==
  \/ CheckPid(p) \/ CreatePid(p) \/ WritePid(p) \/ OpenQueue(p) \/ ClearTest(p) \/ ClearDrop(p)
  \/ LoopTest(p) \/ Receive(p) \/ Finish(p)

Next ==
  \/ CreateQueue
  \/ \E m \in Wires : Arrive(m)
  \/ \E p \in Procs :
       Launch(p) \/ Step(p) \/ Interrupt(p) \/ SoundTimeout(p) \/ Crash(p)
  \/ Terminate

Spec == Init /\ [][Next]_vars

\* A process that can run runs, and a sleeping thread wakes; nobody has to launch
\* the program, to send a message or to interrupt a blocked receive.
FairSpec == Spec /\ \A p \in Procs : WF_vars(Step(p)) /\ WF_vars(SoundTimeout(p))

--------------------------------------------------------------------------------
(* Properties *)

\* The processes that have written the pid file and not ended.
Serving(p) == pc[p] \in PC \ {"off", "check", "create", "write"}

\* "Program is already running" (main): two daemons take messages from the queue,
\* each with a last_alarm of its own, only if two launches have overlapped between
\* check_pid and create_pid (ipc2file.c:542-549) since the program was last launched
\* with none running.  No crash, end, failure or reused pid brings it about.
AtMostOneDaemon == \A p, q \in Procs : Serving(p) /\ Serving(q) => p = q \/ raced

\* Unless launches overlap the pid file names the daemon that runs, so that the next
\* launch sees it.
PidFileOwned == \A p \in Procs : Serving(p) => pidFile = p \/ raced

\* Reference definition over the history: the last alarm or stop that p has handled
\* before position k, and the alarms with a file: raised, and not ended by a later
\* stop that came when they were the last alarm of the daemon that took it.
IsMark(e) == e \in Alarms \cup {Stop, "start"}
LastBefore(p, k) ==
  LET marks == {j \in 1..k-1 : handled[j][1] = p /\ IsMark(handled[j][2])}
  IN IF marks = {} THEN NoAlarm
     ELSE handled[CHOOSE j \in marks : \A l \in marks : l <= j][2]
Ended(a, k) == handled[k][2] = Stop /\ LastBefore(handled[k][1], k) = a
Raised == {a \in Alarms : \E k \in 1..Len(handled) :
             /\ handled[k][2] = a
             /\ \A l \in k+1..Len(handled) : ~Ended(a, l)}

\* Which alarm files exist is decided by the events alone, across sounds, failed
\* events, restarts and daemons that serve at once: a stop ends exactly the alarm
\* that its daemon handled right before it, and no other.
AlarmFilesMatchHistory == files \ {Sound} = Raised

\* Every sound alarm ends by itself, unless a daemon ends and its threads with it.
SoundEnds == Sound \in files ~> Sound \notin files \/ ended

\* A daemon told to stop that still finds a message stops, unless launches have
\* overlapped: another daemon may take the message first.
TerminateWorks ==
  \A p \in Procs :
    exitMain[p] /\ pc[p] = "receive" /\ queue # <<>> ~> pc[p] = "off" \/ raced
================================================================================
