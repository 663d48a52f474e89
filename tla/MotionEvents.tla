------------------------------ MODULE MotionEvents ------------------------------
(***************************************************************************)
(* A motion event from end to end: ipc_cmd -S and -T (ipc_cmd.c) and the   *)
(* camera send to the camera's queue, the multiplexer copies every message *)
(* onto its forwarding queues, and ipc2file turns what it takes from       *)
(* queue EventQueue into alarm files.                                      *)
(*                                                                         *)
(* IpcMultiplex and Ipc2File keep their actions.  The queue of Ipc2File is *)
(* forwarding queue EventQueue of IpcMultiplex: a step of the daemon that  *)
(* takes a message is a Take of the multiplexer's model.  Failing receives *)
(* and the ends of a daemon, which those modules have, are left out here.  *)
(***************************************************************************)
EXTENDS IpcMultiplex, FiniteSets

CONSTANTS
  EventQueue,   \* the queue ipc2file reads: 2 in the code
  CameraSends,  \* the messages the camera itself sends
  CameraMax,    \* bound: messages the camera sends
  OtherMax,     \* bound: messages a reader of another queue takes before it stops
  Cmds,         \* runs of ipc_cmd
  Options,      \* what they can be asked for: "start" (-S), "stop" (-T)
  Daemons, NoPid, DeadPid, MaxLaunches,  \* see Ipc2File
  ForkMayFail   \* whether fork may fail

ASSUME EventsAssumption ==
  /\ EventQueue \in Queues
  /\ CameraSends \subseteq Bodies
  /\ CameraMax \in Nat /\ OtherMax \in Nat
  /\ {"MOTION_START", "MOTION_STOP"} \subseteq Bodies
  /\ Options \subseteq {"start", "stop"}
  /\ ForkMayFail \in BOOLEAN

VARIABLES
  launches, files, pidFile, daemonPc, lastAlarm, exitMain, soundThreads,
  handled, ended, raced, \* as in Ipc2File
  cmd           \* where each run of ipc_cmd is

muxVars == vars
daemonVars == <<launches, files, pidFile, daemonPc, lastAlarm, exitMain, soundThreads,
                handled, ended, raced>>
allVars == <<muxVars, daemonVars, cmd>>

Bodies2(s) == [k \in DOMAIN s |-> s[k].body]

\* What the daemon sees of the multiplexer: its queue, and how many messages
\* were sent to it, whether they found room or not.
Daemon == INSTANCE Ipc2File WITH
  Procs <- Daemons, Wires <- Bodies, QueueDepth <- MaxMsg, MaxEvents <- MaxSent,
  MayFail <- FALSE, MayEnd <- FALSE,
  queueExists <- Exists(EventQueue), queue <- Bodies2(queues[EventQueue]),
  events <- Len(Offered(EventQueue)), pc <- daemonPc

EventsInit ==
  /\ Init
  /\ Daemon!Init
  /\ cmd = [c \in Cmds |-> "idle"]

--------------------------------------------------------------------------------
(* ipc_cmd.  Its mq_send blocks while the camera's queue is full. *)

CmdGoto(c, from, to) == cmd[c] = from /\ cmd' = [cmd EXCEPT ![c] = to]

\* Somebody runs ipc_cmd -S (record.sh), or ipc_cmd -T (camera_settings.sh).
RunCmd(c) ==
  /\ \E o \in Options : CmdGoto(c, "idle", o)
  /\ UNCHANGED <<muxVars, daemonVars>>

SendStart(c) ==
  /\ Send("MOTION_START")
  /\ CmdGoto(c, "start", "fork")
  /\ UNCHANGED daemonVars

\* The two forks and setsid; if one fails nobody is left to send the stop.
Fork(c) ==
  /\ \/ CmdGoto(c, "fork", "asleep")
     \/ ForkMayFail /\ CmdGoto(c, "fork", "failed")
  /\ UNCHANGED <<muxVars, daemonVars>>

\* Variant of Wake: the detached process ends after its sleep.
WakeEnds(c) ==
  /\ CmdGoto(c, "asleep", "done")
  /\ UNCHANGED <<muxVars, daemonVars>>

\* sleep(time_to_stop) is over.
Wake(c) ==
  /\ CmdGoto(c, "asleep", "stop")
  /\ UNCHANGED <<muxVars, daemonVars>>

SendStop(c) ==
  /\ Send("MOTION_STOP")
  /\ CmdGoto(c, "stop", "done")
  /\ UNCHANGED daemonVars

CmdStep(c) == SendStart(c) \/ Fork(c) \/ Wake(c) \/ SendStop(c)

--------------------------------------------------------------------------------
(* The other processes. *)

CameraSent ==
  LET all == received \o inbox IN {k \in DOMAIN all : all[k].body \in CameraSends}

Camera ==
  /\ Cardinality(CameraSent) < CameraMax
  /\ \E b \in CameraSends : Send(b)
  /\ UNCHANGED <<daemonVars, cmd>>

Mux ==
  /\ Dispatch
  /\ UNCHANGED <<daemonVars, cmd>>

OtherReader(q) ==
  /\ q # EventQueue
  /\ Len(taken[q]) < OtherMax
  /\ Take(q)
  /\ UNCHANGED <<daemonVars, cmd>>

DaemonTakes(p) ==
  /\ Take(EventQueue)
  /\ Daemon!ClearDrop(p) \/ Daemon!Receive(p)
  /\ UNCHANGED cmd

DaemonMoves(p) ==
  /\ UNCHANGED muxVars
  /\ \/ Daemon!CheckPid(p) \/ Daemon!CreatePid(p) \/ Daemon!WritePid(p)
     \/ Daemon!OpenQueue(p) \/ Daemon!ClearTest(p) \/ Daemon!LoopTest(p)
  /\ UNCHANGED cmd

DaemonEvent(p) ==
  /\ UNCHANGED muxVars
  /\ Daemon!Launch(p) \/ Daemon!SoundTimeout(p)
  /\ UNCHANGED cmd

EventsNext ==
  \/ \E c \in Cmds : RunCmd(c) \/ CmdStep(c)
  \/ Camera \/ Mux
  \/ \E q \in Queues : OtherReader(q)
  \/ \E p \in Daemons : DaemonTakes(p) \/ DaemonMoves(p) \/ DaemonEvent(p)

EventsSpec == EventsInit /\ [][EventsNext]_allVars

\* Every process but the other readers is scheduled; the camera sends, and
\* somebody runs ipc_cmd, only if they like.
FairEventsSpec ==
  /\ EventsSpec
  /\ WF_allVars(Mux)
  /\ \A c \in Cmds : WF_allVars(CmdStep(c))
  /\ \A p \in Daemons : WF_allVars(DaemonTakes(p) \/ DaemonMoves(p))

--------------------------------------------------------------------------------
(* Properties *)

Motion == "motion_alarm"

\* A daemon runs, has drained what was there before it and keeps running.
Running == \E p \in Daemons : daemonPc[p] \in {"loop", "receive"} /\ ~exitMain[p]

\* A motion event that ipc_cmd starts while the daemon runs is shown, whatever
\* the readers of the other queues do, unless the daemon has fallen a whole queue
\* behind.
MotionShown ==
  \A c \in Cmds :
    cmd[c] = "start" /\ Running ~>
      \/ Motion \in files \/ wasFull[EventQueue] \/ pc = "exited"

\* The last motion event handled was followed by an alarm of another kind, such as
\* AI_HUMAN_DETECTION, before a stop: last_alarm has forgotten it (ipc2file.c:407).
Overtaken ==
  LET At(k, S) == handled[k][2] \in S
      others == Daemon!Alarms \ {Motion}
  IN  \E k \in DOMAIN handled :
        /\ At(k, {Motion})
        /\ \A j \in k+1..Len(handled) : ~At(j, {Motion})
        /\ \E l \in k+1..Len(handled) :
             At(l, others) /\ \A j \in k+1..l : ~At(j, {"stop"})

\* When every ipc_cmd has done its work no motion event is left over, unless a
\* fork failed, the daemon has fallen a whole queue behind, or an alarm of the camera,
\* which has no stop of its own, came between the event and its stop: each start is
\* followed by its stop through all the queues, in whatever way the runs overlap.
MotionEnds ==
  [](\A c \in Cmds : cmd[c] \in {"idle", "done"}) ~>
    Motion \notin files \/ wasFull[EventQueue] \/ Overtaken

\* Composed with the multiplexer the daemon meets only the environment of
\* Ipc2File: its queue changes as a bounded FIFO does, and what is proved of
\* Ipc2File holds here.
DaemonIsIpc2File == Daemon!Spec
================================================================================
