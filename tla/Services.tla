-------------------------------- MODULE Services --------------------------------
(***************************************************************************)
(* The processes of the stream and the three scripts that start and stop   *)
(* them: system.sh at boot, the CGI script service.sh on request, and the  *)
(* watchdog wd_rtsp.sh (src/static/static/home/yi-hack-v5/script).         *)
(*                                                                         *)
(* A script is the list of the commands it has still to execute; between   *)
(* two commands anything else may happen, so that sleeps need no step.     *)
(* Left out: services that nobody watches (ONVIF, WSDD, FTP, mp4record,    *)
(* mqtt-config), and changes of the configuration.                         *)
(***************************************************************************)
EXTENDS Naturals, Sequences, FiniteSets

CONSTANTS
  Video,            \* the configured RTSP_STREAM: a sequence of "low" and "high"
  Audio,            \* RTSP_AUDIO: <<"audio">> or <<>>
  Rtsp,             \* RTSP=yes
  DisableCloud,     \* DISABLE_CLOUD=yes
  RtspPortExported, \* RTSP_PORT is in the environment: no script exports it
  CounterLimit,     \* COUNTER_LIMIT
  Names,            \* bound: the services requests are made for
  MaxRuns,          \* bound: runs of service.sh at once
  MaxRequests,      \* bound: runs of service.sh
  MaxFaults         \* bound: programs that end by themselves, and locks

Grabbers == {"low", "high", "audio"}

ASSUME ServicesAssumption ==
  /\ Video \in {<<"low">>, <<"high">>, <<"low", "high">>}
  /\ Audio \in {<<"audio">>, <<>>}
  /\ {Rtsp, DisableCloud, RtspPortExported} \subseteq BOOLEAN
  /\ CounterLimit \in Nat \ {0}
  /\ Names \subseteq {"rtsp", "mqtt", "all"}
  /\ {MaxRuns, MaxRequests, MaxFaults} \subseteq Nat

Server == "rRTSPServer"
Watchdog == "wd_rtsp.sh"
Programs == Grabbers \cup {Server, "mqttv4", "cloud", "rmm"}

Runs == 1..MaxRuns
\* One watchdog for every start there can be, and that of the boot.
Watchdogs == (MaxRuns + 1)..(MaxRuns + MaxRequests + 1)
Boot == 0
Scripts == {Boot} \cup Runs \cup Watchdogs

VARIABLES
  procs,    \* how many processes each program has
  locked,   \* rRTSPServer no longer does anything
  todo,     \* the commands that each script has still to execute
  stage,    \* where each watchdog is
  counter,  \* COUNTER of each watchdog
  requests, \* how many runs of service.sh there were
  faults,   \* how many faults there were
  asked,    \* history: the last request for the stream, or the boot, was "start" or "stop"
  mixed,    \* history: requests overlapped, or a start came without a stop before
  lost      \* history: grabbers that ended by themselves and were not started again

history == <<asked, mixed, lost>>
vars == <<procs, locked, todo, stage, counter, requests, faults, history>>

--------------------------------------------------------------------------------
(* The scripts, as lists of commands. *)

Run(p) == [do |-> "run", what |-> p]
KillAll(p) == [do |-> "killall", what |-> p]
RunEach(ps) == [n \in DOMAIN ps |-> Run(ps[n])]

\* Variant of StopRtsp: the watchdog goes last.
StopRtspLate == <<KillAll(Server), KillAll("h264grabber"), KillAll(Watchdog)>>
\* Variant of StopRtsp: the grabbers go on.
StopRtspKeeps == <<KillAll(Watchdog), KillAll(Server)>>
StopRtsp == <<KillAll(Watchdog), KillAll(Server), KillAll("h264grabber")>>
StartRtsp == <<Run(Server)>> \o RunEach(Audio \o Video) \o <<Run(Watchdog)>>

Start(name) ==
  CASE name = "rtsp" -> StartRtsp
    [] name = "mqtt" -> <<Run("mqttv4")>>
    [] name = "all"  -> Append(StartRtsp, Run("mqttv4"))
Stop(name) ==
  CASE name = "rtsp" -> StopRtsp
    [] name = "mqtt" -> <<KillAll("mqttv4")>>
    [] name = "all"  -> Append(StopRtsp, KillAll("mqttv4"))

\* system.sh: rRTSPServer is started only where both resolutions are configured.
SystemInit ==
  <<Run("rmm"), Run("cloud"), Run("mqttv4")>> \o
  (IF ~Rtsp THEN <<>>
   ELSE RunEach(Audio \o Video) \o (IF Len(Video) = 2 THEN <<Run(Server)>> ELSE <<>>)
                                \o <<Run(Watchdog)>>)

RestartGrabber ==
  <<KillAll("h264grabber"), KillAll(Server), KillAll("h264grabber")>>
    \o RunEach(Video \o Audio) \o <<Run(Server)>>
RestartRtsp == <<KillAll(Server), KillAll(Server), Run(Server)>>
\* Variant of RestartMqtt: it is not started again.
RestartMqttKills == <<KillAll("mqttv4")>>
RestartMqtt == <<KillAll("mqttv4"), Run("mqttv4")>>
RestartCloud == <<Run("cloud")>>

--------------------------------------------------------------------------------
Stages == {"none", "new", "quit", "grabber", "rtsp", "rmm", "cloud", "mqttv4"}
Loops(w) == stage[w] \notin {"none", "new", "quit"}

Commands == {Run(p) : p \in Programs \cup {Watchdog}}
            \cup {KillAll(p) : p \in {Server, Watchdog, "h264grabber", "mqttv4"}}

TypeOK ==
  /\ procs \in [Programs -> Nat]
  /\ procs[Server] <= 1
  /\ locked \in BOOLEAN
  /\ locked => procs[Server] = 1
  /\ todo \in [Scripts -> Seq(Commands)]
  /\ stage \in [Watchdogs -> Stages]
  /\ counter \in [Watchdogs -> 0..CounterLimit - 1]
  /\ requests \in 0..MaxRequests
  /\ faults \in 0..MaxFaults
  /\ asked \in {"start", "stop"}
  /\ mixed \in BOOLEAN
  /\ lost \subseteq Grabbers

\* What a boot begins with; requests and faults are only counted.
Booted(p, l, t, s, c, a, m, o) ==
  /\ p = [q \in Programs |-> 0]
  /\ l = FALSE
  /\ t = [x \in Scripts |-> IF x = Boot THEN SystemInit ELSE <<>>]
  /\ s = [w \in Watchdogs |-> "none"]
  /\ c = [w \in Watchdogs |-> 0]
  /\ a = "start"
  /\ m = FALSE
  /\ o = {}

Init ==
  /\ Booted(procs, locked, todo, stage, counter, asked, mixed, lost)
  /\ requests = 0
  /\ faults = 0

--------------------------------------------------------------------------------
(* The commands. *)

Rest(x) == [todo EXCEPT ![x] = Tail(@)]

\* A program that runs in the background; a second rRTSPServer finds its port taken
\* and ends.
RunProgram(x) ==
  /\ todo[x] # <<>> /\ Head(todo[x]).do = "run" /\ Head(todo[x]).what # Watchdog
  /\ LET p == Head(todo[x]).what IN
       /\ procs' = [procs EXCEPT ![p] = IF p = Server THEN 1 ELSE @ + 1]
       /\ lost' = lost \ {p}
  /\ todo' = Rest(x)
  /\ UNCHANGED <<locked, stage, counter, requests, faults, asked, mixed>>

RunWatchdog(x) ==
  /\ todo[x] # <<>> /\ Head(todo[x]) = Run(Watchdog)
  /\ \E w \in Watchdogs :
       /\ stage[w] = "none" /\ \A v \in Watchdogs : stage[v] = "none" => w <= v
       /\ stage' = [stage EXCEPT ![w] = "new"]
  /\ todo' = Rest(x)
  /\ UNCHANGED <<procs, locked, counter, requests, faults, history>>

\* killall ends every process of that name; a watchdog ends with all it had to do.
Kill(x) ==
  /\ todo[x] # <<>> /\ Head(todo[x]).do = "killall"
  /\ LET p == Head(todo[x]).what
         killed == IF p = "h264grabber" THEN Grabbers ELSE {p}
         gone == IF p = Watchdog THEN Watchdogs ELSE {}
     IN /\ procs' = [q \in Programs |-> IF q \in killed THEN 0 ELSE procs[q]]
        /\ locked' = (locked /\ p # Server)
        /\ stage' = [w \in Watchdogs |-> IF w \in gone THEN "none" ELSE stage[w]]
        /\ counter' = [w \in Watchdogs |-> IF w \in gone THEN 0 ELSE counter[w]]
        /\ todo' = [y \in Scripts |-> IF y \in gone THEN <<>> ELSE Rest(x)[y]]
  /\ UNCHANGED <<requests, faults, history>>

Exec(x) == RunProgram(x) \/ RunWatchdog(x) \/ Kill(x)

--------------------------------------------------------------------------------
(* service.sh. *)

\* system.sh or service.sh is at work.
Busy == \E x \in {Boot} \cup Runs : todo[x] # <<>>

Request(r, action, name) ==
  /\ requests < MaxRequests
  /\ todo[r] = <<>> /\ \A q \in Runs : todo[q] = <<>> => r <= q
  /\ requests' = requests + 1
  /\ todo' = [todo EXCEPT ![r] = IF action = "start" THEN Start(name) ELSE Stop(name)]
  /\ asked' = IF name = "mqtt" THEN asked ELSE action
  /\ mixed' = IF name = "mqtt" THEN mixed
              ELSE IF action = "stop" THEN Busy
              ELSE mixed \/ Busy \/ asked = "start"
  /\ UNCHANGED <<procs, locked, stage, counter, faults, lost>>

--------------------------------------------------------------------------------
(* The watchdog. *)

\* Variant of Single: the test is left out.
SingleAny(w) == w \in Watchdogs
\* pidof "$script_name" -o $$ finds no other one.
Single(w) == \A v \in Watchdogs : v # w => stage[v] = "none"

Enter(w) ==
  /\ stage[w] = "new"
  /\ stage' = [stage EXCEPT ![w] = IF Single(w) /\ Rtsp THEN "grabber" ELSE "quit"]
  /\ UNCHANGED <<procs, locked, todo, counter, requests, faults, history>>

Quit(w) ==
  /\ stage[w] = "quit"
  /\ stage' = [stage EXCEPT ![w] = "none"]
  /\ UNCHANGED <<procs, locked, todo, counter, requests, faults, history>>

\* One check: if there is a reason, its commands come before the next check.
Check(w, at, next, reason, commands) ==
  /\ stage[w] = at /\ todo[w] = <<>>
  /\ stage' = [stage EXCEPT ![w] = next]
  /\ todo' = [todo EXCEPT ![w] = IF reason THEN commands ELSE <<>>]
  /\ UNCHANGED <<procs, locked, requests, faults, history>>

CheckGrabber(w) ==
  /\ Check(w, "grabber", "rtsp", \A s \in Grabbers : procs[s] = 0, RestartGrabber)
  /\ UNCHANGED counter

\* Variant of CheckRtsp: it counts, but does not see that no process runs.
CheckRtspNone(w) ==
  /\ Check(w, "rtsp", "rmm", FALSE, RestartRtsp)
  /\ UNCHANGED counter

\* It asks netstat for the port $RTSP_PORT and top for the share of the processor,
\* which is also nothing where no client is connected.
CheckRtsp(w) ==
  \E idle \in BOOLEAN :
    LET socket == RtspPortExported /\ procs[Server] > 0
        stuck == socket /\ idle /\ counter[w] + 1 >= CounterLimit
    IN /\ locked => idle
       /\ Check(w, "rtsp", "rmm", procs[Server] = 0 \/ stuck, RestartRtsp)
       /\ counter' = [counter EXCEPT ![w] =
            IF procs[Server] = 0 \/ stuck \/ (socket /\ ~idle) THEN 0
            ELSE IF socket THEN @ + 1 ELSE @]

\* Without rmm the camera is rebooted.
CheckRmm(w) ==
  IF procs["rmm"] > 0
    THEN Check(w, "rmm", "cloud", FALSE, <<>>) /\ UNCHANGED counter
    ELSE /\ stage[w] = "rmm" /\ todo[w] = <<>>
         /\ Booted(procs', locked', todo', stage', counter', asked', mixed', lost')
         /\ UNCHANGED <<requests, faults>>

CheckCloud(w) ==
  /\ Check(w, "cloud", "mqttv4", DisableCloud /\ procs["cloud"] = 0, RestartCloud)
  /\ UNCHANGED counter

CheckMqtt(w) ==
  /\ Check(w, "mqttv4", "grabber", procs["mqttv4"] = 0, RestartMqtt)
  /\ UNCHANGED counter

WatchdogStep(w) ==
  \/ Enter(w) \/ Quit(w) \/ CheckGrabber(w) \/ CheckRtsp(w)
  \/ CheckRmm(w) \/ CheckCloud(w) \/ CheckMqtt(w)

--------------------------------------------------------------------------------
(* What the processes do by themselves. *)

Die(p) ==
  /\ faults < MaxFaults /\ faults' = faults + 1
  /\ procs[p] > 0
  /\ procs' = [procs EXCEPT ![p] = @ - 1]
  /\ locked' = (locked /\ p # Server)
  /\ lost' = IF p \in Grabbers THEN lost \cup {p} ELSE lost
  /\ UNCHANGED <<todo, stage, counter, requests, asked, mixed>>

Lock ==
  /\ faults < MaxFaults /\ faults' = faults + 1
  /\ procs[Server] > 0 /\ ~locked
  /\ locked' = TRUE
  /\ UNCHANGED <<procs, todo, stage, counter, requests, history>>

Next ==
  \/ \E x \in Scripts : Exec(x)
  \/ \E r \in Runs, action \in {"start", "stop"}, name \in Names :
       Request(r, action, name)
  \/ \E w \in Watchdogs : WatchdogStep(w)
  \/ \E p \in Programs : Die(p)
  \/ Lock

Spec == Init /\ [][Next]_vars

\* Scripts go on; nobody has to make a request, and nothing has to fail.
FairSpec ==
  /\ Spec
  /\ \A x \in Scripts : WF_vars(Exec(x))
  /\ \A w \in Watchdogs : WF_vars(WatchdogStep(w))

--------------------------------------------------------------------------------
(* Properties *)

\* pidof and "Already Running - Quitting" (wd_rtsp.sh): at most one watchdog is in its
\* loop, whatever starts come at once.
OneWatchdog == \A v, w \in Watchdogs : Loops(v) /\ Loops(w) => v = w

\* stop_rtsp (service.sh): once a stop that met no other request is done, nothing of
\* the stream runs, and it stays so until the next request or boot: the watchdog goes
\* first, and with it what it was about to start.
StopHolds ==
  asked = "stop" /\ ~mixed /\ ~Busy =>
    /\ \A p \in Grabbers \cup {Server} : procs[p] = 0
    /\ \A w \in Watchdogs : stage[w] = "none"

\* start_rtsp, restart_grabber: no stream has two grabbers, which would write to one
\* fifo, wherever the watchdog was when the stop and the start came.
OneGrabberEach == asked = "start" /\ ~mixed => \A s \in Grabbers : procs[s] <= 1

Watched == \E w \in Watchdogs : Loops(w)
StreamUp ==
  /\ procs[Server] > 0
  /\ \E s \in Grabbers : procs[s] > 0
  /\ \A n \in DOMAIN (Audio \o Video) : LET s == (Audio \o Video)[n] IN
       procs[s] > 0 \/ s \in lost

\* start_rtsp, system.sh, check_grabber and check_rtsp: a start (or boot) that meets no
\* other request brings up the watchdog, the server and every grabber, also where the
\* boot leaves out the server and whatever dies on the way, but for a grabber that
\* dies while another one runs.
StartWorks ==
  asked = "start" /\ ~mixed /\ Rtsp ~> (Watched /\ StreamUp) \/ asked = "stop" \/ mixed

\* check_mqttv4, check_cloud: while a watchdog runs, what has died comes back.
WatchedComeBack ==
  /\ Watched ~> ~Watched \/ procs["mqttv4"] > 0
  /\ DisableCloud => (Watched ~> ~Watched \/ procs["cloud"] > 0)

\* "Detected possible locked process", "Restarting rtsp process" (check_rtsp): a server
\* that is locked is restarted by the watchdog.
LockedRestarted == Watched /\ locked ~> ~Watched \/ ~locked
================================================================================
