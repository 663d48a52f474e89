----------------------------- MODULE ServicesProofs -----------------------------
(***************************************************************************)
(* Theorems of Services: its types, that at most one watchdog loops, that  *)
(* a stop of the stream which met no other request holds, and that after   *)
(* a start that met none every stream has one grabber.  And of RtspServer, *)
(* the server that the services start: its types, and that its sinks get   *)
(* whole audio frames, in order, until a read has ended within one.        *)
(***************************************************************************)
EXTENDS Services, RtspServer, SequenceTheorems, TLAPS

LEMMA SeqIsFunctions == \A S : Seq(S) = UNION {[1..n -> S] : n \in Nat}
  OBVIOUS

LEMMA RunEachType ==
  ASSUME NEW ps \in Seq(Grabbers)
  PROVE  RunEach(ps) \in Seq({Run(p) : p \in Grabbers})
<1> DEFINE S == {Run(p) : p \in Grabbers}
<1>1. DOMAIN ps = 1..Len(ps) /\ Len(ps) \in Nat /\ \A n \in 1..Len(ps) : ps[n] \in Grabbers
  OBVIOUS
<1>2. RunEach(ps) \in [1..Len(ps) -> S]
  BY <1>1 DEF RunEach
<1>3. QED
  BY <1>1, <1>2, SeqIsFunctions

\* What a watchdog may still have to do: it never starts or kills a watchdog.
WatchdogCommands ==
  {Run(p) : p \in Programs} \cup {KillAll(p) : p \in {Server, "h264grabber", "mqttv4"}}

LEMMA StreamsType == Video \in Seq(Grabbers) /\ Audio \in Seq(Grabbers)
<1>1. \A g \in Grabbers : <<g>> \in Seq(Grabbers)
  OBVIOUS
<1>2. \A g, h \in Grabbers : <<g, h>> \in Seq(Grabbers)
  OBVIOUS
<1>3. <<>> \in Seq(Grabbers)
  OBVIOUS
<1>4. {"low", "high", "audio"} \subseteq Grabbers
  BY DEF Grabbers
<1>5. QED
  BY <1>1, <1>2, <1>3, <1>4, ServicesAssumption

LEMMA WatchdogCommandsType ==
  /\ WatchdogCommands \subseteq Commands
  /\ {Run(p) : p \in Grabbers} \subseteq WatchdogCommands
  BY DEF WatchdogCommands, Commands, Programs, Grabbers

LEMMA SeqSub == \A S, T : S \subseteq T => Seq(S) \subseteq Seq(T)
  BY SeqIsFunctions

LEMMA Singles ==
  /\ \A S : \A a \in S : <<a>> \in Seq(S)
  /\ \A S : \A a, b \in S : <<a, b>> \in Seq(S)
  /\ \A S : \A a, b, c \in S : <<a, b, c>> \in Seq(S)
  /\ \A S : <<>> \in Seq(S)
  OBVIOUS

LEMMA ConcatType == \A S : \A s, t \in Seq(S) : s \o t \in Seq(S)
  OBVIOUS

LEMMA RestartTypes ==
  /\ RestartGrabber \in Seq(WatchdogCommands)
  /\ RestartRtsp \in Seq(WatchdogCommands)
  /\ RestartMqtt \in Seq(WatchdogCommands)
  /\ RestartCloud \in Seq(WatchdogCommands)
<1> DEFINE W == WatchdogCommands
<1>1. /\ \A p \in Programs : Run(p) \in W
      /\ KillAll(Server) \in W /\ KillAll("h264grabber") \in W /\ KillAll("mqttv4") \in W
  BY DEF WatchdogCommands
<1>2. Server \in Programs /\ "mqttv4" \in Programs /\ "cloud" \in Programs
  BY DEF Programs
<1>3. RunEach(Video \o Audio) \in Seq(W)
  BY StreamsType, ConcatType, RunEachType, WatchdogCommandsType, SeqSub
<1> HIDE DEF W
<1>4. /\ <<KillAll("h264grabber"), KillAll(Server), KillAll("h264grabber")>> \in Seq(W)
      /\ <<Run(Server)>> \in Seq(W)
      /\ <<KillAll(Server), KillAll(Server), Run(Server)>> \in Seq(W)
      /\ <<KillAll("mqttv4"), Run("mqttv4")>> \in Seq(W)
      /\ <<Run("cloud")>> \in Seq(W)
  BY <1>1, <1>2, Singles
<1>5. QED
  BY <1>3, <1>4, ConcatType DEF RestartGrabber, RestartRtsp, RestartMqtt, RestartCloud, W

LEMMA ScriptTypes ==
  /\ SystemInit \in Seq(Commands)
  /\ \A name \in {"rtsp", "mqtt", "all"} :
       Start(name) \in Seq(Commands) /\ Stop(name) \in Seq(Commands)
<1> DEFINE C == Commands
<1>1. /\ \A p \in Programs : Run(p) \in C
      /\ Run(Watchdog) \in C
      /\ KillAll(Server) \in C /\ KillAll("h264grabber") \in C /\ KillAll("mqttv4") \in C
      /\ KillAll(Watchdog) \in C
  BY DEF Commands
<1>2. Server \in Programs /\ "mqttv4" \in Programs /\ "cloud" \in Programs /\ "rmm" \in Programs
  BY DEF Programs
<1>3. RunEach(Audio \o Video) \in Seq(C)
  BY StreamsType, ConcatType, RunEachType, WatchdogCommandsType, SeqSub
<1> HIDE DEF C
<1>4. /\ <<Run(Server)>> \in Seq(C) /\ <<Run(Watchdog)>> \in Seq(C) /\ <<>> \in Seq(C)
      /\ <<Run("rmm"), Run("cloud"), Run("mqttv4")>> \in Seq(C)
      /\ <<Run("mqttv4")>> \in Seq(C) /\ <<KillAll("mqttv4")>> \in Seq(C)
      /\ StopRtsp \in Seq(C)
  BY <1>1, <1>2, Singles DEF StopRtsp
<1>5. StartRtsp \in Seq(C)
  BY <1>3, <1>4, ConcatType DEF StartRtsp
<1>6. SystemInit \in Seq(C)
  <2> DEFINE first == <<Run("rmm"), Run("cloud"), Run("mqttv4")>>
             middle == IF Len(Video) = 2 THEN <<Run(Server)>> ELSE <<>>
             last == IF ~Rtsp THEN <<>>
                     ELSE RunEach(Audio \o Video) \o middle \o <<Run(Watchdog)>>
  <2>1. first \in Seq(C) /\ middle \in Seq(C)
    BY <1>4
  <2>2. RunEach(Audio \o Video) \o middle \in Seq(C)
    BY <2>1, <1>3, ConcatType
  <2>3. last \in Seq(C)
    BY <2>2, <1>4, ConcatType
  <2>4. first \o last \in Seq(C)
    BY <2>1, <2>3, ConcatType
  <2>5. QED
    BY <2>4 DEF SystemInit
<1>7. \A s \in Seq(C), c \in C : Append(s, c) \in Seq(C)
  OBVIOUS
<1>8. Run("mqttv4") \in C /\ KillAll("mqttv4") \in C
  BY <1>1, <1>2
<1>9. QED
  BY <1>4, <1>5, <1>6, <1>7, <1>8 DEF Start, Stop, C

--------------------------------------------------------------------------------
(* Types. *)

LEMMA ScriptsAre ==
  /\ Boot \in Scripts /\ Runs \subseteq Scripts /\ Watchdogs \subseteq Scripts
  /\ Boot \notin Watchdogs /\ Runs \cap Watchdogs = {} /\ Boot \notin Runs
  BY ServicesAssumption DEF Scripts, Boot, Runs, Watchdogs

LEMMA ZeroCounter == 0 \in 0..CounterLimit - 1
  BY ServicesAssumption

LEMMA BootedType ==
  ASSUME NEW p, NEW l, NEW t, NEW s, NEW c, NEW a, NEW m, NEW o,
         Booted(p, l, t, s, c, a, m, o)
  PROVE  /\ p \in [Programs -> Nat] /\ p[Server] <= 1
         /\ l = FALSE
         /\ t \in [Scripts -> Seq(Commands)]
         /\ s \in [Watchdogs -> Stages]
         /\ c \in [Watchdogs -> 0..CounterLimit - 1]
         /\ a \in {"start", "stop"} /\ m = FALSE /\ o \subseteq Grabbers
<1>1. p \in [Programs -> Nat] /\ p[Server] <= 1
  BY DEF Booted, Programs
<1>2. t \in [Scripts -> Seq(Commands)]
  <2>1. SystemInit \in Seq(Commands) /\ <<>> \in Seq(Commands)
    BY ScriptTypes, Singles
  <2>2. QED
    BY <2>1 DEF Booted
<1>3. s \in [Watchdogs -> Stages]
  BY DEF Booted, Stages
<1>4. c \in [Watchdogs -> 0..CounterLimit - 1]
  BY ZeroCounter DEF Booted
<1>5. QED
  BY <1>1, <1>2, <1>3, <1>4 DEF Booted

LEMMA InitType == Init => TypeOK
<1> SUFFICES ASSUME Init PROVE TypeOK
  OBVIOUS
<1>1. requests \in 0..MaxRequests /\ faults \in 0..MaxFaults
  BY ServicesAssumption DEF Init
<1>2. QED
  BY <1>1, BootedType DEF Init, TypeOK

LEMMA RestType ==
  ASSUME TypeOK, NEW x \in Scripts, todo[x] # <<>>
  PROVE  /\ Rest(x) \in [Scripts -> Seq(Commands)]
         /\ Head(todo[x]) \in Commands
<1>1. todo[x] \in Seq(Commands)
  BY DEF TypeOK
<1>2. Tail(todo[x]) \in Seq(Commands) /\ Head(todo[x]) \in Commands
  BY <1>1
<1>3. QED
  BY <1>2 DEF Rest, TypeOK

LEMMA CommandFields ==
  \A c \in Commands :
    /\ c.do \in {"run", "killall"}
    /\ c.do = "run" => c.what \in Programs \cup {Watchdog} /\ c = Run(c.what)
    /\ c.do = "killall" => c.what \in {Server, Watchdog, "h264grabber", "mqttv4"}
                           /\ c = KillAll(c.what)
  BY DEF Commands, Run, KillAll

LEMMA ExecType ==
  ASSUME TypeOK, NEW x \in Scripts, Exec(x)
  PROVE  TypeOK'
<1>0. todo[x] # <<>>
  BY DEF Exec, RunProgram, RunWatchdog, Kill
<1>1. Rest(x) \in [Scripts -> Seq(Commands)] /\ Head(todo[x]) \in Commands
  BY <1>0, RestType
<1>2. CASE RunProgram(x)
  <2> DEFINE p == Head(todo[x]).what
  <2>1. p \in Programs
    BY <1>1, <1>2, CommandFields DEF RunProgram
  <2>2. procs' = [procs EXCEPT ![p] = IF p = Server THEN 1 ELSE @ + 1]
    BY <1>2 DEF RunProgram
  <2>3. procs' \in [Programs -> Nat] /\ procs'[Server] <= 1 /\ (locked => procs'[Server] = 1)
    <3> HIDE DEF p
    <3>1. Server \in Programs
      BY DEF Programs
    <3>2. QED
      BY <2>1, <2>2, <3>1 DEF TypeOK
  <2>4. lost' \subseteq Grabbers /\ todo' = Rest(x)
    BY <1>2 DEF RunProgram, TypeOK
  <2>5. QED
    BY <2>3, <2>4, <1>1, <1>2 DEF RunProgram, TypeOK
<1>3. CASE RunWatchdog(x)
  <2>1. stage' \in [Watchdogs -> Stages]
    BY <1>3 DEF RunWatchdog, TypeOK, Stages
  <2>2. QED
    BY <2>1, <1>1, <1>3 DEF RunWatchdog, TypeOK, history
<1>4. CASE Kill(x)
  <2> DEFINE p == Head(todo[x]).what
             killed == IF p = "h264grabber" THEN Grabbers ELSE {p}
             gone == IF p = Watchdog THEN Watchdogs ELSE {}
  <2>1. /\ procs' = [q \in Programs |-> IF q \in killed THEN 0 ELSE procs[q]]
        /\ locked' = (locked /\ p # Server)
        /\ stage' = [w \in Watchdogs |-> IF w \in gone THEN "none" ELSE stage[w]]
        /\ counter' = [w \in Watchdogs |-> IF w \in gone THEN 0 ELSE counter[w]]
        /\ todo' = [y \in Scripts |-> IF y \in gone THEN <<>> ELSE Rest(x)[y]]
    BY <1>4 DEF Kill
  <2>2. Server \in Programs /\ (p = "h264grabber" => Server \notin Grabbers)
    BY DEF Programs, Server, Grabbers
  <2>3. procs' \in [Programs -> Nat] /\ procs'[Server] <= 1
    BY <2>1, <2>2 DEF TypeOK
  <2>4. locked' => procs'[Server] = 1
    <3>1. p # Server => Server \notin killed
      BY <2>2
    <3>2. QED
      BY <2>1, <2>2, <3>1 DEF TypeOK
  <2>5. stage' \in [Watchdogs -> Stages]
    BY <2>1 DEF TypeOK, Stages
  <2>6. counter' \in [Watchdogs -> 0..CounterLimit - 1]
    BY <2>1, ZeroCounter DEF TypeOK
  <2>7. todo' \in [Scripts -> Seq(Commands)]
    BY <2>1, <1>1, Singles
  <2>8. locked' \in BOOLEAN
    BY <2>1
  <2>9. QED
    BY <2>3, <2>4, <2>5, <2>6, <2>7, <2>8, <1>4 DEF Kill, TypeOK, history
<1>5. QED
  BY <1>2, <1>3, <1>4 DEF Exec

LEMMA CheckType ==
  ASSUME TypeOK, NEW w \in Watchdogs, NEW at, NEW next \in Stages, NEW reason,
         NEW commands \in Seq(Commands), Check(w, at, next, reason, commands)
  PROVE  /\ stage' \in [Watchdogs -> Stages]
         /\ todo' \in [Scripts -> Seq(Commands)]
         /\ UNCHANGED <<procs, locked, requests, faults, history>>
<1>1. stage' \in [Watchdogs -> Stages]
  BY DEF Check, TypeOK
<1>2. (IF reason THEN commands ELSE <<>>) \in Seq(Commands)
  BY Singles
<1>3. QED
  BY <1>1, <1>2, ScriptsAre DEF Check, TypeOK

LEMMA CheckRtspIs ==
  ASSUME NEW w \in Watchdogs, CheckRtsp(w)
  PROVE  \E reason \in BOOLEAN : Check(w, "rtsp", "rmm", reason, RestartRtsp)
<1>1. PICK idle \in BOOLEAN :
        LET socket == RtspPortExported /\ procs[Server] > 0
            stuck == socket /\ idle /\ counter[w] + 1 >= CounterLimit
        IN Check(w, "rtsp", "rmm", procs[Server] = 0 \/ stuck, RestartRtsp)
  BY DEF CheckRtsp
<1>2. QED
  BY <1>1

LEMMA CheckRtspCounter ==
  ASSUME TypeOK, NEW w \in Watchdogs, CheckRtsp(w)
  PROVE  counter' \in [Watchdogs -> 0..CounterLimit - 1]
<1>1. PICK idle \in BOOLEAN :
        LET socket == RtspPortExported /\ procs[Server] > 0
            stuck == socket /\ idle /\ counter[w] + 1 >= CounterLimit
        IN counter' = [counter EXCEPT ![w] =
             IF procs[Server] = 0 \/ stuck \/ (socket /\ ~idle) THEN 0
             ELSE IF socket THEN @ + 1 ELSE @]
  BY DEF CheckRtsp
<1> DEFINE socket == RtspPortExported /\ procs[Server] > 0
           stuck == socket /\ idle /\ counter[w] + 1 >= CounterLimit
           value == IF procs[Server] = 0 \/ stuck \/ (socket /\ ~idle) THEN 0
                    ELSE IF socket THEN counter[w] + 1 ELSE counter[w]
<1>2. counter[w] \in 0..CounterLimit - 1 /\ CounterLimit \in Nat
  BY ServicesAssumption DEF TypeOK
<1>3. CASE procs[Server] = 0 \/ stuck \/ (socket /\ ~idle)
  BY <1>3, <1>1, ZeroCounter DEF TypeOK
<1>4. CASE ~(procs[Server] = 0 \/ stuck \/ (socket /\ ~idle)) /\ socket
  <2>1. counter[w] + 1 \in 0..CounterLimit - 1
    BY <1>2, <1>4
  <2>2. counter' = [counter EXCEPT ![w] = counter[w] + 1]
    BY <1>1, <1>4
  <2>3. QED
    BY <2>1, <2>2 DEF TypeOK
<1>5. CASE ~(procs[Server] = 0 \/ stuck \/ (socket /\ ~idle)) /\ ~socket
  BY <1>5, <1>1, <1>2 DEF TypeOK
<1>6. QED
  BY <1>3, <1>4, <1>5

LEMMA WatchdogStepType ==
  ASSUME TypeOK, NEW w \in Watchdogs, WatchdogStep(w)
  PROVE  TypeOK'
<1>0. /\ \A c \in {RestartGrabber, RestartRtsp, RestartMqtt, RestartCloud, <<>>} :
           c \in Seq(Commands)
      /\ \A s \in {"grabber", "rtsp", "rmm", "cloud", "mqttv4", "quit", "none"} : s \in Stages
  BY RestartTypes, WatchdogCommandsType, SeqSub, Singles DEF Stages
<1>1. CASE Enter(w) \/ Quit(w)
  <2>1. stage' \in [Watchdogs -> Stages]
    BY <1>0, <1>1 DEF Enter, Quit, TypeOK
  <2>2. QED
    BY <2>1, <1>1 DEF Enter, Quit, TypeOK, history
<1>2. CASE CheckGrabber(w) \/ CheckCloud(w) \/ CheckMqtt(w)
  <2>1. /\ stage' \in [Watchdogs -> Stages]
        /\ todo' \in [Scripts -> Seq(Commands)]
        /\ UNCHANGED <<procs, locked, requests, faults, history>>
    BY <1>0, <1>2, CheckType DEF CheckGrabber, CheckCloud, CheckMqtt
  <2>2. UNCHANGED counter
    BY <1>2 DEF CheckGrabber, CheckCloud, CheckMqtt
  <2>3. QED
    BY <2>1, <2>2 DEF TypeOK, history
<1>3. CASE CheckRtsp(w)
  <2>1. PICK reason \in BOOLEAN : Check(w, "rtsp", "rmm", reason, RestartRtsp)
    BY <1>3, CheckRtspIs
  <2>2. /\ stage' \in [Watchdogs -> Stages]
        /\ todo' \in [Scripts -> Seq(Commands)]
        /\ UNCHANGED <<procs, locked, requests, faults, history>>
    BY <1>0, <2>1, CheckType
  <2>3. counter' \in [Watchdogs -> 0..CounterLimit - 1]
    BY <1>3, CheckRtspCounter
  <2>4. QED
    BY <2>2, <2>3 DEF TypeOK, history
<1>4. CASE CheckRmm(w)
  <2>1. CASE procs["rmm"] > 0
    <3>1. Check(w, "rmm", "cloud", FALSE, <<>>) /\ UNCHANGED counter
      BY <1>4, <2>1 DEF CheckRmm
    <3>2. /\ stage' \in [Watchdogs -> Stages]
          /\ todo' \in [Scripts -> Seq(Commands)]
          /\ UNCHANGED <<procs, locked, requests, faults, history>>
      BY <1>0, <3>1, CheckType
    <3>3. QED
      BY <3>1, <3>2 DEF TypeOK, history
  <2>2. CASE ~(procs["rmm"] > 0)
    <3>1. /\ Booted(procs', locked', todo', stage', counter', asked', mixed', lost')
          /\ UNCHANGED <<requests, faults>>
      BY <1>4, <2>2 DEF CheckRmm
    <3>2. QED
      BY <3>1, BootedType DEF TypeOK
  <2>3. QED
    BY <2>1, <2>2
<1>5. QED
  BY <1>1, <1>2, <1>3, <1>4 DEF WatchdogStep

LEMMA RequestType ==
  ASSUME TypeOK, NEW r \in Runs, NEW action \in {"start", "stop"}, NEW name \in Names,
         Request(r, action, name)
  PROVE  TypeOK'
<1>1. name \in {"rtsp", "mqtt", "all"}
  BY ServicesAssumption
<1>2. (IF action = "start" THEN Start(name) ELSE Stop(name)) \in Seq(Commands)
  BY <1>1, ScriptTypes
<1>3. todo' \in [Scripts -> Seq(Commands)]
  BY <1>2, ScriptsAre DEF Request, TypeOK
<1>4. requests' \in 0..MaxRequests
  BY ServicesAssumption DEF Request, TypeOK
<1>5. asked' \in {"start", "stop"}
  BY DEF Request, TypeOK
<1>6. mixed' \in BOOLEAN
  BY DEF Request, TypeOK, Busy
<1>7. QED
  BY <1>3, <1>4, <1>5, <1>6 DEF Request, TypeOK

LEMMA FaultType ==
  ASSUME TypeOK, (\E p \in Programs : Die(p)) \/ Lock
  PROVE  TypeOK'
<1>1. faults' \in 0..MaxFaults
  BY ServicesAssumption DEF Die, Lock, TypeOK
<1>2. CASE Lock
  BY <1>1, <1>2 DEF Lock, TypeOK, history, Programs
<1>3. ASSUME NEW p \in Programs, Die(p) PROVE TypeOK'
  <2>1. Server \in Programs
    BY DEF Programs
  <2>2. procs' \in [Programs -> Nat] /\ procs'[Server] <= 1
    BY <1>3, <2>1 DEF Die, TypeOK
  <2>3. p # Server => procs'[Server] = procs[Server]
    BY <1>3, <2>1 DEF Die, TypeOK
  <2>4. locked' \in BOOLEAN /\ (locked' => locked /\ p # Server)
    BY <1>3 DEF Die
  <2>5. lost' \subseteq Grabbers
    BY <1>3 DEF Die, TypeOK
  <2>6. QED
    BY <1>1, <1>3, <2>2, <2>3, <2>4, <2>5 DEF Die, TypeOK
<1>4. QED
  BY <1>2, <1>3

\* Every reachable state has the declared types; rRTSPServer never runs twice.
THEOREM TypeCorrect == Spec => []TypeOK
<1>1. Init => TypeOK
  BY InitType
<1>2. TypeOK /\ [Next]_vars => TypeOK'
  <2> SUFFICES ASSUME TypeOK, [Next]_vars PROVE TypeOK'
    OBVIOUS
  <2>1. CASE Next
    BY <2>1, ExecType, WatchdogStepType, RequestType, FaultType DEF Next
  <2>2. CASE UNCHANGED vars
    BY <2>2 DEF vars, history, TypeOK
  <2>3. QED
    BY <2>1, <2>2
<1>3. QED
  BY <1>1, <1>2, PTL DEF Spec

--------------------------------------------------------------------------------
(* At most one watchdog. *)

LEMMA LoopStages ==
  /\ \A w \in Watchdogs : Loops(w) => stage[w] # "none"
  /\ \A s \in {"grabber", "rtsp", "rmm", "cloud", "mqttv4"} : s \notin {"none", "new", "quit"}
  BY DEF Loops

\* A check leaves alone which watchdogs loop.
LEMMA CheckLoops ==
  ASSUME TypeOK, NEW w \in Watchdogs, NEW at, NEW next, NEW reason, NEW commands,
         Check(w, at, next, reason, commands),
         at \notin {"none", "new", "quit"}, next \notin {"none", "new", "quit"}
  PROVE  \A v \in Watchdogs : (stage[v] = "none" <=> stage'[v] = "none")
                              /\ (Loops(v)' <=> Loops(v))
  BY DEF Check, Loops, TypeOK

\* Every check of the watchdog is one of Check, but for the reboot.
LEMMA ChecksAre ==
  ASSUME NEW w \in Watchdogs, WatchdogStep(w)
  PROVE  \/ Enter(w) \/ Quit(w)
         \/ \E at, next \in {"grabber", "rtsp", "rmm", "cloud", "mqttv4"} :
            \E reason \in BOOLEAN :
            \E commands \in {RestartGrabber, RestartRtsp, RestartMqtt, RestartCloud, <<>>} :
              Check(w, at, next, reason, commands)
         \/ Booted(procs', locked', todo', stage', counter', asked', mixed', lost')
<1> DEFINE at5 == {"grabber", "rtsp", "rmm", "cloud", "mqttv4"}
           cs == {RestartGrabber, RestartRtsp, RestartMqtt, RestartCloud, <<>>}
           Checks == \E at, next \in at5 : \E reason \in BOOLEAN : \E commands \in cs :
                       Check(w, at, next, reason, commands)
<1>1. CASE CheckGrabber(w)
  <2>1. (\A s \in Grabbers : procs[s] = 0) \in BOOLEAN
    OBVIOUS
  <2>2. Check(w, "grabber", "rtsp", \A s \in Grabbers : procs[s] = 0, RestartGrabber)
    BY <1>1 DEF CheckGrabber
  <2>3. Checks
    BY <2>1, <2>2
  <2>4. QED
    BY <2>3
<1>2. CASE CheckRtsp(w)
  <2>1. Checks
    BY <1>2, CheckRtspIs
  <2>2. QED
    BY <2>1
<1>3. CASE CheckRmm(w)
  <2>1. CASE procs["rmm"] > 0
    <3>1. Check(w, "rmm", "cloud", FALSE, <<>>)
      BY <1>3, <2>1 DEF CheckRmm
    <3>2. Checks
      BY <3>1
    <3>3. QED
      BY <3>2
  <2>2. CASE ~(procs["rmm"] > 0)
    BY <1>3, <2>2 DEF CheckRmm
  <2>3. QED
    BY <2>1, <2>2
<1>4. CASE CheckCloud(w)
  <2>1. (DisableCloud /\ procs["cloud"] = 0) \in BOOLEAN
    OBVIOUS
  <2>2. Check(w, "cloud", "mqttv4", DisableCloud /\ procs["cloud"] = 0, RestartCloud)
    BY <1>4 DEF CheckCloud
  <2>3. Checks
    BY <2>1, <2>2
  <2>4. QED
    BY <2>3
<1>5. CASE CheckMqtt(w)
  <2>1. (procs["mqttv4"] = 0) \in BOOLEAN
    OBVIOUS
  <2>2. Check(w, "mqttv4", "grabber", procs["mqttv4"] = 0, RestartMqtt)
    BY <1>5 DEF CheckMqtt
  <2>3. Checks
    BY <2>1, <2>2
  <2>4. QED
    BY <2>3
<1>6. QED
  BY <1>1, <1>2, <1>3, <1>4, <1>5 DEF WatchdogStep

LEMMA OneWatchdogStep ==
  ASSUME TypeOK, OneWatchdog, [Next]_vars
  PROVE  OneWatchdog'
<1>1. ASSUME \A w \in Watchdogs : Loops(w)' => Loops(w)
      PROVE  OneWatchdog'
  BY <1>1 DEF OneWatchdog
<1>2. ASSUME UNCHANGED stage PROVE OneWatchdog'
  BY <1>1, <1>2 DEF Loops
<1>3. ASSUME NEW x \in Scripts, Exec(x) PROVE OneWatchdog'
  <2>1. CASE RunProgram(x)
    BY <2>1, <1>2 DEF RunProgram
  <2>2. CASE RunWatchdog(x)
    BY <2>2, <1>1 DEF RunWatchdog, Loops, TypeOK
  <2>3. CASE Kill(x)
    BY <2>3, <1>1 DEF Kill, Loops
  <2>4. QED
    BY <1>3, <2>1, <2>2, <2>3 DEF Exec
<1>4. ASSUME NEW w \in Watchdogs, WatchdogStep(w) PROVE OneWatchdog'
  <2>1. CASE Enter(w)
    <3>1. CASE Single(w)
      <4>1. \A v \in Watchdogs : v # w => stage'[v] = "none"
        BY <2>1, <3>1 DEF Enter, Single, TypeOK
      <4>2. QED
        BY <4>1 DEF OneWatchdog, Loops
    <3>2. CASE ~Single(w)
      BY <2>1, <3>2, <1>1 DEF Enter, Loops, TypeOK
    <3>3. QED
      BY <3>1, <3>2
  <2>2. CASE Quit(w)
    BY <2>2, <1>1 DEF Quit, Loops, TypeOK
  <2>3. ASSUME NEW at \in {"grabber", "rtsp", "rmm", "cloud", "mqttv4"},
               NEW next \in {"grabber", "rtsp", "rmm", "cloud", "mqttv4"},
               NEW reason \in BOOLEAN,
               NEW commands \in {RestartGrabber, RestartRtsp, RestartMqtt, RestartCloud, <<>>},
               Check(w, at, next, reason, commands)
        PROVE  OneWatchdog'
    BY <2>3, <1>1, CheckLoops, LoopStages
  <2>4. CASE Booted(procs', locked', todo', stage', counter', asked', mixed', lost')
    BY <2>4, <1>1 DEF Booted, Loops
  <2>5. QED
    BY <1>4, ChecksAre, <2>1, <2>2, <2>3, <2>4
<1>5. ASSUME NEW r \in Runs, NEW action \in {"start", "stop"}, NEW name \in Names,
             Request(r, action, name)
      PROVE  OneWatchdog'
  BY <1>5, <1>2 DEF Request
<1>6. ASSUME (\E p \in Programs : Die(p)) \/ Lock PROVE OneWatchdog'
  BY <1>6, <1>2 DEF Die, Lock
<1>7. CASE UNCHANGED vars
  BY <1>7, <1>2 DEF vars
<1>8. QED
  BY <1>3, <1>4, <1>5, <1>6, <1>7 DEF Next

\* "Already Running - Quitting" (wd_rtsp.sh): at most one watchdog is in its loop.
THEOREM OneWatchdogOnly == Spec => []OneWatchdog
<1>1. Init => OneWatchdog
  BY DEF Init, Booted, OneWatchdog, Loops
<1>2. TypeOK /\ OneWatchdog /\ [Next]_vars => OneWatchdog'
  BY OneWatchdogStep
<1>3. QED
  BY <1>1, <1>2, TypeCorrect, PTL DEF Spec

--------------------------------------------------------------------------------
(* A stop holds.  While one is under way, what still lives of the stream has its  *)
(* killall ahead of it, and a watchdog lives only before the first of them.       *)

KW == KillAll(Watchdog)
KS == KillAll(Server)
KG == KillAll("h264grabber")
KM == KillAll("mqttv4")

BeforeW == {<<KW, KS, KG>>, <<KW, KS, KG, KM>>}
BeforeS == {<<KS, KG>>, <<KS, KG, KM>>}
BeforeG == {<<KG>>, <<KG, KM>>}
Harmless == {<<KM>>, <<Run("mqttv4")>>}

Idle(w) == stage[w] \in {"none", "new", "quit"}
WatchdogInv ==
  \A w \in Watchdogs : todo[w] \in Seq(WatchdogCommands) /\ (Idle(w) => todo[w] = <<>>)

SomeRun(T) == \E r \in Runs : todo[r] \in T
StopInv ==
  asked = "stop" /\ ~mixed =>
    /\ todo[Boot] = <<>>
    /\ \A r \in Runs : todo[r] \in BeforeW \cup BeforeS \cup BeforeG \cup Harmless \cup {<<>>}
    /\ (\E w \in Watchdogs : stage[w] # "none") => SomeRun(BeforeW)
    /\ procs[Server] > 0 => SomeRun(BeforeW \cup BeforeS)
    /\ (\E g \in Grabbers : procs[g] > 0) => SomeRun(BeforeW \cup BeforeS \cup BeforeG)

LEMMA CommandsDiffer ==
  /\ KW # KS /\ KW # KG /\ KW # KM /\ KS # KG /\ KS # KM /\ KG # KM
  /\ \A p : Run(p) \notin {KW, KS, KG, KM}
  /\ KW \notin WatchdogCommands /\ Run(Watchdog) \notin WatchdogCommands
  BY DEF KW, KS, KG, KM, KillAll, Run, WatchdogCommands, Programs, Grabbers, Server, Watchdog

LEMMA HeadsAndTails ==
  /\ \A t \in BeforeW : t # <<>> /\ Head(t) = KW /\ Tail(t) \in BeforeS
  /\ \A t \in BeforeS : t # <<>> /\ Head(t) = KS /\ Tail(t) \in BeforeG
  /\ \A t \in BeforeG : t # <<>> /\ Head(t) = KG /\ Tail(t) \in Harmless \cup {<<>>}
  /\ \A t \in Harmless : t # <<>> /\ Head(t) \in {KM, Run("mqttv4")} /\ Tail(t) = <<>>
<1>1. \A a, b, c, d : /\ Head(<<a, b, c, d>>) = a /\ Tail(<<a, b, c, d>>) = <<b, c, d>>
                      /\ Head(<<a, b, c>>) = a /\ Tail(<<a, b, c>>) = <<b, c>>
                      /\ Head(<<a, b>>) = a /\ Tail(<<a, b>>) = <<b>>
                      /\ Head(<<a>>) = a /\ Tail(<<a>>) = <<>>
  OBVIOUS
<1>2. \A a, b, c, d : <<a, b, c, d>> # <<>> /\ <<a, b, c>> # <<>> /\ <<a, b>> # <<>> /\ <<a>> # <<>>
  OBVIOUS
<1>3. QED
  BY <1>1, <1>2 DEF BeforeW, BeforeS, BeforeG, Harmless

LEMMA AppendLast ==
  ASSUME NEW T, NEW s \in Seq(T), NEW t \in Seq(T), NEW d \in T,
         Len(t) = Len(s) + 1, \A n \in 1..Len(s) : t[n] = s[n], t[Len(s) + 1] = d
  PROVE  Append(s, d) = t
<1> DEFINE u == Append(s, d)
<1>1. u \in Seq(T) /\ Len(u) = Len(s) + 1 /\ u[Len(s) + 1] = d
      /\ \A n \in 1..Len(s) : u[n] = s[n]
  BY AppendProperties
<1> HIDE DEF u
<1>2. Len(s) \in Nat /\ \A n \in 1..Len(u) : n \in 1..Len(s) \/ n = Len(s) + 1
  BY <1>1
<1>3. \A n \in 1..Len(u) : u[n] = t[n]
  BY <1>1, <1>2
<1>4. u = t
  BY <1>1, <1>3, SeqEqual
<1>5. QED
  BY <1>4 DEF u

LEMMA StopIs == Stop("rtsp") \in BeforeW /\ Stop("all") \in BeforeW
                /\ Stop("mqtt") \in Harmless /\ Start("mqtt") \in Harmless
<1>1. Append(<<KW, KS, KG>>, KM) = <<KW, KS, KG, KM>>
  <2> DEFINE T == {KW, KS, KG, KM}
             s == <<KW, KS, KG>>
             t == <<KW, KS, KG, KM>>
  <2>1. s \in Seq(T) /\ Len(s) = 3 /\ s[1] = KW /\ s[2] = KS /\ s[3] = KG
    OBVIOUS
  <2>2. t \in Seq(T) /\ Len(t) = 4 /\ t[1] = KW /\ t[2] = KS /\ t[3] = KG /\ t[4] = KM
    OBVIOUS
  <2>3. KM \in T
    OBVIOUS
  <2> HIDE DEF T, s, t
  <2>4. Len(t) = Len(s) + 1 /\ \A n \in 1..Len(s) : t[n] = s[n]
    BY <2>1, <2>2
  <2>5. t[Len(s) + 1] = KM
    BY <2>1, <2>2
  <2>6. Append(s, KM) = t
    BY <2>1, <2>2, <2>3, <2>4, <2>5, AppendLast
  <2>7. QED
    BY <2>6 DEF s, t
<1>2. /\ Stop("rtsp") = StopRtsp /\ Stop("all") = Append(StopRtsp, KM)
      /\ Stop("mqtt") = <<KM>> /\ Start("mqtt") = <<Run("mqttv4")>>
  BY DEF Stop, Start, KM
<1>3. StopRtsp = <<KW, KS, KG>>
  BY DEF StopRtsp, KW, KS, KG
<1>4. QED
  BY <1>1, <1>2, <1>3 DEF BeforeW, Harmless

LEMMA KillIs ==
  ASSUME TypeOK, NEW x \in Scripts, Kill(x)
  PROVE  /\ Head(todo[x]) = KW =>
              /\ UNCHANGED procs
              /\ \A w \in Watchdogs : stage'[w] = "none" /\ todo'[w] = <<>>
         /\ Head(todo[x]) # KW => UNCHANGED stage /\ \A w \in Watchdogs : todo'[w] = Rest(x)[w]
         /\ \A y \in Scripts \ Watchdogs : todo'[y] = Rest(x)[y]
         /\ \A p \in Programs : procs'[p] \in {0, procs[p]}
         /\ Head(todo[x]) = KS => procs'[Server] = 0
         /\ Head(todo[x]) = KG => \A g \in Grabbers : procs'[g] = 0
         /\ UNCHANGED <<asked, mixed>>
<1> DEFINE c == Head(todo[x])
           p == c.what
           killed == IF p = "h264grabber" THEN Grabbers ELSE {p}
           gone == IF p = Watchdog THEN Watchdogs ELSE {}
<1>1. /\ procs' = [q \in Programs |-> IF q \in killed THEN 0 ELSE procs[q]]
      /\ stage' = [w \in Watchdogs |-> IF w \in gone THEN "none" ELSE stage[w]]
      /\ todo' = [y \in Scripts |-> IF y \in gone THEN <<>> ELSE Rest(x)[y]]
      /\ UNCHANGED <<asked, mixed>>
  BY DEF Kill, history
<1>2. todo[x] # <<>> /\ c.do = "killall"
  BY DEF Kill
<1>3. c = KillAll(p)
  BY <1>2, RestType, CommandFields
<1>4. c = KW <=> p = Watchdog
  BY <1>3 DEF KW, KillAll
<1>5. (c = KS => p = Server) /\ (c = KG => p = "h264grabber")
  BY <1>3 DEF KS, KG, KillAll
<1>6. Watchdogs \subseteq Scripts /\ Grabbers \subseteq Programs /\ Server \in Programs
      /\ Watchdog \notin Programs /\ Server # "h264grabber" /\ Watchdog # "h264grabber"
  BY ScriptsAre DEF Programs, Server, Watchdog, Grabbers
<1> HIDE DEF c, p
<1>7. c = KW => /\ \A w \in Watchdogs : stage'[w] = "none" /\ todo'[w] = <<>>
               /\ procs' = procs
  <2> SUFFICES ASSUME c = KW PROVE /\ \A w \in Watchdogs : stage'[w] = "none" /\ todo'[w] = <<>>
                                  /\ procs' = procs
    OBVIOUS
  <2>1. gone = Watchdogs /\ \A q \in Programs : q \notin killed
    BY <1>4, <1>6
  <2>2. \A w \in Watchdogs : stage'[w] = "none" /\ todo'[w] = <<>>
    BY <2>1, <1>1, <1>6
  <2>3. procs' = procs
    BY <2>1, <1>1 DEF TypeOK
  <2>4. QED
    BY <2>2, <2>3
<1>8. c # KW => stage' = stage /\ \A w \in Watchdogs : todo'[w] = Rest(x)[w]
  BY <1>1, <1>4, <1>6 DEF TypeOK
<1>9. \A y \in Scripts \ Watchdogs : todo'[y] = Rest(x)[y]
  BY <1>1
<1>10. /\ \A q \in Programs : procs'[q] \in {0, procs[q]}
       /\ (c = KS => procs'[Server] = 0)
       /\ (c = KG => \A g \in Grabbers : procs'[g] = 0)
  BY <1>1, <1>5, <1>6
<1>11. QED
  BY <1>1, <1>7, <1>8, <1>9, <1>10 DEF c

\* What a watchdog may still have to do keeps its type, and is nothing while it idles.
LEMMA WatchdogInvStep ==
  ASSUME TypeOK, WatchdogInv, [Next]_vars
  PROVE  WatchdogInv'
<1>0. <<>> \in Seq(WatchdogCommands) /\ Watchdogs \subseteq Scripts
  BY Singles, ScriptsAre
<1>1. ASSUME NEW x \in Scripts, Exec(x) PROVE WatchdogInv'
  <2>0. todo[x] # <<>>
    BY <1>1 DEF Exec, RunProgram, RunWatchdog, Kill
  <2>1. \A w \in Watchdogs : Rest(x)[w] \in Seq(WatchdogCommands)
                             /\ (Idle(w) => Rest(x)[w] = <<>>)
    <3> SUFFICES ASSUME NEW w \in Watchdogs
                 PROVE  Rest(x)[w] \in Seq(WatchdogCommands) /\ (Idle(w) => Rest(x)[w] = <<>>)
      OBVIOUS
    <3>1. todo[w] \in Seq(WatchdogCommands) /\ (Idle(w) => todo[w] = <<>>)
      BY DEF WatchdogInv
    <3>2. CASE w = x
      <4>1. Rest(x)[w] = Tail(todo[w])
        BY <1>0, <3>2 DEF Rest, TypeOK
      <4>2. todo[w] # <<>>
        BY <2>0, <3>2
      <4>3. Tail(todo[w]) \in Seq(WatchdogCommands)
        BY <3>1, <4>2
      <4>4. QED
        BY <3>1, <4>1, <4>2, <4>3
    <3>3. CASE w # x
      <4>1. Rest(x)[w] = todo[w]
        BY <1>0, <3>3 DEF Rest, TypeOK
      <4>2. QED
        BY <3>1, <4>1
    <3>4. QED
      BY <3>2, <3>3
  <2>2. CASE RunProgram(x)
    <3>1. todo' = Rest(x) /\ stage' = stage
      BY <2>2 DEF RunProgram
    <3>2. QED
      BY <2>1, <3>1 DEF WatchdogInv, Idle
  <2>3. CASE RunWatchdog(x)
    <3>1. todo' = Rest(x)
      BY <2>3 DEF RunWatchdog
    <3>2. \A w \in Watchdogs : Idle(w)' => Idle(w)
      BY <2>3 DEF RunWatchdog, Idle, TypeOK
    <3>3. QED
      BY <2>1, <3>1, <3>2 DEF WatchdogInv
  <2>4. CASE Kill(x)
    <3>1. CASE Head(todo[x]) = KW
      <4>1. \A w \in Watchdogs : todo'[w] = <<>>
        BY <2>4, <3>1, KillIs
      <4>2. QED
        BY <1>0, <4>1 DEF WatchdogInv
    <3>2. CASE Head(todo[x]) # KW
      <4>1. stage' = stage /\ \A w \in Watchdogs : todo'[w] = Rest(x)[w]
        BY <2>4, <3>2, KillIs
      <4>2. QED
        BY <2>1, <4>1 DEF WatchdogInv, Idle
    <3>3. QED
      BY <3>1, <3>2
  <2>5. QED
    BY <1>1, <2>2, <2>3, <2>4 DEF Exec
<1>2. ASSUME NEW w \in Watchdogs, WatchdogStep(w) PROVE WatchdogInv'
  <2>1. CASE Enter(w) \/ Quit(w)
    <3>1. todo' = todo /\ Idle(w) /\ \A v \in Watchdogs : v # w => stage'[v] = stage[v]
      BY <2>1 DEF Enter, Quit, Idle, TypeOK
    <3>2. QED
      BY <3>1 DEF WatchdogInv, Idle
  <2>2. ASSUME NEW at \in {"grabber", "rtsp", "rmm", "cloud", "mqttv4"},
               NEW next \in {"grabber", "rtsp", "rmm", "cloud", "mqttv4"},
               NEW reason \in BOOLEAN,
               NEW commands \in {RestartGrabber, RestartRtsp, RestartMqtt, RestartCloud, <<>>},
               Check(w, at, next, reason, commands)
        PROVE  WatchdogInv'
    <3>1. (IF reason THEN commands ELSE <<>>) \in Seq(WatchdogCommands)
      BY RestartTypes, <1>0
    <3>2. todo'[w] \in Seq(WatchdogCommands) /\ \A v \in Watchdogs : v # w => todo'[v] = todo[v]
      BY <1>0, <2>2, <3>1 DEF Check, TypeOK
    <3>3. stage'[w] = next /\ \A v \in Watchdogs : v # w => stage'[v] = stage[v]
      BY <2>2 DEF Check, TypeOK
    <3>4. ~Idle(w)'
      BY <3>3 DEF Idle
    <3>5. QED
      BY <3>2, <3>3, <3>4 DEF WatchdogInv, Idle
  <2>3. CASE Booted(procs', locked', todo', stage', counter', asked', mixed', lost')
    <3>1. \A v \in Watchdogs : todo'[v] = <<>>
      BY <2>3, ScriptsAre DEF Booted
    <3>2. QED
      BY <1>0, <3>1 DEF WatchdogInv
  <2>4. QED
    BY <1>2, ChecksAre, <2>1, <2>2, <2>3
<1>3. ASSUME NEW r \in Runs, NEW action \in {"start", "stop"}, NEW name \in Names,
             Request(r, action, name)
      PROVE  WatchdogInv'
  <2>1. stage' = stage /\ \A w \in Watchdogs : todo'[w] = todo[w]
    BY <1>3, ScriptsAre DEF Request, TypeOK
  <2>2. QED
    BY <2>1 DEF WatchdogInv, Idle
<1>4. ASSUME UNCHANGED <<todo, stage>> PROVE WatchdogInv'
  BY <1>4 DEF WatchdogInv, Idle
<1>5. ASSUME (\E p \in Programs : Die(p)) \/ Lock PROVE WatchdogInv'
  BY <1>5, <1>4 DEF Die, Lock
<1>6. CASE UNCHANGED vars
  BY <1>6, <1>4 DEF vars
<1>7. QED
  BY <1>1, <1>2, <1>3, <1>5, <1>6 DEF Next

LEMMA StopExec ==
  ASSUME TypeOK, WatchdogInv, StopInv, NEW x \in Scripts, Exec(x)
  PROVE  StopInv'
<1> SUFFICES ASSUME asked' = "stop", ~mixed' PROVE StopInv'
  BY DEF StopInv
<1>0. todo[x] # <<>> /\ asked' = asked /\ mixed' = mixed
  BY DEF Exec, RunProgram, RunWatchdog, Kill, history
<1>1. /\ todo[Boot] = <<>>
      /\ \A r \in Runs : todo[r] \in BeforeW \cup BeforeS \cup BeforeG \cup Harmless \cup {<<>>}
      /\ (\E w \in Watchdogs : stage[w] # "none") => SomeRun(BeforeW)
      /\ procs[Server] > 0 => SomeRun(BeforeW \cup BeforeS)
      /\ (\E g \in Grabbers : procs[g] > 0) => SomeRun(BeforeW \cup BeforeS \cup BeforeG)
  BY <1>0 DEF StopInv
<1>2. /\ Rest(x) \in [Scripts -> Seq(Commands)] /\ Head(todo[x]) \in Commands
      /\ \A y \in Scripts : y # x => Rest(x)[y] = todo[y]
      /\ Rest(x)[x] = Tail(todo[x])
  BY <1>0, RestType DEF Rest, TypeOK
<1>3. CASE x \in Watchdogs
  <2>1. stage[x] # "none" /\ todo[x] \in Seq(WatchdogCommands)
    BY <1>0, <1>3 DEF WatchdogInv, Idle
  <2>2. PICK r \in Runs : todo[r] \in BeforeW
    BY <1>1, <1>3, <2>1 DEF SomeRun
  <2>3. Head(todo[x]) \in WatchdogCommands
    BY <1>0, <2>1
  <2>4. Head(todo[x]) # KW /\ Head(todo[x]) # Run(Watchdog)
    BY <2>3, CommandsDiffer
  <2>5. \A y \in Scripts \ Watchdogs : todo'[y] = Rest(x)[y]
    <3>1. CASE RunProgram(x)
      BY <3>1 DEF RunProgram
    <3>2. CASE Kill(x)
      BY <3>2, KillIs
    <3>3. QED
      BY <2>4, <3>1, <3>2 DEF Exec, RunWatchdog
  <2>6. todo'[Boot] = todo[Boot] /\ \A y \in Runs : todo'[y] = todo[y]
    BY <1>2, <1>3, <2>5, ScriptsAre
  <2>7. todo'[r] \in BeforeW
    BY <2>2, <2>6
  <2>8. SomeRun(BeforeW)' /\ SomeRun(BeforeW \cup BeforeS)'
        /\ SomeRun(BeforeW \cup BeforeS \cup BeforeG)'
    BY <2>7 DEF SomeRun, BeforeW, BeforeS, BeforeG, KW, KS, KG, KM
  <2>9. \A y \in Runs : todo'[y] \in (BeforeW \cup BeforeS \cup BeforeG \cup Harmless \cup {<<>>})'
    BY <1>1, <2>6 DEF BeforeW, BeforeS, BeforeG, Harmless, KW, KS, KG, KM
  <2>10. QED
    BY <1>1, <2>6, <2>8, <2>9 DEF StopInv
<1>4. CASE x \in Runs
  <2>0. todo[x] \in BeforeW \cup BeforeS \cup BeforeG \cup Harmless
    BY <1>0, <1>1, <1>4
  <2>1. Head(todo[x]) \in {KW, KS, KG, KM, Run("mqttv4")} /\ Head(todo[x]) # Run(Watchdog)
    <3>1. Head(todo[x]) \in {KW, KS, KG, KM, Run("mqttv4")}
      BY <2>0, HeadsAndTails
    <3>2. Run(Watchdog) # Run("mqttv4")
      BY DEF Run, Watchdog
    <3>3. QED
      BY <3>1, <3>2, CommandsDiffer
  <2>2. RunProgram(x) \/ Kill(x)
    BY <2>1 DEF Exec, RunWatchdog
  <2>3. /\ \A y \in Scripts \ Watchdogs : todo'[y] = Rest(x)[y]
        /\ Head(todo[x]) # KW => stage' = stage
    <3>1. CASE RunProgram(x)
      BY <3>1 DEF RunProgram
    <3>2. CASE Kill(x)
      BY <3>2, KillIs
    <3>3. QED
      BY <2>2, <3>1, <3>2
  <2>4. todo'[Boot] = <<>> /\ todo'[x] = Tail(todo[x]) /\ \A y \in Runs : y # x => todo'[y] = todo[y]
    BY <1>1, <1>2, <1>4, <2>3, ScriptsAre
  <2>5. \A g \in Grabbers \cup {Server} : procs'[g] > 0 => procs[g] > 0
    <3> SUFFICES ASSUME NEW g \in Grabbers \cup {Server}, procs'[g] > 0 PROVE procs[g] > 0
      OBVIOUS
    <3>0. g \in Programs /\ g # "mqttv4"
      BY DEF Programs, Grabbers, Server
    <3>1. CASE RunProgram(x)
      <4>1. Head(todo[x]) = Run("mqttv4")
        <5>1. Head(todo[x]).do = "run"
          BY <3>1 DEF RunProgram
        <5>2. Head(todo[x]) \notin {KW, KS, KG, KM}
          BY <5>1 DEF KW, KS, KG, KM, KillAll
        <5>3. QED
          BY <2>1, <5>2
      <4>2. Head(todo[x]).what = "mqttv4"
        BY <4>1 DEF Run
      <4>3. procs'[g] = procs[g]
        BY <3>0, <3>1, <4>2 DEF RunProgram, TypeOK
      <4>4. QED
        BY <4>3
    <3>2. CASE Kill(x)
      <4>1. procs'[g] \in {0, procs[g]}
        BY <3>0, <3>2, KillIs
      <4>2. QED
        BY <4>1
    <3>3. QED
      BY <2>2, <3>1, <3>2
  <2>6. /\ Head(todo[x]) = KW => \A w \in Watchdogs : stage'[w] = "none"
        /\ Head(todo[x]) = KS => procs'[Server] = 0
        /\ Head(todo[x]) = KG => \A g \in Grabbers : procs'[g] = 0
    <3>1. Head(todo[x]) \in {KW, KS, KG} => Kill(x)
      <4>1. Head(todo[x]) \in {KW, KS, KG} => Head(todo[x]).do = "killall"
        BY DEF KW, KS, KG, KillAll
      <4>2. QED
        BY <2>2, <4>1 DEF RunProgram
    <3>2. QED
      BY <3>1, KillIs
  <2>7. \A y \in Runs : todo'[y] \in BeforeW \cup BeforeS \cup BeforeG \cup Harmless \cup {<<>>}
    BY <1>1, <2>0, <2>4, HeadsAndTails
  <2>8. (\E w \in Watchdogs : stage'[w] # "none") => \E r \in Runs : todo'[r] \in BeforeW
    <3> SUFFICES ASSUME \E w \in Watchdogs : stage'[w] # "none"
                 PROVE  \E r \in Runs : todo'[r] \in BeforeW
      OBVIOUS
    <3>1. Head(todo[x]) # KW
      BY <2>6
    <3>2. todo[x] \notin BeforeW
      BY <3>1, HeadsAndTails
    <3>3. PICK r \in Runs : todo[r] \in BeforeW
      BY <1>1, <2>3, <3>1 DEF SomeRun
    <3>4. QED
      BY <2>4, <3>2, <3>3
  <2>9. procs'[Server] > 0 => \E r \in Runs : todo'[r] \in BeforeW \cup BeforeS
    <3> SUFFICES ASSUME procs'[Server] > 0
                 PROVE  \E r \in Runs : todo'[r] \in BeforeW \cup BeforeS
      OBVIOUS
    <3>1. PICK r \in Runs : todo[r] \in BeforeW \cup BeforeS
      BY <1>1, <2>5 DEF SomeRun
    <3>2. Head(todo[x]) # KS
      BY <2>6
    <3>3. todo[x] \in BeforeW => todo'[x] \in BeforeS
      BY <2>4, HeadsAndTails
    <3>4. todo[x] \notin BeforeS
      BY <3>2, HeadsAndTails
    <3>5. CASE r = x
      BY <3>1, <3>3, <3>4, <3>5
    <3>6. CASE r # x
      BY <2>4, <3>1, <3>6
    <3>7. QED
      BY <3>5, <3>6
  <2>10. (\E g \in Grabbers : procs'[g] > 0) =>
           \E r \in Runs : todo'[r] \in BeforeW \cup BeforeS \cup BeforeG
    <3> SUFFICES ASSUME NEW g \in Grabbers, procs'[g] > 0
                 PROVE  \E r \in Runs : todo'[r] \in BeforeW \cup BeforeS \cup BeforeG
      OBVIOUS
    <3>1. PICK r \in Runs : todo[r] \in BeforeW \cup BeforeS \cup BeforeG
      BY <1>1, <2>5 DEF SomeRun
    <3>2. Head(todo[x]) # KG
      BY <2>6
    <3>3. /\ todo[x] \in BeforeW => todo'[x] \in BeforeS
          /\ todo[x] \in BeforeS => todo'[x] \in BeforeG
      BY <2>4, HeadsAndTails
    <3>4. todo[x] \notin BeforeG
      BY <3>2, HeadsAndTails
    <3>5. CASE r = x
      BY <3>1, <3>3, <3>4, <3>5
    <3>6. CASE r # x
      BY <2>4, <3>1, <3>6
    <3>7. QED
      BY <3>5, <3>6
  <2>11. QED
    BY <2>4, <2>7, <2>8, <2>9, <2>10
       DEF StopInv, SomeRun, BeforeW, BeforeS, BeforeG, Harmless, KW, KS, KG, KM
<1>5. QED
  BY <1>0, <1>1, <1>3, <1>4 DEF Scripts

LEMMA StopWatchdogStep ==
  ASSUME TypeOK, StopInv, NEW w \in Watchdogs, WatchdogStep(w)
  PROVE  StopInv'
<1>1. ASSUME UNCHANGED <<procs, asked, mixed>>,
             \A x \in {Boot} \cup Runs : todo'[x] = todo[x],
             \A v \in Watchdogs : stage'[v] # "none" => stage[v] # "none"
      PROVE  StopInv'
  <2> SUFFICES ASSUME asked = "stop", ~mixed PROVE StopInv'
    BY <1>1 DEF StopInv
  <2>1. \A T : SomeRun(T) => \E r \in Runs : todo'[r] \in T
    BY <1>1 DEF SomeRun
  <2>2. todo'[Boot] = <<>> /\ \A r \in Runs :
          todo'[r] \in BeforeW \cup BeforeS \cup BeforeG \cup Harmless \cup {<<>>}
    BY <1>1 DEF StopInv
  <2>3. (\E v \in Watchdogs : stage'[v] # "none") => \E r \in Runs : todo'[r] \in BeforeW
    BY <1>1, <2>1 DEF StopInv
  <2>4. procs'[Server] > 0 => \E r \in Runs : todo'[r] \in BeforeW \cup BeforeS
    BY <1>1, <2>1 DEF StopInv
  <2>5. (\E g \in Grabbers : procs'[g] > 0) =>
          \E r \in Runs : todo'[r] \in BeforeW \cup BeforeS \cup BeforeG
    BY <1>1, <2>1 DEF StopInv
  <2>6. QED
    BY <2>2, <2>3, <2>4, <2>5
       DEF StopInv, SomeRun, BeforeW, BeforeS, BeforeG, Harmless, KW, KS, KG, KM
<1>2. CASE Enter(w) \/ Quit(w)
  <2>1. \A v \in Watchdogs : stage'[v] # "none" => stage[v] # "none"
    BY <1>2 DEF Enter, Quit, TypeOK
  <2>2. QED
    BY <1>1, <1>2, <2>1 DEF Enter, Quit, history
<1>3. ASSUME NEW at \in {"grabber", "rtsp", "rmm", "cloud", "mqttv4"},
             NEW next \in {"grabber", "rtsp", "rmm", "cloud", "mqttv4"},
             NEW reason \in BOOLEAN,
             NEW commands \in {RestartGrabber, RestartRtsp, RestartMqtt, RestartCloud, <<>>},
             Check(w, at, next, reason, commands)
      PROVE  StopInv'
  <2>1. \A v \in Watchdogs : stage'[v] # "none" => stage[v] # "none"
    BY <1>3 DEF Check, TypeOK
  <2>2. \A x \in {Boot} \cup Runs : todo'[x] = todo[x]
    BY <1>3, ScriptsAre DEF Check, TypeOK
  <2>3. QED
    BY <1>1, <1>3, <2>1, <2>2 DEF Check, history
<1>4. CASE Booted(procs', locked', todo', stage', counter', asked', mixed', lost')
  <2>1. asked' = "start"
    BY <1>4 DEF Booted
  <2>2. QED
    BY <2>1 DEF StopInv
<1>5. QED
  BY ChecksAre, <1>2, <1>3, <1>4

LEMMA StopRequest ==
  ASSUME TypeOK, StopInv, NEW r \in Runs, NEW action \in {"start", "stop"},
         NEW name \in Names, Request(r, action, name)
  PROVE  StopInv'
<1> SUFFICES ASSUME asked' = "stop", ~mixed' PROVE StopInv'
  BY DEF StopInv
<1> DEFINE mine == IF action = "start" THEN Start(name) ELSE Stop(name)
<1>0. name \in {"rtsp", "mqtt", "all"}
  BY ServicesAssumption
<1>1. /\ todo[r] = <<>> /\ todo'[r] = mine
      /\ todo'[Boot] = todo[Boot] /\ \A y \in Runs : y # r => todo'[y] = todo[y]
      /\ UNCHANGED <<procs, stage>>
  BY ScriptsAre DEF Request, TypeOK
<1>2. CASE name = "mqtt"
  <2>1. asked = "stop" /\ ~mixed
    BY <1>2 DEF Request
  <2>2. mine \in Harmless
    BY <1>2, StopIs
  <2>3. todo[r] \notin BeforeW \cup BeforeS \cup BeforeG
    BY <1>1, HeadsAndTails
  <2>4. \A y \in Runs :
          todo[y] \in BeforeW \cup BeforeS \cup BeforeG => todo'[y] = todo[y]
    BY <1>1, <2>3
  <2> HIDE DEF mine
  <2>5. todo'[Boot] = <<>> /\ \A y \in Runs :
          todo'[y] \in BeforeW \cup BeforeS \cup BeforeG \cup Harmless \cup {<<>>}
    BY <1>1, <2>1, <2>2 DEF StopInv
  <2>6. (\E w \in Watchdogs : stage'[w] # "none") => \E y \in Runs : todo'[y] \in BeforeW
    BY <1>1, <2>1, <2>4 DEF StopInv, SomeRun
  <2>7. procs'[Server] > 0 => \E y \in Runs : todo'[y] \in BeforeW \cup BeforeS
    BY <1>1, <2>1, <2>4 DEF StopInv, SomeRun
  <2>8. (\E g \in Grabbers : procs'[g] > 0) =>
          \E y \in Runs : todo'[y] \in BeforeW \cup BeforeS \cup BeforeG
    BY <1>1, <2>1, <2>4 DEF StopInv, SomeRun
  <2>9. QED
    BY <2>5, <2>6, <2>7, <2>8
       DEF StopInv, SomeRun, BeforeW, BeforeS, BeforeG, Harmless, KW, KS, KG, KM
<1>3. CASE name # "mqtt"
  <2>1. action = "stop" /\ ~Busy
    BY <1>3 DEF Request
  <2>2. mine \in BeforeW
    BY <1>0, <1>3, <2>1, StopIs
  <2>3. todo[Boot] = <<>> /\ \A y \in Runs : todo[y] = <<>>
    BY <2>1 DEF Busy
  <2>4. todo'[r] \in BeforeW
    BY <1>1, <2>2
  <2> HIDE DEF mine
  <2>5. todo'[Boot] = <<>> /\ \A y \in Runs : y # r => todo'[y] = <<>>
    BY <1>1, <2>3
  <2>6. QED
    BY <2>4, <2>5
       DEF StopInv, SomeRun, BeforeW, BeforeS, BeforeG, Harmless, KW, KS, KG, KM
<1>4. QED
  BY <1>2, <1>3

LEMMA StopFault ==
  ASSUME TypeOK, StopInv, (\E p \in Programs : Die(p)) \/ Lock
  PROVE  StopInv'
<1>1. UNCHANGED <<todo, stage, asked, mixed>>
  BY DEF Die, Lock, history
<1>2. \A q \in Programs : procs'[q] > 0 => procs[q] > 0
  <2>1. CASE Lock
    BY <2>1 DEF Lock
  <2>2. ASSUME NEW p \in Programs, Die(p) PROVE \A q \in Programs : procs'[q] > 0 => procs[q] > 0
    BY <2>2 DEF Die, TypeOK
  <2>3. QED
    BY <2>1, <2>2
<1>3. Server \in Programs /\ Grabbers \subseteq Programs
  BY DEF Programs
<1>4. QED
  BY <1>1, <1>2, <1>3
     DEF StopInv, SomeRun, BeforeW, BeforeS, BeforeG, Harmless, KW, KS, KG, KM

LEMMA StopInvHolds ==
  ASSUME TypeOK, StopInv
  PROVE  StopHolds
<1> SUFFICES ASSUME asked = "stop", ~mixed, ~Busy
             PROVE  /\ \A p \in Grabbers \cup {Server} : procs[p] = 0
                    /\ \A w \in Watchdogs : stage[w] = "none"
  BY DEF StopHolds
<1>1. \A r \in Runs : todo[r] = <<>>
  BY DEF Busy
<1>2. ~SomeRun(BeforeW \cup BeforeS \cup BeforeG) /\ ~SomeRun(BeforeW \cup BeforeS)
      /\ ~SomeRun(BeforeW)
  BY <1>1, HeadsAndTails DEF SomeRun
<1>3. ~(procs[Server] > 0) /\ (\A g \in Grabbers : ~(procs[g] > 0))
      /\ \A w \in Watchdogs : stage[w] = "none"
  BY <1>2 DEF StopInv
<1>4. \A p \in Grabbers \cup {Server} : procs[p] \in Nat
  BY DEF TypeOK, Programs
<1>5. QED
  BY <1>3, <1>4

\* stop_rtsp (service.sh): once a stop that met no other request is done, nothing of
\* the stream runs and no watchdog lives, and it stays so.
THEOREM StopsHold == Spec => []StopHolds
<1>1. Init => WatchdogInv /\ StopInv
  <2> SUFFICES ASSUME Init PROVE WatchdogInv /\ StopInv
    OBVIOUS
  <2>1. asked = "start" /\ \A w \in Watchdogs : todo[w] = <<>>
    BY ScriptsAre DEF Init, Booted
  <2>2. QED
    BY <2>1, Singles DEF WatchdogInv, StopInv
<1>2. TypeOK /\ WatchdogInv /\ StopInv /\ [Next]_vars => WatchdogInv' /\ StopInv'
  <2> SUFFICES ASSUME TypeOK, WatchdogInv, StopInv, [Next]_vars PROVE WatchdogInv' /\ StopInv'
    OBVIOUS
  <2>1. WatchdogInv'
    BY WatchdogInvStep
  <2>2. CASE UNCHANGED vars
    <3>1. todo' = todo /\ procs' = procs /\ stage' = stage /\ asked' = asked
          /\ (mixed' <=> mixed)
      BY <2>2 DEF vars, history
    <3>2. QED
      BY <2>1, <3>1 DEF StopInv, SomeRun, BeforeW, BeforeS, BeforeG, Harmless, KW, KS, KG, KM
  <2>3. ASSUME NEW x \in Scripts, Exec(x) PROVE StopInv'
    BY <2>3, StopExec
  <2>4. ASSUME NEW w \in Watchdogs, WatchdogStep(w) PROVE StopInv'
    BY <2>4, StopWatchdogStep
  <2>5. ASSUME NEW r \in Runs, NEW action \in {"start", "stop"}, NEW name \in Names,
               Request(r, action, name)
        PROVE  StopInv'
    BY <2>5, StopRequest
  <2>6. CASE (\E p \in Programs : Die(p)) \/ Lock
    BY <2>1, <2>6, StopFault
  <2>7. QED
    BY <2>1, <2>2, <2>3, <2>4, <2>5, <2>6 DEF Next
<1>3. TypeOK /\ StopInv => StopHolds
  BY StopInvHolds
<1>4. QED
  BY <1>1, <1>2, <1>3, TypeCorrect, PTL DEF Spec

--------------------------------------------------------------------------------
(* One grabber for each stream.  Only one script at a time has grabbers or the   *)
(* watchdog still to start, each once, the watchdog last, and a stream that has   *)
(* its grabber is killed before it is started again.                              *)

Brings(c) == c = Run(Watchdog) \/ \E s \in Grabbers : c = Run(s)
HasBring(t) == \E n \in 1..Len(t) : Brings(t[n])
Orderly(t) ==
  /\ \A m, n \in 1..Len(t) : t[m] = t[n] /\ Brings(t[n]) => m = n
  /\ \A m, n \in 1..Len(t) : t[n] = Run(Watchdog) /\ Brings(t[m]) => m <= n
Clear(t, p) ==
  \A s \in Grabbers : \A n \in 1..Len(t) :
    t[n] = Run(s) => p[s] = 0 \/ \E m \in 1..n - 1 : t[m] = KG

SingleInv ==
  asked = "start" /\ ~mixed =>
    /\ \A s \in Grabbers : procs[s] <= 1
    /\ \A x \in Scripts : Orderly(todo[x]) /\ Clear(todo[x], procs)
    /\ \A x, y \in Scripts : HasBring(todo[x]) /\ HasBring(todo[y]) => x = y
    /\ \A x \in {Boot} \cup Runs :
         HasBring(todo[x]) => \A w \in Watchdogs : stage[w] = "none"

LEMMA BringsAre ==
  /\ \A a, b : Run(a) = Run(b) => a = b
  /\ \A p : Brings(Run(p)) <=> p = Watchdog \/ p \in Grabbers
  /\ \A p : ~Brings(KillAll(p))
  /\ Watchdog \notin Grabbers /\ Server \notin Grabbers /\ Server # Watchdog
  /\ \A p \in {"mqttv4", "cloud", "rmm"} : p \notin Grabbers /\ p # Watchdog
<1>1. \A a, b : Run(a) = Run(b) => a = b
  BY DEF Run
<1>2. \A p, q : Run(p) # KillAll(q)
  BY DEF Run, KillAll
<1>3. QED
  BY <1>1, <1>2 DEF Brings, Watchdog, Grabbers, Server

LEMMA TailAt ==
  ASSUME NEW t \in Seq(Commands), t # <<>>
  PROVE  /\ Len(t) \in Nat /\ Len(t) > 0 /\ Len(Tail(t)) = Len(t) - 1 /\ Head(t) = t[1]
         /\ \A n \in 1..Len(t) - 1 : Tail(t)[n] = t[n + 1]
  OBVIOUS

\* What the next command leaves to be done.
LEMMA OrderlyTail ==
  ASSUME NEW t \in Seq(Commands), t # <<>>, Orderly(t)
  PROVE  /\ Orderly(Tail(t))
         /\ HasBring(Tail(t)) => HasBring(t)
         /\ Brings(Head(t)) => HasBring(t)
         /\ Head(t) = Run(Watchdog) => ~HasBring(Tail(t))
<1> DEFINE u == Tail(t)
<1>1. /\ Len(t) \in Nat /\ Len(t) > 0 /\ Len(u) = Len(t) - 1 /\ Head(t) = t[1]
      /\ \A n \in 1..Len(t) - 1 : u[n] = t[n + 1]
  BY TailAt
<1> HIDE DEF u
<1>2. \A n \in 1..Len(u) : n \in Int /\ n + 1 \in 1..Len(t) /\ u[n] = t[n + 1] /\ n + 1 > 1
  BY <1>1
<1>3. 1 \in 1..Len(t)
  BY <1>1
<1>4. Orderly(u)
  <2>1. ASSUME NEW m \in 1..Len(u), NEW n \in 1..Len(u), u[m] = u[n], Brings(u[n])
        PROVE  m = n
    <3>1. m + 1 = n + 1
      BY <1>2, <2>1 DEF Orderly
    <3>2. QED
      BY <1>2, <3>1
  <2>2. ASSUME NEW m \in 1..Len(u), NEW n \in 1..Len(u), u[n] = Run(Watchdog), Brings(u[m])
        PROVE  m <= n
    <3>1. m + 1 <= n + 1
      BY <1>2, <2>2 DEF Orderly
    <3>2. QED
      BY <1>2, <3>1
  <2>3. QED
    BY <2>1, <2>2 DEF Orderly
<1>5. HasBring(u) => HasBring(t)
  BY <1>2 DEF HasBring
<1>6. Brings(Head(t)) => HasBring(t)
  BY <1>1, <1>3 DEF HasBring
<1>7. Head(t) = Run(Watchdog) => ~HasBring(u)
  <2> SUFFICES ASSUME t[1] = Run(Watchdog), NEW n \in 1..Len(u), Brings(u[n]) PROVE FALSE
    BY <1>1 DEF HasBring
  <2>1. n + 1 <= 1
    BY <1>2, <1>3 DEF Orderly
  <2>2. QED
    BY <1>2, <2>1
<1>8. QED
  BY <1>4, <1>5, <1>6, <1>7 DEF u

LEMMA ClearTail ==
  ASSUME NEW t \in Seq(Commands), t # <<>>, NEW p, NEW q, Orderly(t), Clear(t, p),
         Head(t) # KG => \A s \in Grabbers : p[s] = 0 => q[s] = 0 \/ Head(t) = Run(s),
         Head(t) = KG => \A s \in Grabbers : q[s] = 0
  PROVE  Clear(Tail(t), q)
<1> DEFINE u == Tail(t)
<1>1. /\ Len(t) \in Nat /\ Len(t) > 0 /\ Len(u) = Len(t) - 1 /\ Head(t) = t[1]
      /\ \A n \in 1..Len(t) - 1 : u[n] = t[n + 1]
  BY TailAt
<1> HIDE DEF u
<1>2. \A n \in 1..Len(u) : n \in Int /\ n + 1 \in 1..Len(t) /\ u[n] = t[n + 1] /\ n + 1 > 1
  BY <1>1
<1>3. SUFFICES ASSUME NEW s \in Grabbers, NEW n \in 1..Len(u), u[n] = Run(s)
               PROVE  q[s] = 0 \/ \E m \in 1..n - 1 : u[m] = KG
  BY DEF Clear, u
<1>4. CASE Head(t) = KG
  BY <1>4
<1>5. CASE Head(t) # KG
  <2>1. p[s] = 0 \/ \E m \in 1..(n + 1) - 1 : t[m] = KG
    BY <1>2, <1>3 DEF Clear
  <2>2. ASSUME NEW m \in 1..(n + 1) - 1, t[m] = KG PROVE \E k \in 1..n - 1 : u[k] = KG
    <3>1. m # 1 /\ m \in Int /\ m - 1 \in 1..n - 1 /\ (m - 1) + 1 = m /\ m - 1 \in 1..Len(u)
      BY <1>1, <1>2, <1>5, <2>2
    <3>2. u[m - 1] = t[m]
      BY <1>2, <3>1
    <3>3. QED
      BY <2>2, <3>1, <3>2
  <2>3. ASSUME Head(t) = Run(s) PROVE FALSE
    <3>1. t[1] = t[n + 1] /\ Brings(t[n + 1]) /\ 1 \in 1..Len(t)
      BY <1>1, <1>2, <1>3, <2>3 DEF Brings
    <3>2. 1 = n + 1
      BY <1>2, <3>1 DEF Orderly
    <3>3. QED
      BY <1>2, <3>2
  <2>4. QED
    BY <1>5, <2>1, <2>2, <2>3
<1>6. QED
  BY <1>4, <1>5

LEMMA ClearHead ==
  ASSUME NEW t \in Seq(Commands), t # <<>>, NEW p, Clear(t, p), NEW s \in Grabbers,
         Head(t) = Run(s)
  PROVE  p[s] = 0
<1>1. Len(t) \in Nat /\ 1 \in 1..Len(t) /\ t[1] = Run(s)
  BY TailAt
<1>2. ~\E m \in 1..1 - 1 : t[m] = KG
  OBVIOUS
<1>3. QED
  BY <1>1, <1>2 DEF Clear

LEMMA Quiet ==
  /\ \A t, p : ~HasBring(t) => Orderly(t) /\ Clear(t, p)
  /\ ~HasBring(<<>>)
<1>1. ASSUME NEW t, NEW p, ~HasBring(t) PROVE Orderly(t) /\ Clear(t, p)
  <2>1. \A n \in 1..Len(t) : ~Brings(t[n])
    BY <1>1 DEF HasBring
  <2>2. \A n \in 1..Len(t) : t[n] # Run(Watchdog) /\ \A s \in Grabbers : t[n] # Run(s)
    BY <2>1 DEF Brings
  <2>3. QED
    BY <2>1, <2>2 DEF Orderly, Clear
<1>2. ~HasBring(<<>>)
  BY DEF HasBring
<1>3. QED
  BY <1>1, <1>2
LEMMA ConcatAt ==
  ASSUME NEW S, NEW s \in Seq(S), NEW t \in Seq(S)
  PROVE  /\ s \o t \in Seq(S) /\ Len(s \o t) = Len(s) + Len(t)
         /\ \A n \in 1..Len(s \o t) :
              (s \o t)[n] = IF n <= Len(s) THEN s[n] ELSE t[n - Len(s)]
  OBVIOUS

\* The same with the lengths at hand.
LEMMA ConcatIs ==
  ASSUME NEW S, NEW s \in Seq(S), NEW t \in Seq(S), NEW u, u = s \o t,
         NEW a \in Nat, NEW b \in Nat, Len(s) = a, Len(t) = b
  PROVE  /\ u \in Seq(S) /\ Len(u) = a + b
         /\ \A n \in 1..a + b : u[n] = IF n <= a THEN s[n] ELSE t[n - a]
<1>1. /\ s \o t \in Seq(S) /\ Len(s \o t) = Len(s) + Len(t)
      /\ \A n \in 1..Len(s \o t) :
           (s \o t)[n] = IF n <= Len(s) THEN s[n] ELSE t[n - Len(s)]
  BY ConcatAt, Zenon
<1>2. QED
  BY <1>1

Distinct(g) == \A m, n \in 1..Len(g) : g[m] = g[n] => m = n

LEMMA StreamsDistinct == Distinct(Audio \o Video) /\ Distinct(Video \o Audio)
<1>1. ASSUME NEW s \in Seq(Grabbers), NEW t \in Seq(Grabbers), Distinct(s), Distinct(t),
             \A m \in 1..Len(s), n \in 1..Len(t) : s[m] # t[n]
      PROVE  Distinct(s \o t)
  <2>1. PICK a \in Nat, b \in Nat : a = Len(s) /\ b = Len(t)
    OBVIOUS
  <2> DEFINE u == s \o t
  <2>2. Len(u) = a + b /\ \A n \in 1..a + b : u[n] = IF n <= a THEN s[n] ELSE t[n - a]
    BY <2>1, ConcatIs
  <2>3. ASSUME NEW m \in 1..a + b, NEW n \in 1..a + b, u[m] = u[n] PROVE m = n
    <3>1. CASE m <= a /\ n <= a
      BY <1>1, <2>1, <2>2, <2>3, <3>1 DEF Distinct
    <3>2. CASE m <= a /\ n > a
      <4>1. n - a \in 1..b /\ m \in 1..a
        BY <3>2
      <4>2. QED
        BY <1>1, <2>1, <2>2, <2>3, <3>2, <4>1
    <3>3. CASE m > a /\ n <= a
      <4>1. m - a \in 1..b /\ n \in 1..a
        BY <3>3
      <4>2. QED
        BY <1>1, <2>1, <2>2, <2>3, <3>3, <4>1
    <3>4. CASE m > a /\ n > a
      <4>a. m - a \in 1..b /\ n - a \in 1..b /\ ~ (m <= a) /\ ~ (n <= a)
        BY <3>4
      <4>b. u[m] = t[m - a] /\ u[n] = t[n - a]
        BY <2>2, <4>a, Zenon
      <4>1. m - a \in 1..b /\ n - a \in 1..b /\ t[m - a] = t[n - a]
        BY <2>3, <4>a, <4>b, Zenon
      <4>2. m - a = n - a
        BY <1>1, <2>1, <4>1 DEF Distinct
      <4>3. QED
        BY <4>2
    <3>5. QED
      BY <3>1, <3>2, <3>3, <3>4
  <2>4. QED
    BY <2>1, <2>2, <2>3 DEF Distinct
<1>2. /\ Distinct(Video) /\ Distinct(Audio)
      /\ \A n \in 1..Len(Video) : Video[n] \in {"low", "high"}
      /\ \A n \in 1..Len(Audio) : Audio[n] = "audio"
  <2>1. Audio = <<"audio">> \/ Audio = <<>>
    BY ServicesAssumption
  <2>2. Video = <<"low">> \/ Video = <<"high">> \/ Video = <<"low", "high">>
    BY ServicesAssumption
  <2>3. Distinct(Audio) /\ \A n \in 1..Len(Audio) : Audio[n] = "audio"
    BY <2>1 DEF Distinct
  <2>4. Distinct(Video) /\ \A n \in 1..Len(Video) : Video[n] \in {"low", "high"}
    BY <2>2 DEF Distinct
  <2>5. QED
    BY <2>3, <2>4
<1>3. QED
  BY <1>1, <1>2, StreamsType

\* A list that starts the grabbers g, each once, behind place a, and the watchdog, if at
\* all, at place w behind them, is orderly.
LEMMA ShapeIsOrderly ==
  ASSUME NEW t, NEW g \in Seq(Grabbers), Distinct(g), NEW a \in Nat, NEW w \in Nat,
         Len(t) \in Nat, w > a + Len(g),
         \A n \in 1..Len(t) :
           \/ ~Brings(t[n])
           \/ n - a \in 1..Len(g) /\ t[n] = Run(g[n - a])
           \/ n = w /\ t[n] = Run(Watchdog)
  PROVE  Orderly(t)
<1>1. Len(g) \in Nat /\ \A k \in 1..Len(g) : g[k] \in Grabbers
  OBVIOUS
<1>2. \A n \in 1..Len(t) : n - a \in 1..Len(g) /\ t[n] = Run(g[n - a]) => t[n] # Run(Watchdog)
  BY <1>1, BringsAre
<1>3. ASSUME NEW m \in 1..Len(t), NEW n \in 1..Len(t), t[m] = t[n], Brings(t[n])
      PROVE  m = n
  <2>1. CASE t[n] = Run(Watchdog)
    BY <1>2, <1>3, <2>1
  <2>2. CASE t[n] # Run(Watchdog)
    <3>1. /\ n - a \in 1..Len(g) /\ t[n] = Run(g[n - a])
          /\ m - a \in 1..Len(g) /\ t[m] = Run(g[m - a])
      BY <1>3, <2>2
    <3>2. g[m - a] = g[n - a]
      BY <1>3, <3>1, BringsAre
    <3>3. m - a = n - a
      BY <3>1, <3>2 DEF Distinct
    <3>4. QED
      BY <3>3
  <2>3. QED
    BY <2>1, <2>2
<1>4. ASSUME NEW m \in 1..Len(t), NEW n \in 1..Len(t), t[n] = Run(Watchdog), Brings(t[m])
      PROVE  m <= n
  <2>1. n = w
    BY <1>2, <1>4, BringsAre
  <2>2. m = w \/ m - a \in 1..Len(g)
    BY <1>4
  <2>3. QED
    BY <1>1, <2>1, <2>2
<1>5. QED
  BY <1>3, <1>4 DEF Orderly

LEMMA RunEachAt ==
  ASSUME NEW g \in Seq(Grabbers)
  PROVE  /\ RunEach(g) \in Seq(Commands) /\ Len(RunEach(g)) = Len(g) /\ Len(g) \in Nat
         /\ \A n \in 1..Len(g) : RunEach(g)[n] = Run(g[n])
<1>1. DOMAIN g = 1..Len(g) /\ Len(g) \in Nat
  OBVIOUS
<1>2. RunEach(g) \in Seq({Run(p) : p \in Grabbers})
  BY RunEachType
<1>3. {Run(p) : p \in Grabbers} \subseteq Commands
  BY WatchdogCommandsType
<1>4. DOMAIN RunEach(g) = 1..Len(g) /\ \A n \in 1..Len(g) : RunEach(g)[n] = Run(g[n])
  BY <1>1 DEF RunEach
<1>5. RunEach(g) \in Seq(Commands)
  BY <1>2, <1>3, SeqSub
<1>6. QED
  BY <1>1, <1>4, <1>5, LenProperties

LEMMA StartIsOrderly == Orderly(Start("rtsp")) /\ Orderly(Start("all")) /\ Orderly(SystemInit)
<1> DEFINE C == Commands
           g == Audio \o Video
           r == RunEach(g)
<1>1. /\ \A p \in Programs : Run(p) \in C
      /\ Run(Watchdog) \in C
      /\ Server \in Programs /\ "mqttv4" \in Programs /\ "cloud" \in Programs /\ "rmm" \in Programs
  BY DEF Commands, Programs
<1>2. g \in Seq(Grabbers) /\ Distinct(g)
  BY StreamsType, ConcatType, StreamsDistinct
<1> HIDE DEF g
<1>3. r \in Seq(C) /\ Len(r) = Len(g) /\ Len(g) \in Nat /\ \A n \in 1..Len(g) : r[n] = Run(g[n])
  BY <1>2, RunEachAt
<1> HIDE DEF r, C
<1>4. /\ ~Brings(Run(Server)) /\ ~Brings(Run("mqttv4")) /\ ~Brings(Run("cloud"))
      /\ ~Brings(Run("rmm"))
  BY BringsAre
<1>5. ASSUME NEW t, t = (<<Run(Server)>> \o r) \o <<Run(Watchdog)>>
      PROVE  /\ t \in Seq(C) /\ Len(t) = Len(g) + 2
             /\ \A n \in 1..Len(t) :
                  \/ ~Brings(t[n])
                  \/ n - 1 \in 1..Len(g) /\ t[n] = Run(g[n - 1])
                  \/ n = Len(g) + 2 /\ t[n] = Run(Watchdog)
  <2> DEFINE a == <<Run(Server)>>
             c == <<Run(Watchdog)>>
             l == Len(g)
  <2>1. a \in Seq(C) /\ c \in Seq(C) /\ Len(a) = 1 /\ Len(c) = 1 /\ a[1] = Run(Server)
        /\ c[1] = Run(Watchdog)
    BY <1>1, Singles
  <2>0. PICK b : b = a \o r
    OBVIOUS
  <2>t. t = b \o c
    BY <1>5, <2>0
  <2> HIDE DEF a, c
  <2>2. /\ b \in Seq(C) /\ Len(b) = 1 + l
        /\ \A n \in 1..1 + l : b[n] = IF n <= 1 THEN a[n] ELSE r[n - 1]
    <3>1. r \in Seq(C) /\ Len(r) = Len(g) /\ Len(g) \in Nat /\ 1 \in Nat
      BY <1>3
    <3>0. a \in Seq(C) /\ r \in Seq(C)
      BY <2>1, <3>1
    <3>2. /\ a \o r \in Seq(C) /\ Len(a \o r) = Len(a) + Len(r)
          /\ \A n \in 1..Len(a \o r) :
               (a \o r)[n] = IF n <= Len(a) THEN a[n] ELSE r[n - Len(a)]
      BY <3>0, ConcatAt, Zenon
    <3>3. /\ b \in Seq(C) /\ Len(b) = Len(a) + Len(r)
          /\ \A n \in 1..Len(b) : b[n] = IF n <= Len(a) THEN a[n] ELSE r[n - Len(a)]
      BY <2>0, <3>2, Zenon
    <3>4. QED
      BY <2>1, <3>1, <3>3
  <2>3. /\ t \in Seq(C) /\ Len(t) = l + 2
        /\ \A n \in 1..l + 2 : t[n] = IF n <= l + 1 THEN b[n] ELSE c[n - (l + 1)]
    <3>1. l + 1 \in Nat /\ 1 \in Nat /\ Len(b) = l + 1 /\ (l + 1) + 1 = l + 2
      BY <1>3, <2>2
    <3>2. /\ b \o c \in Seq(C) /\ Len(b \o c) = Len(b) + Len(c)
          /\ \A n \in 1..Len(b \o c) :
               (b \o c)[n] = IF n <= Len(b) THEN b[n] ELSE c[n - Len(b)]
      BY <2>1, <2>2, ConcatAt, Zenon
    <3>3. QED
      BY <2>t, <2>1, <3>1, <3>2
  <2>4. ASSUME NEW n \in 1..Len(t)
        PROVE  \/ ~Brings(t[n])
               \/ n - 1 \in 1..Len(g) /\ t[n] = Run(g[n - 1])
               \/ n = Len(g) + 2 /\ t[n] = Run(Watchdog)
    <3>1. CASE n = 1
      <4>1. t[n] = a[1]
        BY <1>3, <2>2, <2>3, <3>1
      <4>2. QED
        BY <1>4, <2>1, <4>1
    <3>2. CASE n \in 2..Len(g) + 1
      <4>1. t[n] = r[n - 1] /\ n - 1 \in 1..Len(g)
        BY <1>3, <2>2, <2>3, <3>2
      <4>2. QED
        BY <1>3, <4>1
    <3>3. CASE n = Len(g) + 2
      <4>1. t[n] = c[1]
        BY <1>3, <2>3, <3>3
      <4>2. QED
        BY <2>1, <3>3, <4>1
    <3>4. QED
      BY <1>3, <2>3, <3>1, <3>2, <3>3
  <2>5. QED
    BY <2>3, <2>4
<1>6. PICK t : t = StartRtsp
  OBVIOUS
<1>7. /\ t \in Seq(C) /\ Len(t) = Len(g) + 2
      /\ \A n \in 1..Len(t) :
           \/ ~Brings(t[n])
           \/ n - 1 \in 1..Len(g) /\ t[n] = Run(g[n - 1])
           \/ n = Len(g) + 2 /\ t[n] = Run(Watchdog)
  BY <1>5, <1>6 DEF StartRtsp, g, r
<1>8. Orderly(t)
  BY <1>2, <1>3, <1>7, ShapeIsOrderly
<1>9. Orderly(Append(t, Run("mqttv4")))
  <2> DEFINE u == Append(t, Run("mqttv4"))
  <2>1. /\ Len(u) = Len(g) + 3
        /\ \A n \in 1..Len(u) : u[n] = IF n <= Len(t) THEN t[n] ELSE Run("mqttv4")
    <3>1. Run("mqttv4") \in C
      BY <1>1
    <3>2. QED
      BY <1>3, <1>7, <3>1, AppendProperties
  <2> HIDE DEF u
  <2>2. \A n \in 1..Len(u) :
           \/ ~Brings(u[n])
           \/ n - 1 \in 1..Len(g) /\ u[n] = Run(g[n - 1])
           \/ n = Len(g) + 2 /\ u[n] = Run(Watchdog)
    BY <1>3, <1>4, <1>7, <2>1
  <2>3. Orderly(u)
    <3>1. Len(u) \in Nat /\ Len(g) + 2 \in Nat /\ Len(g) + 2 > 1 + Len(g) /\ 1 \in Nat
      BY <1>3, <2>1
    <3>2. QED
      BY <1>2, <2>2, <3>1, ShapeIsOrderly
  <2>4. QED
    BY <2>3 DEF u
<1>10. Orderly(SystemInit)
  <2> DEFINE first == <<Run("rmm"), Run("cloud"), Run("mqttv4")>>
             middle == IF Len(Video) = 2 THEN <<Run(Server)>> ELSE <<>>
             c == <<Run(Watchdog)>>
  <2>1. /\ first \in Seq(C) /\ Len(first) = 3
        /\ \A n \in 1..3 : ~Brings(first[n])
        /\ middle \in Seq(C) /\ Len(middle) \in {0, 1} /\ \A n \in 1..Len(middle) : ~Brings(middle[n])
        /\ c \in Seq(C) /\ Len(c) = 1 /\ c[1] = Run(Watchdog)
    <3>1. first \in Seq(C) /\ middle \in Seq(C) /\ c \in Seq(C)
      BY <1>1, Singles
    <3>2. Len(first) = 3 /\ first[1] = Run("rmm") /\ first[2] = Run("cloud")
          /\ first[3] = Run("mqttv4")
      OBVIOUS
    <3>3. \A n \in 1..3 : ~Brings(first[n])
      <4> HIDE DEF first
      <4>1. \A n \in 1..3 : n = 1 \/ n = 2 \/ n = 3
        OBVIOUS
      <4>2. QED
        BY <1>4, <3>2, <4>1
    <3>4. Len(middle) \in {0, 1} /\ \A n \in 1..Len(middle) : middle[n] = Run(Server)
      OBVIOUS
    <3>5. Len(c) = 1 /\ c[1] = Run(Watchdog)
      OBVIOUS
    <3> HIDE DEF first, middle, c
    <3>6. QED
      BY <1>4, <3>1, <3>2, <3>3, <3>4, <3>5
  <2>2. PICK k \in {0, 1} : k = Len(middle)
    BY <2>1
  <2>b. PICK b : b = r \o middle
    OBVIOUS
  <2>d. PICK d : d = b \o c
    OBVIOUS
  <2>l. PICK last : last = IF ~Rtsp THEN <<>> ELSE d
    OBVIOUS
  <2>6. PICK u : u = first \o last
    OBVIOUS
  <2>10. u = SystemInit
    BY <2>6, <2>b, <2>d, <2>l DEF SystemInit, r, g
  <2> HIDE DEF first, middle, c
  <2>3. /\ b \in Seq(C) /\ Len(b) = Len(g) + k
        /\ \A n \in 1..Len(g) + k : b[n] = IF n <= Len(g) THEN r[n] ELSE middle[n - Len(g)]
    <3>1. Len(g) \in Nat /\ k \in Nat /\ Len(middle) = k
      BY <1>3, <2>2
    <3>2. QED
      BY <1>3, <2>1, <2>b, <3>1, ConcatIs
  <2>4. /\ d \in Seq(C) /\ Len(d) = Len(g) + k + 1
        /\ \A n \in 1..Len(g) + k + 1 :
             d[n] = IF n <= Len(g) + k THEN b[n] ELSE c[n - (Len(g) + k)]
    <3>1. Len(g) + k \in Nat /\ 1 \in Nat
      BY <1>3, <2>2
    <3>2. /\ b \o c \in Seq(C) /\ Len(b \o c) = Len(b) + Len(c)
          /\ \A n \in 1..Len(b \o c) :
               (b \o c)[n] = IF n <= Len(b) THEN b[n] ELSE c[n - Len(b)]
      BY <2>1, <2>3, ConcatAt, Zenon
    <3>3. QED
      BY <2>1, <2>3, <2>d, <3>1, <3>2
  <2>5. /\ last \in Seq(C) /\ Len(last) \in Nat
        /\ \A n \in 1..Len(last) :
           \/ ~Brings(last[n])
           \/ n \in 1..Len(g) /\ last[n] = Run(g[n])
           \/ n = Len(g) + k + 1 /\ last[n] = Run(Watchdog)
    <3>1. CASE ~Rtsp
      <4>1. last = <<>>
        BY <2>l, <3>1
      <4>2. QED
        BY <4>1, Singles
    <3>2. CASE Rtsp
      <4>1. last = d
        BY <2>l, <3>2
      <4>2. ASSUME NEW n \in 1..Len(d)
            PROVE  \/ ~Brings(d[n])
                   \/ n \in 1..Len(g) /\ d[n] = Run(g[n])
                   \/ n = Len(g) + k + 1 /\ d[n] = Run(Watchdog)
        <5>1. CASE n \in 1..Len(g)
          BY <1>3, <2>2, <2>3, <2>4, <5>1, SMTT(20)
        <5>2. CASE n = Len(g) + k + 1
          <6>1. d[n] = c[1]
            BY <1>3, <2>2, <2>4, <5>2
          <6>2. QED
            BY <2>1, <5>2, <6>1
        <5>3. CASE n \in Len(g) + 1..Len(g) + k
          <6>1. d[n] = middle[n - Len(g)] /\ n - Len(g) \in 1..Len(middle)
            BY <1>3, <2>2, <2>3, <2>4, <5>3
          <6>2. QED
            BY <2>1, <6>1
        <5>4. n \in 1..Len(g) \/ n \in Len(g) + 1..Len(g) + k \/ n = Len(g) + k + 1
          <6>1. Len(g) \in Nat /\ (k = 0 \/ k = 1) /\ n \in 1..Len(g) + k + 1
            BY <1>3, <2>2, <2>4
          <6>2. QED
            BY <6>1
        <5>5. QED
          BY <5>1, <5>2, <5>3, <5>4
      <4>3. Len(d) \in Nat
        BY <1>3, <2>2, <2>4
      <4>4. QED
        BY <2>4, <4>1, <4>2, <4>3
    <3>3. QED
      BY <3>1, <3>2
  <2>7. /\ Len(u) = 3 + Len(last)
        /\ \A n \in 1..3 + Len(last) : u[n] = IF n <= 3 THEN first[n] ELSE last[n - 3]
    <3>1. 3 \in Nat
      OBVIOUS
    <3>2. /\ first \o last \in Seq(C) /\ Len(first \o last) = Len(first) + Len(last)
          /\ \A n \in 1..Len(first \o last) :
               (first \o last)[n] = IF n <= Len(first) THEN first[n] ELSE last[n - Len(first)]
      BY <2>1, <2>5, ConcatAt, Zenon
    <3>3. QED
      BY <2>1, <2>5, <2>6, <3>1, <3>2
  <2>8. ASSUME NEW n \in 1..Len(u)
        PROVE  \/ ~Brings(u[n])
               \/ n - 3 \in 1..Len(g) /\ u[n] = Run(g[n - 3])
               \/ n = Len(g) + k + 4 /\ u[n] = Run(Watchdog)
    <3>1. CASE n <= 3
      BY <2>1, <2>7, <3>1
    <3>2. CASE n > 3
      <4>1. u[n] = last[n - 3] /\ n - 3 \in 1..Len(last)
        BY <2>5, <2>7, <3>2
      <4>2. n - 3 = Len(g) + k + 1 => n = Len(g) + k + 4
        BY <1>3, <2>2
      <4>3. QED
        BY <2>5, <4>1, <4>2
    <3>3. QED
      BY <2>5, <2>7, <3>1, <3>2
  <2>9. Orderly(u)
    <3>1. Len(g) + k + 4 \in Nat /\ Len(g) + k + 4 > 3 + Len(g) /\ Len(u) \in Nat /\ 3 \in Nat
      BY <1>3, <2>2, <2>5, <2>7
    <3>2. QED
      BY <1>2, <2>8, <3>1, ShapeIsOrderly
  <2>11. QED
    BY <2>9, <2>10
<1>11. QED
  BY <1>6, <1>8, <1>9, <1>10 DEF Start

\* The watchdog's lists bring nothing, but for that of the grabbers, which kills first.
LEMMA RestartsAre ==
  /\ \A c \in {RestartGrabber, RestartRtsp, RestartMqtt, RestartCloud, <<>>} :
       Orderly(c) /\ \A p : Clear(c, p)
  /\ \A t \in Harmless : ~HasBring(t)
<1>1. /\ ~Brings(KG) /\ ~Brings(KS) /\ ~Brings(KM)
      /\ ~Brings(Run(Server)) /\ ~Brings(Run("mqttv4")) /\ ~Brings(Run("cloud"))
  BY BringsAre DEF KG, KS, KM
<1>2. \A a, b, c : ~Brings(a) /\ ~Brings(b) /\ ~Brings(c) =>
        ~HasBring(<<a>>) /\ ~HasBring(<<a, b>>) /\ ~HasBring(<<a, b, c>>)
  <2> SUFFICES ASSUME NEW a, NEW b, NEW c, ~Brings(a), ~Brings(b), ~Brings(c)
               PROVE  ~HasBring(<<a>>) /\ ~HasBring(<<a, b>>) /\ ~HasBring(<<a, b, c>>)
    OBVIOUS
  <2>1. /\ \A n \in 1..Len(<<a>>) : <<a>>[n] = a
        /\ \A n \in 1..Len(<<a, b>>) : <<a, b>>[n] = a \/ <<a, b>>[n] = b
        /\ \A n \in 1..Len(<<a, b, c>>) :
             <<a, b, c>>[n] = a \/ <<a, b, c>>[n] = b \/ <<a, b, c>>[n] = c
    OBVIOUS
  <2>2. ~HasBring(<<a>>)
    BY <2>1, Zenon DEF HasBring
  <2>3. ~HasBring(<<a, b>>)
    BY <2>1, Zenon DEF HasBring
  <2>4. ~HasBring(<<a, b, c>>)
    BY <2>1, Zenon DEF HasBring
  <2>5. QED
    BY <2>2, <2>3, <2>4
<1>3. ~HasBring(RestartRtsp) /\ ~HasBring(RestartMqtt) /\ ~HasBring(RestartCloud)
  BY <1>1, <1>2 DEF RestartRtsp, RestartMqtt, RestartCloud, KS, KM
<1>4. \A t \in Harmless : ~HasBring(t)
  BY <1>1, <1>2 DEF Harmless
<1>5. PICK t : t = RestartGrabber
  OBVIOUS
<1> DEFINE C == Commands
           g == Video \o Audio
           r == RunEach(g)
           first == <<KG, KS, KG>>
           last == <<Run(Server)>>
<1>6. PICK b : b = first \o r
  OBVIOUS
<1>7. t = b \o last
  BY <1>5, <1>6 DEF RestartGrabber, KG, KS
<1>8. /\ first \in Seq(C) /\ Len(first) = 3 /\ first[1] = KG /\ first[2] = KS /\ first[3] = KG
      /\ last \in Seq(C) /\ Len(last) = 1 /\ last[1] = Run(Server)
  <2>1. KG \in C /\ KS \in C /\ Run(Server) \in C
    BY DEF Commands, Programs, KG, KS
  <2>2. first \in Seq(C) /\ last \in Seq(C)
    BY <2>1, Singles
  <2>3. QED
    BY <2>2
<1>9. g \in Seq(Grabbers) /\ Distinct(g)
  BY StreamsType, ConcatType, StreamsDistinct
<1> HIDE DEF g, first, last
<1>10. r \in Seq(C) /\ Len(r) = Len(g) /\ Len(g) \in Nat /\ \A n \in 1..Len(g) : r[n] = Run(g[n])
  BY <1>9, RunEachAt
<1> HIDE DEF r, C
<1>11. /\ b \in Seq(C) /\ Len(b) = 3 + Len(g)
       /\ \A n \in 1..Len(b) : b[n] = IF n <= 3 THEN first[n] ELSE r[n - 3]
  <2>0. first \in Seq(C) /\ r \in Seq(C)
    BY <1>8, <1>10
  <2>1. /\ first \o r \in Seq(C) /\ Len(first \o r) = Len(first) + Len(r)
        /\ \A n \in 1..Len(first \o r) :
             (first \o r)[n] = IF n <= Len(first) THEN first[n] ELSE r[n - Len(first)]
    BY <2>0, ConcatAt, Zenon
  <2>2. /\ b \in Seq(C) /\ Len(b) = Len(first) + Len(r)
        /\ \A n \in 1..Len(b) : b[n] = IF n <= Len(first) THEN first[n] ELSE r[n - Len(first)]
    BY <1>6, <2>1, Zenon
  <2>3. QED
    BY <1>8, <1>10, <2>2
<1>12. /\ Len(t) = Len(b) + 1
       /\ \A n \in 1..Len(t) : t[n] = IF n <= Len(b) THEN b[n] ELSE last[n - Len(b)]
  <2>0. b \in Seq(C) /\ last \in Seq(C)
    BY <1>8, <1>11
  <2>1. /\ b \o last \in Seq(C) /\ Len(b \o last) = Len(b) + Len(last)
        /\ \A n \in 1..Len(b \o last) :
             (b \o last)[n] = IF n <= Len(b) THEN b[n] ELSE last[n - Len(b)]
    BY <2>0, ConcatAt, Zenon
  <2>2. /\ Len(t) = Len(b) + Len(last)
        /\ \A n \in 1..Len(t) : t[n] = IF n <= Len(b) THEN b[n] ELSE last[n - Len(b)]
    BY <1>7, <2>1, Zenon
  <2>3. QED
    BY <1>8, <2>2
<1>13. Len(t) = Len(g) + 4 /\ Len(t) \in Nat
  BY <1>10, <1>11, <1>12
<1>14. ASSUME NEW n \in 1..Len(t)
       PROVE  ~Brings(t[n]) \/ (n - 3 \in 1..Len(g) /\ t[n] = Run(g[n - 3]))
  <2>1. CASE n \in 1..3
    <3>1. t[n] = first[n] /\ (n = 1 \/ n = 2 \/ n = 3)
      BY <1>10, <1>11, <1>12, <2>1
    <3>2. t[n] = KG \/ t[n] = KS
      BY <1>8, <3>1
    <3>3. QED
      BY <1>1, <3>2
  <2>2. CASE n \in 4..Len(g) + 3
    <3>1. t[n] = r[n - 3] /\ n - 3 \in 1..Len(g)
      BY <1>10, <1>11, <1>12, <2>2
    <3>2. QED
      BY <1>10, <3>1
  <2>3. CASE n = Len(g) + 4
    <3>1. t[n] = last[1]
      BY <1>10, <1>11, <1>12, <2>3
    <3>2. QED
      BY <1>1, <1>8, <3>1
  <2>4. QED
    BY <1>10, <1>13, <2>1, <2>2, <2>3
<1>15. Orderly(t)
  <2>1. Len(g) + 5 \in Nat /\ Len(g) + 5 > 3 + Len(g) /\ 3 \in Nat
    BY <1>10
  <2>2. QED
    BY <1>9, <1>13, <1>14, <2>1, ShapeIsOrderly
<1>16. ASSUME NEW p PROVE Clear(t, p)
  <2> SUFFICES ASSUME NEW s \in Grabbers, NEW n \in 1..Len(t), t[n] = Run(s)
               PROVE  \E m \in 1..n - 1 : t[m] = KG
    BY DEF Clear
  <2>1. t[1] = KG
    BY <1>8, <1>10, <1>11, <1>12
  <2>2. n # 1
    BY <2>1, CommandsDiffer
  <2>3. 1 \in 1..n - 1
    BY <2>2
  <2>4. QED
    BY <2>1, <2>3
<1>17. QED
  BY <1>3, <1>4, <1>5, <1>15, <1>16, Quiet

LEMMA ClearLess ==
  ASSUME NEW t, NEW p, NEW q, Clear(t, p), \A s \in Grabbers : p[s] = 0 => q[s] = 0
  PROVE  Clear(t, q)
  BY DEF Clear

LEMMA SingleExec ==
  ASSUME TypeOK, SingleInv, NEW x \in Scripts, Exec(x)
  PROVE  SingleInv'
<1> SUFFICES ASSUME asked' = "start", ~mixed' PROVE SingleInv'
  BY DEF SingleInv
<1>0. todo[x] # <<>> /\ asked' = asked /\ mixed' = mixed
  BY DEF Exec, RunProgram, RunWatchdog, Kill, history
<1>1. /\ \A s \in Grabbers : procs[s] <= 1
      /\ \A y \in Scripts : Orderly(todo[y]) /\ Clear(todo[y], procs)
      /\ \A y, z \in Scripts : HasBring(todo[y]) /\ HasBring(todo[z]) => y = z
      /\ \A y \in {Boot} \cup Runs :
           HasBring(todo[y]) => \A w \in Watchdogs : stage[w] = "none"
  BY <1>0 DEF SingleInv
<1>2. PICK t \in Seq(Commands) : t = todo[x] /\ t # <<>>
  BY <1>0 DEF TypeOK
<1>3. Orderly(t) /\ Clear(t, procs)
  BY <1>1, <1>2
<1>4. /\ Orderly(Tail(t))
      /\ HasBring(Tail(t)) => HasBring(t)
      /\ Brings(Head(t)) => HasBring(t)
      /\ Head(t) = Run(Watchdog) => ~HasBring(Tail(t))
  BY <1>2, <1>3, OrderlyTail
<1>5. \A y \in Scripts : Rest(x)[y] = IF y = x THEN Tail(t) ELSE todo[y]
  BY <1>2 DEF Rest, TypeOK
<1>6. \A y \in Scripts : todo'[y] = Rest(x)[y] \/ todo'[y] = <<>>
  <2>1. CASE RunProgram(x) \/ RunWatchdog(x)
    BY <2>1 DEF RunProgram, RunWatchdog
  <2>2. CASE Kill(x)
    BY <2>2, KillIs
  <2>3. QED
    BY <2>1, <2>2 DEF Exec
<1>7. \A y \in Scripts : Orderly(todo'[y]) /\ (HasBring(todo'[y]) => HasBring(todo[y]))
  <2> SUFFICES ASSUME NEW y \in Scripts
               PROVE  Orderly(todo'[y]) /\ (HasBring(todo'[y]) => HasBring(todo[y]))
    OBVIOUS
  <2>1. CASE todo'[y] = <<>>
    BY <2>1, Quiet
  <2>2. CASE todo'[y] = Rest(x)[y] /\ y = x
    BY <1>2, <1>4, <1>5, <2>2
  <2>3. CASE todo'[y] = Rest(x)[y] /\ y # x
    BY <1>1, <1>5, <2>3
  <2>4. QED
    BY <1>6, <2>1, <2>2, <2>3
<1>8. \A y, z \in Scripts : HasBring(todo'[y]) /\ HasBring(todo'[z]) => y = z
  BY <1>1, <1>7
\* Whatever the command makes of the processes, if it is what its list says.
<1>9. ASSUME \A s \in Grabbers : procs[s] = 0 => procs'[s] = 0 \/ Head(t) = Run(s),
             Head(t) = KG => \A s \in Grabbers : procs'[s] = 0
      PROVE  \A y \in Scripts : Clear(todo'[y], procs')
  <2> SUFFICES ASSUME NEW y \in Scripts PROVE Clear(todo'[y], procs')
    OBVIOUS
  <2>1. CASE todo'[y] = <<>>
    BY <2>1, Quiet
  <2>2. CASE todo'[y] = Rest(x)[y] /\ y = x
    <3>1. Clear(Tail(t), procs')
      BY <1>2, <1>3, <1>9, ClearTail
    <3>2. QED
      BY <1>5, <2>2, <3>1
  <2>3. CASE todo'[y] = Rest(x)[y] /\ y # x
    <3>1. todo'[y] = todo[y]
      BY <1>5, <2>3
    <3>2. CASE \E s \in Grabbers : Head(t) = Run(s)
      <4>1. HasBring(todo[x])
        BY <1>2, <1>4, <3>2 DEF Brings
      <4>2. ~HasBring(todo[y])
        BY <1>1, <2>3, <4>1
      <4>3. QED
        BY <3>1, <4>2, Quiet
    <3>3. CASE ~\E s \in Grabbers : Head(t) = Run(s)
      <4>1. \A s \in Grabbers : procs[s] = 0 => procs'[s] = 0
        BY <1>9, <3>3
      <4>2. Clear(todo[y], procs')
        BY <1>1, <4>1, ClearLess
      <4>3. QED
        BY <3>1, <4>2
    <3>4. QED
      BY <3>2, <3>3
  <2>4. QED
    BY <1>6, <2>1, <2>2, <2>3
<1>10. /\ \A s \in Grabbers : procs'[s] <= 1
       /\ \A y \in Scripts : Clear(todo'[y], procs')
  <2>0. Grabbers \subseteq Programs /\ Server \notin Grabbers
    BY DEF Programs, Grabbers, Server
  <2>1. CASE RunProgram(x)
    <3>1. PICK p : p = Head(t).what
      OBVIOUS
    <3>2. Head(t) = Run(p) /\ p \in Programs
      <4>1. Head(t) \in Commands /\ Head(t).do = "run" /\ p # Watchdog
        BY <1>2, <2>1, <3>1, RestType DEF RunProgram
      <4>2. QED
        BY <3>1, <4>1, CommandFields
    <3>3. procs' = [procs EXCEPT ![p] = IF p = Server THEN 1 ELSE @ + 1]
      BY <1>2, <2>1, <3>1 DEF RunProgram
    <3>4. \A s \in Grabbers : procs'[s] = IF s = p THEN procs[s] + 1 ELSE procs[s]
      BY <2>0, <3>3 DEF TypeOK
    <3>5. \A s \in Grabbers : s = p => procs[s] = 0
      BY <1>2, <1>3, <3>2, ClearHead
    <3>6. \A s \in Grabbers : procs'[s] <= 1
      BY <1>1, <3>4, <3>5
    <3>7. \A s \in Grabbers : procs[s] = 0 => procs'[s] = 0 \/ Head(t) = Run(s)
      BY <3>2, <3>4
    <3>8. Head(t) # KG
      BY <3>2, CommandsDiffer
    <3>9. QED
      BY <1>9, <3>6, <3>7, <3>8
  <2>2. CASE RunWatchdog(x)
    <3>1. procs' = procs /\ Head(t) = Run(Watchdog)
      BY <1>2, <2>2 DEF RunWatchdog
    <3>2. Head(t) # KG
      BY <3>1, CommandsDiffer
    <3>3. QED
      BY <1>1, <1>9, <3>1, <3>2
  <2>3. CASE Kill(x)
    <3>1. \A s \in Grabbers : procs'[s] = 0 \/ procs'[s] = procs[s]
      BY <2>0, <2>3, KillIs
    <3>2. Head(t) = KG => \A s \in Grabbers : procs'[s] = 0
      BY <1>2, <2>3, KillIs
    <3>3. \A s \in Grabbers : procs'[s] <= 1
      BY <1>1, <3>1
    <3>4. QED
      BY <1>9, <3>1, <3>2, <3>3
  <2>4. QED
    BY <2>1, <2>2, <2>3 DEF Exec
<1>11. ASSUME NEW y \in {Boot} \cup Runs, HasBring(todo'[y]), NEW w \in Watchdogs
       PROVE  stage'[w] = "none"
  <2>0. y \in Scripts
    BY ScriptsAre
  <2>1. stage[w] = "none"
    BY <1>1, <1>7, <1>11, <2>0
  <2>2. CASE RunProgram(x)
    BY <2>1, <2>2 DEF RunProgram
  <2>3. CASE RunWatchdog(x)
    <3>1. Head(t) = Run(Watchdog)
      BY <1>2, <2>3 DEF RunWatchdog
    <3>2. HasBring(todo[x]) /\ ~HasBring(Tail(t))
      BY <1>2, <1>4, <3>1 DEF Brings
    <3>3. y = x
      BY <1>1, <1>7, <1>11, <2>0, <3>2
    <3>4. todo'[y] = Tail(t) \/ todo'[y] = <<>>
      BY <1>5, <1>6, <2>0, <3>3
    <3>5. QED
      BY <1>11, <3>2, <3>4, Quiet
  <2>4. CASE Kill(x)
    BY <2>1, <2>4, KillIs
  <2>5. QED
    BY <2>2, <2>3, <2>4 DEF Exec
<1>12. QED
  BY <1>7, <1>8, <1>10, <1>11 DEF SingleInv

LEMMA SingleWatchdogStep ==
  ASSUME TypeOK, WatchdogInv, OneWatchdog, SingleInv, NEW w \in Watchdogs, WatchdogStep(w)
  PROVE  SingleInv'
<1> SUFFICES ASSUME asked' = "start", ~mixed' PROVE SingleInv'
  BY DEF SingleInv
<1> DEFINE Held ==
             /\ \A s \in Grabbers : procs[s] <= 1
             /\ \A y \in Scripts : Orderly(todo[y]) /\ Clear(todo[y], procs)
             /\ \A y, z \in Scripts : HasBring(todo[y]) /\ HasBring(todo[z]) => y = z
             /\ \A y \in {Boot} \cup Runs :
                  HasBring(todo[y]) => \A v \in Watchdogs : stage[v] = "none"
<1>1. CASE Enter(w) \/ Quit(w)
  <2>1. /\ UNCHANGED <<procs, todo, asked, mixed>>
        /\ stage[w] # "none"
    BY <1>1 DEF Enter, Quit, history
  <2>2. Held
    BY <2>1 DEF SingleInv
  <2>3. \A y \in {Boot} \cup Runs : ~HasBring(todo[y])
    BY <2>1, <2>2
  <2>4. /\ \A s \in Grabbers : procs'[s] <= 1
        /\ \A y \in Scripts : Orderly(todo'[y]) /\ Clear(todo'[y], procs')
        /\ \A y, z \in Scripts : HasBring(todo'[y]) /\ HasBring(todo'[z]) => y = z
    BY <2>1, <2>2
  <2>5. \A y \in {Boot} \cup Runs : ~HasBring(todo'[y])
    BY <2>1, <2>3
  <2>6. QED
    BY <2>4, <2>5 DEF SingleInv
<1>2. ASSUME NEW at \in {"grabber", "rtsp", "rmm", "cloud", "mqttv4"},
             NEW next \in {"grabber", "rtsp", "rmm", "cloud", "mqttv4"},
             NEW reason \in BOOLEAN,
             NEW commands \in {RestartGrabber, RestartRtsp, RestartMqtt, RestartCloud, <<>>},
             Check(w, at, next, reason, commands)
      PROVE  SingleInv'
  <2>0. Watchdogs \subseteq Scripts /\ w \in Scripts
    BY ScriptsAre
  <2>1. /\ UNCHANGED <<procs, asked, mixed>>
        /\ stage[w] = at /\ stage[w] # "none" /\ Loops(w)
    BY <1>2 DEF Check, history, Loops
  <2>2. Held
    BY <2>1 DEF SingleInv
  <2>3. /\ todo'[w] = commands \/ todo'[w] = <<>>
        /\ \A y \in Scripts : y # w => todo'[y] = todo[y]
    BY <1>2, <2>0 DEF Check, TypeOK
  <2>4. ASSUME NEW y \in Scripts, y # w PROVE ~HasBring(todo'[y])
    <3>1. CASE y \in Watchdogs
      <4>1. ~Loops(y)
        BY <2>1, <2>4, <3>1 DEF OneWatchdog
      <4>2. Idle(y)
        BY <4>1 DEF Loops, Idle
      <4>3. todo[y] = <<>>
        BY <3>1, <4>2 DEF WatchdogInv
      <4>4. QED
        BY <2>3, <2>4, <4>3, Quiet
    <3>2. CASE y \notin Watchdogs
      <4>1. y \in {Boot} \cup Runs
        BY <3>2 DEF Scripts
      <4>2. ~HasBring(todo[y])
        BY <2>1, <2>2, <4>1
      <4>3. QED
        BY <2>3, <2>4, <4>2
    <3>3. QED
      BY <3>1, <3>2
  <2>5. Orderly(todo'[w]) /\ Clear(todo'[w], procs')
    BY <1>2, <2>3, RestartsAre, Quiet
  <2>6. \A y \in Scripts : Orderly(todo'[y]) /\ Clear(todo'[y], procs')
    BY <2>4, <2>5, Quiet
  <2>7. \A y, z \in Scripts : HasBring(todo'[y]) /\ HasBring(todo'[z]) => y = z
    BY <2>4
  <2>8. \A y \in {Boot} \cup Runs : ~HasBring(todo'[y])
    BY <2>4, ScriptsAre
  <2>9. \A s \in Grabbers : procs'[s] <= 1
    BY <2>1, <2>2
  <2>10. QED
    BY <2>6, <2>7, <2>8, <2>9 DEF SingleInv
<1>3. CASE Booted(procs', locked', todo', stage', counter', asked', mixed', lost')
  <2>1. /\ \A s \in Grabbers : procs'[s] = 0
        /\ \A y \in Scripts : todo'[y] = IF y = Boot THEN SystemInit ELSE <<>>
        /\ \A v \in Watchdogs : stage'[v] = "none"
    BY <1>3 DEF Booted, Programs
  <2>2. QED
    BY <2>1, StartIsOrderly, Quiet DEF SingleInv, Clear
<1>4. QED
  BY ChecksAre, <1>1, <1>2, <1>3

LEMMA SingleRequest ==
  ASSUME TypeOK, StopInv, WatchdogInv, SingleInv, NEW r \in Runs,
         NEW action \in {"start", "stop"}, NEW name \in Names, Request(r, action, name)
  PROVE  SingleInv'
<1> SUFFICES ASSUME asked' = "start", ~mixed' PROVE SingleInv'
  BY DEF SingleInv
<1>0. name \in {"rtsp", "mqtt", "all"} /\ r \in Scripts
  BY ServicesAssumption, ScriptsAre
<1>1. PICK mine : mine = IF action = "start" THEN Start(name) ELSE Stop(name)
  OBVIOUS
<1>2. /\ todo[r] = <<>> /\ todo'[r] = mine
      /\ \A y \in Scripts : y # r => todo'[y] = todo[y]
      /\ UNCHANGED <<procs, stage>>
  BY <1>0, <1>1 DEF Request, TypeOK
<1>3. CASE name = "mqtt"
  <2>1. asked = "start" /\ ~mixed
    BY <1>3 DEF Request
  <2>2. ~HasBring(todo'[r])
    <3>1. mine \in Harmless
      BY <1>1, <1>3, StopIs
    <3>2. QED
      BY <1>2, <3>1, RestartsAre
  <2>3. \A y \in Scripts : HasBring(todo'[y]) => HasBring(todo[y])
    BY <1>2, <2>2
  <2>4. \A y \in Scripts : Orderly(todo'[y]) /\ Clear(todo'[y], procs')
    <3> SUFFICES ASSUME NEW y \in Scripts PROVE Orderly(todo'[y]) /\ Clear(todo'[y], procs')
      OBVIOUS
    <3>1. CASE y = r
      BY <2>2, <3>1, Quiet
    <3>2. CASE y # r
      <4>1. Orderly(todo[y]) /\ Clear(todo[y], procs)
        BY <2>1 DEF SingleInv
      <4>2. todo'[y] = todo[y] /\ procs' = procs
        BY <1>2, <3>2
      <4>3. QED
        BY <4>1, <4>2
    <3>3. QED
      BY <3>1, <3>2
  <2>5. /\ \A s \in Grabbers : procs'[s] <= 1
        /\ \A y, z \in Scripts : HasBring(todo'[y]) /\ HasBring(todo'[z]) => y = z
        /\ \A y \in {Boot} \cup Runs :
             HasBring(todo'[y]) => \A w \in Watchdogs : stage'[w] = "none"
    BY <1>2, <2>1, <2>3, ScriptsAre DEF SingleInv
  <2>6. QED
    BY <2>4, <2>5 DEF SingleInv
<1>4. CASE name # "mqtt"
  <2>1. action = "start" /\ asked = "stop" /\ ~mixed /\ ~Busy
    BY <1>4 DEF Request, TypeOK
  <2>2. mine = Start("rtsp") \/ mine = Start("all")
    BY <1>0, <1>1, <1>4, <2>1
  <2>3. /\ \A s \in Grabbers : procs[s] = 0
        /\ \A w \in Watchdogs : stage[w] = "none"
    BY <2>1, StopInvHolds DEF StopHolds
  <2>4. \A y \in Scripts : todo[y] = <<>>
    <3>1. \A w \in Watchdogs : todo[w] = <<>>
      BY <2>3 DEF WatchdogInv, Idle
    <3>2. QED
      BY <2>1, <3>1 DEF Busy, Scripts
  <2>5. Orderly(todo'[r])
    BY <1>2, <2>2, StartIsOrderly
  <2>6. \A y \in Scripts : y # r => ~HasBring(todo'[y])
    BY <1>2, <2>4, Quiet
  <2>7. \A y \in Scripts : Orderly(todo'[y])
    BY <2>5, <2>6, Quiet
  <2>8. \A s \in Grabbers : procs'[s] = 0
    BY <1>2, <2>3
  <2>9. \A y \in Scripts : Clear(todo'[y], procs')
    BY <2>8 DEF Clear
  <2>10. QED
    BY <1>2, <2>3, <2>6, <2>7, <2>8, <2>9 DEF SingleInv
<1>5. QED
  BY <1>3, <1>4

LEMMA SingleFault ==
  ASSUME TypeOK, SingleInv, (\E p \in Programs : Die(p)) \/ Lock
  PROVE  SingleInv'
<1> SUFFICES ASSUME asked' = "start", ~mixed' PROVE SingleInv'
  BY DEF SingleInv
<1>1. UNCHANGED <<todo, stage, asked, mixed>>
  BY DEF Die, Lock, history
<1>2. \A q \in Programs : procs'[q] \in Nat /\ procs'[q] <= procs[q]
  <2>1. CASE Lock
    BY <2>1 DEF Lock, TypeOK
  <2>2. ASSUME NEW p \in Programs, Die(p)
        PROVE  \A q \in Programs : procs'[q] \in Nat /\ procs'[q] <= procs[q]
    BY <2>2 DEF Die, TypeOK
  <2>3. QED
    BY <2>1, <2>2
<1>3. Grabbers \subseteq Programs
  BY DEF Programs
<1>4. \A s \in Grabbers : procs'[s] <= 1 /\ (procs[s] = 0 => procs'[s] = 0)
  <2>1. \A s \in Grabbers : procs[s] \in Nat /\ procs[s] <= 1
    BY <1>1, <1>3 DEF SingleInv, TypeOK
  <2>2. QED
    BY <1>2, <1>3, <2>1
<1>5. \A y \in Scripts : Clear(todo[y], procs')
  BY <1>1, <1>4, ClearLess DEF SingleInv
<1>6. QED
  BY <1>1, <1>4, <1>5 DEF SingleInv

\* start_rtsp, restart_grabber: no stream has two grabbers, which would write to one
\* fifo, wherever the watchdog was when the stop and the start came.
THEOREM OneGrabberOnly == Spec => []OneGrabberEach
<1> DEFINE Inv == WatchdogInv /\ StopInv /\ OneWatchdog /\ SingleInv
<1>1. Init => Inv
  <2> SUFFICES ASSUME Init PROVE Inv
    OBVIOUS
  <2>1. /\ \A s \in Grabbers : procs[s] = 0
        /\ \A y \in Scripts : todo[y] = IF y = Boot THEN SystemInit ELSE <<>>
        /\ \A v \in Watchdogs : stage[v] = "none"
        /\ asked = "start"
    BY DEF Init, Booted, Programs
  <2>2. SingleInv
    BY <2>1, StartIsOrderly, Quiet DEF SingleInv, Clear
  <2>3. OneWatchdog
    BY <2>1 DEF OneWatchdog, Loops
  <2>4. WatchdogInv /\ StopInv
    BY <2>1, ScriptsAre, Singles DEF WatchdogInv, StopInv
  <2>5. QED
    BY <2>2, <2>3, <2>4
<1>2. TypeOK /\ Inv /\ [Next]_vars => Inv'
  <2> SUFFICES ASSUME TypeOK, WatchdogInv, StopInv, OneWatchdog, SingleInv, [Next]_vars
               PROVE  Inv'
    OBVIOUS
  <2>1. WatchdogInv' /\ OneWatchdog'
    BY WatchdogInvStep, OneWatchdogStep
  <2>2. CASE UNCHANGED vars
    <3>1. todo' = todo /\ procs' = procs /\ stage' = stage /\ asked' = asked
          /\ (mixed' <=> mixed)
      BY <2>2 DEF vars, history
    <3>2. StopInv'
      BY <3>1 DEF StopInv, SomeRun, BeforeW, BeforeS, BeforeG, Harmless, KW, KS, KG, KM
    <3>3. SingleInv'
      BY <3>1 DEF SingleInv
    <3>4. QED
      BY <2>1, <3>2, <3>3
  <2>3. ASSUME NEW x \in Scripts, Exec(x) PROVE StopInv' /\ SingleInv'
    BY <2>3, StopExec, SingleExec
  <2>4. ASSUME NEW w \in Watchdogs, WatchdogStep(w) PROVE StopInv' /\ SingleInv'
    BY <2>4, StopWatchdogStep, SingleWatchdogStep
  <2>5. ASSUME NEW r \in Runs, NEW action \in {"start", "stop"}, NEW name \in Names,
               Request(r, action, name)
        PROVE  StopInv' /\ SingleInv'
    BY <2>5, StopRequest, SingleRequest
  <2>6. CASE (\E p \in Programs : Die(p)) \/ Lock
    BY <2>1, <2>6, StopFault, SingleFault
  <2>7. QED
    BY <2>1, <2>2, <2>3, <2>4, <2>5, <2>6 DEF Next
<1>3. Inv => OneGrabberEach
  BY DEF SingleInv, OneGrabberEach
<1>4. QED
  BY <1>1, <1>2, <1>3, TypeCorrect, PTL DEF Spec
--------------------------------------------------------------------------------
(* RtspServer, which these scripts start: its types. *)

\* What is left of a sequence behind n elements.
LEMMA Left ==
  ASSUME NEW C, NEW s \in Seq(C), NEW n \in Nat
  PROVE  /\ SubSeq(s, n + 1, Len(s)) \in Seq(C)
         /\ Len(SubSeq(s, n + 1, Len(s))) = IF n <= Len(s) THEN Len(s) - n ELSE 0
         /\ \A k \in 1..Len(s) - n : SubSeq(s, n + 1, Len(s))[k] = s[n + k]
<1>1. Len(s) \in Nat /\ \A j \in n + 1..Len(s) : s[j] \in C
  OBVIOUS
<1>2. /\ SubSeq(s, n + 1, Len(s)) \in Seq(C)
      /\ Len(SubSeq(s, n + 1, Len(s))) = IF n + 1 <= Len(s) THEN Len(s) - (n + 1) + 1 ELSE 0
      /\ \A j \in 1..Len(s) - (n + 1) + 1 : SubSeq(s, n + 1, Len(s))[j] = s[n + 1 + j - 1]
  BY <1>1, SubSeqProperties
<1>3. ASSUME NEW k \in 1..Len(s) - n PROVE SubSeq(s, n + 1, Len(s))[k] = s[n + k]
  <2>1. k \in 1..Len(s) - (n + 1) + 1 /\ n + 1 + k - 1 = n + k
    BY <1>1
  <2>2. QED
    BY <1>2, <2>1
<1>4. QED
  BY <1>1, <1>2, <1>3

\* A piece from the front.
LEMMA Piece ==
  ASSUME NEW C, NEW s \in Seq(C), NEW m \in Nat, NEW n \in Nat, n <= Len(s)
  PROVE  /\ SubSeq(s, m + 1, n) \in Seq(C)
         /\ Len(SubSeq(s, m + 1, n)) = IF m <= n THEN n - m ELSE 0
         /\ \A k \in 1..n - m : SubSeq(s, m + 1, n)[k] = s[m + k]
<1>1. Len(s) \in Nat /\ \A j \in m + 1..n : s[j] \in C
  OBVIOUS
<1>2. /\ SubSeq(s, m + 1, n) \in Seq(C)
      /\ Len(SubSeq(s, m + 1, n)) = IF m + 1 <= n THEN n - (m + 1) + 1 ELSE 0
      /\ \A j \in 1..n - (m + 1) + 1 : SubSeq(s, m + 1, n)[j] = s[m + 1 + j - 1]
  BY <1>1, SubSeqProperties
<1>3. ASSUME NEW k \in 1..n - m PROVE SubSeq(s, m + 1, n)[k] = s[m + k]
  <2>1. k \in 1..n - (m + 1) + 1 /\ m + 1 + k - 1 = m + k
    BY <1>1
  <2>2. QED
    BY <1>2, <2>1
<1>4. QED
  BY <1>1, <1>2, <1>3

PipeOK == pipe \in [Fifos -> Seq(Unit)] /\ \A f \in Fifos : Len(pipe[f]) <= Capacity

LEMMA BehindType ==
  ASSUME PipeOK, NEW f \in Fifos, NEW n \in Nat, pipe' = Behind(f, n)
  PROVE  PipeOK'
<1>1. ASSUME NEW C, NEW q \in [Fifos -> Seq(C)], \A g \in Fifos : Len(q[g]) <= Capacity,
             NEW r, r = [q EXCEPT ![f] = SubSeq(@, n + 1, Len(@))]
      PROVE  r \in [Fifos -> Seq(C)] /\ \A g \in Fifos : Len(r[g]) <= Capacity
  <2>1. q[f] \in Seq(C) /\ Len(q[f]) \in Nat /\ Capacity \in Nat
    BY RtspAssumption
  <2>2. SubSeq(q[f], n + 1, Len(q[f])) \in Seq(C)
        /\ Len(SubSeq(q[f], n + 1, Len(q[f]))) <= Len(q[f])
    BY <2>1, Left
  <2>3. r \in [Fifos -> Seq(C)]
    BY <1>1, <2>2
  <2>4. ASSUME NEW g \in Fifos PROVE Len(r[g]) <= Capacity
    <3>1. CASE g = f
      BY <1>1, <2>1, <2>2, <2>3, <3>1
    <3>2. CASE g # f
      BY <1>1, <3>2
    <3>3. QED
      BY <3>1, <3>2
  <2>5. QED
    BY <2>3, <2>4
<1>2. pipe' = [pipe EXCEPT ![f] = SubSeq(@, n + 1, Len(@))]
  BY DEF Behind
<1>3. QED
  BY <1>1, <1>2 DEF PipeOK

LEMMA EmptyType ==
  ASSUME PipeOK, NEW f \in Fifos, pipe' = [pipe EXCEPT ![f] = <<>>]
  PROVE  PipeOK'
  BY RtspAssumption DEF PipeOK

LEMMA AppendPipe ==
  ASSUME PipeOK, NEW f \in Fifos, NEW u \in Unit, Len(pipe[f]) < Capacity,
         pipe' = [pipe EXCEPT ![f] = Append(@, u)]
  PROVE  PipeOK'
<1>1. ASSUME NEW C, NEW q \in [Fifos -> Seq(C)], \A g \in Fifos : Len(q[g]) <= Capacity,
             NEW e \in C, Len(q[f]) < Capacity, NEW r, r = [q EXCEPT ![f] = Append(@, e)]
      PROVE  r \in [Fifos -> Seq(C)] /\ \A g \in Fifos : Len(r[g]) <= Capacity
  <2>1. q[f] \in Seq(C) /\ Len(q[f]) \in Nat /\ Capacity \in Nat
    BY RtspAssumption
  <2>2. Append(q[f], e) \in Seq(C) /\ Len(Append(q[f], e)) <= Capacity
    BY <1>1, <2>1
  <2>3. QED
    BY <1>1, <2>2
<1>2. QED
  BY <1>1 DEF PipeOK

PlainOK ==
  /\ pc \in {"options", "main", "openAudio", "search", "header", "skip", "loop", "resync",
             "openDescribe", "openPlay", "held", "dead"}
  /\ grab \in SUBSET Fifos /\ exists \in SUBSET Fifos /\ active \in SUBSET Fifos
  /\ written \in [Fifos -> Nat]
  /\ starts \in 0..MaxStarts /\ asks \in 0..MaxClients
  /\ source \in [Fifos -> {"none", "opening", "open", "stale", "null"}]
  /\ awaiting \in SUBSET Fifos /\ started \in SUBSET Fifos /\ handler \in SUBSET Fifos
  /\ skip \in 0..DataUnits
  /\ sdp \in {"unknown", "asking", "known", "empty"}
  /\ aux \in BOOLEAN /\ cut \in BOOLEAN

\* The next unit, and the units of a piece, are units.
LEMMA NextUnit ==
  ASSUME PlainOK, NEW f \in Fifos
  PROVE  [part |-> NextPart(f), frame |-> written[f] \div 4] \in Unit
<1>1. PICK w \in Nat : w = written[f]
  BY DEF PlainOK
<1>2. w \div 4 \in Nat /\ (w % 4) + 1 \in 1..4
  BY SMT
<1>3. NextPart(f) \in Parts
  BY <1>1, <1>2 DEF NextPart, Parts
<1>4. QED
  BY <1>1, <1>2, <1>3 DEF Unit

LEMMA Delivered ==
  ASSUME PipeOK, got \in Seq(Unit), NEW n \in Nat, NEW len \in 0..DataUnits, Deliver(n, len)
  PROVE  PipeOK' /\ got' \in Seq(Unit)
<1> DEFINE m == Min2(n + len, Len(pipe["audio"]))
<1>1. pipe["audio"] \in Seq(Unit) /\ Len(pipe["audio"]) \in Nat /\ "audio" \in Fifos
  BY DEF PipeOK, Fifos
<1>2. n + len \in Nat
  BY DEF DataUnits
<1>3. m \in Nat /\ m <= Len(pipe["audio"])
  BY <1>1, <1>2 DEF Min2
<1> HIDE DEF m
<1>4. DataFrom(n, len) \in Seq(Unit) /\ Len(DataFrom(n, len)) \in Nat
  <2>1. SubSeq(pipe["audio"], n + 1, m) \in Seq(Unit)
    BY <1>1, <1>3, Piece
  <2>2. DataFrom(n, len) \in Seq(Unit)
    BY <2>1 DEF DataFrom, m
  <2>3. QED
    BY <2>2
<1>5. n + Len(DataFrom(n, len)) \in Nat
  BY <1>4
<1>6. PipeOK'
  BY <1>1, <1>5, BehindType DEF Deliver
<1>7. got' \in Seq(Unit)
  <2>1. got' \in {<<>>, got, DataFrom(n, len)}
    BY DEF Deliver
  <2>2. <<>> \in Seq(Unit)
    OBVIOUS
  <2>3. QED
    BY <1>4, <2>1, <2>2
<1>8. QED
  BY <1>6, <1>7

\* Every step of the server keeps the types.
LEMMA ServerTypes ==
  ASSUME RtspTypeOK, ServerStep
  PROVE  RtspTypeOK'
<1> USE DEF Fifos, DataUnits
<1>0. PlainOK /\ PipeOK /\ head \in Unit /\ got \in Seq(Unit)
  BY DEF RtspTypeOK, PlainOK, PipeOK
<1>1. ASSUME PlainOK', PipeOK', head' \in Unit, got' \in Seq(Unit) PROVE RtspTypeOK'
  BY <1>1 DEF RtspTypeOK, PlainOK, PipeOK
<1>2. ASSUME UNCHANGED pipe PROVE PipeOK'
  BY <1>0, <1>2 DEF PipeOK
<1>3. None \in Unit
  BY DEF None, Unit, Parts
<1>4. CASE Options
  <2>1. PlainOK'
    BY <1>0, <1>4 DEF Options, PlainOK, grabVars, sourceVars, audioVars, sdpVars
  <2>2. UNCHANGED <<pipe, head, got>>
    BY <1>4 DEF Options, sourceVars, audioVars
  <2>3. QED
    BY <1>0, <1>1, <1>2, <2>1, <2>2
<1>5. CASE Main
  <2>1. PlainOK'
    BY <1>0, <1>5 DEF Main, PlainOK, grabVars, audioVars, sdpVars
  <2>2. UNCHANGED <<pipe, head, got>>
    BY <1>5 DEF Main, audioVars
  <2>3. QED
    BY <1>0, <1>1, <1>2, <2>1, <2>2
<1>6. CASE OpenAudio
  <2>1. PlainOK'
    BY <1>0, <1>6 DEF OpenAudio, Open, PlainOK, grabVars, audioVars, sdpVars
  <2>2. UNCHANGED <<head, got>> /\ PipeOK'
    BY <1>0, <1>6, EmptyType DEF OpenAudio, Open, audioVars
  <2>3. QED
    BY <1>0, <1>1, <2>1, <2>2
<1>7. CASE Search
  <2>1. PlainOK'
    BY <1>0, <1>7 DEF Search, PlainOK, grabVars, sdpVars
  <2>2. PipeOK' /\ UNCHANGED got
    BY <1>0, <1>7, BehindType DEF Search
  <2>3. head' \in Unit
    <3>1. pipe["audio"] \in Seq(Unit) /\ pipe["audio"] # <<>> /\ head' = Head(pipe["audio"])
      BY <1>0, <1>7 DEF PipeOK, Search
    <3>2. QED
      BY <3>1, HeadTailProperties
  <2>4. QED
    BY <1>0, <1>1, <2>1, <2>2, <2>3
<1>8. CASE ReadHeader
  <2>1. PlainOK'
    <3>1. skip' \in 0..DataUnits
      BY <1>0, <1>8 DEF ReadHeader, PlainOK
    <3>2. source' \in [Fifos -> {"none", "opening", "open", "stale", "null"}]
      BY <1>0, <1>8 DEF ReadHeader, PlainOK
    <3>3. pc' \in {"skip", "loop"} /\ cut' \in BOOLEAN
      BY <1>8 DEF ReadHeader
    <3>4. QED
      BY <1>0, <1>8, <3>1, <3>2, <3>3 DEF ReadHeader, PlainOK, grabVars, sdpVars
  <2>2. PipeOK' /\ UNCHANGED got /\ head' = None
    BY <1>0, <1>8, BehindType DEF ReadHeader
  <2>3. QED
    BY <1>0, <1>1, <1>3, <2>1, <2>2
<1>9. CASE SkipFrame
  <2>0. Len(pipe["audio"]) \in Nat
    BY <1>0 DEF PipeOK
  <2>1. PlainOK'
    <3>1. skip' \in 0..DataUnits
      BY <1>0, <1>9, <2>0 DEF SkipFrame, PlainOK
    <3>2. pc' \in {"skip", "loop"} /\ cut' \in BOOLEAN
      BY <1>0, <1>9 DEF SkipFrame, PlainOK
    <3>3. QED
      BY <1>0, <1>9, <3>1, <3>2 DEF SkipFrame, PlainOK, grabVars, sdpVars
  <2>2. PipeOK' /\ UNCHANGED <<got, head>>
    BY <1>0, <1>2, <1>9, <2>0, BehindType DEF SkipFrame
  <2>3. QED
    BY <1>0, <1>1, <2>1, <2>2
<1>10. CASE OpenVideo
  <2>1. PlainOK'
    BY <1>0, <1>10 DEF OpenVideo, Open, PlainOK, grabVars, audioVars
  <2>2. UNCHANGED <<head, got>> /\ PipeOK'
    BY <1>0, <1>10, EmptyType DEF OpenVideo, Open, audioVars
  <2>3. QED
    BY <1>0, <1>1, <2>1, <2>2
<1>11. CASE ReadVideo
  <2>1. PlainOK'
    <3>1. aux' \in BOOLEAN
      BY <1>11 DEF ReadVideo
    <3>2. QED
      BY <1>0, <1>11, <3>1 DEF ReadVideo, PlainOK, grabVars, audioVars
  <2>2. UNCHANGED <<head, got>> /\ PipeOK'
    <3>1. PICK n \in 1..Len(pipe["video"]) : pipe' = Behind("video", n)
      BY <1>11 DEF ReadVideo
    <3>2. n \in Nat
      BY <1>0 DEF PipeOK
    <3>3. QED
      BY <1>0, <1>11, <3>1, <3>2, BehindType DEF ReadVideo, audioVars
  <2>3. QED
    BY <1>0, <1>1, <2>1, <2>2
<1>12. CASE VideoEnds
  <2>1. PlainOK'
    BY <1>0, <1>12 DEF VideoEnds, Close, Closed, PlainOK, grabVars, audioVars
  <2>2. UNCHANGED <<head, got>> /\ PipeOK'
    BY <1>0, <1>12, EmptyType DEF VideoEnds, Close, audioVars
  <2>3. QED
    BY <1>0, <1>1, <2>1, <2>2
<1>13. CASE ShortHeader
  <2>1. PlainOK'
    <3>1. cut' \in BOOLEAN
      BY <1>13 DEF ShortHeader
    <3>2. QED
      BY <1>0, <1>13, <3>1 DEF ShortHeader, PlainOK, grabVars, sdpVars
  <2>2. UNCHANGED <<head, got>> /\ PipeOK'
    BY <1>0, <1>13, BehindType DEF ShortHeader, HeaderUnits
  <2>3. QED
    BY <1>0, <1>1, <2>1, <2>2
<1>14. CASE ReadFrame
  <2>1. PICK len \in 0..DataUnits : Deliver(HeaderUnits, len)
    BY <1>14 DEF ReadFrame, Lengths
  <2>2. PlainOK'
    <3>1. cut' \in BOOLEAN
      BY <2>1 DEF Deliver
    <3>2. awaiting' \in SUBSET Fifos
      BY <1>0, <2>1 DEF Deliver, PlainOK
    <3>3. QED
      BY <1>0, <1>14, <3>1, <3>2 DEF ReadFrame, PlainOK, grabVars, sdpVars
  <2>3. PipeOK' /\ got' \in Seq(Unit)
    BY <1>0, <2>1, Delivered DEF HeaderUnits
  <2>4. QED
    BY <1>0, <1>1, <1>14, <2>2, <2>3 DEF ReadFrame
<1>15. CASE BadSyncword
  <2>1. PlainOK'
    BY <1>0, <1>15 DEF BadSyncword, PlainOK, grabVars, audioVars, sdpVars
  <2>2. UNCHANGED <<head, got>> /\ PipeOK'
    BY <1>0, <1>15, BehindType DEF BadSyncword, HeaderUnits, audioVars
  <2>3. QED
    BY <1>0, <1>1, <2>1, <2>2
<1>16. CASE Resync
  <2>1. CASE Head(pipe["audio"]).part \in LooksLikeSync
    <3>1. PICK len \in 0..DataUnits : Deliver(HeaderUnits, len)
      BY <1>16, <2>1 DEF Resync
    <3>2. PlainOK'
      <4>1. cut' \in BOOLEAN
        BY <3>1 DEF Deliver
      <4>2. awaiting' \in SUBSET Fifos
        BY <1>0, <3>1 DEF Deliver, PlainOK
      <4>3. QED
        BY <1>0, <1>16, <2>1, <4>1, <4>2 DEF Resync, PlainOK, grabVars, sdpVars
    <3>3. PipeOK' /\ got' \in Seq(Unit)
      BY <1>0, <3>1, Delivered DEF HeaderUnits
    <3>4. QED
      BY <1>0, <1>1, <1>16, <3>2, <3>3 DEF Resync
  <2>2. CASE Head(pipe["audio"]).part \notin LooksLikeSync
    <3>1. PlainOK'
      BY <1>0, <1>16, <2>2 DEF Resync, PlainOK, grabVars, sdpVars
    <3>2. UNCHANGED <<head, got>> /\ PipeOK'
      BY <1>0, <1>16, <2>2, BehindType DEF Resync
    <3>3. QED
      BY <1>0, <1>1, <3>1, <3>2
  <2>3. QED
    BY <2>1, <2>2
<1>17. CASE CheckAux
  <2>1. PlainOK'
    BY <1>0, <1>17 DEF CheckAux, Close, PlainOK, grabVars, audioVars
  <2>2. UNCHANGED <<head, got>> /\ PipeOK'
    BY <1>0, <1>17, EmptyType DEF CheckAux, Close, audioVars
  <2>3. QED
    BY <1>0, <1>1, <2>1, <2>2
<1>18. ASSUME NEW f \in Fifos, GetNextFrame(f) PROVE RtspTypeOK'
  <2>1. PlainOK'
    BY <1>0, <1>18 DEF GetNextFrame, PlainOK, grabVars, audioVars, sdpVars
  <2>2. UNCHANGED <<pipe, head, got>>
    BY <1>18 DEF GetNextFrame, audioVars
  <2>3. QED
    BY <1>0, <1>1, <1>2, <2>1, <2>2
<1>19. ASSUME NEW f \in Fifos, NotReady(f) PROVE RtspTypeOK'
  <2>1. PlainOK'
    BY <1>0, <1>19 DEF NotReady, StopReading, PlainOK, grabVars, audioVars, sdpVars
  <2>2. UNCHANGED <<pipe, head, got>>
    BY <1>19 DEF NotReady, audioVars
  <2>3. QED
    BY <1>0, <1>1, <1>2, <2>1, <2>2
<1>20. CASE OpenAudioFails
  <2>1. PlainOK'
    BY <1>0, <1>20 DEF OpenAudioFails, PlainOK, grabVars, audioVars, sdpVars
  <2>2. UNCHANGED <<pipe, head, got>>
    BY <1>20 DEF OpenAudioFails, audioVars
  <2>3. QED
    BY <1>0, <1>1, <1>2, <2>1, <2>2
<1>21. CASE OpenVideoFails
  <2>1. PlainOK'
    BY <1>0, <1>21 DEF OpenVideoFails, PlainOK, grabVars, audioVars, sdpVars
  <2>2. UNCHANGED <<pipe, head, got>>
    BY <1>21 DEF OpenVideoFails, audioVars
  <2>3. QED
    BY <1>0, <1>1, <1>2, <2>1, <2>2
<1>22. QED
  BY <1>4, <1>5, <1>6, <1>7, <1>8, <1>9, <1>10, <1>11, <1>12, <1>13, <1>14, <1>15, <1>16,
     <1>17, <1>18, <1>19, <1>20, <1>21 DEF ServerStep

LEMMA EnvironmentTypes ==
  ASSUME RtspTypeOK, Environment
  PROVE  RtspTypeOK'
<1> USE DEF Fifos
<1>0. PlainOK /\ PipeOK /\ head \in Unit /\ got \in Seq(Unit)
  BY DEF RtspTypeOK, PlainOK, PipeOK
<1>1. ASSUME PlainOK', PipeOK', UNCHANGED <<head, got>> PROVE RtspTypeOK'
  BY <1>0, <1>1 DEF RtspTypeOK, PlainOK, PipeOK
<1>2. ASSUME UNCHANGED pipe PROVE PipeOK'
  BY <1>0, <1>2 DEF PipeOK
<1>3. CASE Describe
  <2>1. PlainOK'
    BY <1>0, <1>3, RtspAssumption DEF Describe, PlainOK, grabVars, audioVars, sdpVars
  <2>2. UNCHANGED <<pipe, head, got>>
    BY <1>3 DEF Describe, audioVars
  <2>3. QED
    BY <1>1, <1>2, <2>1, <2>2
<1>4. CASE Play
  <2>1. PlainOK'
    BY <1>0, <1>4, RtspAssumption DEF Play, PlainOK, grabVars, audioVars, sdpVars
  <2>2. UNCHANGED <<pipe, head, got>>
    BY <1>4 DEF Play, audioVars
  <2>3. QED
    BY <1>1, <1>2, <2>1, <2>2
<1>5. CASE Listen
  <2>1. PlainOK'
    <3>1. asks' \in 0..MaxClients
      BY <1>0, <1>5, RtspAssumption DEF Listen, PlainOK
    <3>2. pc' \in {"loop", "dead"} /\ active' \in SUBSET Fifos
      BY <1>0, <1>5 DEF Listen, PlainOK
    <3>3. UNCHANGED <<grabVars, sourceVars, cut, skip, sdpVars>>
      BY <1>5 DEF Listen, audioVars
    <3>4. QED
      BY <1>0, <3>1, <3>2, <3>3 DEF PlainOK, grabVars, sourceVars, sdpVars
  <2>2. UNCHANGED <<pipe, head, got>>
    BY <1>5 DEF Listen, sourceVars, audioVars
  <2>3. QED
    BY <1>1, <1>2, <2>1, <2>2
<1>6. ASSUME NEW f \in Fifos, StartGrabber(f) PROVE RtspTypeOK'
  <2>1. PlainOK'
    <3>1. source' \in [Fifos -> {"none", "opening", "open", "stale", "null"}]
      BY <1>0, <1>6 DEF StartGrabber, PlainOK
    <3>2. starts' \in 0..MaxStarts /\ grab' \in SUBSET Fifos /\ exists' \in SUBSET Fifos
      BY <1>0, <1>6, RtspAssumption DEF StartGrabber, PlainOK
    <3>3. QED
      BY <1>0, <1>6, <3>1, <3>2 DEF StartGrabber, PlainOK, audioVars, sdpVars
  <2>2. UNCHANGED <<pipe, head, got>>
    BY <1>6 DEF StartGrabber, audioVars
  <2>3. QED
    BY <1>1, <1>2, <2>1, <2>2
<1>7. ASSUME NEW f \in Fifos, Write(f) PROVE RtspTypeOK'
  <2>1. PlainOK'
    BY <1>0, <1>7, SMTT(20) DEF Write, PlainOK, audioVars, sdpVars
  <2>2. PipeOK'
    <3>1. CASE source[f] = "open"
      BY <1>0, <1>7, <3>1, NextUnit, AppendPipe DEF Write
    <3>2. CASE source[f] # "open"
      BY <1>2, <1>7, <3>2 DEF Write
    <3>3. QED
      BY <3>1, <3>2
  <2>3. UNCHANGED <<head, got>>
    BY <1>7 DEF Write, audioVars
  <2>4. QED
    BY <1>1, <2>1, <2>2, <2>3
<1>8. ASSUME NEW f \in Fifos, GrabberDies(f) PROVE RtspTypeOK'
  <2>1. PlainOK'
    <3>1. written' \in [Fifos -> Nat]
      <4>1. \A w \in Nat : ((w + 3) \div 4) * 4 \in Nat
        BY SMT
      <4>2. QED
        BY <1>0, <1>8, <4>1 DEF GrabberDies, PlainOK
    <3>2. QED
      BY <1>0, <1>8, <3>1 DEF GrabberDies, PlainOK, sourceVars, audioVars, sdpVars
  <2>2. UNCHANGED <<pipe, head, got>>
    BY <1>8 DEF GrabberDies, sourceVars, audioVars
  <2>3. QED
    BY <1>1, <1>2, <2>1, <2>2
<1>9. ASSUME NEW f \in Fifos, Leave(f) PROVE RtspTypeOK'
  <2>1. PlainOK'
    <3>1. CASE f = "video"
      BY <1>0, <1>9, <3>1 DEF Leave, Close, PlainOK, grabVars, audioVars, sdpVars
    <3>2. CASE f # "video"
      BY <1>0, <1>9, <3>2 DEF Leave, StopReading, PlainOK, grabVars, audioVars, sdpVars
    <3>3. QED
      BY <3>1, <3>2
  <2>2. PipeOK' /\ UNCHANGED <<head, got>>
    BY <1>0, <1>2, <1>9, EmptyType DEF Leave, Close, audioVars
  <2>3. QED
    BY <1>1, <2>1, <2>2
<1>10. CASE DescribeAgain
  <2>1. PlainOK'
    BY <1>0, <1>10, RtspAssumption DEF DescribeAgain, PlainOK, grabVars, audioVars, sdpVars
  <2>2. UNCHANGED <<head, got>> /\ PipeOK'
    BY <1>0, <1>2, <1>10, EmptyType DEF DescribeAgain, audioVars
  <2>3. QED
    BY <1>1, <2>1, <2>2
<1>11. QED
  BY <1>3, <1>4, <1>5, <1>6, <1>7, <1>8, <1>9, <1>10 DEF Environment

\* The variables of the server have their types, for every size of a fifo.
THEOREM ServerTypeCorrect == RtspSpec => []RtspTypeOK
<1>1. RtspInit => RtspTypeOK
  <2>1. None \in Unit
    BY DEF None, Unit, Parts
  <2>2. ASSUME RtspInit PROVE RtspTypeOK
    <3>1. PlainOK
      <4>1. /\ written \in [Fifos -> Nat]
            /\ source \in [Fifos -> {"none", "opening", "open", "stale", "null"}]
        BY <2>2 DEF RtspInit
      <4>2. starts \in 0..MaxStarts /\ asks \in 0..MaxClients
        BY <2>2, RtspAssumption DEF RtspInit
      <4>3. /\ grab \in SUBSET Fifos /\ exists \in SUBSET Fifos /\ active \in SUBSET Fifos
            /\ awaiting \in SUBSET Fifos /\ started \in SUBSET Fifos /\ handler \in SUBSET Fifos
        BY <2>2 DEF RtspInit
      <4>4. aux \in BOOLEAN /\ cut \in BOOLEAN
        BY <2>2 DEF RtspInit
      <4>5. skip \in 0..DataUnits
        BY <2>2 DEF RtspInit, DataUnits
      <4>6. pc = "options" /\ sdp = "unknown"
        BY <2>2 DEF RtspInit
      <4>7. QED
        BY <4>1, <4>2, <4>3, <4>4, <4>5, <4>6 DEF PlainOK
    <3>2. PipeOK
      BY <2>2, RtspAssumption DEF RtspInit, PipeOK, Fifos
    <3>3. head \in Unit /\ got \in Seq(Unit)
      BY <2>1, <2>2 DEF RtspInit
    <3>4. QED
      BY <3>1, <3>2, <3>3 DEF RtspTypeOK, PlainOK, PipeOK
  <2>3. QED
    BY <2>2
<1>2. RtspTypeOK /\ [RtspNext]_rtspVars => RtspTypeOK'
  <2>1. ASSUME RtspTypeOK, UNCHANGED rtspVars PROVE RtspTypeOK'
    BY <2>1 DEF RtspTypeOK, rtspVars, grabVars, sourceVars, audioVars, sdpVars
  <2>2. QED
    BY <2>1, ServerTypes, EnvironmentTypes DEF RtspNext
<1>3. QED
  BY <1>1, <1>2, PTL DEF RtspSpec

--------------------------------------------------------------------------------
(* Audio frames stay in step. *)

\* The u-th unit a grabber writes.
AudioUnit(u) == [part |-> (u % 4) + 1, frame |-> u \div 4]

\* The fifo holds the units from the p-th on, up to the one that is written next.
Stream(p) ==
  /\ \A k \in 1..Len(pipe["audio"]) : pipe["audio"][k] = AudioUnit(p + k - 1)
  /\ source["audio"] = "open" /\ "audio" \in grab => written["audio"] = p + Len(pipe["audio"])

\* It is empty, and nothing will come any more.
Dry ==
  /\ pipe["audio"] = <<>> /\ source["audio"] # "opening"
  /\ source["audio"] = "open" => "audio" \notin grab

\* What the server knows when the p-th unit is the next: what passed for a syncword is
\* the unit before; so many units are to skip to the end of a frame; or a frame begins,
\* the one behind the frame that was delivered last.
Place(p) ==
  /\ pc = "header" => p > 0 /\ head = AudioUnit(p - 1)
  /\ pc = "skip" => (p + skip) % 4 = 0
  /\ pc \in {"loop", "openDescribe", "openPlay", "dead"} =>
       p % 4 = 0 /\ (got # <<>> => p = 4 * (got[1].frame + 1))

Unopened == {"options", "main", "openAudio"}
StepInv ==
  /\ pc \in {"options", "main"} => source["audio"] = "none"
  /\ pc = "openAudio" => source["audio"] \in {"opening", "stale"}
  /\ source["audio"] = "opening" => pc = "openAudio"
  /\ source["audio"] \in {"none", "opening"} => pipe["audio"] = <<>>
  /\ pc \in Unopened \cup {"search", "header", "skip"} => got = <<>>
  /\ ~cut => /\ pc # "resync"
             /\ pc \in Unopened \/ Dry \/ \E p \in Nat : Stream(p) /\ Place(p)

LEMMA Quarters ==
  ASSUME NEW u \in Nat
  PROVE  u % 4 \in 0..3 /\ u \div 4 \in Nat /\ u = 4 * (u \div 4) + (u % 4)
  BY SMT

\* The units of the frame that begins at the p-th.
LEMMA FrameUnits ==
  ASSUME NEW p \in Nat, p % 4 = 0
  PROVE  /\ AudioUnit(p).part = 1
         /\ AudioUnit(p + 2).part = 3 /\ AudioUnit(p + 2).frame = p \div 4
         /\ AudioUnit(p + 3).part = 4 /\ AudioUnit(p + 3).frame = p \div 4
         /\ (p + 4) % 4 = 0 /\ p + 4 = 4 * ((p \div 4) + 1) /\ p = 4 * (p \div 4)
<1>1. /\ (p + 2) % 4 = 2 /\ (p + 2) \div 4 = p \div 4
      /\ (p + 3) % 4 = 3 /\ (p + 3) \div 4 = p \div 4
      /\ (p + 4) % 4 = 0
  BY SMT
<1>2. p = 4 * (p \div 4) /\ p \div 4 \in Nat
  BY Quarters
<1>3. p + 4 = 4 * ((p \div 4) + 1)
  BY <1>2
<1>4. QED
  BY <1>1, <1>2, <1>3 DEF AudioUnit

\* A step that leaves the audio fifo, and where the server is in it, alone.
LEMMA StepKept ==
  ASSUME StepInv, pipe'["audio"] = pipe["audio"], UNCHANGED <<got, head, skip, cut>>,
         \/ pc' = pc
         \/ /\ pc \in {"loop", "openDescribe", "openPlay"}
            /\ pc' \in {"loop", "openDescribe", "openPlay", "held", "dead"},
         \/ source'["audio"] = source["audio"]
         \/ source["audio"] \in {"opening", "open"} /\ source'["audio"] = "stale",
         source'["audio"] = "open" /\ "audio" \in grab'
           => "audio" \in grab /\ written'["audio"] = written["audio"]
  PROVE  StepInv'
<1>1. Dry => Dry'
  BY DEF Dry
<1>2. ASSUME NEW p \in Nat, Stream(p), Place(p) PROVE Stream(p)' /\ Place(p)'
  BY <1>2 DEF Stream, Place
<1>3. /\ pc' \in {"options", "main"} => source'["audio"] = "none"
      /\ pc' = "openAudio" => source'["audio"] \in {"opening", "stale"}
      /\ source'["audio"] = "opening" => pc' = "openAudio"
      /\ source'["audio"] \in {"none", "opening"} => pipe'["audio"] = <<>>
      /\ pc' \in Unopened \cup {"search", "header", "skip"} => got' = <<>>
  BY DEF StepInv, Unopened
<1>4. ASSUME ~cut'
      PROVE  /\ pc' # "resync"
             /\ pc' \in Unopened \/ Dry' \/ \E p \in Nat : Stream(p)' /\ Place(p)'
  <2>1. pc # "resync" /\ (pc \in Unopened \/ Dry \/ \E p \in Nat : Stream(p) /\ Place(p))
    BY <1>4 DEF StepInv
  <2>2. pc' # "resync" /\ (pc \in Unopened => pc' \in Unopened)
    BY <2>1 DEF Unopened
  <2>3. QED
    BY <1>1, <1>2, <2>1, <2>2
<1>5. QED
  BY <1>3, <1>4 DEF StepInv

\* n units are read.
LEMMA StreamLeft ==
  ASSUME PipeOK, NEW p \in Nat, Stream(p), NEW n \in Nat, n <= Len(pipe["audio"]),
         pipe' = Behind("audio", n), UNCHANGED <<written, grab, source>>
  PROVE  Stream(p + n)'
<1>1. pipe["audio"] \in Seq(Unit) /\ Len(pipe["audio"]) \in Nat
  BY DEF PipeOK, Fifos
<1>2. pipe'["audio"] = SubSeq(pipe["audio"], n + 1, Len(pipe["audio"]))
  BY DEF Behind, PipeOK, Fifos
<1>3. /\ Len(pipe'["audio"]) = Len(pipe["audio"]) - n
      /\ \A k \in 1..Len(pipe["audio"]) - n : pipe'["audio"][k] = pipe["audio"][n + k]
  BY <1>1, <1>2, Left, ZenonT(40)
<1>4. ASSUME NEW k \in 1..Len(pipe'["audio"])
      PROVE  pipe'["audio"][k] = AudioUnit(p + n + k - 1)
  <2>1. n + k \in 1..Len(pipe["audio"]) /\ p + (n + k) - 1 = p + n + k - 1
    BY <1>1, <1>3
  <2>2. pipe["audio"][n + k] = AudioUnit(p + (n + k) - 1)
    BY <2>1 DEF Stream
  <2>3. QED
    BY <1>3, <2>1, <2>2
<1>5. source["audio"] = "open" /\ "audio" \in grab =>
        written["audio"] = p + n + Len(pipe'["audio"])
  <2>1. p + n + Len(pipe'["audio"]) = p + Len(pipe["audio"])
    <3>1. PICK l \in Nat : l = Len(pipe["audio"])
      BY <1>1
    <3>2. PICK m : m = Len(pipe'["audio"])
      OBVIOUS
    <3>3. m = l - n
      BY <1>3, <3>1, <3>2
    <3>4. p + n + m = p + l
      BY <3>3
    <3>5. QED
      BY <3>1, <3>2, <3>4
  <2>2. QED
    BY <2>1 DEF Stream
<1>6. QED
  BY <1>4, <1>5 DEF Stream

LEMMA EmptyLeft ==
  ASSUME PipeOK, pipe["audio"] = <<>>, NEW n \in Nat, pipe' = Behind("audio", n)
  PROVE  pipe'["audio"] = <<>>
<1>1. pipe'["audio"] = SubSeq(<<>>, n + 1, 0)
  BY DEF Behind, PipeOK, Fifos
<1>2. QED
  BY <1>1, SubSeqEmpty

\* The next unit.
LEMMA FirstUnit ==
  ASSUME PipeOK, NEW p \in Nat, Stream(p), pipe["audio"] # <<>>
  PROVE  Head(pipe["audio"]) = AudioUnit(p) /\ Len(pipe["audio"]) \in Nat \ {0}
<1>1. pipe["audio"] \in Seq(Unit)
  BY DEF PipeOK, Fifos
<1>2. Head(pipe["audio"]) = pipe["audio"][1] /\ Len(pipe["audio"]) \in Nat \ {0}
  BY <1>1
<1>3. 1 \in 1..Len(pipe["audio"]) /\ p + 1 - 1 = p
  BY <1>2
<1>4. QED
  BY <1>2, <1>3 DEF Stream

\* A frame that is read without a cut is the one behind the frame before.
LEMMA FrameRead ==
  ASSUME RtspTypeOK, StepInv, ReadFrame, ~cut'
  PROVE  \E p \in Nat : /\ p % 4 = 0 /\ (got # <<>> => p = 4 * (got[1].frame + 1))
                        /\ Stream(p + 4)'
                        /\ Len(got') = 2 /\ got'[1] = AudioUnit(p + 2)
                        /\ got'[2] = AudioUnit(p + 3)
<1>0. PipeOK
  BY DEF RtspTypeOK, PipeOK
<1>1. PICK len \in Lengths(Head(pipe["audio"])) : Deliver(HeaderUnits, len)
  BY DEF ReadFrame
<1>2. pc = "loop" /\ ~cut /\ Len(pipe["audio"]) >= 2 /\ Len(pipe["audio"]) \in Nat
  <2>1. pc = "loop" /\ Len(pipe["audio"]) >= 2
    BY DEF ReadFrame, HeaderThere, Readable, HeaderUnits
  <2>2. ~cut
    BY <1>1 DEF Deliver
  <2>3. Len(pipe["audio"]) \in Nat
    BY <1>0 DEF PipeOK, Fifos
  <2>4. QED
    BY <2>1, <2>2, <2>3
<1>3. pipe["audio"] # <<>>
  BY <1>2
<1>4. PICK p \in Nat : Stream(p) /\ Place(p)
  BY <1>2, <1>3 DEF StepInv, Unopened, Dry
<1>5. p % 4 = 0 /\ (got # <<>> => p = 4 * (got[1].frame + 1))
  BY <1>2, <1>4 DEF Place
<1>6. len = 2
  BY <1>0, <1>3, <1>4, <1>5, FirstUnit, FrameUnits DEF Lengths, DataUnits
<1>7. Len(pipe["audio"]) >= 4
  <2>1. ~(Len(pipe["audio"]) < HeaderUnits + len)
    BY <1>1, Zenon DEF Deliver
  <2>2. PICK l \in Nat : l = Len(pipe["audio"])
    BY <1>2
  <2>3. ~(l < 4)
    BY <1>6, <2>1, <2>2 DEF HeaderUnits
  <2>4. QED
    BY <2>2, <2>3
<1>8. /\ Len(DataFrom(2, 2)) = 2
      /\ DataFrom(2, 2)[1] = pipe["audio"][3] /\ DataFrom(2, 2)[2] = pipe["audio"][4]
  <2>1. Min2(4, Len(pipe["audio"])) = 4
    <3>1. ASSUME NEW l \in Nat, l >= 4 PROVE Min2(4, l) = 4
      BY <3>1 DEF Min2
    <3>2. QED
      BY <1>2, <1>7, <3>1
  <2>2. DataFrom(2, 2) = SubSeq(pipe["audio"], 2 + 1, 4)
    BY <2>1 DEF DataFrom
  <2>3. pipe["audio"] \in Seq(Unit)
    BY <1>0 DEF PipeOK, Fifos
  <2>4. /\ Len(SubSeq(pipe["audio"], 2 + 1, 4)) = 2
        /\ \A k \in 1..4 - 2 : SubSeq(pipe["audio"], 2 + 1, 4)[k] = pipe["audio"][2 + k]
    BY <1>7, <2>3, Piece
  <2>5. QED
    BY <2>2, <2>4
<1>9. pipe["audio"][3] = AudioUnit(p + 2) /\ pipe["audio"][4] = AudioUnit(p + 3)
  <2>1. 3 \in 1..Len(pipe["audio"]) /\ 4 \in 1..Len(pipe["audio"])
        /\ p + 3 - 1 = p + 2 /\ p + 4 - 1 = p + 3
    BY <1>2, <1>7
  <2>2. QED
    BY <1>4, <2>1 DEF Stream
<1>10. got' = DataFrom(2, 2)
  <2>1. DataFrom(2, 2) # <<>>
    BY <1>8
  <2>2. QED
    BY <1>1, <1>6, <2>1 DEF Deliver, HeaderUnits
<1>11. pipe' = Behind("audio", 4) /\ UNCHANGED <<written, grab, source>>
  <2>1. pipe' = Behind("audio", 2 + Len(DataFrom(2, 2)))
    BY <1>1, <1>6 DEF Deliver, HeaderUnits
  <2>2. 2 + Len(DataFrom(2, 2)) = 4
    <3>1. PICK l : l = Len(DataFrom(2, 2))
      OBVIOUS
    <3>2. l = 2
      BY <1>8, <3>1
    <3>3. 2 + l = 4
      BY <3>2
    <3>4. QED
      BY <3>1, <3>3, Zenon
  <2>3. UNCHANGED <<written, grab, source>>
    BY DEF ReadFrame, grabVars
  <2>4. QED
    BY <2>1, <2>2, <2>3
<1>12. Stream(p + 4)'
  BY <1>0, <1>4, <1>7, <1>11, StreamLeft
<1>13. QED
  BY <1>5, <1>8, <1>9, <1>10, <1>12

\* Every step of the server keeps it in step.
LEMMA ServerInStep ==
  ASSUME RtspTypeOK, StepInv, ServerStep
  PROVE  StepInv'
<1>0. PipeOK /\ PlainOK
  BY DEF RtspTypeOK, PipeOK, PlainOK
<1>1. CASE Options
  <2>1. /\ pc = "options" /\ pc' \in {"main", "dead"}
        /\ UNCHANGED <<pipe, source, grab, written, got, head, skip, cut>>
    BY <1>1 DEF Options, grabVars, sourceVars, audioVars
  <2>2. source["audio"] = "none" /\ pipe["audio"] = <<>> /\ got = <<>>
    BY <2>1 DEF StepInv, Unopened
  <2>3. Dry'
    BY <2>1, <2>2 DEF Dry
  <2>4. QED
    BY <2>1, <2>2, <2>3 DEF StepInv, Unopened
<1>2. CASE Main
  <2>1. /\ pc = "main"
        /\ UNCHANGED <<pipe, grab, written, got, head, skip, cut>>
        /\ \/ pc' \in {"dead", "loop"} /\ UNCHANGED source
           \/ pc' = "openAudio" /\ source' = [source EXCEPT !["audio"] = "opening"]
    BY <1>2 DEF Main, grabVars, audioVars
  <2>2. source["audio"] = "none" /\ pipe["audio"] = <<>> /\ got = <<>>
    BY <2>1 DEF StepInv, Unopened
  <2>3. CASE pc' \in {"dead", "loop"} /\ UNCHANGED source
    <3>1. Dry'
      BY <2>1, <2>2, <2>3 DEF Dry
    <3>2. QED
      BY <2>1, <2>2, <2>3, <3>1 DEF StepInv, Unopened
  <2>4. CASE pc' = "openAudio" /\ source' = [source EXCEPT !["audio"] = "opening"]
    <3>1. source'["audio"] = "opening"
      BY <1>0, <2>4 DEF PlainOK, Fifos
    <3>2. QED
      BY <2>1, <2>2, <2>4, <3>1 DEF StepInv, Unopened
  <2>5. QED
    BY <2>1, <2>3, <2>4
<1>3. CASE OpenAudio
  <2>1. /\ pc = "openAudio" /\ pc' = "search" /\ "audio" \in grab
        /\ source'["audio"] = "open" /\ pipe'["audio"] = <<>>
        /\ UNCHANGED <<grab, written, got, head, skip, cut>>
    BY <1>0, <1>3 DEF OpenAudio, Open, grabVars, audioVars, PlainOK, PipeOK, Fifos
  <2>2. PICK w \in Nat : w = written["audio"]
    BY <1>0 DEF PlainOK, Fifos
  <2>3. Stream(w)'
    BY <2>1, <2>2 DEF Stream
  <2>4. Place(w)'
    BY <2>1 DEF Place
  <2>5. QED
    BY <2>1, <2>3, <2>4 DEF StepInv, Unopened
<1>4. CASE Search
  <2>1. /\ pc = "search" /\ pipe["audio"] # <<>> /\ pc' \in {"search", "header"}
        /\ head' = Head(pipe["audio"]) /\ pipe' = Behind("audio", 1)
        /\ UNCHANGED <<grab, written, source, got, skip, cut>>
    BY <1>4 DEF Search, grabVars
  <2>2. ASSUME ~cut PROVE \E p \in Nat : Stream(p)' /\ Place(p)'
    <3>1. PICK p \in Nat : Stream(p)
      BY <2>1, <2>2 DEF StepInv, Unopened, Dry
    <3>2. head' = AudioUnit(p) /\ Len(pipe["audio"]) \in Nat \ {0}
      BY <1>0, <2>1, <3>1, FirstUnit
    <3>3. Stream(p + 1)'
      BY <1>0, <2>1, <3>1, <3>2, StreamLeft
    <3>4. p + 1 \in Nat /\ p + 1 > 0 /\ p + 1 - 1 = p
      OBVIOUS
    <3>5. Place(p + 1)'
      BY <2>1, <3>2, <3>4 DEF Place
    <3>6. QED
      BY <3>3, <3>4, <3>5
  <2>3. source["audio"] \notin {"none", "opening"}
    BY <2>1 DEF StepInv
  <2>4. QED
    BY <2>1, <2>2, <2>3 DEF StepInv, Unopened
<1>5. CASE ReadHeader
  <2>1. /\ pc = "header" /\ (pipe["audio"] # <<>> \/ ~Fed("audio"))
        /\ pipe' = Behind("audio", 1) /\ cut' = (cut \/ head.part # 1)
        /\ UNCHANGED <<grab, written, got>>
        /\ \/ pc' = "skip" /\ UNCHANGED source
           \/ pc' = "loop" /\ source' = [source EXCEPT !["audio"] = "null"]
        /\ head.part = 1 /\ pipe["audio"] # <<>> => pc' = "skip" /\ skip' = 2
    BY <1>5 DEF ReadHeader, grabVars, DataUnits
  <2>2. got = <<>> /\ source["audio"] # "opening"
    BY <2>1 DEF StepInv
  <2>3. source'["audio"] = source["audio"] \/ source'["audio"] = "null"
    BY <1>0, <2>1 DEF PlainOK, Fifos
  <2>4. ASSUME ~cut' PROVE Dry' \/ \E p \in Nat : Stream(p)' /\ Place(p)'
    <3>1. ~cut /\ head.part = 1
      BY <2>1, <2>4
    <3>2. CASE pipe["audio"] = <<>>
      <4>1. pipe'["audio"] = <<>>
        BY <1>0, <2>1, <3>2, EmptyLeft
      <4>2. source["audio"] = "open" => "audio" \notin grab
        BY <2>1, <3>2 DEF Fed
      <4>3. QED
        BY <2>1, <2>2, <2>3, <4>1, <4>2 DEF Dry
    <3>3. CASE pipe["audio"] # <<>>
      <4>1. PICK p \in Nat : Stream(p) /\ Place(p)
        BY <2>1, <3>1, <3>3 DEF StepInv, Unopened, Dry
      <4>2. p > 0 /\ head = AudioUnit(p - 1) /\ p - 1 \in Nat
        BY <2>1, <4>1 DEF Place
      <4>3. (p - 1) % 4 = 0
        BY <3>1, <4>2, Quarters DEF AudioUnit
      <4>4. (p + 1 + 2) % 4 = 0
        <5>1. PICK u \in Nat : u = p - 1
          BY <4>2
        <5>2. u % 4 = 0 => (u + 4) % 4 = 0
          BY SMT
        <5>3. u + 4 = p + 1 + 2
          BY <5>1
        <5>4. QED
          BY <4>3, <5>1, <5>2, <5>3
      <4>5. Len(pipe["audio"]) \in Nat \ {0} /\ UNCHANGED source
        BY <1>0, <2>1, <3>1, <3>3, <4>1, FirstUnit
      <4>6. Stream(p + 1)'
        BY <1>0, <2>1, <4>1, <4>5, StreamLeft
      <4>7. Place(p + 1)'
        BY <2>1, <3>1, <3>3, <4>4 DEF Place
      <4>8. QED
        BY <4>6, <4>7
    <3>4. QED
      BY <3>2, <3>3
  <2>5. source["audio"] = "none" => pipe'["audio"] = <<>>
    <3>1. source["audio"] = "none" => pipe["audio"] = <<>>
      BY DEF StepInv
    <3>2. QED
      BY <1>0, <2>1, <3>1, EmptyLeft
  <2>6. QED
    BY <2>1, <2>2, <2>3, <2>4, <2>5 DEF StepInv, Unopened
<1>6. CASE SkipFrame
  <2>0. PICK n \in Nat : n = Len(pipe["audio"])
    BY <1>0 DEF PipeOK, Fifos
  <2>1. /\ pc = "skip" /\ UNCHANGED <<grab, written, source, got, head>>
        /\ \/ /\ skip > 0 /\ n > 0 /\ pc' = "skip" /\ pipe' = Behind("audio", n)
              /\ skip' = IF n < skip THEN skip - n ELSE 0
              /\ cut' = (cut \/ (n >= skip /\ pipe["audio"][n].part # 4))
           \/ skip = 0 /\ pc' = "loop" /\ UNCHANGED <<pipe, skip, cut>>
    BY <1>6, <2>0 DEF SkipFrame, grabVars
  <2>2. got = <<>> /\ source["audio"] # "opening" /\ skip \in Nat
    BY <1>0, <2>1 DEF StepInv, PlainOK, DataUnits
  <2>3. ASSUME ~cut' PROVE Dry' \/ \E p \in Nat : Stream(p)' /\ Place(p)'
    <3>1. ~cut
      BY <2>1, <2>3
    <3>2. CASE skip = 0 /\ pc' = "loop" /\ UNCHANGED <<pipe, skip, cut>>
      <4>1. CASE Dry
        BY <2>1, <3>2, <4>1 DEF Dry
      <4>2. ASSUME NEW p \in Nat, Stream(p), Place(p) PROVE Stream(p)' /\ Place(p)'
        <5>1. p % 4 = 0
          BY <2>1, <3>2, <4>2 DEF Place
        <5>2. QED
          BY <2>1, <2>2, <3>2, <4>2, <5>1 DEF Stream, Place
      <4>3. QED
        BY <2>1, <3>1, <4>1, <4>2 DEF StepInv, Unopened
    <3>3. CASE /\ skip > 0 /\ n > 0 /\ pc' = "skip" /\ pipe' = Behind("audio", n)
               /\ skip' = IF n < skip THEN skip - n ELSE 0
               /\ cut' = (cut \/ (n >= skip /\ pipe["audio"][n].part # 4))
      <4>1. pipe["audio"] # <<>>
        BY <2>0, <3>3
      <4>2. PICK p \in Nat : Stream(p) /\ Place(p)
        BY <2>1, <3>1, <4>1 DEF StepInv, Unopened, Dry
      <4>3. Stream(p + n)'
        BY <1>0, <2>0, <2>1, <3>3, <4>2, StreamLeft
      <4>4. (p + skip) % 4 = 0
        BY <2>1, <4>2 DEF Place
      <4>5. (p + n + skip') % 4 = 0
        <5>1. CASE n < skip
          <6>1. p + n + skip' = p + skip
            BY <2>2, <3>3, <5>1
          <6>2. QED
            BY <4>4, <6>1
        <5>2. CASE ~(n < skip)
          <6>1. pipe["audio"][n].part = 4
            <7>1. n >= skip
              BY <2>2, <5>2
            <7>2. QED
              BY <2>3, <3>3, <7>1
          <6>2. pipe["audio"][n] = AudioUnit(p + n - 1)
            BY <2>0, <3>3, <4>2 DEF Stream
          <6>3. PICK u \in Nat : u = p + n - 1
            BY <3>3
          <6>4. (u % 4) + 1 = 4 /\ u % 4 \in 0..3
            BY <6>1, <6>2, <6>3, Quarters DEF AudioUnit
          <6>5. u % 4 = 3 => (u + 1) % 4 = 0
            BY SMT
          <6>6. u % 4 = 3
            BY <6>4
          <6>7. p + n + skip' = u + 1
            BY <3>3, <5>2, <6>3
          <6>8. QED
            BY <6>5, <6>6, <6>7
        <5>3. QED
          BY <5>1, <5>2
      <4>6. Place(p + n)'
        BY <3>3, <4>5 DEF Place
      <4>7. QED
        BY <4>3, <4>6
    <3>4. QED
      BY <2>1, <3>2, <3>3
  <2>4. source["audio"] = "none" => pipe'["audio"] = <<>>
    <3>1. source["audio"] = "none" => pipe["audio"] = <<>>
      BY DEF StepInv
    <3>2. QED
      BY <1>0, <2>1, <3>1, EmptyLeft
  <2>5. QED
    BY <2>1, <2>2, <2>3, <2>4 DEF StepInv, Unopened
<1>7. CASE OpenVideo
  <2>1. /\ pc \in {"openDescribe", "openPlay"} /\ pc' = "loop"
        /\ pipe'["audio"] = pipe["audio"] /\ source'["audio"] = source["audio"]
        /\ UNCHANGED <<grab, written, got, head, skip, cut>>
    BY <1>0, <1>7 DEF OpenVideo, Open, grabVars, audioVars, PlainOK, PipeOK, Fifos
  <2>2. QED
    BY <2>1, StepKept
<1>8. CASE ReadVideo
  <2>1. /\ pipe'["audio"] = pipe["audio"]
        /\ UNCHANGED <<pc, source, grab, written, got, head, skip, cut>>
    BY <1>0, <1>8 DEF ReadVideo, Behind, grabVars, audioVars, PipeOK, Fifos
  <2>2. QED
    BY <2>1, StepKept
<1>9. CASE VideoEnds
  <2>1. /\ pipe'["audio"] = pipe["audio"] /\ source'["audio"] = source["audio"]
        /\ UNCHANGED <<pc, grab, written, got, head, skip, cut>>
    BY <1>0, <1>9 DEF VideoEnds, Close, grabVars, audioVars, PlainOK, PipeOK, Fifos
  <2>2. QED
    BY <2>1, StepKept
<1>10. CASE CheckAux
  <2>1. /\ pipe'["audio"] = pipe["audio"] /\ source'["audio"] = source["audio"]
        /\ UNCHANGED <<pc, grab, written, got, head, skip, cut>>
    BY <1>0, <1>10 DEF CheckAux, Close, grabVars, audioVars, PlainOK, PipeOK, Fifos
  <2>2. QED
    BY <2>1, StepKept
<1>11. ASSUME NEW f \in Fifos, GetNextFrame(f) \/ NotReady(f) PROVE StepInv'
  <2>1. UNCHANGED <<pc, source, pipe, grab, written, got, head, skip, cut>>
    BY <1>11 DEF GetNextFrame, NotReady, grabVars, audioVars
  <2>2. QED
    BY <2>1, StepKept
<1>12. CASE ShortHeader
  <2>1. /\ pc = "loop" /\ cut' = (cut \/ pipe["audio"] # <<>>)
        /\ pipe' = Behind("audio", 2)
        /\ UNCHANGED <<pc, grab, written, source, got, head, skip>>
    BY <1>12 DEF ShortHeader, Readable, grabVars, HeaderUnits
  <2>2. pipe["audio"] = <<>> => pipe'["audio"] = <<>>
    BY <1>0, <2>1, EmptyLeft
  <2>3. CASE pipe["audio"] = <<>>
    <3>1. cut' = cut
      BY <1>0, <2>1, <2>3 DEF PlainOK
    <3>2. QED
      BY <2>1, <2>2, <2>3, <3>1, StepKept
  <2>4. CASE pipe["audio"] # <<>>
    <3>1. cut'
      BY <2>1, <2>4
    <3>2. source["audio"] \notin {"none", "opening"}
      BY <2>4 DEF StepInv
    <3>3. QED
      BY <2>1, <3>1, <3>2 DEF StepInv, Unopened
  <2>5. QED
    BY <2>3, <2>4
<1>13. CASE ReadFrame
  <2>1. /\ pc = "loop" /\ pipe["audio"] # <<>>
        /\ UNCHANGED <<pc, grab, written, source>>
    BY <1>0, <1>13
       DEF ReadFrame, HeaderThere, Readable, grabVars, HeaderUnits, PipeOK, Fifos
  <2>2. source["audio"] \notin {"none", "opening"}
    BY <2>1 DEF StepInv
  <2>3. ASSUME ~cut' PROVE \E p \in Nat : Stream(p)' /\ Place(p)'
    <3>1. PICK p \in Nat : /\ p % 4 = 0 /\ Stream(p + 4)'
                           /\ got'[1] = AudioUnit(p + 2)
      BY <1>13, <2>3, FrameRead
    <3>2. (p + 4) % 4 = 0 /\ p + 4 = 4 * (got'[1].frame + 1)
      BY <3>1, FrameUnits
    <3>3. Place(p + 4)'
      BY <2>1, <3>2 DEF Place
    <3>4. QED
      BY <3>1, <3>3
  <2>4. QED
    BY <2>1, <2>2, <2>3 DEF StepInv, Unopened
<1>14. CASE BadSyncword
  <2>1. /\ pc = "loop" /\ pipe["audio"] # <<>> /\ pc' = "resync"
        /\ Head(pipe["audio"]).part # 1
        /\ UNCHANGED <<grab, written, source, got, head, skip, cut>>
    BY <1>0, <1>14, RtspAssumption
       DEF BadSyncword, HeaderThere, Readable, grabVars, audioVars, HeaderUnits, PipeOK, Fifos
  <2>2. source["audio"] \notin {"none", "opening"}
    BY <2>1 DEF StepInv
  <2>3. cut
    <3>1. SUFFICES ASSUME ~cut PROVE FALSE
      OBVIOUS
    <3>2. PICK p \in Nat : Stream(p) /\ Place(p)
      BY <2>1, <3>1 DEF StepInv, Unopened, Dry
    <3>3. p % 4 = 0
      BY <2>1, <3>2 DEF Place
    <3>4. QED
      BY <1>0, <2>1, <3>2, <3>3, FirstUnit, FrameUnits
  <2>4. QED
    BY <2>1, <2>2, <2>3 DEF StepInv, Unopened
<1>15. CASE Resync
  <2>1. pc = "resync" /\ pipe["audio"] # <<>> /\ UNCHANGED <<source, grab, written>>
    BY <1>15 DEF Resync, grabVars
  <2>2. pc' \in {"resync", "loop"} /\ (cut => cut')
    BY <1>15, <2>1 DEF Resync, Deliver
  <2>3. cut /\ source["audio"] \notin {"none", "opening"}
    BY <2>1 DEF StepInv
  <2>4. QED
    BY <2>1, <2>2, <2>3 DEF StepInv, Unopened
<1>16. CASE OpenAudioFails
  <2>1. /\ pc = "openAudio" /\ pc' = "loop" /\ source["audio"] = "opening"
        /\ source'["audio"] = "null"
        /\ UNCHANGED <<pipe, got, head, skip, cut>>
    BY <1>0, <1>16 DEF OpenAudioFails, grabVars, audioVars, PlainOK, Fifos
  <2>2. pipe["audio"] = <<>> /\ got = <<>>
    BY <2>1 DEF StepInv, Unopened
  <2>3. Dry'
    BY <2>1, <2>2 DEF Dry
  <2>4. QED
    BY <2>1, <2>2, <2>3 DEF StepInv, Unopened
<1>17. CASE OpenVideoFails
  <2>1. /\ pc \in {"openDescribe", "openPlay"} /\ pc' = "loop"
        /\ source'["audio"] = source["audio"]
        /\ UNCHANGED <<pipe, grab, written, got, head, skip, cut>>
    BY <1>0, <1>17 DEF OpenVideoFails, grabVars, audioVars, PlainOK, Fifos
  <2>2. QED
    BY <2>1, StepKept
<1>18. QED
  BY <1>1, <1>2, <1>3, <1>4, <1>5, <1>6, <1>7, <1>8, <1>9, <1>10, <1>11, <1>12, <1>13,
     <1>14, <1>15, <1>16, <1>17 DEF ServerStep

\* So does every step of the grabbers and the clients.
LEMMA EnvironmentInStep ==
  ASSUME RtspTypeOK, StepInv, Environment
  PROVE  StepInv'
<1>0. PipeOK /\ PlainOK
  BY DEF RtspTypeOK, PipeOK, PlainOK
<1>1. CASE Describe \/ Play
  <2>1. /\ pc = "loop" /\ pc' \in {"openDescribe", "openPlay"}
        /\ source'["audio"] = source["audio"]
        /\ UNCHANGED <<pipe, grab, written, got, head, skip, cut>>
    BY <1>0, <1>1 DEF Describe, Play, grabVars, audioVars, PlainOK, Fifos
  <2>2. QED
    BY <2>1, StepKept
<1>2. CASE Listen
  <2>1. /\ pc = "loop" /\ pc' \in {"loop", "dead"}
        /\ UNCHANGED <<pipe, source, grab, written, got, head, skip, cut>>
    BY <1>2 DEF Listen, grabVars, sourceVars, audioVars
  <2>2. QED
    BY <2>1, StepKept
<1>3. ASSUME NEW f \in Fifos, StartGrabber(f) PROVE StepInv'
  <2>1. UNCHANGED <<pc, pipe, written, got, head, skip, cut>>
    BY <1>3 DEF StartGrabber, audioVars
  <2>2. CASE f = "audio"
    <3>1. source'["audio"] =
            IF source["audio"] \in {"opening", "open"} THEN "stale" ELSE source["audio"]
      BY <1>0, <1>3, <2>2 DEF StartGrabber, PlainOK, Fifos
    <3>2. QED
      BY <2>1, <3>1, StepKept
  <2>3. CASE f # "audio"
    <3>1. source'["audio"] = source["audio"] /\ ("audio" \in grab' => "audio" \in grab)
      BY <1>0, <1>3, <2>3 DEF StartGrabber, PlainOK, Fifos
    <3>2. QED
      BY <2>1, <3>1, StepKept
  <2>4. QED
    BY <2>2, <2>3
<1>4. ASSUME NEW f \in Fifos, Write(f) PROVE StepInv'
  <2>1. UNCHANGED <<pc, source, grab, got, head, skip, cut>>
    BY <1>4 DEF Write, audioVars
  <2>2. CASE f # "audio"
    <3>1. pipe'["audio"] = pipe["audio"] /\ written'["audio"] = written["audio"]
      BY <1>0, <1>4, <2>2 DEF Write, PlainOK, PipeOK, Fifos
    <3>2. QED
      BY <2>1, <3>1, StepKept
  <2>3. CASE f = "audio" /\ source["audio"] # "open"
    <3>1. pipe' = pipe
      BY <1>4, <2>3 DEF Write
    <3>2. QED
      BY <2>1, <2>3, <3>1, StepKept
  <2>4. CASE f = "audio" /\ source["audio"] = "open"
    <3>1. PICK w \in Nat : w = written["audio"]
      BY <1>0 DEF PlainOK, Fifos
    <3>2. /\ pipe'["audio"] = Append(pipe["audio"], AudioUnit(w))
          /\ written'["audio"] = w + 1 /\ "audio" \in grab
      BY <1>0, <1>4, <2>4, <3>1
         DEF Write, NextPart, AudioUnit, PlainOK, PipeOK, Fifos
    <3>3. pipe["audio"] \in Seq(Unit) /\ AudioUnit(w) \in Unit
      <4>1. NextPart("audio") = (w % 4) + 1
        BY <3>1 DEF NextPart
      <4>2. QED
        BY <1>0, <3>1, <4>1, NextUnit DEF AudioUnit, PipeOK, Fifos
    <3>4. ASSUME NEW C, NEW s \in Seq(C), NEW e
          PROVE  /\ Len(Append(s, e)) = Len(s) + 1 /\ Len(s) \in Nat
                 /\ Append(s, e)[Len(s) + 1] = e
                 /\ \A k \in 1..Len(s) : Append(s, e)[k] = s[k]
      <4>1. s \in Seq(C \cup {e}) /\ e \in C \cup {e}
        OBVIOUS
      <4>2. QED
        BY <4>1
    <3>5. ASSUME NEW p \in Nat, Stream(p) PROVE Stream(p)'
      <4>1. PICK l \in Nat : l = Len(pipe["audio"])
        BY <3>3, <3>4
      <4>2. Len(pipe'["audio"]) = l + 1 /\ pipe'["audio"][l + 1] = AudioUnit(w)
        BY <3>2, <3>3, <3>4, <4>1
      <4>3. w = p + l
        BY <2>4, <3>1, <3>2, <3>5, <4>1 DEF Stream
      <4>4. ASSUME NEW k \in 1..l + 1 PROVE pipe'["audio"][k] = AudioUnit(p + k - 1)
        <5>1. CASE k = l + 1
          <6>1. p + k - 1 = w
            BY <4>3, <5>1
          <6>2. QED
            BY <4>2, <5>1, <6>1
        <5>2. CASE k # l + 1
          <6>1. k \in 1..l
            BY <5>2
          <6>2. pipe'["audio"][k] = pipe["audio"][k]
            BY <3>2, <3>3, <3>4, <4>1, <6>1
          <6>3. QED
            BY <3>5, <4>1, <6>1, <6>2 DEF Stream
        <5>3. QED
          BY <5>1, <5>2
      <4>5. w + 1 = p + (l + 1)
        BY <4>3
      <4>6. QED
        BY <3>2, <4>2, <4>4, <4>5 DEF Stream
    <3>6. ASSUME NEW p \in Nat, Place(p) PROVE Place(p)'
      BY <2>1, <3>6 DEF Place
    <3>7. ~Dry /\ pc \notin Unopened
      BY <2>4, <3>2 DEF Dry, StepInv, Unopened
    <3>8. QED
      BY <2>1, <2>4, <3>5, <3>6, <3>7 DEF StepInv, Unopened
  <2>5. QED
    BY <2>2, <2>3, <2>4
<1>5. ASSUME NEW f \in Fifos, GrabberDies(f) PROVE StepInv'
  <2>1. /\ UNCHANGED <<pc, source, pipe, got, head, skip, cut>>
        /\ "audio" \in grab' => "audio" \in grab /\ written'["audio"] = written["audio"]
    BY <1>0, <1>5 DEF GrabberDies, sourceVars, audioVars, PlainOK, Fifos
  <2>2. QED
    BY <2>1, StepKept
<1>6. ASSUME NEW f \in Fifos, Leave(f) PROVE StepInv'
  <2>1. /\ pipe'["audio"] = pipe["audio"] /\ source'["audio"] = source["audio"]
        /\ UNCHANGED <<pc, grab, written, got, head, skip, cut>>
    BY <1>0, <1>6 DEF Leave, Close, grabVars, audioVars, PlainOK, PipeOK, Fifos
  <2>2. QED
    BY <2>1, StepKept
<1>7. CASE DescribeAgain
  <2>1. /\ pc = "loop" /\ pc' \in {"loop", "held"}
        /\ pipe'["audio"] = pipe["audio"]
        /\ UNCHANGED <<source, grab, written, got, head, skip, cut>>
    BY <1>0, <1>7 DEF DescribeAgain, grabVars, audioVars, PipeOK, Fifos
  <2>2. QED
    BY <2>1, StepKept
<1>8. QED
  BY <1>1, <1>2, <1>3, <1>4, <1>5, <1>6, <1>7 DEF Environment

LEMMA StepInvariant == RtspSpec => []StepInv
<1>1. RtspInit => StepInv
  <2> SUFFICES ASSUME RtspInit PROVE StepInv
    OBVIOUS
  <2>1. source["audio"] = "none" /\ pipe["audio"] = <<>>
    BY DEF RtspInit, Fifos
  <2>2. pc = "options" /\ got = <<>>
    BY DEF RtspInit
  <2>3. QED
    BY <2>1, <2>2 DEF StepInv, Unopened
<1>2. RtspTypeOK /\ StepInv /\ [RtspNext]_rtspVars => StepInv'
  <2>1. ASSUME StepInv, UNCHANGED rtspVars PROVE StepInv'
    BY <2>1, StepKept DEF rtspVars, grabVars, sourceVars, audioVars
  <2>2. QED
    BY <2>1, ServerInStep, EnvironmentInStep DEF RtspNext
<1>3. QED
  BY <1>1, <1>2, ServerTypeCorrect, PTL DEF RtspSpec

\* As long as no read has ended within a frame, what the sinks get are whole frames, one
\* after the other: for every size of the fifo, and whatever passes for a syncword.
THEOREM AudioStaysInStep == RtspSpec => AudioInStep
<1> DEFINE InStep ==
      ~cut' => /\ got' # got => Whole(got') /\ (got # <<>> => got'[1].frame = got[1].frame + 1)
               /\ pc' # "resync"
<1>1. RtspTypeOK /\ StepInv /\ StepInv' /\ [RtspNext]_rtspVars => [InStep]_rtspVars
  <2> SUFFICES ASSUME RtspTypeOK, StepInv, StepInv', RtspNext, ~cut'
               PROVE  /\ got' # got => Whole(got')
                                       /\ (got # <<>> => got'[1].frame = got[1].frame + 1)
                      /\ pc' # "resync"
    OBVIOUS
  <2>1. pc' # "resync"
    BY DEF StepInv
  <2>2. ASSUME ReadFrame
        PROVE  Whole(got') /\ (got # <<>> => got'[1].frame = got[1].frame + 1)
    <3>1. PICK p \in Nat : /\ p % 4 = 0 /\ (got # <<>> => p = 4 * (got[1].frame + 1))
                           /\ Len(got') = 2 /\ got'[1] = AudioUnit(p + 2)
                           /\ got'[2] = AudioUnit(p + 3)
      BY <2>2, FrameRead
    <3>2. Whole(got') /\ got'[1].frame = p \div 4
      BY <3>1, FrameUnits DEF Whole, DataUnits
    <3>3. ASSUME got # <<>> PROVE p \div 4 = got[1].frame + 1
      <4>1. got[1].frame \in Nat
        <5>1. got \in Seq(Unit)
          BY DEF RtspTypeOK
        <5>2. got[1] \in Unit
          BY <3>3, <5>1
        <5>3. QED
          BY <5>2 DEF Unit
      <4>2. p = 4 * (p \div 4) /\ p \div 4 \in Nat
        BY Quarters, <3>1, FrameUnits
      <4>3. QED
        BY <3>1, <3>3, <4>1, <4>2
    <3>4. QED
      BY <3>2, <3>3
  <2>3. ASSUME ~ReadFrame PROVE got' = got
    <3>1. ~Resync
      <4>1. ASSUME Resync PROVE cut
        BY <4>1 DEF Resync, StepInv
      <4>2. ASSUME Resync PROVE cut'
        BY <4>1, <4>2 DEF Resync, Deliver
      <4>3. QED
        BY <4>2
    <3>2. CASE Environment
      BY <3>2 DEF Environment, Describe, DescribeAgain, Play, Listen, StartGrabber, Write,
                  GrabberDies, Leave, audioVars
    <3>3. CASE ServerStep
      BY <2>3, <3>1, <3>3
         DEF ServerStep, Options, Main, OpenAudioFails, OpenVideoFails, OpenAudio, Search,
             ReadHeader, SkipFrame, OpenVideo, ReadVideo, VideoEnds, ShortHeader, BadSyncword, CheckAux, GetNextFrame, NotReady,
             audioVars
    <3>4. QED
      BY <3>2, <3>3 DEF RtspNext
  <2>4. QED
    BY <2>1, <2>2, <2>3
<1>2. QED
  BY <1>1, ServerTypeCorrect, StepInvariant, PTL DEF RtspSpec, AudioInStep
================================================================================
