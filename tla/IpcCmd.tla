--------------------------------- MODULE IpcCmd ---------------------------------
(***************************************************************************)
(* ipc_cmd (src/ipc_cmd/ipc_cmd/ipc_cmd.c, ptz.c): a run of the program    *)
(* reads its command line, and sends what it was asked to the camera's     *)
(* queue, one message after the other in an order of its own.  Several     *)
(* runs are under way at once.  An absolute jump is sent as a distance,    *)
(* computed from the position read just before.                            *)
(*                                                                         *)
(* A command line is a sequence of <<option, argument>>, with the long     *)
(* name of the option; an angle is in tenths of a degree.  A line has one  *)
(* kind of jump (two would share x and y).  The options -S and -T are in   *)
(* MotionEvents.                                                           *)
(***************************************************************************)
EXTENDS Integers, Sequences, FiniteSets, TLC

CONSTANTS
  Procs,       \* the processes that run ipc_cmd
  Suffix,      \* the model of the camera, as its file names it
  NumPresets,  \* how many presets the camera has: 8
  QueueDepth,  \* depth of the camera's queue (external)
  StartPos,    \* where the camera looks at first, in steps of its motors
  NoPreset,    \* a preset that is not set
  MayFail      \* whether opening the queue, reading the position or a file may fail

Slots == 0..NumPresets - 1
MaxX == 4100
MaxY == 1250
Positions == (0..MaxX) \X (0..MaxY)

ASSUME IpcCmdAssumption ==
  /\ NumPresets \in Nat \ {0, 1}
  /\ NumPresets < 256  \* a byte, and 255 is all of them
  /\ QueueDepth \in Nat \ {0}
  /\ StartPos \in Positions
  /\ MayFail \in BOOLEAN

VARIABLES
  todo,    \* what each run of ipc_cmd has still to do
  queue,   \* the camera's queue /ipc_dispatch
  camera   \* the camera: where it looks, how it moves, its presets

cmdVars == <<todo, queue, camera>>

--------------------------------------------------------------------------------
(* The command line. *)

Same(S) == [a \in S |-> a]
OnOff == [off |-> "off", no |-> "off", on |-> "on", yes |-> "on"]

CameraOptions ==
  [switch |-> OnOff, led |-> OnOff, ir |-> OnOff, rotate |-> OnOff,
   sensitivity |-> Same({"low", "medium", "high"}),
   save |-> [always |-> "always", off |-> "always", no |-> "always",
             detect |-> "detect", on |-> "detect", yes |-> "detect"],
   setalertallowstate_human |-> [a \in {""} |-> "on"]]

DetectionOptions ==
  [o \in {"aihumandetection", "aivehicledetection", "aianimaldetection",
          "aimotiondetection", "facedetection", "motiontracking", "mic",
          "sounddetection", "babycrying", "soundsensitivity"} |->
     IF o = "soundsensitivity"
       THEN Same({"30", "35", "40", "45", "50", "60", "70", "80", "90"}) ELSE OnOff]

Opposite == [left |-> "right", right |-> "left", up |-> "down", down |-> "up",
             stop |-> "stop"]
MoveOptions ==
  [o \in {"move", "move-reverse"} |->
     IF o = "move" THEN Same(DOMAIN Opposite) ELSE Opposite]

CruiseOptions ==
  [cruise |-> [a \in DOMAIN OnOff \cup {"presets", "360"} |->
                 IF a \in DOMAIN OnOff THEN OnOff[a] ELSE a]]

Words ==
  [o \in UNION {DOMAIN CameraOptions, DOMAIN DetectionOptions, DOMAIN MoveOptions,
                DOMAIN CruiseOptions} |->
     CASE o \in DOMAIN CameraOptions -> CameraOptions[o]
       [] o \in DOMAIN DetectionOptions -> DetectionOptions[o]
       [] o \in DOMAIN MoveOptions -> MoveOptions[o]
       [] o \in DOMAIN CruiseOptions -> CruiseOptions[o]]

All == 255
NotSent == -1   \* NONE

\* The number of a preset is a text: how it is spelt, and what strtol reads in it.
\* Another spelling is one with a sign or zeros in front ("01", "-0"), a cut one has
\* something behind that strtol does not read ("1.5").
Spellings == {"plain", "other", "cut", "word"}
AllWord == <<"word", All>>
Read(text) == text[2]

\* The angles a jump may name, in tenths of a degree: to the place, or by how far.
Pan == 0..3600
Tilt == 0..1800
PanBy == -3600..3600
TiltBy == -1800..1800

\* Whether main takes the argument; otherwise it prints the usage and ends.
Accepted(o, a) ==
  CASE o \in DOMAIN Words -> a \in DOMAIN Words[o]
    [] o = "jump-abs" -> a[1] \in Pan /\ a[2] \in Tilt
    [] o = "jump-rel" -> a[1] \in PanBy /\ a[2] \in TiltBy
    [] o = "preset" -> a # AllWord
    [] o = "remove_preset" -> Read(a) \in Slots \cup {All}
    [] o = "help" -> FALSE
    [] OTHER -> TRUE

\* A bad argument of babycrying has no usage, and no effect.
Refused(line) ==
  line = <<>> \/ \E k \in DOMAIN line :
    line[k][1] # "babycrying" /\ ~Accepted(line[k][1], line[k][2])

\* The variable of main an option sets, and what the last option for it stored.
Variable(o) == IF o = "move-reverse" THEN "move" ELSE o
Given(line, v) ==
  {k \in DOMAIN line : Variable(line[k][1]) = v /\ Accepted(line[k][1], line[k][2])}
Stored(line, v) ==
  LET k == CHOOSE k \in Given(line, v) : \A j \in Given(line, v) : j <= k
  IN  IF line[k][1] \in DOMAIN Words THEN Words[line[k][1]][line[k][2]]
                                     ELSE line[k][2]
\* What main does for v: nothing when no option has set it.
If(line, v, steps) == IF Given(line, v) = {} THEN <<>> ELSE steps

--------------------------------------------------------------------------------
(* What is sent, and in which order. *)

\* The classes of models.
PtzClass ==
  [s \in {"yi_dome", "yi_dome_1080p", "yi_cloud_dome_1080p"} |-> "V5"]
  @@ [s \in {"h201c", "h305r", "y30", "h307"} |-> "MSTAR"]
  @@ "y30qa" :> "ALLWINNER"
  @@ [s \in {"r30gb", "r35gb", "r40ga", "h60ga", "q321br_lsx", "qg311r", "b091qp"}
        |-> "ALLWINNER_V2"]
  @@ [s \in {"h30ga", "h51ga", "h52ga"} |-> "ALLWINNER_V2_ALT"]
Model == IF Suffix \in DOMAIN PtzClass THEN PtzClass[Suffix] ELSE "none"
UpsideDown == Model = "ALLWINNER_V2_ALT"

Send(name, value) == << <<"send", <<name, value>> >> >>

SettingSends(line) ==
  LET set(v) == If(line, v, Send(v, Stored(line, v)))
  IN  set("switch") \o set("sensitivity") \o set("led") \o set("save") \o set("ir")
      \o set("rotate") \o set("setalertallowstate_human")
      \o set("aihumandetection") \o set("aivehicledetection") \o set("aianimaldetection")
      \o set("aimotiondetection") \o set("facedetection") \o set("motiontracking")
      \o set("mic") \o set("sounddetection") \o set("babycrying")
      \o set("soundsensitivity")

MoveSends(d) ==
  Send("move",
       IF Model = "ALLWINNER_V2" \/ (UpsideDown /\ d \in {"left", "right"})
         THEN Opposite[d] ELSE d)

\* The number goes out as a byte; -1 is NONE.
GotoSends(n) == IF n = NotSent THEN <<>> ELSE Send("goto", n % 256)

HomeSends == Send("remove", 0) \o Send("add", "")

RemoveSends(n) ==
  IF n = All THEN [k \in 1..NumPresets |-> Send("remove", k - 1)[1]]
             ELSE Send("remove", n)

CruiseSends(m) ==
  (IF m = "off" THEN Send("cruise", "off") ELSE Send("cruise", "on"))
  \o (IF m \in {"presets", "360"} THEN Send("cruise", m) ELSE <<>>)

Program(line) ==
  LET of(v) == Stored(line, v)
  IN  SettingSends(line)
      \o If(line, "move", MoveSends(of("move")))
      \o If(line, "jump-abs", << <<"jump-abs", of("jump-abs")>> >>)
      \o If(line, "jump-rel", << <<"jump-rel", of("jump-rel")>> >>)
      \o If(line, "preset", GotoSends(Read(of("preset"))))
      \o If(line, "add_preset", Send("add", ""))
      \o If(line, "get-pos", << <<"get-pos", "">> >>)
      \o If(line, "set_home_position", HomeSends)
      \o If(line, "remove_preset", RemoveSends(Read(of("remove_preset"))))
      \o If(line, "cruise", CruiseSends(of("cruise")))
      \o If(line, "file", << <<"file", of("file")>> >>)
      \o If(line, "xxx", Send("xxx", ""))

--------------------------------------------------------------------------------
(* The position, in degrees for the user and in steps for the motors. *)

\* n / d, rounded half away from zero (round of math.h).
Round(n, d) == IF n >= 0 THEN (2 * n + d) \div (2 * d) ELSE -((d - 2 * n) \div (2 * d))

\* Variant of Degrees: get-pos forgets the models that hang upside down.
DegreesUnflipped(pos) == <<Round(pos[1] * 3600, MaxX), Round(pos[2] * 1800, MaxY)>>

\* What get-pos prints for a position.
Degrees(pos) ==
  LET y == Round(pos[2] * 1800, MaxY)
  IN  <<Round(pos[1] * 3600, MaxX), IF UpsideDown THEN 1800 - y ELSE y>>

\* The distance an absolute jump to xy is sent as: 50 is none.
JumpTo(xy, pos) ==
  LET y == IF UpsideDown THEN 1800 - xy[2] ELSE xy[2]
  IN  <<Round((Round(xy[1] * MaxX, 3600) - pos[1]) * 100 + 50 * 911, 911),
        Round((Round(y * MaxY, 1800) - pos[2]) * 100 + 50 * 694, 694)>>

JumpBy(xy) ==
  LET y == IF UpsideDown THEN -xy[2] ELSE xy[2]
  IN  <<Round(Round(xy[1] * MaxX, 3600) * 100 + 50 * 911, 911),
        Round(Round(y * MaxY, 1800) * 100 + 50 * 694, 694)>>

--------------------------------------------------------------------------------
(* A run. *)

CmdInit ==
  /\ todo = [r \in Procs |-> <<>>]
  /\ queue = <<>>
  /\ camera = [pos |-> StartPos, moving |-> "stop",
               presets |-> [s \in Slots |-> NoPreset]]

\* What a new run has to do: nothing, if its command line is refused.
Launched(line) == IF Refused(line) THEN <<>> ELSE Program(line)
Begin(r, line) == todo' = [todo EXCEPT ![r] = Launched(line)]

\* ipc_start cannot open the queue: the program ends before it has sent anything.
BeginFails == MayFail /\ UNCHANGED todo

Put(m) == Len(queue) < QueueDepth /\ queue' = Append(queue, m)

\* mq_send blocks while the queue is full.
SendNext(r) ==
  /\ todo[r] # <<>> /\ Head(todo[r])[1] = "send"
  /\ Put(Head(todo[r])[2])
  /\ todo' = [todo EXCEPT ![r] = Tail(@)]
  /\ UNCHANGED camera

\* read_ptz, and the distance to the position asked for.  The message keeps where
\* the camera was and the angles asked for, which the program does not send.
ReadPosition(r) ==
  /\ todo[r] # <<>> /\ Head(todo[r])[1] \in {"jump-abs", "jump-rel"}
  /\ LET xy   == Head(todo[r])[2]
         abs  == Head(todo[r])[1] = "jump-abs"
         now  == Degrees(camera.pos)
         jump == IF abs THEN <<JumpTo(xy, camera.pos), camera.pos, xy>>
                 ELSE <<JumpBy(xy), camera.pos, <<now[1] + xy[1], now[2] + xy[2]>> >>
     IN  todo' = [todo EXCEPT ![r] = Send("jump", jump) \o Tail(@)]
  /\ UNCHANGED <<queue, camera>>

\* get-pos prints what it read.
PrintPosition(r) ==
  /\ todo[r] # <<>> /\ Head(todo[r])[1] = "get-pos"
  /\ todo' = [todo EXCEPT ![r] = Tail(@)]
  /\ UNCHANGED <<queue, camera>>

\* A file is sent as it is: any message.
ReadFile(r) ==
  /\ todo[r] # <<>> /\ Head(todo[r])[1] = "file"
  /\ todo' = [todo EXCEPT ![r] = <<<<"send", Head(@)[2]>>>> \o Tail(@)]
  /\ UNCHANGED <<queue, camera>>

\* If the position or the file cannot be read the program ends there.
ReadFails(r) ==
  /\ MayFail
  /\ todo[r] # <<>> /\ Head(todo[r])[1] \in {"jump-abs", "jump-rel", "get-pos", "file"}
  /\ todo' = [todo EXCEPT ![r] = <<>>]
  /\ UNCHANGED <<queue, camera>>

RunStep(r) ==
  SendNext(r) \/ ReadPosition(r) \/ PrintPosition(r) \/ ReadFile(r) \/ ReadFails(r)

--------------------------------------------------------------------------------
(* The camera, as ipc_cmd uses it; what it does with a setting is left out. *)

Clamp(n, max) == IF n < 0 THEN 0 ELSE IF n > max THEN max ELSE n
Moved(pos, jump) ==
  <<Clamp(pos[1] + Round((jump[1] - 50) * 911, 100), MaxX),
    Clamp(pos[2] + Round((jump[2] - 50) * 694, 100), MaxY)>>

\* "in the first available position" (print_usage).
Free(presets) == {s \in Slots : presets[s] = NoPreset}
First(S) == CHOOSE s \in S : \A t \in S : s <= t

After(cam, m) ==
  CASE m[1] = "jump" -> [cam EXCEPT !.pos = Moved(@, m[2][1])]
    [] m[1] = "move" -> [cam EXCEPT !.moving = m[2]]
    [] m[1] = "goto" -> IF m[2] \in Slots /\ cam.presets[m[2]] # NoPreset
                          THEN [cam EXCEPT !.pos = cam.presets[m[2]]] ELSE cam
    [] m[1] = "add" -> IF Free(cam.presets) = {} THEN cam
                       ELSE [cam EXCEPT !.presets[First(Free(cam.presets))] = cam.pos]
    [] m[1] = "remove" -> [cam EXCEPT !.presets[m[2]] = NoPreset]
    [] OTHER -> cam

Handle ==
  /\ queue # <<>>
  /\ camera' = After(camera, Head(queue))
  /\ queue' = Tail(queue)
  /\ UNCHANGED todo

--------------------------------------------------------------------------------
(* Properties *)

CmdTypeOK ==
  /\ DOMAIN todo = Procs
  /\ Len(queue) <= QueueDepth
  /\ camera.pos \in Positions
  /\ camera.moving \in DOMAIN Opposite
  /\ \A s \in Slots : camera.presets[s] \in Positions \cup {NoPreset}

\* Within a degree, in tenths.
Near(a, b) == a[1] - b[1] \in -10..10 /\ a[2] - b[2] \in -10..10
InRange(xy) == xy[1] \in 0..3600 /\ xy[2] \in 0..1800

\* "move PTZ to ABS_POSITION (x,y) in degrees" (print_usage): a jump that the
\* camera carries out from where it was when ipc_cmd read the position ends within
\* a degree of what was asked for, in the degrees that get-pos prints, on every
\* model: two roundings, the motors' steps and the flip of the image cancel out.
JumpLands ==
  [][/\ queue # <<>> /\ Head(queue)[1] = "jump" /\ queue' = Tail(queue)
     /\ Head(queue)[2][2] = camera.pos
     /\ InRange(Head(queue)[2][3])
     => Near(Degrees(camera'.pos), Head(queue)[2][3])]_cmdVars
================================================================================
