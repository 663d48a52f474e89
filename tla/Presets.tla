--------------------------------- MODULE Presets ---------------------------------
(***************************************************************************)
(* The PTZ presets (script/ptz_presets.sh, run by ONVIF and by the web     *)
(* interface, www/httpd/cgi-bin/preset.sh) and ptz.sh.  The camera has     *)
(* numbered positions without names; the script keeps their names in a     *)
(* table of its own, a file with a line for each number, and tells the     *)
(* camera with ipc_cmd.  Several runs read and rewrite the file.           *)
(***************************************************************************)
EXTENDS IpcCmd

CONSTANTS
  Names,       \* the names a preset can be given
  Lines,       \* the command lines of ipc_cmd that others run
  Requests,    \* the requests the script, or ptz.sh, is run with
  MaxRequests, \* bound: runs of a script or of ipc_cmd by itself
  NoName,      \* a line of the table without a name
  Torn         \* what the end of a line may look like when it is taken for a line; an end
               \* that does not look like one is skipped

ASSUME PresetsAssumption ==
  /\ NoName \notin Names
  /\ "Home" \in Names
  /\ \A q \in Requests : q[1] \in {"add", "nameless", "del", "home", "go", "move"}
  /\ MaxRequests \in Nat
  /\ Torn \subseteq Slots \X (Names \cup {NoName})

\* What others run; a file that is sent holds no jump, and no unknown direction.
ASSUME LinesAssumption ==
  \A l \in Lines :
    /\ Len(l) \in Nat /\ DOMAIN l = 1..Len(l)
    /\ Given(l, "file") # {} =>
         /\ Stored(l, "file")[1] # "jump"
         /\ Stored(l, "file")[1] = "move" => Stored(l, "file")[2] \in DOMAIN Opposite

\* The presets of the camera are set and removed by the script only: ONVIF and the web
\* interface run it too (system.sh:383-386).  A position is not the absence of one.
ASSUME OnlyTheScript ==
  /\ NoPreset \notin Positions
  /\ \A l \in Lines :
       /\ \A v \in {"add_preset", "set_home_position", "remove_preset"} : Given(l, v) = {}
       /\ Given(l, "file") # {} => Stored(l, "file")[1] \notin {"add", "remove"}

VARIABLES
  table,      \* the file: a sequence of <<number, name>>, one for each line
  work,       \* what each script has still to do
  phase,      \* whether a script works on the table: "no", "read", "write"
  at,         \* the line it reads or writes next
  presets,    \* PRESET_0 .. PRESET_7
  firstAvail, \* FIRST_AVAIL
  astray,     \* whether the file was emptied or overwritten while the script reads it
  requests,   \* number of runs so far
  byItself,   \* history: whether a run is ipc_cmd by itself, not a script
  overlapped, \* history: two runs were under way at once
  parted,     \* history: a script has changed its table and not the camera, or
              \* the camera and not its table
  loose       \* history: the last move is nobody's to stop: an ipc_cmd by itself
              \* has sent it, or ptz.sh could not start its stop

tableVars == <<table, phase, at, presets, firstAvail, astray>>
runVars == <<work, requests, byItself, overlapped>>
vars == <<cmdVars, tableVars, runVars, parted, loose>>

Line(s) == <<s, NoName>>
NoPresets == [s \in Slots |-> NoName]

PresetsInit ==
  /\ CmdInit
  /\ table = [k \in 1..NumPresets |-> Line(k - 1)]
  /\ work = [r \in Procs |-> <<>>]
  /\ phase = [r \in Procs |-> "no"]
  /\ at = [r \in Procs |-> 1]
  /\ presets = [r \in Procs |-> NoPresets]
  /\ firstAvail = [r \in Procs |-> NumPresets]
  /\ astray = [r \in Procs |-> FALSE]
  /\ requests = 0
  /\ byItself = [r \in Procs |-> FALSE]
  /\ overlapped = FALSE
  /\ parted = FALSE
  /\ loose = FALSE

--------------------------------------------------------------------------------
(* The scripts: calls of ipc_cmd and of add_del_preset. *)

Plain(s) == <<"plain", s>>

\* `[ "$2" == "$I" ] || [ "$2" == "all" ]`: the texts are compared.
Deletes(text, s) == text \in {Plain(s), AllWord}

Call(o, a) == <<"call", <<<<o, a>>>>>>

\* Variant of MoveScript: the stop is left to somebody else.
MoveScriptOnce(d) == << Call("move", d) >>

\* ptz.sh: move, sleep, stop.
MoveScript(d) == << Call("move", d), Call("move", "stop") >>

\* `[ $NUM -lt 0 ] || [ $NUM -gt 7 ]`: a text that test does not read as a number passes.
OutOfRange(text) == text[1] \in {"plain", "other"} /\ Read(text) \notin Slots

\* Without a name the arguments of add_del_preset shift, and the pan angle becomes the
\* name; ipc_cmd -P misses its argument, and sends nothing.
Script(q) ==
  CASE q[1] = "add" ->
         << Call("get-pos", ""), <<"add", q[2]>>, Call("add_preset", q[2]) >>
    [] q[1] = "nameless" ->
         << Call("get-pos", ""), <<"add", q[2]>>, Call("missing argument", "") >>
    [] q[1] = "del" -> << <<"del", q[2]>>, Call("remove_preset", q[2]) >>
    [] q[1] = "home" ->
         << <<"del", Plain(0)>>, <<"add", "Home">>, Call("set_home_position", "") >>
    [] q[1] = "go" -> IF OutOfRange(q[2]) THEN <<>> ELSE << Call("preset", q[2]) >>
    [] q[1] = "move" -> MoveScript(q[2])

\* Only one of the two takes the request: a preset without a name, or a number that
\* ipc_cmd reads and the script, which compares texts, does not know.
Parts(q) ==
  \/ q[1] = "nameless"
  \/ q[1] = "del" /\ Accepted("remove_preset", q[2]) /\ \A s \in Slots : ~Deletes(q[2], s)

Idle(r) == work[r] = <<>> /\ todo[r] = <<>>
Goes(r, name) == phase[r] = "no" /\ todo[r] = <<>> /\ work[r] # <<>> /\ Head(work[r])[1] = name

Start(r) ==
  /\ Idle(r)
  /\ requests < MaxRequests
  /\ requests' = requests + 1
  /\ overlapped' = (overlapped \/ \E p \in Procs : ~Idle(p))
  /\ \/ \E q \in Requests :
          /\ work' = [work EXCEPT ![r] = Script(q)]
          /\ byItself' = [byItself EXCEPT ![r] = FALSE]
          /\ parted' = (parted \/ Parts(q))
          /\ UNCHANGED todo
     \/ \E l \in Lines :
          /\ Begin(r, l) \/ BeginFails
          /\ byItself' = [byItself EXCEPT ![r] = TRUE]
          /\ UNCHANGED <<work, parted>>
  /\ UNCHANGED <<queue, camera, tableVars, loose>>

\* Run ipc_cmd, and wait for its end.
CallCmd(r) ==
  /\ Goes(r, "call")
  /\ Begin(r, Head(work[r])[2])
  /\ work' = [work EXCEPT ![r] = Tail(@)]
  /\ UNCHANGED <<queue, camera, tableVars, requests, byItself, overlapped, parted, loose>>

\* ipc_cmd fails at its start: the script goes on, unless it has asked for the
\* position, which is then empty.
CallFails(r) ==
  /\ Goes(r, "call")
  /\ BeginFails
  /\ LET line == Head(work[r])[2]
     IN  /\ work' = [work EXCEPT ![r] = IF line[1][1] = "get-pos" THEN <<>> ELSE Tail(@)]
         /\ parted' = (parted \/ line[1][1] \in {"add_preset", "remove_preset",
                                                "set_home_position"})
         /\ loose' = (loose \/ line[1] = <<"move", "stop">>)
  /\ UNCHANGED <<queue, camera, tableVars, requests, byItself, overlapped>>

\* ipc_cmd -g prints nothing: the script says so and ends.
PositionFails(r) ==
  /\ ReadFails(r)
  /\ work' = [work EXCEPT ![r] = <<>>]
  /\ UNCHANGED <<tableVars, requests, byItself, overlapped, parted, loose>>

\* A message of a run goes into the queue: a stop is behind every move before it.
SendMessage(r) ==
  /\ SendNext(r)
  /\ LET m == Head(todo[r])[2]
     IN  loose' = IF m[1] # "move" THEN loose
                  ELSE m[2] # "stop" /\ (loose \/ byItself[r])
  /\ UNCHANGED <<tableVars, runVars, parted>>

--------------------------------------------------------------------------------
(* add_del_preset. *)

Open(r) ==
  /\ Goes(r, "add") \/ Goes(r, "del")
  /\ phase' = [phase EXCEPT ![r] = "read"]
  /\ UNCHANGED <<cmdVars, table, at, presets, firstAvail, astray, runVars, parted, loose>>

\* The end of add_del_preset; the next call sets these variables again.
Return(r, rest) ==
  /\ phase' = [phase EXCEPT ![r] = "no"]
  /\ at' = [at EXCEPT ![r] = 1]
  /\ presets' = [presets EXCEPT ![r] = NoPresets]
  /\ firstAvail' = [firstAvail EXCEPT ![r] = NumPresets]
  /\ astray' = [astray EXCEPT ![r] = FALSE]
  /\ work' = [work EXCEPT ![r] = rest]

\* The script goes on behind add_del_preset: "add_preset" ends when the name was
\* refused, "set_home_position" does not look.
AfterRefusal(w) == IF w[1] = <<"add", "Home">> /\ w[2][2][1][1] = "set_home_position"
                     THEN Tail(w) ELSE <<>>

\* Variant of Kept: the last free line.
KeptLastFree(avail, l) == IF l[2] = NoName THEN l[1] ELSE avail

\* FIRST_AVAIL after a line.
Kept(avail, l) == IF l[2] = NoName /\ l[1] < avail THEN l[1] ELSE avail

\* Variant of SameName: names are not compared.
SameNameNever(w, l) == FALSE
SameName(w, l) == w = <<"add", l[2]>>

\* The lines a script may read next: one that is astray finds itself anywhere.
NextLines(r) ==
  IF astray[r] THEN Torn \cup {table[k] : k \in DOMAIN table}
               ELSE {table[k] : k \in {at[r]} \cap DOMAIN table}

\* One turn of the loop that reads the file.  "Home" that is there already is refused,
\* and the camera sets it all the same.
ReadLine(r) ==
  /\ phase[r] = "read"
  /\ \E l \in NextLines(r) :
       IF SameName(Head(work[r]), l)
         THEN /\ Return(r, AfterRefusal(work[r]))
              /\ parted' = (parted \/ AfterRefusal(work[r]) # <<>>)
         ELSE /\ presets' = [presets EXCEPT ![r][l[1]] = l[2]]
              /\ firstAvail' = [firstAvail EXCEPT ![r] = Kept(@, l)]
              /\ at' = [at EXCEPT ![r] = IF astray[r] THEN @ ELSE @ + 1]
              /\ UNCHANGED <<phase, astray, work, parted>>
  /\ UNCHANGED <<cmdVars, table, requests, byItself, overlapped, loose>>

NewTable(r, what, arg) ==
  IF what = "add" THEN [presets[r] EXCEPT ![firstAvail[r]] = arg]
  ELSE [s \in Slots |-> IF Deletes(arg, s) THEN NoName ELSE presets[r][s]]

\* The end of the file: the new table, or the refusal of a full one.
Change(r) ==
  /\ phase[r] = "read" /\ (astray[r] \/ at[r] > Len(table))
  /\ IF Head(work[r])[1] = "add" /\ firstAvail[r] = NumPresets
       THEN Return(r, AfterRefusal(work[r]))
       ELSE /\ phase' = [phase EXCEPT ![r] = "write"]
            /\ at' = [at EXCEPT ![r] = 0]
            /\ presets' = [presets EXCEPT
                 ![r] = NewTable(r, Head(work[r])[1], Head(work[r])[2])]
            /\ astray' = [astray EXCEPT ![r] = FALSE]
            /\ UNCHANGED <<firstAvail, work>>
  /\ UNCHANGED <<cmdVars, table, requests, byItself, overlapped, parted, loose>>

\* The file changes under the scripts that are reading it.
Misled(p) == astray[p] \/ phase[p] = "read"

\* The first echo empties the file ...
Truncate(r) ==
  /\ phase[r] = "write" /\ at[r] = 0
  /\ table' = <<>>
  /\ at' = [at EXCEPT ![r] = 1]
  /\ astray' = [p \in Procs |-> Misled(p)]
  /\ UNCHANGED <<cmdVars, phase, presets, firstAvail, runVars, parted, loose>>

\* ... and writes its line at the front, over what others may have written since: the
\* lines from k on are left, and perhaps the end of the one before ...
WriteInFront(line) ==
  \/ table' = <<line>>
  \/ \E k \in 2..Len(table) + 1, rest \in {<<>>} \cup {<<l>> : l \in Torn} :
       table' = <<line>> \o rest \o SubSeq(table, k, Len(table))

\* Variant of Written: a line without a name is left out.
WrittenNamed(old, s, name) == IF name = NoName THEN old ELSE Append(old, <<s, name>>)
Written(old, s, name) == Append(old, <<s, name>>)

\* ... and the others append theirs.
WriteLine(r) ==
  /\ phase[r] = "write" /\ at[r] > 0
  /\ LET name == presets[r][at[r] - 1]
     IN  IF at[r] = 1 THEN WriteInFront(<<0, name>>)
                      ELSE table' = Written(table, at[r] - 1, name)
  /\ IF at[r] < NumPresets
       THEN /\ at' = [at EXCEPT ![r] = @ + 1]
            /\ astray' = [p \in Procs |-> astray[p] \/ (at[r] = 1 /\ phase[p] = "read")]
            /\ UNCHANGED <<phase, work, presets, firstAvail>>
       ELSE Return(r, Tail(work[r]))
  /\ UNCHANGED <<cmdVars, requests, byItself, overlapped, parted, loose>>

Cmd(A) == A /\ UNCHANGED <<tableVars, runVars, parted, loose>>

ScriptStep(r) ==
  \/ SendMessage(r)
  \/ Cmd(ReadPosition(r)) \/ Cmd(PrintPosition(r)) \/ Cmd(ReadFile(r))
  \/ CallCmd(r) \/ CallFails(r) \/ PositionFails(r)
  \/ Open(r) \/ ReadLine(r) \/ Change(r) \/ Truncate(r) \/ WriteLine(r)

PresetsNext ==
  \/ \E r \in Procs : Start(r) \/ ScriptStep(r)
  \/ Cmd(Handle)

PresetsSpec == PresetsInit /\ [][PresetsNext]_vars

--------------------------------------------------------------------------------
(* Properties *)

AtRest == queue = <<>> /\ \A r \in Procs : Idle(r)

LinesOf(s) == {k \in DOMAIN table : table[k][1] = s}
NameOf(s) == table[CHOOSE k \in LinesOf(s) : \A j \in LinesOf(s) : j <= k][2]

\* However many runs rewrite the file at once, and overwrite each other's lines, when
\* they are all done it has a line for every number: the run that was the last to
\* empty it has written all its lines, the first at the front and the others behind
\* (ptz_presets.sh:55-65).  What names they give is not said: with an overlap a
\* number may have several lines.
TableComplete == AtRest => \A s \in Slots : LinesOf(s) # {}

\* Runs that do not overlap never give one name to two numbers (the test of
\* add_del_preset), whatever is added, deleted and set as home.
NamesUnique ==
  AtRest /\ ~overlapped =>
    \A s, t \in Slots : NameOf(s) = NameOf(t) => s = t \/ NameOf(s) = NoName

\* Runs that do not overlap keep the names in step with the camera, though its
\* messages are handled after the run: a number has a name exactly when the camera
\* has a preset there.  The exceptions (parted): a home that the table has already, a
\* preset without a name, a number that the script and ipc_cmd read differently (255,
\* 01), and an ipc_cmd that cannot start when its script has changed the table.
TableMatchesCamera ==
  AtRest /\ ~overlapped /\ ~parted =>
    \A s \in Slots : NameOf(s) = NoName <=> camera.presets[s] = NoPreset

\* ptz.sh stops what it started: the camera never goes on moving when every request
\* is over, in whatever way they overlap (ptz.sh:20-24).  The exceptions (loose): the
\* last move was sent by an ipc_cmd by itself, as ONVIF does, which stops with another
\* (system.sh:378-382), or ptz.sh could not start its stop.
CameraStops == AtRest /\ ~loose => camera.moving = "stop"
================================================================================
