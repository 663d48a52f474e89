------------------------------- MODULE MqttConfig -------------------------------
(***************************************************************************)
(* mqtt-config (src/mqtt-config/mqtt-config): one thread that connects to  *)
(* the broker, subscribes, and writes each setting that arrives into a     *)
(* configuration file or passes it to ipc_cmd.  The web interface edits    *)
(* the same file with sed (www/httpd/cgi-bin/set_configs.sh).              *)
(*                                                                         *)
(* The file is system.conf: a value for each of its keys, Absent when the  *)
(* line is gone.  It is shorter than the buffer of stdio, so that it is    *)
(* read at once and written at once when it is closed.                     *)
(***************************************************************************)
EXTENDS Integers, Sequences, FiniteSets, TLC

CONSTANTS
  FileKeys,     \* the keys of the file
  FirstFile,    \* the file at the start
  Settings,     \* what is published: <<file, key, value>>
  Edits,        \* what the web interface sets: <<key, value>>, without an = in it
  Number,       \* what strtol reads of a value that begins with a number
  Absent,       \* the value of a line that is gone
  MayFail,      \* whether opening a file may fail
  MaxPublished, \* bound: settings published
  MaxEdits,     \* bound: edits by the web interface
  MaxFaults     \* bound: changes of the broker, and connections lost

Empty == ""

ASSUME MqttAssumption ==
  /\ FirstFile \in [FileKeys -> STRING]
  /\ \A s \in Settings : s[3] \in STRING
  /\ \A e \in Edits : e[2] \in STRING
  /\ Absent \notin STRING
  /\ MayFail \in BOOLEAN
  /\ MaxPublished \in Nat /\ MaxEdits \in Nat /\ MaxFaults \in Nat

VARIABLES
  pc,         \* where mqtt-config is
  run,        \* run: cleared by the signal handler
  entered,    \* whether main is in its loop
  conn,       \* conn_state
  setting,    \* the setting being written to the file
  copy,       \* the temporary file
  target,     \* the file as opened for writing: its number
  broker,     \* "up", "refuses" connections, or "away"
  link,       \* the connection: "none", "up", "lost"
  connack,    \* the answer to it: "none" (not sent, or seen), "ok", "refused"
  subscribed, \* whether the broker sends settings over it
  unasked,    \* history: subscribing failed on this connection, though it was there
  inbox,      \* the settings under way
  file,       \* the configuration file
  number,     \* the number (inode) of the file at that path
  edit,       \* the edit the web interface is at, and the file it has read
  published, edits, faults, \* counts for the bounds
  wanted,     \* history: the value last set, for each key
  overlapped, \* history: the two writers were at work at once, or one failed
  crashed     \* history: mqtt-config ended by a signal of its own

client == <<pc, run, entered, conn>>
replace == <<setting, copy, target>>
network == <<broker, link, connack, subscribed, unasked, inbox>>
disk == <<file, number, wanted, overlapped>>
editor == <<edit, edits>>
vars == <<client, replace, network, disk, editor, published, faults, crashed>>

NoEdit == <<>>
NoSetting == <<>>

Init ==
  /\ pc = "start"
  /\ run = TRUE
  /\ entered = FALSE
  /\ conn = "disconnected"
  /\ setting = NoSetting
  /\ copy = FirstFile
  /\ target = 0
  /\ broker = "up"
  /\ link = "none"
  /\ connack = "none"
  /\ subscribed = FALSE
  /\ unasked = FALSE
  /\ inbox = <<>>
  /\ file = FirstFile
  /\ number = 1
  /\ edit = NoEdit
  /\ published = 0 /\ edits = 0 /\ faults = 0
  /\ wanted = FirstFile
  /\ overlapped = FALSE
  /\ crashed = FALSE

--------------------------------------------------------------------------------
(* The table of settings (validate.c). *)

Rows(keys, row) == [k \in keys |-> row]
Row(f, type, options, command) ==
  [file |-> f, type |-> type, options |-> options, command |-> command]

SystemRows ==
  Rows({"HTTPD", "TELNETD", "SSHD", "FTPD", "BUSYBOX_FTPD", "DISABLE_CLOUD",
        "REC_WITHOUT_CLOUD", "MQTT", "RTSP", "RTSP_ALT", "SPEAKER_AUDIO", "SNAPSHOT",
        "SNAPSHOT_VIDEO", "SNAPSHOT_LOW", "TIMELAPSE", "TIMELAPSE_FTP", "ONVIF",
        "ONVIF_WSDD", "ONVIF_WM_SNAPSHOT", "TIME_OSD", "NTPD", "PROXYCHAINSNG",
        "SWAP_FILE", "FTP_UPLOAD", "FTP_DIR_TREE", "FTP_FILE_DELETE_AFTER_UPLOAD",
        "DEBUG_LOG"}, Row("system", "bool", {}, "none"))
  @@ Rows({"RTSP_STREAM", "ONVIF_PROFILE"},
          Row("system", "enum", {"high", "low", "both"}, "none"))
  @@ Rows({"RTSP_AUDIO"},
          Row("system", "enum", {"no", "pcm", "alaw", "ulaw", "aac"}, "none"))
  @@ Rows({"RTSP_AUDIO_NR_LEVEL"}, Row("system", "int", 0..30, "none"))
  @@ Rows({"TIMELAPSE_DT"}, Row("system", "int", 1..1440, "none"))
  @@ Rows({"SWAP_SWAPPINESS", "FREE_SPACE"}, Row("system", "int", 0..100, "none"))
  @@ Rows({"RTSP_PORT", "HTTPD_PORT"}, Row("system", "int", 1..65535, "none"))
  @@ Rows({"TIMELAPSE_VDT", "ONVIF_NETIF", "USERNAME", "PASSWORD", "TIMEZONE",
           "FTP_HOST", "FTP_DIR", "SSH_PASSWORD", "CRONTAB"},
          Row("system", "string", {}, "none"))
  \* A comma is missing in these rows: they end before their last column.
  @@ Rows({"NTP_SERVER", "FTP_USERNAME", "FTP_PASSWORD"},
          Row("system", "string", {}, "missing"))

CameraRows ==
  Rows({"SWITCH_ON", "SAVE_VIDEO_ON_MOTION", "MOTION_DETECTION", "AI_HUMAN_DETECTION",
        "AI_VEHICLE_DETECTION", "AI_ANIMAL_DETECTION", "FACE_DETECTION",
        "BABY_CRYING_DETECT", "LED", "ROTATE", "IR", "SOUND_DETECTION",
        "MOTION_TRACKING"}, Row("camera", "bool", {}, "command"))
  @@ Rows({"SENSITIVITY"}, Row("camera", "enum", {"low", "medium", "high"}, "command"))
  @@ Rows({"SOUND_SENSITIVITY"}, Row("camera", "int", 30..90, "command"))
  @@ Rows({"CRUISE"}, Row("camera", "enum", {"no", "presets", "360"}, "command"))
  @@ Rows({"MOVE"}, Row("ptz", "enum", {"right", "left", "down", "up", "stop"}, "command"))
  @@ Rows({"GOTO_PRESET", "REMOVE_PRESET"}, Row("ptz", "int", 0..7, "command"))
  @@ Rows({"ADD_PRESET", "SET_HOME_POSITION"}, Row("ptz", "string", {}, "command"))

Table == SystemRows @@ CameraRows

\* validate_param; the length of a string is left out.
Validated(s) ==
  /\ s[2] \in DOMAIN Table
  /\ LET row == Table[s[2]]
     IN  /\ s[1] = row.file
         /\ CASE row.type = "bool" -> s[3] \in {"yes", "no", "on", "off"}
              [] row.type = "int" -> s[3] \in DOMAIN Number /\ Number[s[3]] \in row.options
              [] row.type = "string" -> TRUE
              [] row.type = "enum" -> s[3] \in row.options

\* The last column of the row (extract_param), once the setting is validated.
Command(s) == Table[s[2]].command

--------------------------------------------------------------------------------
(* The connection. *)

\* main: without its configuration file the program ends.
Start ==
  /\ pc = "start"
  /\ \/ pc' = "connect"
     \/ MayFail /\ pc' = "exited"
  /\ UNCHANGED <<run, entered, conn, replace, network, disk, editor, published, faults,
                 crashed>>

\* mosquitto_connect, tried again until the broker is there; run is not tested.
Connect ==
  /\ pc = "connect"
  /\ broker # "away"
  /\ link' = "up"
  /\ connack' = IF broker = "refuses" THEN "refused" ELSE "ok"
  /\ subscribed' = FALSE
  /\ unasked' = FALSE
  /\ inbox' = <<>>
  /\ conn' = "connecting"
  /\ pc' = "subscribe"
  /\ UNCHANGED <<run, entered, replace, broker, disk, editor, published, faults, crashed>>

\* mqtt_connect returns: to the loop of main, or before it.
Back == IF entered THEN "loop" ELSE "test"

\* Variant of Subscribe: not after a second connection.
SubscribeOnce ==
  /\ pc = "subscribe"
  /\ subscribed' = (link = "up" /\ connack # "refused" /\ faults = 0)
  /\ conn' = "connected" /\ pc' = "first"
  /\ UNCHANGED <<run, entered, replace, broker, link, connack, unasked, inbox, disk, editor,
                 published, faults, crashed>>

\* mosquitto_subscribe does not wait for the answer of the broker.  If it finds the
\* connection lost, mqtt_connect returns, and is called again; if it fails otherwise (for
\* want of memory), the answer may reach the loop of main first: connected, then.
Subscribe ==
  /\ pc = "subscribe"
  /\ \/ /\ subscribed' = (link = "up" /\ connack # "refused")
        /\ conn' = "connected" /\ pc' = "first"
        /\ UNCHANGED unasked
     \/ /\ link = "lost" \/ MayFail
        /\ unasked' = (link = "up")
        /\ pc' = Back /\ UNCHANGED <<conn, subscribed>>
  /\ UNCHANGED <<run, entered, replace, broker, link, connack, inbox, disk, editor, published,
                 faults, crashed>>

\* One mosquitto_loop: in mqtt_connect ("first"), which goes on to connect unless
\* connected and then back to main, or in main ("loop"), which tests run.
InLoop == pc \in {"first", "loop"}
AfterLoop(c) == IF pc = "loop" THEN "test" ELSE IF c = "disconnected" THEN "connect" ELSE Back

\* connect_callback
Connack ==
  /\ InLoop
  /\ link = "up" /\ connack # "none"
  /\ conn' = IF connack = "ok" THEN "connected" ELSE "disconnected"
  /\ link' = IF connack = "ok" THEN "up" ELSE "none"
  /\ connack' = "none"
  /\ pc' = AfterLoop(conn')
  /\ UNCHANGED <<run, entered, replace, broker, subscribed, unasked, inbox, disk, editor,
                 published, faults, crashed>>

\* Variant of Lost: the callback leaves conn_state alone.
LostUnnoticed ==
  /\ InLoop
  /\ link = "lost"
  /\ link' = "none" /\ connack' = "none"
  /\ pc' = AfterLoop(conn)
  /\ UNCHANGED <<run, entered, conn, replace, broker, subscribed, unasked, inbox, disk, editor,
                 published, faults, crashed>>

\* disconnect_callback
Lost ==
  /\ InLoop
  /\ link = "lost"
  /\ conn' = "disconnected"
  /\ link' = "none" /\ connack' = "none"
  /\ pc' = AfterLoop(conn')
  /\ UNCHANGED <<run, entered, replace, broker, subscribed, unasked, inbox, disk, editor,
                 published, faults, crashed>>

\* Nothing arrived within the second the loop waits: what was sent may be under way.
Nothing ==
  /\ InLoop
  /\ link # "lost"
  /\ pc' = AfterLoop(conn)
  /\ UNCHANGED <<run, entered, conn, replace, network, disk, editor, published, faults,
                 crashed>>

\* Variant of Test: the loop does not look at run.
TestForever ==
  /\ pc = "test" /\ entered' = TRUE
  /\ IF conn = "connected" THEN pc' = "loop" /\ UNCHANGED conn
     ELSE pc' = "connect" /\ conn' = "disconnected"
  /\ UNCHANGED <<run, replace, network, disk, editor, published, faults, crashed>>

\* main: while(run), mqtt_check_connection.
Test ==
  /\ pc = "test"
  /\ entered' = TRUE
  /\ IF ~run THEN pc' = "exited" /\ UNCHANGED conn
     ELSE IF conn = "connected" THEN pc' = "loop" /\ UNCHANGED conn
     ELSE pc' = "connect" /\ conn' = "disconnected"
  /\ UNCHANGED <<run, replace, network, disk, editor, published, faults, crashed>>

--------------------------------------------------------------------------------
(* A setting arrives. *)

Busy == pc \in {"copied", "opened"}
\* In the loop of main: what mqtt_connect waits for is the answer of the broker.
Arrives == pc = "loop" /\ link = "up" /\ connack = "none" /\ inbox # <<>>

\* Without a key, without a value or not validated: nothing is done.
Ignore ==
  /\ Arrives
  /\ LET s == Head(inbox)
     IN  s[2] = Empty \/ s[3] = Empty \/ ~Validated(s)
  /\ inbox' = Tail(inbox)
  /\ pc' = "test"
  /\ UNCHANGED <<run, entered, conn, replace, broker, link, connack, subscribed, unasked, disk,
                 editor, published, faults, crashed>>

ToDo(command) ==
  /\ Arrives
  /\ Head(inbox)[2] # Empty /\ Head(inbox)[3] # Empty
  /\ Validated(Head(inbox)) /\ Command(Head(inbox)) = command
  /\ inbox' = Tail(inbox)
  /\ UNCHANGED <<run, entered, conn, broker, link, connack, subscribed, unasked, editor,
                 published, faults>>

\* The command of a camera setting is copied into an array of two characters:
\* undefined, so that it runs or the program ends.
RunCommand ==
  /\ ToDo("command")
  /\ \/ pc' = "test" /\ UNCHANGED crashed
     \/ pc' = "exited" /\ crashed' = TRUE
  /\ UNCHANGED <<replace, disk>>

\* strcpy from the column that is not there.
NullColumn ==
  /\ ToDo("missing")
  /\ pc' = "exited" /\ crashed' = TRUE
  /\ UNCHANGED <<replace, disk>>

\* A line is one that config.c reads as a key and a value: none without a value.
Read(f, k) == f[k] \notin {Absent, Empty}

\* Variant of Replaced: the key is compared as a prefix of nothing: all lines go.
ReplacedAll(f, s) == [k \in FileKeys |-> IF Read(f, k) THEN s[3] ELSE f[k]]

\* The temporary file: the lines of the file, with the one of the key replaced.
Replaced(f, s) == [k \in FileKeys |-> IF k = s[2] /\ Read(f, k) THEN s[3] ELSE f[k]]

\* config_replace, up to the end of the first loop.
Copy ==
  /\ ToDo("none")
  /\ \/ /\ setting' = Head(inbox)
        /\ copy' = Replaced(file, Head(inbox))
        /\ pc' = "copied"
        /\ overlapped' = (overlapped \/ edit # NoEdit)
     \/ /\ MayFail
        /\ pc' = "test" /\ UNCHANGED <<setting, copy, overlapped>>
  /\ UNCHANGED <<target, file, number, wanted, crashed>>

Gone == [k \in FileKeys |-> Absent]

\* fopen(filename, "w") empties the file.  If it cannot, the copy was for nothing.
OpenFile ==
  /\ pc = "copied"
  /\ \/ /\ file' = Gone
        /\ target' = number
        /\ pc' = "opened" /\ UNCHANGED <<setting, copy, overlapped>>
     \/ /\ MayFail
        /\ pc' = "test" /\ setting' = NoSetting /\ copy' = FirstFile
        /\ overlapped' = TRUE /\ UNCHANGED <<file, target>>
  /\ UNCHANGED <<run, entered, conn, network, number, wanted, editor, published, faults,
                 crashed>>

\* fclose writes it, to the file that was opened; the temporary file goes.  If that
\* one cannot be read, the file stays empty.
WriteBack ==
  /\ pc = "opened"
  /\ \/ /\ file' = IF target = number THEN copy ELSE file
        /\ UNCHANGED overlapped
     \/ MayFail /\ overlapped' = TRUE /\ UNCHANGED file
  /\ wanted' = IF Read(wanted, setting[2]) THEN [wanted EXCEPT ![setting[2]] = setting[3]]
                                           ELSE wanted
  /\ setting' = NoSetting /\ target' = 0 /\ copy' = FirstFile
  /\ pc' = "test"
  /\ UNCHANGED <<run, entered, conn, network, number, editor, published, faults, crashed>>

Client ==
  \/ Start \/ Connect \/ Subscribe \/ Connack \/ Lost \/ Nothing \/ Test
  \/ Ignore \/ RunCommand \/ NullColumn \/ Copy \/ OpenFile \/ WriteBack

--------------------------------------------------------------------------------
(* The others. *)

\* SIGTERM (service.sh, or the end of the system).
Terminate ==
  /\ pc # "exited" /\ run
  /\ run' = FALSE
  /\ UNCHANGED <<pc, entered, conn, replace, network, disk, editor, published, faults,
                 crashed>>

Publish(s) ==
  /\ link = "up" /\ subscribed
  /\ published < MaxPublished
  /\ published' = published + 1
  /\ inbox' = Append(inbox, s)
  /\ UNCHANGED <<client, replace, broker, link, connack, subscribed, unasked, disk, editor,
                 faults, crashed>>

\* The broker goes, comes back, or refuses; or only the connection is lost.
Fault(b) ==
  /\ faults < MaxFaults
  /\ faults' = faults + 1
  /\ broker' = b
  /\ IF link = "up" THEN link' = "lost" ELSE UNCHANGED link
  /\ connack' = "none" /\ subscribed' = FALSE /\ inbox' = <<>>
  /\ UNCHANGED <<client, replace, unasked, disk, editor, published, crashed>>

\* sed -i reads the file ...
EditRead(e) ==
  /\ edit = NoEdit
  /\ edits < MaxEdits
  /\ edits' = edits + 1
  /\ edit' = <<e, [file EXCEPT ![e[1]] = IF @ = Absent THEN @ ELSE e[2]]>>
  /\ overlapped' = (overlapped \/ Busy)
  /\ UNCHANGED <<client, replace, network, file, number, wanted, published, faults, crashed>>

\* ... and puts its result in the place of it.
EditWrite ==
  /\ edit # NoEdit
  /\ file' = edit[2]
  /\ number' = number + 1
  /\ wanted' = [wanted EXCEPT ![edit[1][1]] = edit[1][2]]
  /\ edit' = NoEdit
  /\ UNCHANGED <<client, replace, network, edits, overlapped, published, faults, crashed>>

Next ==
  \/ Client \/ Terminate \/ EditWrite
  \/ \E s \in Settings : Publish(s)
  \/ \E b \in {"up", "refuses", "away"} : Fault(b)
  \/ \E e \in Edits : EditRead(e)

Spec == Init /\ [][Next]_vars

\* mqtt-config is scheduled; nobody has to publish, to edit or to stop it.
FairSpec == Spec /\ WF_vars(Client)

--------------------------------------------------------------------------------
(* Properties *)

TypeOK ==
  /\ pc \in {"start", "connect", "subscribe", "first", "loop", "test", "copied", "opened",
             "exited"}
  /\ conn \in {"disconnected", "connecting", "connected"}
  /\ link \in {"none", "up", "lost"} /\ connack \in {"none", "ok", "refused"}
  /\ run \in BOOLEAN /\ entered \in BOOLEAN /\ subscribed \in BOOLEAN
  /\ unasked \in BOOLEAN
  /\ inbox \in Seq(Settings)
  /\ setting \in Settings \cup {NoSetting}
  /\ DOMAIN file = FileKeys /\ DOMAIN copy = FileKeys
  /\ wanted \in [FileKeys -> STRING]
  /\ edit # NoEdit => edit[1] \in Edits /\ DOMAIN edit[2] = FileKeys
  /\ Busy => setting \in Settings
  /\ number \in Nat /\ target \in Nat

\* The program never waits for settings on a connection without a subscription:
\* when it takes itself for connected, the broker has accepted it, and the
\* connection is not lost, the broker sends it what is published (mqtt_connect
\* subscribes before the answer, and a lost connection is made again from there).  Where
\* subscribing failed on a connection that is there, main may take the answer for a
\* connection all the same, and nothing subscribes until that one is lost.
NotDeaf ==
  InLoop /\ conn = "connected" /\ connack = "none" /\ link # "lost" /\ ~unasked
  => link = "up" /\ subscribed

\* When the two writers of the file take turns and can open it, it always ends up with
\* every line it had, and with the value set last in each: config_replace changes the line of
\* its key and no other (a line without a value stays as it is).
SettingsKept == ~Busy /\ edit = NoEdit /\ ~overlapped => file = wanted

\* Once the broker stays, the program is subscribed again and again, however often it
\* went or refused before and wherever that met the program, unless it is told to stop
\* or crashes (mqtt_check_connection and mqtt_connect), or subscribing failed without the
\* connection being lost.
Reconnects ==
  <>[](broker = "up" /\ run) => []<>(subscribed \/ unasked \/ pc = "exited")

\* Told to stop while the broker answers, the program ends (the loop of main; the
\* loop of mqtt_connect does not look at run).
TerminateStops == ~run ~> (pc = "exited" \/ broker # "up")
================================================================================
