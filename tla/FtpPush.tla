-------------------------------- MODULE FtpPush --------------------------------
(***************************************************************************)
(* The FTP upload of the recordings (script/ftppush.sh) beside the script  *)
(* that keeps space on the SD card (script/clean_records.sh).              *)
(*                                                                         *)
(* Every 45 seconds the service lists the recordings and goes through the  *)
(* list.  It keeps one mark, /tmp/last_file_sent, the minute of the last   *)
(* file it has sent, and looks only at files of a later minute.  The mark  *)
(* is lost at a reboot.                                                    *)
(*                                                                         *)
(* A recording is the number its name has among the names of all, and the  *)
(* year and the rest (month to minute) of its date.  Left out: the log,    *)
(* the directories on the server, and the removal of empty directories of  *)
(* the card, which takes no recording away.  FTP_UPLOAD is "yes".          *)
(***************************************************************************)
EXTENDS Integers, FiniteSets

CONSTANTS
  MaxFiles,       \* bound: recordings the camera makes
  Date,           \* the date in the name of each
  Epoch,          \* 1970-01-01T00:00, the mark before anything was sent
  Hour,           \* the directory of each recording, one for every hour
  SortInstalled,  \* whether there is a sort command
  DeleteSettings, \* the values FTP_FILE_DELETE_AFTER_UPLOAD takes
  Missing, Empty, \* the mark without its file, and with an empty one
  UsedLimit,      \* recordings clean_records.sh leaves on the card
  ClockMayGoBack, \* whether the camera's clock may be set back
  MaxSetbacks     \* bound: the mark is set back no more after so many times

Files == 1..MaxFiles
Dates == [year : Nat, rest : Nat]

\* The test of checkFiles: the year first, then month to minute.
LaterOrSame(d, e) == d.year > e.year \/ (d.year = e.year /\ d.rest >= e.rest)
Later(d, e) == d.year > e.year \/ (d.year = e.year /\ d.rest > e.rest)

ASSUME FilesAssumption ==
  /\ MaxFiles \in Nat
  /\ Date \in [Files -> Dates]
  /\ Epoch \in Dates

\* The names sort by date, and nothing is recorded in the first minute of 1970.
ASSUME NamesAssumption ==
  /\ \A f, g \in Files : f < g =>
       \/ Date[f].year < Date[g].year
       \/ Date[f].year = Date[g].year /\ Date[f].rest <= Date[g].rest
  /\ \A f \in Files :
       \/ Epoch.year < Date[f].year
       \/ Epoch.year = Date[f].year /\ Epoch.rest < Date[f].rest

ASSUME SettingsAssumption ==
  /\ SortInstalled \in BOOLEAN
  /\ DeleteSettings \subseteq BOOLEAN
  /\ UsedLimit \in Nat
  /\ ClockMayGoBack \in BOOLEAN
  /\ MaxSetbacks \in Nat

\* What the mark is while no such file exists, and while the file is empty: the
\* shell empties it before it writes, and may be killed in between.
ASSUME MarkAssumption == Missing \notin Dates /\ Empty \notin Dates /\ Missing # Empty

VARIABLES
  present,  \* the recordings on the card
  recorded, \* history: the recordings the camera has made
  mark,     \* the contents of /tmp/last_file_sent
  pc,       \* where the service is
  last,     \* LAST_FILE_SENT, as the shell is about to write it
  todo,     \* what is left of L_FILE_LIST
  file,     \* the file the loop is at, 0 for none
  stopPc,   \* where a run of ftppush.sh stop is
  stopLast, \* LAST_FILE_SENT of that run
  delete,   \* FTP_FILE_DELETE_AFTER_UPLOAD, as checkFiles read it
  cleaning, \* clean_records.sh has found the card too full
  server,   \* the recordings on the FTP server
  sends,    \* history: how often each was sent
  removed,  \* history: what the service deleted
  skipped,  \* history: the files logged as "already sent"
  excused,  \* history: the files there is a reason for to lose, see below
  setbacks  \* history: how often the mark may have been set back

stopVars == <<stopPc, stopLast>>
shellVars == <<pc, last, todo, file, delete>>
history == <<sends, removed, skipped>>
vars == <<present, recorded, mark, shellVars, stopVars, cleaning, server, history, excused,
          setbacks>>

PC == {"off", "starting", "sleep", "loop", "upload", "mark", "write", "remove"}

TypeOK ==
  /\ present \subseteq recorded
  /\ recorded \subseteq Files
  /\ mark \in Dates \cup {Missing, Empty}
  /\ pc \in PC
  /\ last \in Dates \cup {Empty}
  /\ todo \subseteq recorded
  /\ file \in recorded \cup {0}
  /\ pc \in {"upload", "mark", "write", "remove"} => file # 0
  /\ stopPc \in {"none", "read", "write", "kill"}
  /\ stopLast \in Dates \cup {Empty}
  /\ delete \in BOOLEAN
  /\ cleaning \in BOOLEAN
  /\ server \subseteq Files
  /\ sends \in [Files -> Nat]
  /\ removed \subseteq Files
  /\ skipped \subseteq Files
  /\ excused \subseteq Files
  /\ setbacks \in Nat

Init ==
  /\ present = {}
  /\ recorded = {}
  /\ mark = Missing
  /\ pc = "off"
  /\ last = Epoch
  /\ todo = {}
  /\ file = 0
  /\ stopPc = "none"
  /\ stopLast = Epoch
  /\ delete = FALSE
  /\ cleaning = FALSE
  /\ server = {}
  /\ sends = [f \in Files |-> 0]
  /\ removed = {}
  /\ skipped = {}
  /\ excused = {}
  /\ setbacks = 0

Goto(from, to) == pc = from /\ pc' = to

--------------------------------------------------------------------------------
(* The camera and the space on the card. *)

\* The camera has finished a recording.  If its clock was set back an older name
\* comes later.  A name of a minute that has another recording, or
\* of an earlier one than some other, may be passed over by the mark.
Record(f) ==
  /\ f \in Files \ recorded
  /\ ~ClockMayGoBack => \A g \in recorded : g < f
  /\ present' = present \cup {f}
  /\ recorded' = recorded \cup {f}
  /\ excused' = excused
       \cup (IF \E g \in recorded : ~Later(Date[f], Date[g]) THEN {f} ELSE {})
       \cup {g \in recorded : Date[g] = Date[f]}
  /\ UNCHANGED <<mark, shellVars, stopVars, cleaning, server, history, setbacks>>

TooFull(fs) == Cardinality(fs) > UsedLimit

\* The hourly job of crond finds the card too full.
CleanStart ==
  /\ ~cleaning
  /\ TooFull(present)
  /\ cleaning' = TRUE
  /\ UNCHANGED <<present, recorded, mark, shellVars, stopVars, server, history, excused,
                 setbacks>>

\* It deletes the directory that was modified least recently, whatever the service
\* is doing with its files.  Which one that is the model leaves open: a new
\* recording, and a file the service deletes, both make a directory recent.
CleanDir ==
  /\ cleaning
  /\ \E f \in present : present' = {g \in present : Hour[g] # Hour[f]}
  /\ cleaning' = TooFull(present')
  /\ UNCHANGED <<recorded, mark, shellVars, stopVars, server, history, excused,
                 setbacks>>

\* Nothing is left to delete.
CleanEnd ==
  /\ cleaning
  /\ present = {}
  /\ cleaning' = FALSE
  /\ UNCHANGED <<present, recorded, mark, shellVars, stopVars, server, history, excused,
                 setbacks>>

--------------------------------------------------------------------------------
(* The service. *)

\* system.sh starts the service, which reads the mark and writes it again.
FirstMark == IF mark = Missing THEN Epoch ELSE mark

Start ==
  /\ Goto("off", "starting")
  /\ last' = FirstMark
  /\ mark' = Empty
  /\ UNCHANGED <<present, recorded, stopVars, todo, file, delete, cleaning, server,
                 history, excused, setbacks>>

WriteStart ==
  /\ Goto("starting", "sleep")
  /\ mark' = last
  /\ UNCHANGED <<present, recorded, stopVars, last, todo, file, delete, cleaning,
                 server, history, excused, setbacks>>

\* checkFiles: the list, and the setting for the whole pass.
List ==
  /\ Goto("sleep", "loop")
  /\ todo' = present
  /\ \E d \in DeleteSettings : delete' = d
  /\ UNCHANGED <<present, recorded, stopVars, mark, last, file, cleaning, server,
                 history, excused, setbacks>>

\* The loop takes the first name of the list, or any when the list is not sorted.
Unsorted(f) == TRUE    \* variant
First(f) == SortInstalled => \A g \in todo : f <= g

NextFile(f) ==
  /\ pc = "loop"
  /\ f \in todo
  /\ First(f)
  /\ file' = f
  /\ todo' = todo \ {f}

\* The file is of a later minute than the mark, which is read again for each file.
Send(f) ==
  /\ NextFile(f)
  /\ mark # Empty
  /\ Later(Date[f], mark)
  /\ pc' = "upload"
  /\ UNCHANGED <<present, recorded, stopVars, mark, last, delete, cleaning, server,
                 history, excused, setbacks>>

\* It is not, or the mark is empty and every test fails: "already sent".
Skip(f) ==
  /\ NextFile(f)
  /\ mark # Empty => ~Later(Date[f], mark)
  /\ pc' = "loop"
  /\ skipped' = skipped \cup {f}
  /\ excused' = IF mark = Empty THEN excused \cup {f} ELSE excused
  /\ UNCHANGED <<present, recorded, stopVars, mark, last, delete, cleaning, server,
                 sends, removed, setbacks>>

\* uploadToFtp: the file may be gone by now, and the server may not answer; the
\* loop goes on with the next file.
UploadFailsTo(next) ==
  /\ Goto("upload", next)
  /\ excused' = excused \cup {file}
  /\ UNCHANGED <<present, recorded, stopVars, mark, last, todo, file, delete, cleaning,
                 server, history, setbacks>>

UploadFailsMarks == UploadFailsTo("mark")    \* variant: without the continue
UploadFailsEnds == UploadFailsTo("sleep")    \* variant: the pass is over
UploadFails == UploadFailsTo("loop")

UploadSucceeds ==
  /\ file \in present
  /\ Goto("upload", "mark")
  /\ server' = server \cup {file}
  /\ sends' = [sends EXCEPT ![file] = @ + 1]
  /\ UNCHANGED <<present, recorded, stopVars, mark, last, todo, file, delete, cleaning,
                 removed, skipped, excused, setbacks>>

\* The new mark, emptied first.
EmptyMark ==
  /\ Goto("mark", "write")
  /\ last' = Date[file]
  /\ mark' = Empty
  /\ UNCHANGED <<present, recorded, stopVars, todo, file, delete, cleaning, server,
                 history, excused, setbacks>>

WriteMark ==
  /\ Goto("write", "remove")
  /\ mark' = last
  /\ UNCHANGED <<present, recorded, stopVars, last, todo, file, delete, cleaning,
                 server, history, excused, setbacks>>

Remove ==
  /\ Goto("remove", "loop")
  /\ IF delete
     THEN /\ present' = present \ {file}
          /\ removed' = removed \cup {file}
     ELSE UNCHANGED <<present, removed>>
  /\ UNCHANGED <<recorded, stopVars, mark, last, todo, file, delete, cleaning, server,
                 sends, skipped, excused, setbacks>>

\* The pass is over; the service sleeps.
EndPass ==
  /\ Goto("loop", "sleep")
  /\ todo = {}
  /\ UNCHANGED <<present, recorded, stopVars, mark, last, todo, file, delete, cleaning,
                 server, history, excused, setbacks>>

\* The shells are gone with their variables.
Gone ==
  /\ pc' = "off"
  /\ last' = Epoch
  /\ todo' = {}
  /\ file' = 0
  /\ delete' = FALSE
  /\ stopPc' = "none"
  /\ stopLast' = Epoch

\* ftppush.sh stop reads the mark and writes it again too, before it looks at its
\* argument, and then kills the service wherever it is.
StopReads ==
  /\ stopPc = "none"
  /\ setbacks + 1 < MaxSetbacks
  /\ stopPc' = "read"
  /\ stopLast' = FirstMark
  /\ UNCHANGED <<present, recorded, mark, shellVars, cleaning, server, history, excused,
                 setbacks>>

StopEmpties ==
  /\ stopPc = "read"
  /\ stopPc' = "write"
  /\ mark' = Empty
  /\ UNCHANGED <<present, recorded, shellVars, stopLast, cleaning, server, history,
                 excused, setbacks>>

StopWrites ==
  /\ stopPc = "write"
  /\ stopPc' = "kill"
  /\ mark' = stopLast
  /\ setbacks' = setbacks + 1
  /\ UNCHANGED <<present, recorded, shellVars, stopLast, cleaning, server, history,
                 excused>>

Stop ==
  /\ stopPc = "kill"
  /\ Gone
  /\ setbacks' = setbacks + 1
  /\ UNCHANGED <<present, recorded, mark, cleaning, server, history, excused>>

\* The mark is in memory, the recordings are on the card.
Reboot ==
  /\ setbacks < MaxSetbacks
  /\ Gone
  /\ mark' = Missing
  /\ cleaning' = FALSE
  /\ setbacks' = setbacks + 1
  /\ UNCHANGED <<present, recorded, server, history, excused>>

Pass ==
  \/ WriteStart \/ List
  \/ \E f \in todo : Send(f) \/ Skip(f)
  \/ UploadFails \/ UploadSucceeds \/ EmptyMark \/ WriteMark \/ Remove \/ EndPass

Next ==
  \/ \E f \in Files : Record(f)
  \/ CleanStart \/ CleanDir \/ CleanEnd
  \/ Start \/ Pass
  \/ StopReads \/ StopEmpties \/ StopWrites \/ Stop \/ Reboot

Spec == Init /\ [][Next]_vars

\* The service goes on; ftpput, which has no timeout, is taken to return.
FairSpec == Spec /\ WF_vars(Pass)

--------------------------------------------------------------------------------
(* Properties *)

\* What the service deletes from the card is on the server: neither a failed upload
\* nor a file that disappears, nor a stop in the middle, makes it delete a recording
\* that was not sent (checkFiles: continue, rm -f).
RemovedWereSent == removed \subseteq server

\* The service sends a file again only after the mark was set back: by a reboot, a stop
\* between the upload and the new mark, or the mark a run of "stop" has read before.
SentOncePerSetback == \A f \in Files : sends[f] <= 1 + setbacks

\* A file passed over as "already sent" is on the server, unless its own upload has
\* failed before, it shares its minute with another, it was recorded with a date
\* that is not later than all others, or the mark was empty.  No failure of another
\* file, no listing of files recorded meanwhile, no restart and no old mark that a run of
\* "stop" writes again loses a file.
LossesExplained == skipped \ server \subseteq excused

\* Every recording that stays on the card is sent while the service runs, but for
\* those excused: in particular an upload that fails again and again holds up no
\* other file.
EverySent ==
  \A f \in Files :
    f \in present ~> f \in server \cup excused \/ f \notin present \/ pc = "off"
================================================================================
