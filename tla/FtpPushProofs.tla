------------------------------ MODULE FtpPushProofs ------------------------------
(***************************************************************************)
(* What the upload service (FtpPush) never does, for any number of         *)
(* recordings, dates, stops and reboots.                                   *)
(***************************************************************************)
EXTENDS FtpPush, TLAPS

USE DEF PC, stopVars

\* A date is not later than itself, and what is not later than one that some date is
\* later than is not later than that date (the tests of checkFiles are an order).
LEMMA LaterOrder ==
  /\ \A d \in Dates : ~Later(d, d)
  /\ \A d, e, m \in Dates : ~Later(d, m) /\ Later(e, m) => ~Later(d, e)
BY DEF Later, Dates

\* A file whose name sorts later is of the same minute or of a later one.
LEMMA NamesInOrder ==
  \A f, g \in Files : f < g => Date[f] = Date[g] \/ Later(Date[g], Date[f])
<1> SUFFICES ASSUME NEW f \in Files, NEW g \in Files, f < g, ~Later(Date[g], Date[f])
             PROVE  Date[f] = Date[g]
  OBVIOUS
<1>1. Date[f] \in Dates /\ Date[g] \in Dates
  BY FilesAssumption
<1>2. Date[f].year = Date[g].year /\ Date[f].rest = Date[g].rest
  BY <1>1, NamesAssumption DEF Later, Dates
<1> QED BY <1>1, <1>2 DEF Dates

\* Every file is later than the mark nothing was sent at.
LEMMA AfterEpoch == \A f \in Files : Later(Date[f], Epoch)
BY FilesAssumption, NamesAssumption DEF Later, Dates

USE FilesAssumption, SettingsAssumption, MarkAssumption

--------------------------------------------------------------------------------
(* Types *)

\* Every variable keeps its type, and the files of the list were recorded (TypeOK).
THEOREM TypeCorrect == Spec => []TypeOK
<1>1. Init => TypeOK
  <2> SUFFICES ASSUME Init PROVE TypeOK
    OBVIOUS
  <2>1. delete \in BOOLEAN /\ cleaning \in BOOLEAN
    BY DEF Init
  <2>2. sends \in [Files -> Nat]
    BY DEF Init
  <2> QED BY <2>1, <2>2 DEF Init, TypeOK
<1>2. TypeOK /\ [Next]_vars => TypeOK'
  <2> SUFFICES ASSUME TypeOK, [Next]_vars PROVE TypeOK'
    OBVIOUS
  <2> USE DEF TypeOK, shellVars, history, Goto
  <2>1. ASSUME NEW f \in Files, Record(f) PROVE TypeOK'
    BY <2>1 DEF Record
  <2>2. CASE CleanStart
    BY <2>2 DEF CleanStart
  <2>3. CASE CleanDir
    BY <2>3 DEF CleanDir, TooFull
  <2>4. CASE CleanEnd
    BY <2>4, ZenonT(40) DEF CleanEnd
  <2>5. CASE Start
    BY <2>5 DEF Start, FirstMark
  <2>6. CASE WriteStart
    BY <2>6 DEF WriteStart
  <2>7. CASE List
    BY <2>7 DEF List
  <2>8. ASSUME NEW f \in todo, Send(f) PROVE TypeOK'
    <3>1. f \in recorded /\ f # 0
      BY DEF Files
    <3>2. delete' \in BOOLEAN /\ cleaning' \in BOOLEAN
      BY <2>8 DEF Send
    <3>3. pc' = "upload" /\ file' = f /\ todo' \subseteq recorded
      BY <2>8 DEF Send, NextFile
    <3>4. UNCHANGED <<present, recorded, mark, last, stopPc, stopLast, server, sends,
                      removed, skipped, excused, setbacks>>
      BY <2>8 DEF Send, stopVars
    <3> QED BY <3>1, <3>2, <3>3, <3>4 DEF PC
  <2>9. ASSUME NEW f \in todo, Skip(f) PROVE TypeOK'
    <3>1. f \in Files
      BY DEF Files
    <3>2. delete' \in BOOLEAN /\ cleaning' \in BOOLEAN
      BY <2>9 DEF Skip
    <3>3. pc' = "loop" /\ file' \in recorded /\ todo' \subseteq recorded
      BY <2>9 DEF Skip, NextFile
    <3>4. skipped' \subseteq Files /\ excused' \subseteq Files
      BY <2>9, <3>1 DEF Skip
    <3>5. UNCHANGED <<present, recorded, mark, last, stopPc, stopLast, server, sends,
                      removed, setbacks>>
      BY <2>9 DEF Skip, stopVars
    <3> QED BY <3>2, <3>3, <3>4, <3>5 DEF PC
  <2>10. CASE UploadFails
    BY <2>10 DEF UploadFails, UploadFailsTo, Files
  <2>11. CASE UploadSucceeds
    BY <2>11 DEF UploadSucceeds, Files
  <2>12. CASE EmptyMark
    BY <2>12 DEF EmptyMark
  <2>13. CASE WriteMark
    BY <2>13 DEF WriteMark
  <2>14. CASE Remove
    BY <2>14 DEF Remove
  <2>15. CASE EndPass
    BY <2>15 DEF EndPass
  <2>16. CASE Stop
    <3>1. cleaning' \in BOOLEAN /\ delete' \in BOOLEAN
      BY <2>16 DEF Stop, Gone
    <3>2. setbacks' \in Nat /\ sends' \in [Files -> Nat]
      BY <2>16 DEF Stop, Gone
    <3> QED BY <2>16, <3>1, <3>2 DEF Stop, Gone
  <2>17. CASE Reboot
    <3>1. cleaning' \in BOOLEAN /\ delete' \in BOOLEAN
      BY <2>17 DEF Reboot, Gone
    <3>2. setbacks' \in Nat /\ sends' \in [Files -> Nat]
      BY <2>17 DEF Reboot
    <3> QED BY <2>17, <3>1, <3>2 DEF Reboot, Gone
  <2>18. CASE UNCHANGED vars
    BY <2>18 DEF vars
  <2>19. CASE StopReads \/ StopEmpties \/ StopWrites
    BY <2>19 DEF StopReads, StopEmpties, StopWrites, FirstMark
  <2> QED
    BY <2>1, <2>2, <2>3, <2>4, <2>5, <2>6, <2>7, <2>8, <2>9, <2>10, <2>11, <2>12, <2>13,
       <2>14, <2>15, <2>16, <2>17, <2>18, <2>19 DEF Next, Pass
<1> QED BY <1>1, <1>2, PTL DEF Spec

\* From here on the types, and that no date is the mark's missing or empty one, are
\* all that is used of dates.
LEMMA TypedDates == TypeOK => \A f \in recorded : f \in Files /\ Date[f] \in Dates
BY DEF TypeOK

--------------------------------------------------------------------------------
(* What is deleted was sent *)

\* Between the upload of a file and its removal the file is on the server.
SentInv ==
  /\ RemovedWereSent
  /\ pc \in {"mark", "write", "remove"} => file \in server

LEMMA SentInvariant == Spec => []SentInv
<1>1. Init => SentInv
  BY DEF Init, SentInv, RemovedWereSent
<1>2. SentInv /\ [Next]_vars => SentInv'
  <2> SUFFICES ASSUME SentInv, [Next]_vars PROVE SentInv'
    OBVIOUS
  <2> USE DEF SentInv, RemovedWereSent, shellVars, history, Goto
  <2>1. CASE UploadSucceeds
    BY <2>1 DEF UploadSucceeds
  <2>2. CASE EmptyMark \/ WriteMark \/ Remove
    BY <2>2 DEF EmptyMark, WriteMark, Remove
  <2>3. CASE UploadFails \/ Start \/ WriteStart \/ List \/ EndPass
    BY <2>3 DEF UploadFails, UploadFailsTo, Start, WriteStart, List, EndPass
  <2>4. CASE \E f \in todo : Send(f) \/ Skip(f)
    BY <2>4 DEF Send, Skip, NextFile
  <2>5. CASE (\E f \in Files : Record(f)) \/ CleanStart \/ CleanDir \/ CleanEnd
    BY <2>5 DEF Record, CleanStart, CleanDir, CleanEnd
  <2>6. CASE StopReads \/ StopEmpties \/ StopWrites \/ Stop \/ Reboot
    BY <2>6 DEF StopReads, StopEmpties, StopWrites, Stop, Reboot, Gone
  <2>7. CASE UNCHANGED vars
    BY <2>7 DEF vars
  <2> QED BY <2>1, <2>2, <2>3, <2>4, <2>5, <2>6, <2>7 DEF Next, Pass
<1> QED BY <1>1, <1>2, PTL DEF Spec

\* The service deletes no recording that the server does not have.
THEOREM DeletesOnlySent == Spec => []RemovedWereSent
<1>1. SentInv => RemovedWereSent
  BY DEF SentInv
<1> QED BY <1>1, SentInvariant, PTL

--------------------------------------------------------------------------------
(* No second sending *)

\* Only while the service is off the mark file can be missing.
MarkInv == pc # "off" => mark # Missing

LEMMA MarkInvariant == Spec => []MarkInv
<1>1. Init => MarkInv
  BY DEF Init, MarkInv
<1>2. TypeOK /\ MarkInv /\ [Next]_vars => MarkInv'
  <2> SUFFICES ASSUME TypeOK, MarkInv, [Next]_vars PROVE MarkInv'
    OBVIOUS
  <2> USE DEF MarkInv, shellVars, history, Goto
  <2>1. CASE EmptyMark \/ Start \/ StopReads \/ StopEmpties
    BY <2>1, MarkAssumption DEF EmptyMark, Start, StopReads, StopEmpties
  <2>2. CASE WriteMark \/ WriteStart \/ StopWrites
    BY <2>2 DEF WriteMark, WriteStart, StopWrites, TypeOK
  <2>3. CASE UploadSucceeds \/ UploadFails \/ List \/ Remove \/ EndPass
    BY <2>3 DEF UploadSucceeds, UploadFails, UploadFailsTo, List, Remove, EndPass
  <2>4. CASE Stop \/ Reboot
    BY <2>4 DEF Stop, Reboot, Gone
  <2>5. CASE \E f \in todo : Send(f) \/ Skip(f)
    BY <2>5 DEF Send, Skip, NextFile
  <2>6. CASE (\E f \in Files : Record(f)) \/ CleanStart \/ CleanDir \/ CleanEnd
    BY <2>6 DEF Record, CleanStart, CleanDir, CleanEnd
  <2>7. CASE UNCHANGED vars
    BY <2>7 DEF vars
  <2> QED BY <2>1, <2>2, <2>3, <2>4, <2>5, <2>6, <2>7 DEF Next, Pass
<1> QED BY <1>1, <1>2, TypeCorrect, PTL DEF Spec

\* The mark that counts: the one in the file, or the one the shell is about to write.
Mark == IF pc \in {"starting", "write"} THEN last ELSE mark

\* A file that was sent once more often than the mark was set back is on the way into
\* the mark or not later than it, nor than another file on its way.
Marked(f) ==
  /\ sends[f] <= 1 + setbacks
  /\ sends[f] = 1 + setbacks =>
       /\ \/ pc = "mark" /\ file = f
          \/ Mark = Empty
          \/ Mark \in Dates /\ ~Later(Date[f], Mark)
       /\ pc \in {"upload", "mark"} /\ f # file => ~Later(Date[f], Date[file])
       /\ pc = "upload" => f # file

OnceInv == \A f \in Files : Marked(f)

\* A file is not sent again before the mark was set back.
THEOREM SendsOnce == Spec => []SentOncePerSetback
<1>1. Init => OnceInv
  BY DEF Init, OnceInv, Marked
<1>2. TypeOK /\ MarkInv /\ OnceInv /\ [Next]_vars => OnceInv'
  <2> SUFFICES ASSUME TypeOK, MarkInv, OnceInv, [Next]_vars, NEW f \in Files
               PROVE  Marked(f)'
    BY DEF OnceInv
  <2>0. sends[f] \in Nat /\ setbacks \in Nat /\ Marked(f) /\ Date[f] \in Dates
    BY DEF OnceInv, TypeOK
  <2> USE DEF shellVars, history, Goto, Mark, Marked
  <2>1. CASE UploadSucceeds
    <3>1. ~(sends[f] = 1 + setbacks /\ file = f)
      BY <2>0, <2>1 DEF UploadSucceeds
    <3>2. sends'[f] = IF f = file THEN sends[f] + 1 ELSE sends[f]
      BY <2>1 DEF UploadSucceeds, TypeOK
    <3> QED BY <2>0, <2>1, <3>1, <3>2 DEF UploadSucceeds
  <2>2. CASE EmptyMark
    <3>1. file \in Files /\ Date[file] \in Dates
      BY <2>2 DEF EmptyMark, TypeOK
    <3>2. sends[f] = 1 + setbacks => ~Later(Date[f], Date[file])
      BY <2>0, <2>2, <3>1, LaterOrder DEF EmptyMark
    <3> QED BY <2>0, <2>2, <3>1, <3>2 DEF EmptyMark
  <2>3. ASSUME NEW g \in todo, Send(g) PROVE Marked(f)'
    <3>1. /\ pc = "loop" /\ pc' = "upload" /\ file' = g
          /\ Later(Date[g], mark) /\ mark # Empty
          /\ UNCHANGED <<mark, last, sends, setbacks>>
      BY <2>3 DEF Send, NextFile
    <3>2. mark \in Dates /\ Date[g] \in Dates
      BY <3>1, TypedDates DEF TypeOK, MarkInv
    <3>3. sends[f] = 1 + setbacks => f # g /\ ~Later(Date[f], Date[g])
      BY <2>0, <3>1, <3>2, LaterOrder
    <3> QED BY <2>0, <3>1, <3>3
  <2>4. CASE \E g \in todo : Skip(g)
    BY <2>0, <2>4 DEF Skip, NextFile
  <2>5. CASE StopWrites \/ Stop \/ Reboot
    BY <2>0, <2>5 DEF StopWrites, Stop, Reboot
  <2>6. CASE StopReads \/ StopEmpties
    BY <2>0, <2>6 DEF StopReads, StopEmpties
  <2>7. CASE Start
    BY <2>0, <2>7, MarkAssumption DEF Start, FirstMark
  <2>8. CASE WriteMark \/ WriteStart
    BY <2>0, <2>8 DEF WriteMark, WriteStart
  <2>9. CASE UploadFails \/ List \/ Remove \/ EndPass
    BY <2>0, <2>9 DEF UploadFails, UploadFailsTo, List, Remove, EndPass
  <2>10. CASE (\E g \in Files : Record(g)) \/ CleanStart \/ CleanDir \/ CleanEnd
    BY <2>0, <2>10 DEF Record, CleanStart, CleanDir, CleanEnd
  <2>11. CASE UNCHANGED vars
    BY <2>0, <2>11 DEF vars
  <2> QED
    BY <2>1, <2>2, <2>3, <2>4, <2>5, <2>6, <2>7, <2>8, <2>9, <2>10, <2>11 DEF Next, Pass
<1>3. OnceInv => SentOncePerSetback
  BY DEF OnceInv, Marked, SentOncePerSetback
<1> QED BY <1>1, <1>2, <1>3, TypeCorrect, MarkInvariant, PTL DEF Spec

--------------------------------------------------------------------------------
(* No loss without a reason *)

Settled(f) == f \in server \cup excused

\* What the pass still has to upload or to mark.
Ahead == IF pc \in {"upload", "mark"} THEN todo \cup {file} ELSE todo

InPass == pc \in {"loop", "upload", "mark", "write", "remove"}

\* Two recordings of one minute are both excused.
TwinInv ==
  \A f, g \in recorded : f # g /\ Date[f] = Date[g] => f \in excused /\ g \in excused

\* The marks in the file and in the shells that are about to write one.
Marks ==
  {m \in Dates : \/ m = mark
                 \/ m = last /\ pc \in {"starting", "write"}
                 \/ m = stopLast /\ stopPc \in {"read", "write"}}

\* A mark is the first one or the date of a recording.
OriginInv == \A m \in Marks : m = Epoch \/ \E g \in recorded : m = Date[g]

\* The list is gone through in the order of the names.
OrderInv == pc \in {"upload", "mark"} => \A g \in todo : file < g

\* No mark has passed over anything that is not settled.
PassedInv ==
  \A m \in Marks : \A f \in present \cup todo : Settled(f) \/ Later(Date[f], m)

\* What is on the card and not on the list is settled, or was recorded after the
\* listing and is later than all that is on it.
BehindInv ==
  InPass => \A f \in present \ Ahead :
              Settled(f) \/ \A g \in Ahead : Later(Date[f], Date[g])

LossInv ==
  /\ LossesExplained
  /\ TwinInv
  /\ OriginInv
  /\ OrderInv
  /\ PassedInv
  /\ BehindInv

\* The camera makes a recording: unless it is excused it is later than all others,
\* and so than the mark and than the whole list.
LEMMA RecordKeeps ==
  ASSUME TypeOK, MarkInv, LossInv, NEW f \in Files, Record(f)
  PROVE  LossInv'
<1> USE DEF shellVars, history
<1>1. /\ f \notin recorded /\ f \notin todo
      /\ present' = present \cup {f} /\ recorded' = recorded \cup {f}
      /\ excused \subseteq excused'
      /\ UNCHANGED <<mark, pc, last, todo, file, server, skipped>>
      /\ Marks' = Marks /\ Ahead' = Ahead /\ InPass' = InPass
  BY DEF Record, TypeOK, Marks, Ahead, InPass
<1>2. f \in excused' \/ \A g \in recorded : Later(Date[f], Date[g])
  BY DEF Record
<1>3. \A g \in recorded : Date[g] = Date[f] => g \in excused' /\ f \in excused'
  <2> SUFFICES ASSUME NEW g \in recorded, Date[g] = Date[f]
               PROVE  g \in excused' /\ f \in excused'
    OBVIOUS
  <2>1. ~Later(Date[f], Date[g])
    BY LaterOrder, TypedDates
  <2> QED BY <2>1 DEF Record
<1>4. Ahead \subseteq recorded
  BY DEF Ahead, TypeOK
<1>5. LossesExplained'
  BY <1>1 DEF LossInv, LossesExplained
<1>6. TwinInv'
  BY <1>1, <1>3 DEF LossInv, TwinInv
<1>7. OriginInv' /\ OrderInv'
  BY <1>1 DEF LossInv, OriginInv, OrderInv
<1>8. PassedInv'
  <2>1. \A m \in Marks : f \in excused' \/ Later(Date[f], m)
    BY <1>2, AfterEpoch DEF LossInv, OriginInv
  <2> QED BY <1>1, <2>1 DEF LossInv, PassedInv, Settled
<1>9. BehindInv'
  BY <1>1, <1>2, <1>4 DEF LossInv, BehindInv, Settled
<1> QED BY <1>5, <1>6, <1>7, <1>8, <1>9 DEF LossInv

\* The new mark is the date of the file just sent: what is on the list sorts behind
\* it, and what is not is settled or later.
LEMMA EmptyMarkKeeps ==
  ASSUME SortInstalled, TypeOK, MarkInv, SentInv, LossInv, EmptyMark
  PROVE  LossInv'
<1> USE DEF shellVars, history, Goto
<1>1. /\ pc = "mark" /\ pc' = "write" /\ last' = Date[file] /\ mark' = Empty
      /\ UNCHANGED <<present, recorded, todo, file, server, skipped, excused>>
  BY DEF EmptyMark
<1>2. file \in recorded /\ file \in server /\ todo \subseteq recorded
  BY <1>1 DEF TypeOK, SentInv
<1>3. Marks' \subseteq Marks \cup {Date[file]} /\ Ahead = todo \cup {file} /\ Ahead' = todo
      /\ InPass
  BY <1>1, MarkAssumption DEF EmptyMark, Marks, Ahead, InPass
<1>4. LossesExplained' /\ TwinInv' /\ OrderInv'
  BY <1>1 DEF LossInv, LossesExplained, TwinInv, OrderInv
<1>5. OriginInv'
  BY <1>1, <1>2, <1>3 DEF LossInv, OriginInv
<1>6. ASSUME NEW f \in todo PROVE Settled(f) \/ Later(Date[f], Date[file])
  <2>1. file < f /\ file \in Files /\ f \in Files
    BY <1>1, <1>2, TypedDates DEF LossInv, OrderInv
  <2>2. CASE Later(Date[f], Date[file])
    BY <2>2
  <2>3. CASE Date[file] = Date[f]
    <3>1. file # f
      BY <2>1 DEF Files
    <3> QED BY <2>3, <3>1, <1>2 DEF LossInv, TwinInv, Settled
  <2> QED BY <2>1, <2>2, <2>3, NamesInOrder
<1>7. ASSUME NEW f \in present PROVE Settled(f) \/ Later(Date[f], Date[file])
  BY <1>2, <1>3, <1>6 DEF LossInv, BehindInv, Settled
<1>8. PassedInv'
  BY <1>1, <1>3, <1>6, <1>7 DEF LossInv, PassedInv, Settled
<1>9. BehindInv'
  BY <1>1, <1>2, <1>3 DEF LossInv, BehindInv, Settled
<1> QED BY <1>4, <1>5, <1>8, <1>9 DEF LossInv

\* A file that is skipped is not later than the mark and so settled.
LEMMA SkipKeeps ==
  ASSUME TypeOK, MarkInv, LossInv, NEW f \in todo, Skip(f)
  PROVE  LossInv'
<1> USE DEF shellVars, history
<1>1. /\ pc = "loop" /\ pc' = "loop" /\ todo' = todo \ {f} /\ skipped' = skipped \cup {f}
      /\ excused \subseteq excused'
      /\ UNCHANGED <<present, recorded, mark, last, server>>
      /\ mark = Empty => f \in excused'
      /\ mark # Empty => ~Later(Date[f], mark)
  BY DEF Skip, NextFile
<1>2. Marks' = Marks /\ Ahead = todo /\ Ahead' = todo \ {f} /\ InPass
  BY <1>1 DEF Skip, Marks, Ahead, InPass
<1>3. mark = Empty \/ mark \in Marks
  BY <1>1 DEF TypeOK, MarkInv, Marks
<1>4. Settled(f)'
  BY <1>1, <1>2, <1>3 DEF LossInv, PassedInv, Settled
<1>5. LossesExplained'
  BY <1>1, <1>4 DEF LossInv, LossesExplained, Settled
<1>6. TwinInv' /\ OriginInv' /\ OrderInv'
  BY <1>1, <1>2 DEF LossInv, TwinInv, OriginInv, OrderInv
<1>7. PassedInv'
  BY <1>1, <1>2 DEF LossInv, PassedInv, Settled
<1>8. BehindInv'
  BY <1>1, <1>2, <1>4 DEF LossInv, BehindInv, Settled
<1> QED BY <1>5, <1>6, <1>7, <1>8 DEF LossInv

\* The steps that add no mark but the first one, take at most settled files off the
\* list, and let nothing new appear on the card.
LEMMA QuietKeeps ==
  ASSUME LossInv, present \cup todo \subseteq Files,
         present' \subseteq present, todo' \subseteq todo,
         server \subseteq server', excused \subseteq excused',
         UNCHANGED <<recorded, skipped>>,
         Marks' \subseteq Marks \cup {Epoch},
         pc' \in {"upload", "mark"} => pc \in {"upload", "mark"} /\ file' = file,
         InPass' => /\ InPass /\ file' = file
                    /\ \A f \in Ahead \ Ahead' : Settled(f)'
  PROVE  LossInv'
<1>1. LossesExplained' /\ TwinInv'
  BY DEF LossInv, LossesExplained, TwinInv
<1>2. OriginInv' /\ OrderInv'
  BY DEF LossInv, OriginInv, OrderInv
<1>3. PassedInv'
  BY AfterEpoch DEF LossInv, PassedInv, Settled
<1>4. InPass' => Ahead' \subseteq Ahead
  BY DEF Ahead
<1>5. BehindInv'
  BY <1>4 DEF LossInv, BehindInv, Settled
<1> QED BY <1>1, <1>2, <1>3, <1>5 DEF LossInv

\* With a sorted list no file is passed over unsent without a reason of its own.
THEOREM NoUnexplainedLoss ==
  ASSUME SortInstalled PROVE Spec => []LossesExplained
<1>1. Init => LossInv
  BY MarkAssumption DEF Init, LossInv, LossesExplained, TwinInv, OriginInv, OrderInv,
                        PassedInv, BehindInv, InPass, Marks
<1>2. TypeOK /\ MarkInv /\ SentInv /\ LossInv /\ [Next]_vars => LossInv'
  <2> SUFFICES ASSUME TypeOK, MarkInv, SentInv, LossInv, [Next]_vars PROVE LossInv'
    OBVIOUS
  <2>0. present \cup todo \subseteq Files
    BY DEF TypeOK
  <2> USE DEF shellVars, history, Goto
  <2>1. ASSUME NEW f \in Files, Record(f) PROVE LossInv'
    BY <2>1, RecordKeeps
  <2>2. CASE CleanStart \/ CleanEnd
    BY <2>0, <2>2, QuietKeeps DEF CleanStart, CleanEnd, Marks, Ahead, InPass, Settled
  <2>3. CASE CleanDir
    BY <2>0, <2>3, QuietKeeps DEF CleanDir, Marks, Ahead, InPass, Settled
  <2>4. CASE Start
    <3>1. Marks' \subseteq Marks \cup {Epoch} /\ ~InPass'
      BY <2>4, MarkAssumption DEF Start, FirstMark, Marks, InPass
    <3> QED BY <2>0, <2>4, <3>1, QuietKeeps DEF Start
  <2>5. CASE StopReads \/ StopEmpties
    <3>1. Marks' \subseteq Marks \cup {Epoch} /\ InPass' = InPass /\ Ahead' = Ahead
      BY <2>5, MarkAssumption DEF StopReads, StopEmpties, FirstMark, Marks, InPass, Ahead
    <3> QED BY <2>0, <2>5, <3>1, QuietKeeps DEF StopReads, StopEmpties
  <2>6. CASE WriteStart \/ WriteMark
    <3>1. Marks' \subseteq Marks
      BY <2>6 DEF WriteStart, WriteMark, Marks
    <3> QED BY <2>0, <2>6, <3>1, QuietKeeps DEF WriteStart, WriteMark, Ahead, InPass
  <2>7. CASE StopWrites
    <3>1. Marks' \subseteq Marks /\ InPass' = InPass /\ Ahead' = Ahead
      BY <2>7 DEF StopWrites, Marks, InPass, Ahead
    <3> QED BY <2>0, <2>7, <3>1, QuietKeeps DEF StopWrites
  <2>8. CASE List
    <3>1. Marks' = Marks /\ Ahead' = present /\ todo' = present
      BY <2>8 DEF List, Marks, Ahead
    <3>2. UNCHANGED <<present, recorded, skipped, server, excused>> /\ pc' = "loop"
      BY <2>8 DEF List
    <3> QED BY <3>1, <3>2 DEF LossInv, LossesExplained, TwinInv, OriginInv, OrderInv,
                              PassedInv, BehindInv, Settled
  <2>9. ASSUME NEW f \in todo, Send(f) PROVE LossInv'
    <3>1. /\ pc = "loop" /\ pc' = "upload" /\ file' = f /\ todo' = todo \ {f}
          /\ \A g \in todo : f <= g
          /\ UNCHANGED <<present, recorded, mark, last, stopVars, skipped, server, excused>>
      BY <2>9 DEF Send, NextFile, First
    <3>2. Marks' = Marks /\ Ahead' = Ahead /\ InPass
      BY <3>1 DEF Marks, Ahead, InPass
    <3>3. f \in Nat /\ todo \subseteq Nat
      BY DEF TypeOK, Files
    <3>4. OrderInv'
      BY <3>1, <3>3 DEF OrderInv
    <3> QED BY <3>1, <3>2, <3>4 DEF LossInv, LossesExplained, TwinInv, OriginInv,
                                    PassedInv, BehindInv, Settled
  <2>10. ASSUME NEW f \in todo, Skip(f) PROVE LossInv'
    BY <2>10, SkipKeeps
  <2>11. CASE UploadFails
    BY <2>0, <2>11, QuietKeeps DEF UploadFails, UploadFailsTo, Marks, Ahead, InPass, Settled
  <2>12. CASE UploadSucceeds
    BY <2>0, <2>12, QuietKeeps DEF UploadSucceeds, Marks, Ahead, InPass, Settled
  <2>13. CASE EmptyMark
    BY <2>13, EmptyMarkKeeps
  <2>14. CASE Remove
    BY <2>0, <2>14, QuietKeeps DEF Remove, Marks, Ahead, InPass, Settled
  <2>15. CASE EndPass
    BY <2>0, <2>15, QuietKeeps DEF EndPass, Marks, Ahead, InPass, Settled
  <2>16. CASE Stop \/ Reboot
    <3>1. Marks' \subseteq Marks /\ ~InPass'
      BY <2>16, MarkAssumption DEF Stop, Reboot, Gone, Marks, InPass
    <3> QED BY <2>0, <2>16, <3>1, QuietKeeps DEF Stop, Reboot, Gone
  <2>17. CASE UNCHANGED vars
    BY <2>0, <2>17, QuietKeeps DEF vars, Marks, Ahead, InPass, Settled
  <2> QED
    BY <2>1, <2>2, <2>3, <2>4, <2>5, <2>6, <2>7, <2>8, <2>9, <2>10, <2>11, <2>12, <2>13,
       <2>14, <2>15, <2>16, <2>17 DEF Next, Pass
<1>3. LossInv => LossesExplained
  BY DEF LossInv
<1> QED BY <1>1, <1>2, <1>3, TypeCorrect, MarkInvariant, SentInvariant, PTL DEF Spec
================================================================================
