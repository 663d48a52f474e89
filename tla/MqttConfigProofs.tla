---------------------------- MODULE MqttConfigProofs ----------------------------
(***************************************************************************)
(* Proofs about MqttConfig, for any file, any settings and edits, and any  *)
(* number of them and of faults: the types, that the program is never      *)
(* deaf, and that two writers who take turns lose nothing.                 *)
(***************************************************************************)
EXTENDS MqttConfig, TLAPS

--------------------------------------------------------------------------------
(* Types *)

LEMMA HeadAndTail ==
  ASSUME NEW S, NEW q \in Seq(S), q # <<>>
  PROVE  Head(q) \in S /\ Tail(q) \in Seq(S)
  OBVIOUS

\* What the file holds: no line is lost, and the value last set is a string.
DataOK ==
  /\ inbox \in Seq(Settings)
  /\ setting \in Settings \cup {NoSetting}
  /\ DOMAIN file = FileKeys /\ DOMAIN copy = FileKeys
  /\ wanted \in [FileKeys -> STRING]
  /\ edit # NoEdit => edit[1] \in Edits /\ DOMAIN edit[2] = FileKeys
  /\ Busy => setting \in Settings
  /\ number \in Nat /\ target \in Nat

ControlOK ==
  /\ pc \in {"start", "connect", "subscribe", "first", "loop", "test", "copied", "opened",
             "exited"}
  /\ conn \in {"disconnected", "connecting", "connected"}
  /\ link \in {"none", "up", "lost"} /\ connack \in {"none", "ok", "refused"}

FlagsOK ==
  run \in BOOLEAN /\ entered \in BOOLEAN /\ subscribed \in BOOLEAN /\ unasked \in BOOLEAN

LEMMA FirstIsFile ==
  FirstFile \in [FileKeys -> STRING] /\ DOMAIN FirstFile = FileKeys
  BY MqttAssumption

\* A step that writes neither the files nor the settings.
LEMMA DataElsewhere ==
  ASSUME DataOK, UNCHANGED <<setting, copy, target, file, number, wanted, edit>>,
         inbox' \in Seq(Settings), ~Busy'
  PROVE  DataOK'
  BY DEF DataOK

LEMMA ControlStep == ControlOK /\ [Next]_vars => ControlOK'
<1> SUFFICES ASSUME ControlOK, [Next]_vars PROVE ControlOK'
  OBVIOUS
<1> USE DEF ControlOK, network, client
<1>1. CASE Start
  BY <1>1 DEF Start
<1>2. CASE Connect
  BY <1>2 DEF Connect
<1>3. CASE Subscribe
  BY <1>3 DEF Subscribe, Back
<1>4. CASE Connack
  BY <1>4 DEF Connack, AfterLoop, Back
<1>5. CASE Lost
  BY <1>5 DEF Lost, AfterLoop, Back
<1>6. CASE Nothing
  BY <1>6 DEF Nothing, AfterLoop, Back
<1>7. CASE Test
  BY <1>7 DEF Test
<1>8. CASE Ignore \/ RunCommand \/ NullColumn \/ Copy
  BY <1>8 DEF Ignore, RunCommand, NullColumn, Copy, ToDo
<1>9. CASE OpenFile \/ WriteBack
  BY <1>9 DEF OpenFile, WriteBack
<1>10. CASE Terminate \/ EditWrite
  BY <1>10 DEF Terminate, EditWrite
<1>11. ASSUME NEW s \in Settings, Publish(s) PROVE ControlOK'
  BY <1>11 DEF Publish
<1>12. ASSUME NEW b \in {"up", "refuses", "away"}, Fault(b) PROVE ControlOK'
  BY <1>12 DEF Fault
<1>13. ASSUME NEW e \in Edits, EditRead(e) PROVE ControlOK'
  BY <1>13 DEF EditRead
<1>14. CASE UNCHANGED vars
  BY <1>14 DEF vars
<1>15. QED
  BY <1>1, <1>2, <1>3, <1>4, <1>5, <1>6, <1>7, <1>8, <1>9, <1>10, <1>11, <1>12, <1>13,
     <1>14 DEF Next, Client

LEMMA FlagsStep == FlagsOK /\ [Next]_vars => FlagsOK'
<1> SUFFICES ASSUME FlagsOK, [Next]_vars PROVE FlagsOK'
  OBVIOUS
<1> USE DEF FlagsOK, network, client
<1>1. CASE Start \/ Connect \/ Connack \/ Lost \/ Nothing \/ Test
  BY <1>1 DEF Start, Connect, Connack, Lost, Nothing, Test
<1>2. CASE Subscribe
  BY <1>2 DEF Subscribe
<1>3. CASE Ignore \/ RunCommand \/ NullColumn \/ Copy
  BY <1>3 DEF Ignore, RunCommand, NullColumn, Copy, ToDo
<1>4. CASE OpenFile \/ WriteBack \/ Terminate \/ EditWrite
  BY <1>4 DEF OpenFile, WriteBack, Terminate, EditWrite
<1>5. ASSUME NEW s \in Settings, Publish(s) PROVE FlagsOK'
  BY <1>5 DEF Publish
<1>6. ASSUME NEW b \in {"up", "refuses", "away"}, Fault(b) PROVE FlagsOK'
  BY <1>6 DEF Fault
<1>7. ASSUME NEW e \in Edits, EditRead(e) PROVE FlagsOK'
  BY <1>7 DEF EditRead
<1>8. CASE UNCHANGED vars
  BY <1>8 DEF vars
<1>9. QED
  BY <1>1, <1>2, <1>3, <1>4, <1>5, <1>6, <1>7, <1>8 DEF Next, Client

LEMMA DataStep == DataOK /\ [Next]_vars => DataOK'
<1> SUFFICES ASSUME DataOK, [Next]_vars PROVE DataOK'
  OBVIOUS
<1>1. CASE Start \/ Connect \/ Subscribe \/ Connack \/ Lost \/ Nothing \/ Test
  <2>1. UNCHANGED <<setting, copy, target, file, number, wanted, edit>>
    BY <1>1 DEF Start, Connect, Subscribe, Connack, Lost, Nothing, Test, replace, disk, editor
  <2>2. inbox' = inbox \/ inbox' = <<>>
    BY <1>1 DEF Start, Connect, Subscribe, Connack, Lost, Nothing, Test, network
  <2>3. inbox' \in Seq(Settings)
    <3>1. <<>> \in Seq(Settings)
      OBVIOUS
    <3>2. QED
      BY <2>2, <3>1 DEF DataOK
  <2>4. ~Busy'
    BY <1>1 DEF Start, Connect, Subscribe, Connack, Lost, Nothing, Test, AfterLoop, Back, Busy
  <2>5. QED
    BY <2>1, <2>3, <2>4, DataElsewhere
<1>2. CASE Ignore \/ RunCommand \/ NullColumn
  <2>1. UNCHANGED <<setting, copy, target, file, number, wanted, edit>>
    BY <1>2 DEF Ignore, RunCommand, NullColumn, ToDo, replace, disk, editor
  <2>2. inbox # <<>> /\ inbox' = Tail(inbox)
    BY <1>2 DEF Ignore, RunCommand, NullColumn, ToDo, Arrives
  <2>3. inbox' \in Seq(Settings)
    BY <2>2, HeadAndTail DEF DataOK
  <2>4. ~Busy'
    BY <1>2 DEF Ignore, RunCommand, NullColumn, Busy
  <2>5. QED
    BY <2>1, <2>3, <2>4, DataElsewhere
<1>3. CASE Copy
  <2>1. inbox # <<>> /\ inbox' = Tail(inbox)
    BY <1>3 DEF Copy, ToDo, Arrives
  <2>2. inbox' \in Seq(Settings) /\ Head(inbox) \in Settings
    BY <2>1, HeadAndTail DEF DataOK
  <2>3. UNCHANGED <<target, file, number, wanted, edit>>
    BY <1>3 DEF Copy, ToDo, editor
  <2>4. \/ /\ setting' = Head(inbox) /\ copy' = Replaced(file, Head(inbox))
           /\ pc' = "copied"
        \/ pc' = "test" /\ UNCHANGED <<setting, copy>>
    BY <1>3 DEF Copy
  <2>5. DOMAIN copy' = FileKeys
    BY <2>4 DEF Replaced, DataOK
  <2>6. QED
    BY <2>2, <2>3, <2>4, <2>5 DEF DataOK, Busy
<1>4. CASE OpenFile
  <2>1. UNCHANGED <<inbox, number, wanted, edit>>
    BY <1>4 DEF OpenFile, network, editor
  <2>2. \/ /\ file' = Gone /\ target' = number
           /\ pc = "copied" /\ UNCHANGED <<setting, copy>>
        \/ /\ pc' = "test" /\ setting' = NoSetting /\ copy' = FirstFile
           /\ UNCHANGED <<file, target>>
    BY <1>4 DEF OpenFile
  <2>3. DOMAIN file' = FileKeys /\ DOMAIN copy' = FileKeys
    BY <2>2, FirstIsFile DEF Gone, DataOK
  <2>4. QED
    BY <2>1, <2>2, <2>3 DEF DataOK, Busy
<1>5. CASE WriteBack
  <2>1. /\ UNCHANGED <<inbox, number, edit>>
        /\ pc' = "test" /\ setting' = NoSetting /\ target' = 0 /\ copy' = FirstFile
        /\ file' \in {file, copy}
    BY <1>5 DEF WriteBack, network, editor
  <2>2. setting \in Settings
    BY <1>5 DEF WriteBack, DataOK, Busy
  <2>3. wanted' \in [FileKeys -> STRING]
    BY <1>5, <2>2, MqttAssumption DEF WriteBack, DataOK
  <2>4. DOMAIN file' = FileKeys /\ DOMAIN copy' = FileKeys
    BY <2>1, FirstIsFile DEF DataOK
  <2>5. QED
    BY <2>1, <2>3, <2>4 DEF DataOK, Busy
<1>6. CASE Terminate
  BY <1>6 DEF Terminate, replace, network, disk, editor, DataOK, Busy
<1>7. CASE EditWrite
  <2>1. /\ UNCHANGED <<inbox, setting, copy, target, pc>>
        /\ edit # NoEdit /\ edit' = NoEdit /\ file' = edit[2] /\ number' = number + 1
    BY <1>7 DEF EditWrite, client, replace, network
  <2>2. wanted' \in [FileKeys -> STRING]
    BY <1>7, <2>1, MqttAssumption DEF EditWrite, DataOK
  <2>3. DOMAIN file' = FileKeys
    BY <2>1 DEF DataOK
  <2>4. QED
    BY <2>1, <2>2, <2>3 DEF DataOK, Busy
<1>8. ASSUME NEW s \in Settings, Publish(s) PROVE DataOK'
  <2>1. UNCHANGED <<setting, copy, target, file, number, wanted, edit, pc>>
    BY <1>8 DEF Publish, client, replace, disk, editor
  <2>2. inbox' \in Seq(Settings)
    BY <1>8 DEF Publish, DataOK
  <2>3. QED
    BY <2>1, <2>2 DEF DataOK, Busy
<1>9. ASSUME NEW b \in {"up", "refuses", "away"}, Fault(b) PROVE DataOK'
  <2>1. UNCHANGED <<setting, copy, target, file, number, wanted, edit, pc>>
    BY <1>9 DEF Fault, client, replace, disk, editor
  <2>2. inbox' \in Seq(Settings)
    BY <1>9 DEF Fault
  <2>3. QED
    BY <2>1, <2>2 DEF DataOK, Busy
<1>10. ASSUME NEW e \in Edits, EditRead(e) PROVE DataOK'
  <2>1. UNCHANGED <<setting, copy, target, file, number, wanted, pc, inbox>>
    BY <1>10 DEF EditRead, client, replace, network
  <2>2. edit' = <<e, [file EXCEPT ![e[1]] = IF @ = Absent THEN @ ELSE e[2]]>>
    BY <1>10 DEF EditRead
  <2>3. edit'[1] = e /\ DOMAIN edit'[2] = FileKeys
    BY <2>2 DEF DataOK
  <2>4. QED
    BY <2>1, <2>3 DEF DataOK, Busy
<1>11. CASE UNCHANGED vars
  BY <1>11 DEF vars, client, replace, network, disk, editor, DataOK, Busy
<1>12. QED
  BY <1>1, <1>2, <1>3, <1>4, <1>5, <1>6, <1>7, <1>8, <1>9, <1>10, <1>11 DEF Next, Client

\* The types, whatever the bounds: among them, that no step loses a key of the file or
\* leaves the program at work on what is not a setting.
THEOREM TypeCorrect == Spec => []TypeOK
<1>1. Init => ControlOK /\ DataOK
  BY FirstIsFile DEF Init, ControlOK, DataOK, Busy
<1>2. Init => FlagsOK
  BY DEF Init, FlagsOK
<1>3. TypeOK <=> ControlOK /\ FlagsOK /\ DataOK
  BY DEF TypeOK, ControlOK, FlagsOK, DataOK
<1>4. QED
  BY <1>1, <1>2, <1>3, ControlStep, FlagsStep, DataStep, PTL DEF Spec

--------------------------------------------------------------------------------
(* Never deaf *)

Connected == {"first", "loop", "test", "copied", "opened"}

\* Behind mqtt_connect there is a connection, or conn_state says there is none; and the
\* broker sends what is published over it, unless it was refused or not asked to.
LinkInv ==
  /\ pc = "subscribe" => link # "none"
  /\ pc \in Connected /\ link = "up" => subscribed \/ unasked \/ connack = "refused"
  /\ pc \in Connected /\ conn = "connected" => link # "none"

LEMMA LinkStep == LinkInv /\ [Next]_vars => LinkInv'
<1> SUFFICES ASSUME LinkInv, [Next]_vars PROVE LinkInv'
  OBVIOUS
<1> USE DEF LinkInv, Connected, network, client
<1>1. CASE Start \/ Connect \/ Test
  BY <1>1 DEF Start, Connect, Test
<1>2. CASE Subscribe
  BY <1>2 DEF Subscribe, Back
<1>3. CASE Connack
  BY <1>3 DEF Connack, AfterLoop, Back, InLoop
<1>4. CASE Lost
  BY <1>4 DEF Lost, AfterLoop, Back, InLoop
<1>5. CASE Nothing
  BY <1>5 DEF Nothing, AfterLoop, Back, InLoop
<1>6. CASE Ignore
  BY <1>6 DEF Ignore, Arrives
<1>7. CASE RunCommand \/ NullColumn \/ Copy
  BY <1>7 DEF RunCommand, NullColumn, Copy, ToDo, Arrives
<1>8. CASE OpenFile \/ WriteBack
  BY <1>8 DEF OpenFile, WriteBack
<1>9. CASE Terminate \/ EditWrite
  BY <1>9 DEF Terminate, EditWrite
<1>10. ASSUME NEW s \in Settings, Publish(s) PROVE LinkInv'
  BY <1>10 DEF Publish
<1>11. ASSUME NEW b \in {"up", "refuses", "away"}, Fault(b) PROVE LinkInv'
  BY <1>11 DEF Fault
<1>12. ASSUME NEW e \in Edits, EditRead(e) PROVE LinkInv'
  BY <1>12 DEF EditRead
<1>13. CASE UNCHANGED vars
  BY <1>13 DEF vars
<1>14. QED
  BY <1>1, <1>2, <1>3, <1>4, <1>5, <1>6, <1>7, <1>8, <1>9, <1>10, <1>11, <1>12, <1>13
     DEF Next, Client

\* A program that takes itself for connected is subscribed, however often the broker
\* went, refused or lost the connection before, unless subscribing itself failed on a
\* connection that is there.
THEOREM NeverDeaf == Spec => []NotDeaf
<1>1. Init => LinkInv
  BY DEF Init, LinkInv, Connected
<1>2. ControlOK /\ LinkInv => NotDeaf
  BY DEF ControlOK, LinkInv, NotDeaf, InLoop, Connected
<1>3. Init => ControlOK
  BY DEF Init, ControlOK
<1>4. QED
  BY <1>1, <1>2, <1>3, ControlStep, LinkStep, PTL DEF Spec

--------------------------------------------------------------------------------
(* What two writers who take turns leave in the file *)

Edited == [wanted EXCEPT ![edit[1][1]] = edit[1][2]]

TurnsInv ==
  /\ Busy => edit = NoEdit
  /\ pc # "opened" => file = wanted
  /\ edit # NoEdit => edit[2] = Edited
  /\ Busy => copy = Replaced(wanted, setting)
  /\ pc = "opened" => target = number

FileInv == ~overlapped => TurnsInv

\* The copy of the file is what the setting is meant to make of it.
LEMMA CopyIsMeant ==
  ASSUME NEW w \in [FileKeys -> STRING], NEW s
  PROVE  Replaced(w, s) = IF Read(w, s[2]) THEN [w EXCEPT ![s[2]] = s[3]] ELSE w
<1>1. CASE Read(w, s[2])
  <2>1. \A k \in FileKeys : Replaced(w, s)[k] = [w EXCEPT ![s[2]] = s[3]][k]
    BY <1>1 DEF Replaced
  <2>2. QED
    BY <1>1, <2>1 DEF Replaced
<1>2. CASE ~Read(w, s[2])
  <2>1. \A k \in FileKeys : Replaced(w, s)[k] = w[k]
    BY <1>2 DEF Replaced
  <2>2. QED
    BY <1>2, <2>1 DEF Replaced
<1>3. QED
  BY <1>1, <1>2

\* What sed makes of a file without a lost line.
LEMMA EditIsMeant ==
  ASSUME NEW w \in [FileKeys -> STRING], NEW e
  PROVE  [w EXCEPT ![e[1]] = IF @ = Absent THEN @ ELSE e[2]] = [w EXCEPT ![e[1]] = e[2]]
<1> DEFINE f == [w EXCEPT ![e[1]] = IF @ = Absent THEN @ ELSE e[2]]
           g == [w EXCEPT ![e[1]] = e[2]]
<1>1. \A k \in FileKeys : f[k] = g[k]
  BY MqttAssumption
<1>2. QED
  BY <1>1

\* A step that does not touch what the two writers work with.
LEMMA FileElsewhere ==
  ASSUME FileInv, UNCHANGED <<setting, copy, target, file, number, wanted, edit, overlapped>>,
         ~Busy \/ pc' = pc, ~Busy' \/ pc' = pc
  PROVE  FileInv'
<1>1. edit' = NoEdit <=> edit = NoEdit
  BY DEF NoEdit
<1>2. Edited' = Edited /\ Replaced(wanted, setting)' = Replaced(wanted, setting)
  BY DEF Edited, Replaced, Read
<1>3. QED
  BY <1>1, <1>2 DEF FileInv, TurnsInv, Busy

LEMMA FileStep == DataOK /\ FileInv /\ [Next]_vars => FileInv'
<1> SUFFICES ASSUME DataOK, FileInv, [Next]_vars PROVE FileInv'
  OBVIOUS
<1>1. CASE Start \/ Connect \/ Subscribe \/ Connack \/ Lost \/ Nothing \/ Test
  <2>1. UNCHANGED <<setting, copy, target, file, number, wanted, edit, overlapped>>
    BY <1>1 DEF Start, Connect, Subscribe, Connack, Lost, Nothing, Test, replace, disk, editor
  <2>2. ~Busy /\ ~Busy'
    BY <1>1 DEF Start, Connect, Subscribe, Connack, Lost, Nothing, Test, InLoop, AfterLoop, Back,
                Busy
  <2>3. QED
    BY <2>1, <2>2, FileElsewhere
<1>2. CASE Ignore \/ RunCommand \/ NullColumn
  <2>1. UNCHANGED <<setting, copy, target, file, number, wanted, edit, overlapped>>
    BY <1>2 DEF Ignore, RunCommand, NullColumn, ToDo, replace, disk, editor
  <2>2. ~Busy /\ ~Busy'
    BY <1>2 DEF Ignore, RunCommand, NullColumn, ToDo, Arrives, Busy
  <2>3. QED
    BY <2>1, <2>2, FileElsewhere
<1>3. CASE Copy
  <2>1. pc = "loop" /\ UNCHANGED <<target, file, number, wanted, edit>>
    BY <1>3 DEF Copy, ToDo, Arrives, editor
  <2>2. CASE pc' = "test" /\ UNCHANGED <<setting, copy, overlapped>>
    BY <2>1, <2>2, FileElsewhere DEF Busy
  <2>3. CASE /\ setting' = Head(inbox)
             /\ copy' = Replaced(file, Head(inbox))
             /\ pc' = "copied"
             /\ overlapped' = (overlapped \/ edit # NoEdit)
    <3>1. SUFFICES ASSUME ~overlapped' PROVE TurnsInv'
      BY DEF FileInv
    <3>2. ~overlapped /\ edit = NoEdit
      BY <2>3, <3>1
    <3>3. file = wanted
      BY <2>1, <3>2 DEF FileInv, TurnsInv
    <3>4. copy' = Replaced(wanted, setting)'
      BY <2>1, <2>3, <3>3 DEF Replaced, Read
    <3>5. edit' = NoEdit
      BY <2>1, <3>2 DEF NoEdit
    <3>6. QED
      BY <2>1, <2>3, <3>3, <3>4, <3>5 DEF TurnsInv
  <2>4. QED
    BY <1>3, <2>2, <2>3 DEF Copy
<1>4. CASE OpenFile
  <2>1. pc = "copied" /\ UNCHANGED <<number, wanted, edit>>
    BY <1>4 DEF OpenFile, editor
  <2>2. CASE overlapped' = TRUE
    BY <2>2 DEF FileInv
  <2>3. CASE target' = number /\ pc' = "opened" /\ UNCHANGED <<setting, copy, overlapped>>
    <3>1. SUFFICES ASSUME ~overlapped' PROVE TurnsInv'
      BY DEF FileInv
    <3>2. edit = NoEdit /\ copy = Replaced(wanted, setting)
      BY <2>1, <2>3, <3>1 DEF FileInv, TurnsInv, Busy
    <3>3. copy' = Replaced(wanted, setting)'
      BY <2>1, <2>3, <3>2 DEF Replaced, Read
    <3>4. edit' = NoEdit
      BY <2>1, <3>2 DEF NoEdit
    <3>5. QED
      BY <2>1, <2>3, <3>3, <3>4 DEF TurnsInv
  <2>4. QED
    BY <1>4, <2>2, <2>3 DEF OpenFile
<1>5. CASE WriteBack
  <2>1. pc = "opened" /\ pc' = "test" /\ UNCHANGED <<number, edit>>
    BY <1>5 DEF WriteBack, editor
  <2>2. CASE overlapped' = TRUE
    BY <2>2 DEF FileInv
  <2>3. CASE file' = (IF target = number THEN copy ELSE file) /\ UNCHANGED overlapped
    <3>1. SUFFICES ASSUME ~overlapped' PROVE TurnsInv'
      BY DEF FileInv
    <3>2. edit = NoEdit /\ copy = Replaced(wanted, setting) /\ target = number
      BY <2>1, <2>3, <3>1 DEF FileInv, TurnsInv, Busy
    <3>3. wanted' = Replaced(wanted, setting)
      BY <1>5, CopyIsMeant DEF WriteBack, DataOK
    <3>4. edit' = NoEdit /\ ~Busy'
      BY <2>1, <3>2 DEF NoEdit, Busy
    <3>5. QED
      BY <2>1, <2>3, <3>2, <3>3, <3>4 DEF TurnsInv
  <2>4. QED
    BY <1>5, <2>2, <2>3 DEF WriteBack
<1>6. CASE Terminate
  <2>1. UNCHANGED <<setting, copy, target, file, number, wanted, edit, overlapped, pc>>
    BY <1>6 DEF Terminate, replace, disk, editor
  <2>2. QED
    BY <2>1, FileElsewhere
<1>7. CASE EditWrite
  <2>1. /\ edit # NoEdit /\ edit' = NoEdit /\ file' = edit[2] /\ wanted' = Edited
        /\ UNCHANGED <<pc, overlapped>>
    BY <1>7 DEF EditWrite, Edited, client
  <2>2. SUFFICES ASSUME ~overlapped' PROVE TurnsInv'
    BY DEF FileInv
  <2>3. ~Busy /\ edit[2] = Edited
    BY <2>1, <2>2 DEF FileInv, TurnsInv
  <2>4. QED
    BY <2>1, <2>3 DEF TurnsInv, Busy, NoEdit
<1>8. ASSUME NEW s \in Settings, Publish(s) PROVE FileInv'
  <2>1. UNCHANGED <<setting, copy, target, file, number, wanted, edit, overlapped, pc>>
    BY <1>8 DEF Publish, client, replace, disk, editor
  <2>2. QED
    BY <2>1, FileElsewhere
<1>9. ASSUME NEW b \in {"up", "refuses", "away"}, Fault(b) PROVE FileInv'
  <2>1. UNCHANGED <<setting, copy, target, file, number, wanted, edit, overlapped, pc>>
    BY <1>9 DEF Fault, client, replace, disk, editor
  <2>2. QED
    BY <2>1, FileElsewhere
<1>10. ASSUME NEW e \in Edits, EditRead(e) PROVE FileInv'
  <2>1. /\ UNCHANGED <<setting, copy, target, file, number, wanted, pc>>
        /\ edit' = <<e, [file EXCEPT ![e[1]] = IF @ = Absent THEN @ ELSE e[2]]>>
        /\ overlapped' = (overlapped \/ Busy)
    BY <1>10 DEF EditRead, client, replace
  <2>2. SUFFICES ASSUME ~overlapped' PROVE TurnsInv'
    BY DEF FileInv
  <2>3. ~overlapped /\ ~Busy
    BY <2>1, <2>2
  <2>4. file = wanted
    BY <2>3 DEF FileInv, TurnsInv, Busy
  <2>5. edit'[1] = e /\ edit'[2] = [wanted EXCEPT ![e[1]] = e[2]]
    BY <2>1, <2>4, EditIsMeant DEF DataOK
  <2>6. edit'[2] = Edited'
    BY <2>1, <2>5 DEF Edited
  <2>7. QED
    BY <2>1, <2>3, <2>4, <2>6 DEF TurnsInv, Busy
<1>11. CASE UNCHANGED vars
  <2>1. UNCHANGED <<setting, copy, target, file, number, wanted, edit, overlapped, pc>>
    BY <1>11 DEF vars, client, replace, disk, editor
  <2>2. QED
    BY <2>1, FileElsewhere
<1>12. QED
  BY <1>1, <1>2, <1>3, <1>4, <1>5, <1>6, <1>7, <1>8, <1>9, <1>10, <1>11 DEF Next, Client

\* As long as the two writers take turns and can open the file, it keeps every line and
\* ends with the value last set in each, whatever is set and however often.
THEOREM SettingsAreKept == Spec => []SettingsKept
<1>1. Init => DataOK /\ FileInv
  BY FirstIsFile DEF Init, DataOK, FileInv, TurnsInv, Busy, NoEdit
<1>2. FileInv => SettingsKept
  BY DEF FileInv, TurnsInv, SettingsKept, Busy
<1>3. QED
  BY <1>1, <1>2, DataStep, FileStep, PTL DEF Spec
================================================================================
