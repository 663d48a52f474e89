----------------------------- MODULE Ipc2FileProofs -----------------------------
(***************************************************************************)
(* Proofs about Ipc2File, for every set of processes and every bound: type *)
(* correctness; that a second daemon serves only if launches have raced    *)
(* between check_pid and create_pid; and that the alarm files are those    *)
(* the history of events says, however many daemons there are.             *)
(***************************************************************************)
EXTENDS Ipc2File, SequenceTheorems, TLAPS

LEMMA TailType ==
  ASSUME NEW S, NEW s \in Seq(S), s # <<>>
  PROVE  Head(s) \in S /\ Tail(s) \in Seq(S) /\ Len(s) \in Nat /\ Len(Tail(s)) = Len(s) - 1
  BY SMT

LEMMA AppendType ==
  ASSUME NEW S, NEW s \in Seq(S), NEW e \in S
  PROVE  Append(s, e) \in Seq(S) /\ Len(s) \in Nat /\ Len(Append(s, e)) = Len(s) + 1
  BY SMT

\* Every message is parsed to an event.
LEMMA ParseType == \A m : Parse(m) \in Events
  BY DEF Parse, EventOf, Events, Alarms, Sound, Stop, Unrecognized

LEMMA AfterType ==
  ASSUME NEW e \in Events, NEW fs \in SUBSET (Alarms \cup {Sound}),
         NEW last \in Alarms \cup {Stop, NoAlarm}
  PROVE  /\ FilesAfter(fs, last, e) \subseteq Alarms \cup {Sound}
         /\ LastAfter(last, e) \in Alarms \cup {Stop, NoAlarm}
  BY DEF FilesAfter, LastAfter, Events

\* Every behaviour keeps the types; in particular last_alarm is never a sound.
THEOREM TypeCorrect == Spec => []TypeOK
<1> USE ConstantsAssumption
<1>1. Init => TypeOK
  <2> SUFFICES ASSUME Init PROVE TypeOK
    OBVIOUS
  <2>1. /\ queue \in Seq(Wires) /\ Len(queue) <= QueueDepth
        /\ handled \in Seq(Procs \X (Events \cup {"start"}))
    <3>1. <<>> \in Seq(Wires) /\ Len(<<>>) = 0 /\ <<>> \in Seq(Procs \X (Events \cup {"start"}))
      BY EmptySeq
    <3>2. QED
      BY <3>1 DEF Init
  <2>2. pc \in [Procs -> PC]
    BY DEF Init, PC
  <2>3. QED
    BY <2>1, <2>2 DEF Init, TypeOK
<1>2. TypeOK /\ [Next]_vars => TypeOK'
  <2> SUFFICES ASSUME TypeOK, [Next]_vars PROVE TypeOK'
    OBVIOUS
  <2>0. ASSUME NEW p \in Procs, Forget(p) \/ UNCHANGED memory
        PROVE  /\ lastAlarm' \in [Procs -> Alarms \cup {Stop, NoAlarm}]
               /\ exitMain' \in [Procs -> BOOLEAN] /\ soundThreads' \in [Procs -> Nat]
    <3> DEFINE L == Alarms \cup {Stop, NoAlarm}
    <3>1. /\ lastAlarm \in [Procs -> L] /\ exitMain \in [Procs -> BOOLEAN]
          /\ soundThreads \in [Procs -> Nat] /\ NoAlarm \in L
      BY DEF TypeOK
    <3> HIDE DEF L
    <3>2. CASE UNCHANGED memory
      BY <3>1, <3>2 DEF memory, L
    <3>3. CASE Forget(p)
      <4>1. lastAlarm' \in [Procs -> L]
        BY <3>1, <3>3 DEF Forget
      <4>2. exitMain' \in [Procs -> BOOLEAN]
        BY <3>1, <3>3 DEF Forget
      <4>3. soundThreads' \in [Procs -> Nat]
        BY <3>1, <3>3 DEF Forget
      <4>4. QED
        BY <4>1, <4>2, <4>3 DEF L
    <3>4. QED
      BY <2>0, <3>2, <3>3
  <2>19. ASSUME NEW p \in Procs, NEW a, NEW b \in PC, Goto(p, a, b)
         PROVE  pc' \in [Procs -> PC]
    <3>1. pc \in [Procs -> PC]
      BY DEF TypeOK
    <3>2. pc' = [pc EXCEPT ![p] = b]
      BY <2>19 DEF Goto
    <3>3. QED
      BY ONLY <3>1, <3>2, b \in PC
  <2>20. ASSUME NEW p \in Procs,
                CheckPid(p) \/ CreatePid(p) \/ WritePid(p) \/ OpenQueue(p) \/ Finish(p) \/ Crash(p)
         PROVE  TypeOK'
    <3>1. Forget(p) \/ UNCHANGED memory
      BY <2>20 DEF CheckPid, CreatePid, WritePid, OpenQueue, Finish, Crash, Exit
    <3>2. {"off", "create", "write", "open", "clear"} \subseteq PC
      BY DEF PC
    <3>3. pc' \in [Procs -> PC]
      <4>1. CASE CheckPid(p)
        BY <4>1, <3>2, <2>19 DEF CheckPid, Exit
      <4>2. CASE CreatePid(p)
        BY <4>2, <3>2, <2>19 DEF CreatePid, Exit
      <4>3. CASE WritePid(p)
        BY <4>3, <3>2, <2>19 DEF WritePid, Exit
      <4>4. CASE OpenQueue(p)
        BY <4>4, <3>2, <2>19 DEF OpenQueue, Exit
      <4>5. CASE Finish(p)
        BY <4>5, <3>2, <2>19 DEF Finish, Exit
      <4>6. CASE Crash(p)
        BY <4>6, <3>2, <2>19 DEF Crash, Exit
      <4>7. QED
        BY <2>20, <4>1, <4>2, <4>3, <4>4, <4>5, <4>6
    <3>4. UNCHANGED world
      BY <2>20 DEF CheckPid, CreatePid, WritePid, OpenQueue, Finish, Crash
    <3>5. pidFile' \in Procs \cup {NoPid, DeadPid}
      BY <2>20 DEF CheckPid, CreatePid, WritePid, OpenQueue, Finish, Crash, LeavePid, TypeOK
    <3>6. ended' \in BOOLEAN
      BY <2>20 DEF CheckPid, CreatePid, WritePid, OpenQueue, Finish, Crash, TypeOK
    <3>7. raced' \in BOOLEAN
      BY <2>20 DEF CheckPid, CreatePid, WritePid, OpenQueue, Finish, Crash, Races, TypeOK
    <3>8. QED
      BY <2>0, <3>1, <3>3, <3>4, <3>5, <3>6, <3>7 DEF TypeOK, world, queueVars
  <2> USE DEF TypeOK, queueVars, procVars, memory, world, Goto, PC
  <2>1. CASE CreateQueue
    BY <2>1 DEF CreateQueue
  <2>2. ASSUME NEW m \in Wires, Arrive(m) PROVE TypeOK'
    <3>1. queue' \in Seq(Wires) /\ Len(queue') <= QueueDepth
      BY <2>2, AppendType DEF Arrive
    <3>2. QED
      BY <2>2, <3>1 DEF Arrive
  <2>3. ASSUME NEW p \in Procs, Launch(p) PROVE TypeOK'
    BY <2>3 DEF Launch
  <2>7. ASSUME NEW p \in Procs, ClearTest(p) PROVE TypeOK'
    <3>1. handled' \in Seq(Procs \X (Events \cup {"start"}))
      <4>1. handled' = Append(handled, <<p, "start">>) \/ handled' = handled
        BY <2>7 DEF ClearTest
      <4>2. /\ handled \in Seq(Procs \X (Events \cup {"start"}))
            /\ <<p, "start">> \in Procs \X (Events \cup {"start"})
        OBVIOUS
      <4>3. Append(handled, <<p, "start">>) \in Seq(Procs \X (Events \cup {"start"}))
        BY ONLY <4>2, AppendType
      <4>4. QED
        BY ONLY <4>1, <4>2, <4>3
    <3>2. QED
      BY <2>7, <3>1 DEF ClearTest
  <2>8. ASSUME NEW p \in Procs, ClearDrop(p) PROVE TypeOK'
    <3>1. queue' \in Seq(Wires) /\ Len(queue') <= QueueDepth
      BY <2>8, TailType DEF ClearDrop
    <3>2. QED
      BY <2>8, <3>1 DEF ClearDrop
  <2>9. ASSUME NEW p \in Procs, LoopTest(p) PROVE TypeOK'
    BY <2>9 DEF LoopTest
  <2>10. ASSUME NEW p \in Procs, Receive(p) PROVE TypeOK'
    <3> DEFINE e == Parse(Head(queue))
    <3>1. e \in Events
      BY ParseType
    <3>2. queue' \in Seq(Wires) /\ Len(queue') <= QueueDepth
      <4>1. queue # <<>> /\ queue' = Tail(queue) /\ queue \in Seq(Wires) /\ Len(queue) <= QueueDepth
        BY <2>10 DEF Receive
      <4>2. Tail(queue) \in Seq(Wires) /\ Len(queue) \in Nat /\ Len(Tail(queue)) = Len(queue) - 1
        BY ONLY <4>1, TailType
      <4>3. QED
        BY <4>1, <4>2
    <3>3. handled' \in Seq(Procs \X (Events \cup {"start"}))
      <4>1. handled' = Append(handled, <<p, e>>) \/ handled' = handled
        BY <2>10 DEF Receive
      <4>2. /\ handled \in Seq(Procs \X (Events \cup {"start"}))
            /\ <<p, e>> \in Procs \X (Events \cup {"start"})
        BY <3>1
      <4>3. Append(handled, <<p, e>>) \in Seq(Procs \X (Events \cup {"start"}))
        <5> HIDE DEF e
        <5>1. QED
          BY ONLY <4>2, AppendType
      <4>4. QED
        BY ONLY <4>1, <4>2, <4>3
    <3>4. files' \subseteq Alarms \cup {Sound}
      <4>1. files' = FilesAfter(files, lastAlarm[p], e) \/ files' = files
        BY <2>10 DEF Receive
      <4>2. files \in SUBSET (Alarms \cup {Sound}) /\ lastAlarm[p] \in Alarms \cup {Stop, NoAlarm}
        OBVIOUS
      <4>3. FilesAfter(files, lastAlarm[p], e) \subseteq Alarms \cup {Sound}
        <5> HIDE DEF e
        <5>1. QED
          BY ONLY <3>1, <4>2, AfterType
      <4>4. QED
        BY ONLY <4>1, <4>2, <4>3
    <3>5. lastAlarm' \in [Procs -> Alarms \cup {Stop, NoAlarm}]
      <4>1. \/ lastAlarm' = [lastAlarm EXCEPT ![p] = LastAfter(lastAlarm[p], e)]
            \/ lastAlarm' = lastAlarm
        BY <2>10 DEF Receive
      <4>2. /\ files \in SUBSET (Alarms \cup {Sound})
            /\ lastAlarm \in [Procs -> Alarms \cup {Stop, NoAlarm}]
            /\ lastAlarm[p] \in Alarms \cup {Stop, NoAlarm}
        OBVIOUS
      <4>3. LastAfter(lastAlarm[p], e) \in Alarms \cup {Stop, NoAlarm}
        <5> HIDE DEF e
        <5>1. QED
          BY ONLY <3>1, <4>2, AfterType
      <4>4. QED
        BY ONLY <4>1, <4>2, <4>3
    <3>6. soundThreads' \in [Procs -> Nat]
      BY <2>10 DEF Receive
    <3>7. QED
      BY <2>10, <3>2, <3>3, <3>4, <3>5, <3>6 DEF Receive
  <2>12. ASSUME NEW p \in Procs, Interrupt(p) PROVE TypeOK'
    BY <2>12 DEF Interrupt
  <2>13. ASSUME NEW p \in Procs, SoundTimeout(p) PROVE TypeOK'
    BY <2>13 DEF SoundTimeout
  <2>15. CASE Terminate
    BY <2>15 DEF Terminate
  <2>16. CASE UNCHANGED vars
    BY <2>16 DEF vars
  <2>17. QED
    BY <2>1, <2>2, <2>3, <2>7, <2>8, <2>9, <2>10, <2>12, <2>13, <2>15, <2>16, <2>20
       DEF Next, Step
<1>3. QED
  BY <1>1, <1>2, PTL DEF Spec

--------------------------------------------------------------------------------

\* PidFileOwned strengthened: the pid file names a process only while that one serves,
\* and, unless launches have raced, at most one process is past check_pid without its
\* pid in the file, and meanwhile nobody serves.
PidInv ==
  /\ pidFile \in Procs => Serving(pidFile)
  /\ PidFileOwned
  /\ \A p \in Procs : Creating(p) => pidFile \notin Procs \/ raced
  /\ \A p, q \in Procs : Creating(p) /\ Creating(q) => p = q \/ raced

LEMMA PidInvariant == Spec => []PidInv
<1> USE ConstantsAssumption
<1>1. Init => PidInv
  BY DEF Init, PidInv, PidFileOwned, Serving, Creating, PC
<1>2. TypeOK /\ PidInv /\ [Next]_vars => PidInv'
  <2> SUFFICES ASSUME TypeOK, PidInv, [Next]_vars PROVE PidInv'
    OBVIOUS
  <2>0. pc \in [Procs -> PC]
    BY DEF TypeOK
  <2> USE <2>0 DEF PidInv, PidFileOwned, Serving, Creating, PC, Goto, LeavePid, Exit
  <2>1. ASSUME NEW p \in Procs, Launch(p) PROVE PidInv'
    BY <2>1 DEF Launch
  <2>2. ASSUME NEW p \in Procs, CheckPid(p) PROVE PidInv'
    <3>1. CASE Exit(p, "check") /\ UNCHANGED <<pidFile, raced>>
      BY <3>1
    <3>2. CASE pidFile \notin Procs /\ Goto(p, "check", "create") /\ Races /\ UNCHANGED pidFile
      <4>1. raced => raced'
        BY <3>2 DEF Races
      <4>2. \A o \in Procs : Creating(o) => raced'
        BY <3>2 DEF Races
      <4>3. QED
        BY <3>2, <4>1, <4>2
    <3>3. QED
      BY <2>2, <3>1, <3>2 DEF CheckPid
  <2>3. ASSUME NEW p \in Procs, CreatePid(p) PROVE PidInv'
    BY <2>3 DEF CreatePid
  <2>10. ASSUME NEW p \in Procs, WritePid(p) PROVE PidInv'
    BY <2>10 DEF WritePid
  <2>4. ASSUME NEW p \in Procs, OpenQueue(p) PROVE PidInv'
    BY <2>4 DEF OpenQueue
  <2>5. ASSUME NEW p \in Procs, ClearTest(p) \/ ClearDrop(p) \/ LoopTest(p) \/ Receive(p)
                                \/ Interrupt(p)
        PROVE PidInv'
    BY <2>5 DEF ClearTest, ClearDrop, LoopTest, Receive, Interrupt
  <2>6. ASSUME NEW p \in Procs, Finish(p) PROVE PidInv'
    BY <2>6 DEF Finish
  <2>7. ASSUME NEW p \in Procs, Crash(p) PROVE PidInv'
    BY <2>7 DEF Crash
  <2>8. ASSUME UNCHANGED <<pc, pidFile, raced>> PROVE PidInv'
    BY <2>8
  <2>9. QED
    BY <2>1, <2>2, <2>3, <2>4, <2>5, <2>6, <2>7, <2>8, <2>10
       DEF Next, Step, CreateQueue, Arrive, SoundTimeout, Terminate, vars, procVars, world
<1>3. QED
  BY <1>1, <1>2, TypeCorrect, PTL DEF Spec

\* However many launches, terminations, failures and crashes there are, and even if the
\* pid of a dead daemon is taken by another program, two daemons serve at once only if
\* two launches have been between check_pid and the end of create_pid at the same time.
THEOREM OneDaemon == Spec => []AtMostOneDaemon
<1>1. PidInv => AtMostOneDaemon
  BY DEF PidInv, PidFileOwned, AtMostOneDaemon
<1>2. QED
  BY <1>1, PidInvariant, PTL

--------------------------------------------------------------------------------
(* The alarm files.  Each daemon that serves knows the last mark of its own in   *)
(* the history, and what an event does to the files it does to Raised.           *)

MarksOf(h, q, k) == {j \in 1..k-1 : h[j][1] = q /\ IsMark(h[j][2])}
Top(S) == CHOOSE j \in S : \A l \in S : l <= j
LastOf(h, q, k) == IF MarksOf(h, q, k) = {} THEN NoAlarm ELSE h[Top(MarksOf(h, q, k))][2]
HasTop(S) == S = {} \/ \E j \in S : \A l \in S : l <= j
HasTops(h) == \A q : \A k \in 1..Len(h)+1 : HasTop(MarksOf(h, q, k))
EndedIn(h, a, l) == h[l][2] = Stop /\ LastOf(h, h[l][1], l) = a
RaisedOf(h) ==
  {a \in Alarms : \E k \in 1..Len(h) :
     h[k][2] = a /\ \A l \in k+1..Len(h) : ~EndedIn(h, a, l)}

LEMMA TopIs ==
  ASSUME NEW S \in SUBSET Int, NEW j \in S, \A l \in S : l <= j
  PROVE  Top(S) = j
<1>1. Top(S) \in S /\ \A l \in S : l <= Top(S)
  BY DEF Top
<1>2. Top(S) <= j /\ j <= Top(S) /\ Top(S) \in Int
  BY <1>1
<1>3. QED
  BY <1>2

LEMMA RaisedIs == Raised = RaisedOf(handled)
<1>1. \A q, k : LastBefore(q, k) = LastOf(handled, q, k)
  BY DEF LastBefore, LastOf, MarksOf, Top
<1>2. \A a, l : Ended(a, l) <=> EndedIn(handled, a, l)
  BY <1>1 DEF Ended, EndedIn
<1>3. QED
  BY <1>2 DEF Raised, RaisedOf

\* What one more event of a daemon adds to the history.
LEMMA OneMore ==
  ASSUME NEW S, NEW h \in Seq(S), NEW x \in S, HasTops(h)
  PROVE  LET g == Append(h, x)
             n == Len(h)
         IN /\ n \in Nat /\ Len(g) = n + 1 /\ g[n+1] = x /\ \A k \in 1..n : g[k] = h[k]
            /\ HasTops(g)
            /\ \A q : \A k \in 1..n+1 : LastOf(g, q, k) = LastOf(h, q, k)
            /\ \A q : LastOf(g, q, n+2) =
                        IF q = x[1] /\ IsMark(x[2]) THEN x[2] ELSE LastOf(h, q, n+1)
<1> DEFINE g == Append(h, x)
           n == Len(h)
           own(q) == q = x[1] /\ IsMark(x[2])
<1>0. g = Append(h, x) /\ n = Len(h)
  OBVIOUS
<1> HIDE DEF g, n
<1> USE <1>0
<1>1. n \in Nat /\ Len(g) = n + 1 /\ g[n+1] = x /\ \A k \in 1..n : g[k] = h[k]
  BY AppendProperties
<1>2. ASSUME NEW q, NEW k \in 1..n+1
      PROVE  MarksOf(g, q, k) = MarksOf(h, q, k) /\ LastOf(g, q, k) = LastOf(h, q, k)
  <2>1. \A j \in 1..k-1 : j \in 1..n
    BY <1>1
  <2>2. MarksOf(g, q, k) = MarksOf(h, q, k)
    BY <1>1, <2>1 DEF MarksOf
  <2>3. ASSUME MarksOf(h, q, k) # {} PROVE Top(MarksOf(h, q, k)) \in 1..n
    <3>1. PICK j \in MarksOf(h, q, k) : \A l \in MarksOf(h, q, k) : l <= j
      BY <1>1, <2>3 DEF HasTops, HasTop
    <3>2. MarksOf(h, q, k) \in SUBSET Int /\ j \in 1..n
      BY <2>1 DEF MarksOf
    <3>3. Top(MarksOf(h, q, k)) = j
      BY <3>1, <3>2, TopIs
    <3>4. QED
      BY <3>2, <3>3
  <2>4. QED
    BY <1>1, <2>2, <2>3 DEF LastOf
<1>3. \A q : MarksOf(g, q, n+2) = MarksOf(h, q, n+1) \cup (IF own(q) THEN {n+1} ELSE {})
  <2>1. \A j : j \in 1..(n+2)-1 <=> j \in 1..(n+1)-1 \/ j = n+1
    BY <1>1
  <2>2. \A j \in 1..(n+1)-1 : g[j] = h[j] /\ j # n+1
    BY <1>1
  <2>3. QED
    BY <1>1, <2>1, <2>2 DEF MarksOf
<1>4. \A q : MarksOf(h, q, n+1) \in SUBSET Int /\ \A l \in MarksOf(h, q, n+1) : l <= n+1
  BY <1>1 DEF MarksOf
<1>5. ASSUME NEW q
      PROVE  /\ HasTop(MarksOf(g, q, n+2))
             /\ LastOf(g, q, n+2) = IF own(q) THEN x[2] ELSE LastOf(h, q, n+1)
  <2>1. CASE own(q)
    <3>1. MarksOf(g, q, n+2) \in SUBSET Int /\ n+1 \in MarksOf(g, q, n+2)
          /\ \A l \in MarksOf(g, q, n+2) : l <= n+1
      BY <1>1, <1>3, <1>4, <2>1
    <3>2. Top(MarksOf(g, q, n+2)) = n+1
      BY <3>1, TopIs
    <3>3. LastOf(g, q, n+2) = x[2]
      BY <1>1, <3>1, <3>2 DEF LastOf
    <3>4. QED
      BY <2>1, <3>1, <3>3 DEF HasTop
  <2>2. CASE ~own(q)
    <3>1. n+1 \in 1..n+1 /\ n+1 \in 1..Len(h)+1
      BY <1>1
    <3>2. MarksOf(g, q, n+2) = MarksOf(h, q, n+1) /\ MarksOf(g, q, n+1) = MarksOf(h, q, n+1)
      BY <1>2, <1>3, <2>2, <3>1
    <3>3. LastOf(g, q, n+2) = LastOf(g, q, n+1) /\ LastOf(g, q, n+1) = LastOf(h, q, n+1)
      BY <1>2, <3>1, <3>2 DEF LastOf
    <3>4. HasTop(MarksOf(g, q, n+2))
      BY <3>1, <3>2 DEF HasTops
    <3>5. QED
      BY <2>2, <3>3, <3>4
  <2>3. QED
    BY <2>1, <2>2
<1>6. HasTops(g)
  <2> SUFFICES ASSUME NEW q, NEW k \in 1..Len(g)+1 PROVE HasTop(MarksOf(g, q, k))
    BY DEF HasTops
  <2>1. k = n+2 \/ (k \in 1..n+1 /\ k \in 1..Len(h)+1)
    BY <1>1
  <2>2. CASE k = n+2
    BY <1>5, <2>2
  <2>3. CASE k \in 1..n+1 /\ k \in 1..Len(h)+1
    BY <1>2, <2>3 DEF HasTops
  <2>4. QED
    BY <2>1, <2>2, <2>3
<1>7. QED
  BY <1>1, <1>2, <1>5, <1>6 DEF g, n

LEMMA RaisedMore ==
  ASSUME NEW S, NEW h \in Seq(S), NEW x \in S, HasTops(h)
  PROVE  LET g == Append(h, x) IN
         /\ x[2] = Stop => RaisedOf(g) = RaisedOf(h) \ {LastOf(h, x[1], Len(h)+1)}
         /\ x[2] \in Alarms => RaisedOf(g) = RaisedOf(h) \cup {x[2]}
         /\ x[2] \notin Alarms \cup {Stop} => RaisedOf(g) = RaisedOf(h)
<1> DEFINE g == Append(h, x)
           n == Len(h)
<1>1. g = Append(h, x) /\ n = Len(h)
  OBVIOUS
<1>2. /\ n \in Nat /\ Len(g) = n + 1 /\ g[n+1] = x /\ \A k \in 1..n : g[k] = h[k]
      /\ \A q : \A k \in 1..n+1 : LastOf(g, q, k) = LastOf(h, q, k)
  BY OneMore
<1> HIDE DEF g, n
<1>3. Stop \notin Alarms
  BY DEF Stop, Alarms
\* An alarm raised before position n+1 and not ended since.
<1> DEFINE Was(a) == \E k \in 1..n :
             h[k][2] = a /\ \A l \in k+1..n : ~EndedIn(h, a, l)
           End(a) == x[2] = Stop /\ LastOf(h, x[1], n+1) = a
<1>9. /\ \A a : \A l \in 1..n : EndedIn(g, a, l) <=> EndedIn(h, a, l)
      /\ \A a : EndedIn(g, a, n+1) <=> End(a)
  <2>1. \A l \in 1..n : l \in 1..n+1
    BY <1>2
  <2>2. n+1 \in 1..n+1
    BY <1>2
  <2>3. QED
    BY <1>2, <2>1, <2>2 DEF EndedIn
<1>4. ASSUME NEW a \in Alarms
      PROVE  a \in RaisedOf(g) <=> (Was(a) /\ ~End(a)) \/ x[2] = a
  <2>1. ASSUME NEW k \in 1..n+1, g[k][2] = a,
               \A l \in k+1..n+1 : ~EndedIn(g, a, l), x[2] # a
        PROVE  Was(a) /\ ~End(a)
    <3>1. k \in 1..n
      BY <1>2, <2>1
    <3>2. n+1 \in k+1..n+1
      BY <1>2, <3>1
    <3>3. ~End(a)
      BY <1>9, <2>1, <3>2
    <3>4. \A l \in k+1..n : l \in k+1..n+1 /\ l \in 1..n
      BY <1>2, <3>1
    <3>5. Was(a)
      BY <1>2, <1>9, <2>1, <3>1, <3>4
    <3>6. QED
      BY <3>3, <3>5
  <2>2. ASSUME Was(a), ~End(a)
        PROVE  \E k \in 1..n+1 : g[k][2] = a /\ \A l \in k+1..n+1 : ~EndedIn(g, a, l)
    <3>1. PICK k \in 1..n : h[k][2] = a /\ \A l \in k+1..n : ~EndedIn(h, a, l)
      BY <2>2
    <3>2. \A l \in k+1..n+1 : (l \in k+1..n /\ l \in 1..n) \/ l = n+1
      BY <1>2
    <3>3. \A l \in k+1..n+1 : ~EndedIn(g, a, l)
      BY <1>9, <2>2, <3>1, <3>2
    <3>4. k \in 1..n+1 /\ g[k][2] = a
      BY <1>2, <3>1
    <3>5. QED
      BY <3>3, <3>4
  <2>3. ASSUME x[2] = a
        PROVE  \E k \in 1..n+1 : g[k][2] = a /\ \A l \in k+1..n+1 : ~EndedIn(g, a, l)
    <3>1. n+1 \in 1..n+1 /\ \A l \in (n+1)+1..n+1 : FALSE
      BY <1>2
    <3>2. QED
      BY <1>2, <2>3, <3>1
  <2>4. QED
    BY <1>2, <2>1, <2>2, <2>3 DEF RaisedOf
<1>5. \A a \in Alarms : a \in RaisedOf(h) <=> Was(a)
  BY <1>1 DEF RaisedOf
<1>6. RaisedOf(g) \subseteq Alarms /\ RaisedOf(h) \subseteq Alarms
  BY DEF RaisedOf
<1> HIDE DEF Was
<1>7. /\ x[2] = Stop => RaisedOf(g) = RaisedOf(h) \ {LastOf(h, x[1], n+1)}
      /\ x[2] \in Alarms => RaisedOf(g) = RaisedOf(h) \cup {x[2]}
      /\ x[2] \notin Alarms \cup {Stop} => RaisedOf(g) = RaisedOf(h)
  BY <1>3, <1>4, <1>5, <1>6
<1>8. QED
  BY <1>7 DEF g, n

Started == {"loop", "receive", "stop"}
\* last_alarm after the last mark of a daemon.
Told(m) == IF m \in Alarms \cup {Stop} THEN m ELSE NoAlarm
AlarmInv ==
  /\ HasTops(handled)
  /\ files \ {Sound} = RaisedOf(handled)
  /\ \A p \in Procs :
       lastAlarm[p] = IF pc[p] \in Started THEN Told(LastOf(handled, p, Len(handled)+1))
                                           ELSE NoAlarm

\* An event that takes effect, or the start of a daemon, joins the history.
LEMMA AlarmEvent ==
  ASSUME TypeOK, AlarmInv, NEW p \in Procs, NEW e \in Events \cup {"start"},
         handled' = Append(handled, <<p, e>>)
  PROVE  /\ HasTops(handled')
         /\ \A q : LastOf(handled', q, Len(handled')+1) =
                     IF q = p /\ IsMark(e) THEN e ELSE LastOf(handled, q, Len(handled)+1)
         /\ e = Stop =>
              RaisedOf(handled') = RaisedOf(handled) \ {LastOf(handled, p, Len(handled)+1)}
         /\ e \in Alarms => RaisedOf(handled') = RaisedOf(handled) \cup {e}
         /\ e \notin Alarms \cup {Stop} => RaisedOf(handled') = RaisedOf(handled)
<1>1. PICK h : h = handled
  OBVIOUS
<1>2. PICK g : g = handled'
  OBVIOUS
<1>3. PICK n : n = Len(h)
  OBVIOUS
<1>4. PICK x : x = <<p, e>>
  OBVIOUS
<1>5. x \in Procs \X (Events \cup {"start"}) /\ x[1] = p /\ x[2] = e
  BY <1>4
<1>6. h \in Seq(Procs \X (Events \cup {"start"})) /\ g = Append(h, x) /\ HasTops(h)
  BY <1>1, <1>2, <1>4 DEF TypeOK, AlarmInv
<1>7. /\ n \in Nat /\ Len(g) = n + 1 /\ HasTops(g)
      /\ \A q : LastOf(g, q, n+2) =
                  IF q = x[1] /\ IsMark(x[2]) THEN x[2] ELSE LastOf(h, q, n+1)
  BY <1>3, <1>5, <1>6, OneMore
<1>8. /\ x[2] = Stop => RaisedOf(g) = RaisedOf(h) \ {LastOf(h, x[1], Len(h)+1)}
      /\ x[2] \in Alarms => RaisedOf(g) = RaisedOf(h) \cup {x[2]}
      /\ x[2] \notin Alarms \cup {Stop} => RaisedOf(g) = RaisedOf(h)
  BY <1>5, <1>6, RaisedMore
<1>9. Len(g) + 1 = n + 2
  BY <1>7
<1>10. QED
  BY <1>1, <1>2, <1>3, <1>5, <1>7, <1>8, <1>9

\* A step without an event: every process keeps its last_alarm while it stays started
\* or not, and one that ends forgets it.
LEMMA AlarmKept ==
  ASSUME AlarmInv, UNCHANGED handled, files' \ {Sound} = files \ {Sound},
         \A p \in Procs :
           \/ lastAlarm'[p] = lastAlarm[p] /\ (pc'[p] \in Started <=> pc[p] \in Started)
           \/ lastAlarm'[p] = NoAlarm /\ pc'[p] \notin Started
  PROVE  AlarmInv'
<1>1. HasTops(handled') /\ files' \ {Sound} = RaisedOf(handled')
  BY DEF AlarmInv
<1>2. ASSUME NEW p \in Procs
      PROVE  lastAlarm'[p] = IF pc'[p] \in Started
                               THEN Told(LastOf(handled', p, Len(handled')+1)) ELSE NoAlarm
  BY DEF AlarmInv
<1>3. QED
  BY <1>1, <1>2 DEF AlarmInv

\* The files are always those the history of events says.
LEMMA AlarmInvariant == Spec => []AlarmInv
<1>0. NoAlarm \notin Alarms /\ Stop \notin Alarms /\ Sound \notin Alarms /\ "start" \notin Alarms
      /\ Unrecognized \notin Alarms /\ NoAlarm # Stop /\ "start" # Stop /\ Sound # Stop
      /\ Unrecognized # Stop /\ Sound # "start" /\ Unrecognized # "start"
  BY DEF NoAlarm, Alarms, Stop, Sound, Unrecognized
<1>1. Init => AlarmInv
  <2> SUFFICES ASSUME Init PROVE AlarmInv
    OBVIOUS
  <2>1. handled = <<>> /\ files = {} /\ \A p \in Procs : pc[p] = "off" /\ lastAlarm[p] = NoAlarm
    BY DEF Init
  <2>2. Len(handled) = 0
    BY <2>1
  <2>3. \A q : \A k \in 1..Len(handled)+1 : MarksOf(handled, q, k) = {}
    BY <2>2 DEF MarksOf
  <2>4. HasTops(handled)
    BY <2>3 DEF HasTops, HasTop
  <2>5. RaisedOf(handled) = {}
    BY <2>2 DEF RaisedOf
  <2>6. QED
    BY <2>1, <2>4, <2>5 DEF AlarmInv, Started
<1>2. TypeOK /\ AlarmInv /\ [Next]_vars => AlarmInv'
  <2> SUFFICES ASSUME TypeOK, AlarmInv, [Next]_vars PROVE AlarmInv'
    OBVIOUS
  <2>0. pc \in [Procs -> PC] /\ lastAlarm \in [Procs -> Alarms \cup {Stop, NoAlarm}]
    BY DEF TypeOK
  <2>1. ASSUME UNCHANGED <<files, handled, lastAlarm, pc>> PROVE AlarmInv'
    BY <2>1, AlarmKept
  <2>2. ASSUME NEW p \in Procs, UNCHANGED <<files, handled>>,
               \A q \in Procs : q # p => pc'[q] = pc[q] /\ lastAlarm'[q] = lastAlarm[q],
               \/ lastAlarm'[p] = lastAlarm[p] /\ (pc'[p] \in Started <=> pc[p] \in Started)
               \/ lastAlarm'[p] = NoAlarm /\ pc'[p] \notin Started
        PROVE  AlarmInv'
    BY <2>2, AlarmKept
  <2>3. ASSUME NEW p \in Procs,
               Launch(p) \/ CheckPid(p) \/ CreatePid(p) \/ WritePid(p) \/ OpenQueue(p)
        PROVE  AlarmInv'
    <3>1. /\ UNCHANGED <<files, handled>>
          /\ \A q \in Procs : q # p => pc'[q] = pc[q] /\ lastAlarm'[q] = lastAlarm[q]
          /\ \/ lastAlarm'[p] = lastAlarm[p] /\ (pc'[p] \in Started <=> pc[p] \in Started)
             \/ lastAlarm'[p] = NoAlarm /\ pc'[p] \notin Started
      BY <2>0, <2>3 DEF Launch, CheckPid, CreatePid, WritePid, OpenQueue, Goto, Exit, Forget,
                        memory, world, Started
    <3>2. QED
      BY <2>2, <3>1
  <2>4. ASSUME NEW p \in Procs,
               ClearDrop(p) \/ LoopTest(p) \/ Interrupt(p) \/ Finish(p) \/ Crash(p)
        PROVE  AlarmInv'
    <3>1. /\ UNCHANGED <<files, handled>>
          /\ \A q \in Procs : q # p => pc'[q] = pc[q] /\ lastAlarm'[q] = lastAlarm[q]
          /\ \/ lastAlarm'[p] = lastAlarm[p] /\ (pc'[p] \in Started <=> pc[p] \in Started)
             \/ lastAlarm'[p] = NoAlarm /\ pc'[p] \notin Started
      BY <2>0, <2>4 DEF ClearDrop, LoopTest, Interrupt, Finish, Crash, Goto, Exit, Forget,
                        memory, world, Started
    <3>2. QED
      BY <2>2, <3>1
  <2>5. ASSUME NEW p \in Procs, ClearTest(p) PROVE AlarmInv'
    <3>1. /\ UNCHANGED <<files, lastAlarm>> /\ pc[p] = "clear"
          /\ \A q \in Procs : q # p => pc'[q] = pc[q]
      BY <2>0, <2>5 DEF ClearTest, Goto
    <3>2. CASE queue # <<>>
      <4>1. UNCHANGED handled /\ pc'[p] = "drop"
        BY <2>0, <2>5, <3>2 DEF ClearTest, Goto
      <4>2. QED
        BY <2>2, <3>1, <4>1 DEF Started
    <3>3. CASE queue = <<>>
      <4>1. pc'[p] = "loop" /\ handled' = Append(handled, <<p, "start">>)
        BY <2>0, <2>5, <3>3 DEF ClearTest, Goto
      <4>2. /\ HasTops(handled')
            /\ \A q : LastOf(handled', q, Len(handled')+1) =
                        IF q = p THEN "start" ELSE LastOf(handled, q, Len(handled)+1)
            /\ RaisedOf(handled') = RaisedOf(handled)
        <5>1. "start" \in Events \cup {"start"} /\ IsMark("start")
          BY DEF IsMark
        <5>2. QED
          BY <1>0, <4>1, <5>1, AlarmEvent
      <4>3. ASSUME NEW q \in Procs
            PROVE  lastAlarm'[q] = IF pc'[q] \in Started
                                     THEN Told(LastOf(handled', q, Len(handled')+1)) ELSE NoAlarm
        <5>1. CASE q = p
          <6>1. lastAlarm[p] = NoAlarm
            BY <3>1 DEF AlarmInv, Started
          <6>2. Told(LastOf(handled', p, Len(handled')+1)) = NoAlarm
            BY <1>0, <4>2 DEF Told
          <6>3. QED
            BY <3>1, <5>1, <6>1, <6>2
        <5>2. CASE q # p
          BY <3>1, <4>2, <5>2 DEF AlarmInv
        <5>3. QED
          BY <5>1, <5>2
      <4>4. files' \ {Sound} = RaisedOf(handled')
        BY <3>1, <4>2 DEF AlarmInv
      <4>5. QED
        BY <4>2, <4>3, <4>4 DEF AlarmInv
    <3>4. QED
      BY <3>2, <3>3
  <2>6. ASSUME NEW p \in Procs, Receive(p) PROVE AlarmInv'
    <3>1. /\ pc[p] = "receive" /\ pc'[p] = "loop" /\ \A q \in Procs : q # p => pc'[q] = pc[q]
      BY <2>0, <2>6 DEF Receive, Goto
    <3>2. PICK e \in Events : e = Parse(Head(queue))
      BY ParseType
    <3>3. CASE UNCHANGED <<files, lastAlarm, handled>>
      BY <2>2, <3>1, <3>3 DEF Started
    <3>4. CASE /\ files' = FilesAfter(files, lastAlarm[p], e)
               /\ lastAlarm' = [lastAlarm EXCEPT ![p] = LastAfter(@, e)]
               /\ handled' = Append(handled, <<p, e>>)
      <4>1. PICK l : l = LastOf(handled, p, Len(handled)+1)
        OBVIOUS
      <4>2. PICK m : m = LastOf(handled', p, Len(handled')+1)
        OBVIOUS
      <4>3. /\ HasTops(handled')
            /\ \A q : LastOf(handled', q, Len(handled')+1) =
                        IF q = p /\ IsMark(e) THEN e ELSE LastOf(handled, q, Len(handled)+1)
            /\ e = Stop => RaisedOf(handled') = RaisedOf(handled) \ {l}
            /\ e \in Alarms => RaisedOf(handled') = RaisedOf(handled) \cup {e}
            /\ e \notin Alarms \cup {Stop} => RaisedOf(handled') = RaisedOf(handled)
        BY <3>4, <4>1, AlarmEvent
      <4>4. lastAlarm[p] = Told(l)
        BY <3>1, <4>1 DEF AlarmInv, Started
      <4>5. /\ lastAlarm'[p] = LastAfter(lastAlarm[p], e)
            /\ \A q \in Procs : q # p => lastAlarm'[q] = lastAlarm[q]
        BY <2>0, <3>4
      <4>6. IsMark(e) <=> e \in Alarms \cup {Stop}
        BY <1>0 DEF IsMark, Events
      <4>7. m = IF IsMark(e) THEN e ELSE l
        BY <4>1, <4>2, <4>3
      <4>8. lastAlarm'[p] = Told(m)
        BY <4>4, <4>5, <4>6, <4>7 DEF LastAfter, Told
      <4>9. files \ {Sound} = RaisedOf(handled) /\ RaisedOf(handled) \subseteq Alarms
        BY DEF AlarmInv, RaisedOf
      <4>10. files' \ {Sound} = RaisedOf(handled')
        <5>1. CASE e = Stop
          <6>1. files' = files \ {lastAlarm[p]}
            BY <3>4, <5>1 DEF FilesAfter
          <6>2. \A a \in Alarms : a = l <=> a = lastAlarm[p]
            BY <1>0, <4>4 DEF Told
          <6>3. RaisedOf(handled') = RaisedOf(handled) \ {l}
            BY <4>3, <5>1
          <6>4. QED
            BY <4>9, <6>1, <6>2, <6>3
        <5>2. CASE e \in Alarms
          <6>1. files' = files \cup {e} /\ e # Sound
            BY <1>0, <3>4, <5>2 DEF FilesAfter
          <6>2. RaisedOf(handled') = RaisedOf(handled) \cup {e}
            BY <4>3, <5>2
          <6>3. QED
            BY <4>9, <6>1, <6>2
        <5>3. CASE e \notin Alarms \cup {Stop}
          <6>1. files' = files \/ files' = files \cup {Sound}
            BY <3>4, <5>3 DEF FilesAfter
          <6>2. RaisedOf(handled') = RaisedOf(handled)
            BY <4>3, <5>3
          <6>3. QED
            BY <4>9, <6>1, <6>2
        <5>4. QED
          BY <5>1, <5>2, <5>3
      <4>11. ASSUME NEW q \in Procs
             PROVE  lastAlarm'[q] = IF pc'[q] \in Started
                                      THEN Told(LastOf(handled', q, Len(handled')+1)) ELSE NoAlarm
        <5>1. CASE q = p
          BY <3>1, <4>2, <4>8, <5>1 DEF Started
        <5>2. CASE q # p
          BY <3>1, <4>3, <4>5, <5>2 DEF AlarmInv
        <5>3. QED
          BY <5>1, <5>2
      <4>12. QED
        BY <4>3, <4>10, <4>11 DEF AlarmInv
    <3>5. QED
      BY <2>6, <3>2, <3>3, <3>4 DEF Receive
  <2>7. ASSUME NEW p \in Procs, SoundTimeout(p) PROVE AlarmInv'
    <3>1. UNCHANGED <<pc, lastAlarm, handled>> /\ files' \ {Sound} = files \ {Sound}
      BY <2>7 DEF SoundTimeout
    <3>2. QED
      BY <3>1, AlarmKept
  <2>8. QED
    BY <2>1, <2>3, <2>4, <2>5, <2>6, <2>7
       DEF Next, Step, CreateQueue, Arrive, Terminate, vars, procVars, world, memory
<1>3. QED
  BY <1>1, <1>2, TypeCorrect, PTL DEF Spec

\* process_event: which alarm files exist is decided by the events alone, across sounds,
\* failed events, crashes, restarts and several daemons at once, each with a last_alarm
\* of its own: a stop ends exactly the alarm its daemon handled right before it.
THEOREM AlarmFiles == Spec => []AlarmFilesMatchHistory
<1>1. AlarmInv => AlarmFilesMatchHistory
  BY RaisedIs DEF AlarmInv, AlarmFilesMatchHistory
<1>2. QED
  BY <1>1, AlarmInvariant, PTL
================================================================================
