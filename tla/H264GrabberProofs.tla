--------------------------- MODULE H264GrabberProofs ---------------------------
(***************************************************************************)
(* Proofs about H264Grabber, for every size of the table and every width   *)
(* of the counters: type correctness, the order of the frames between two  *)
(* searches, what a search finds, and that no frame is written twice.      *)
(***************************************************************************)
EXTENDS H264Grabber, SequenceTheorems, TLAPS

\* What is used of the modulus: m steps back the counter is smaller by m, unless
\* it wraps, if m is less than a turn.
LEMMA ModShift ==
  ASSUME NEW w \in Nat \ {0}, NEW x \in Nat, NEW m \in Nat, m < w, m <= x
  PROVE  \/ x % w = ((x - m) % w) + m
         \/ x % w = ((x - m) % w) + m - w
  OBVIOUS

LEMMA ModRange == ASSUME NEW w \in Nat \ {0}, NEW x \in Nat PROVE x % w \in 0..w - 1
  OBVIOUS
LEMMA CounterRange == \A k \in Nat : Counter(k) \in 0..Width - 1
<1> SUFFICES ASSUME NEW k \in Nat PROVE Counter(k) \in 0..Width - 1
  OBVIOUS
<1>1. Base + Stride * k \in Nat /\ Width \in Nat \ {0}
  BY GrabberAssumption
<1>2. QED
  BY <1>1, ModRange DEF Counter

\* The frame of the turn before never passes for the next frame.
LEMMA StaleIsInvalid ==
  ASSUME NEW k \in Nat, k + 1 - TableRecordNum > 0
  PROVE  ~ValidStep(Counter(k), Counter(k + 1 - TableRecordNum))
<1> DEFINE c == Counter(k)
           d == Counter(k + 1 - TableRecordNum)
<1>1. PICK a \in Nat, b \in Nat, m \in Nat :
        a = Stride * k /\ b = Stride * (k + 1 - TableRecordNum) /\ m = Stride * (TableRecordNum - 1)
  <2>1. /\ Stride * k \in Nat /\ Stride * (k + 1 - TableRecordNum) \in Nat
        /\ Stride * (TableRecordNum - 1) \in Nat
    BY GrabberAssumption
  <2>2. QED
    BY <2>1
<1>2. a = b + m
  BY <1>1, GrabberAssumption
<1>3. m # 0 /\ m + MaxStep < Width
  BY <1>1, GrabberAssumption
<1>4. PICK x \in Nat : x = Base + a /\ x - m = Base + b /\ m <= x
  <2>1. Base \in Nat
    BY GrabberAssumption
  <2>2. QED
    BY ONLY <1>2, <2>1
<1>5. c = x % Width /\ d = (x - m) % Width
  BY <1>1, <1>4, Zenon DEF Counter
<1>6. Width \in Nat \ {0} /\ MaxStep \in Nat /\ MinStep \in {0, 1} /\ m < Width
  <2>1. Width \in Nat \ {0} /\ MaxStep \in Nat /\ MinStep \in {0, 1}
    BY GrabberAssumption
  <2>2. QED
    BY ONLY <1>3, <2>1
<1>7. c = d + m \/ c = d + m - Width
  <2>1. x % Width = ((x - m) % Width) + m \/ x % Width = ((x - m) % Width) + m - Width
    BY ONLY <1>4, <1>6, ModShift
  <2>2. QED
    BY <1>5, <2>1
<1>8. c \in Int /\ d \in Int
  <2>1. k \in Nat /\ k + 1 - TableRecordNum \in Nat
    BY GrabberAssumption
  <2>2. QED
    BY <2>1, CounterRange, GrabberAssumption
<1>9. QED
  <2> HIDE DEF c, d
  <2>1. ~ValidStep(c, d)
    BY ONLY <1>3, <1>6, <1>7, <1>8 DEF ValidStep
  <2>2. QED
    BY <2>1 DEF c, d

--------------------------------------------------------------------------------

LEMMA NextSlotType == \A s \in Slots : NextSlot(s) \in Slots /\ NextSlot(s) # s
  BY GrabberAssumption DEF Slots, NextSlot

\* Every behaviour keeps the types.
THEOREM TypeCorrect == Spec => []TypeOK
<1> USE GrabberAssumption
<1>1. Init => TypeOK
  <2> SUFFICES ASSUME Init PROVE TypeOK
    OBVIOUS
  <2>1. out \in Seq(Nat)
    BY EmptySeq DEF Init
  <2>2. QED
    BY <2>1 DEF Init, TypeOK, Slots
<1>2. TypeOK /\ [Next]_vars => TypeOK'
  <2> SUFFICES ASSUME TypeOK, [Next]_vars PROVE TypeOK'
    OBVIOUS
  <2> USE DEF TypeOK, cameraVars, searchVars, history
  <2>1. CASE CameraWrites
    <3>1. slot' \in Slots
      BY <2>1, NextSlotType DEF CameraWrites
    <3>2. QED
      BY <2>1, <3>1 DEF CameraWrites
  <2>2. CASE SearchRecord
    <3>1. i \in Slots /\ i + 1 \in 0..TableRecordNum
      BY <2>2 DEF SearchRecord, Slots
    <3>2. Counter(table[i]) \in 0..Width - 1
      BY <3>1, CounterRange
    <3>3. QED
      BY <2>2, <3>1, <3>2 DEF SearchRecord
  <2>3. CASE SearchEnds
    BY <2>3 DEF SearchEnds
  <2> DEFINE Restarted == RestartSearch /\ UNCHANGED <<cameraVars, nextCounter, everLapped>>
  <2>4. ASSUME Restarted, invalid' \in 0..MaxInvalid PROVE TypeOK'
    <3>1. Range(out) \subseteq Nat
      <4>1. \A j \in DOMAIN out : out[j] \in Nat
        BY ElementOfSeq, LenProperties
      <4>2. QED
        BY <4>1 DEF Range
    <3>2. out' \in Seq(Nat)
      BY <2>4, EmptySeq DEF RestartSearch
    <3>3. frameCounter' \in 0..Width - 1 \cup {-1} /\ i' \in 0..TableRecordNum
      BY <2>4 DEF RestartSearch
    <3>4. /\ pc' = "search" /\ currentFrame' = -1 /\ atSearch' \in Nat
          /\ earlier' \subseteq Nat /\ lapped' \in BOOLEAN
      BY <2>4, <3>1 DEF RestartSearch
    <3>5. UNCHANGED <<table, written, slot, nextCounter, everLapped>>
      BY <2>4
    <3>6. QED
      BY <2>4, <3>2, <3>3, <3>4, <3>5
  <2>5. CASE Found
    <3>1. CASE currentFrame = -1
      BY <2>4, <2>5, <3>1 DEF Found
    <3>2. CASE currentFrame # -1
      BY <2>5, <3>2 DEF Found
    <3>3. QED
      BY <3>1, <3>2
  <2>6. CASE Compare
    <3> DEFINE next == table[NextSlot(currentFrame)]
    <3>1. currentFrame \in Slots /\ next \in Nat
      BY <2>6, NextSlotType DEF Compare
    <3>2. Counter(next) \in 0..Width - 1
      BY <3>1, CounterRange
    <3>3. invalid' \in 0..MaxInvalid
      BY <2>6 DEF Compare
    <3>4. CASE Restarted
      BY <2>4, <3>3, <3>4
    <3>5. CASE pc' = "write" /\ nextCounter' = Counter(next)
      BY <2>6, <3>1, <3>2, <3>5 DEF Compare, RestartSearch
    <3>6. CASE UNCHANGED <<pc, searchVars, history, lapped, nextCounter>>
      BY <2>6, <3>3, <3>6 DEF Compare
    <3>7. QED
      BY <2>6, <3>4, <3>5, <3>6 DEF Compare
  <2>7. CASE WriteFrame
    <3>1. currentFrame \in Slots /\ NextSlot(currentFrame) \in Slots
      BY <2>7, NextSlotType DEF WriteFrame
    <3>2. table[currentFrame] \in Nat
      BY <3>1
    <3>3. out' \in Seq(Nat)
      BY <2>7, <3>2, AppendProperties DEF WriteFrame
    <3>4. QED
      BY <2>7, <3>1, <3>3 DEF WriteFrame
  <2>8. CASE UNCHANGED vars
    BY <2>8 DEF vars
  <2>9. QED
    BY <2>1, <2>2, <2>3, <2>5, <2>6, <2>7, <2>8 DEF Next, Grabber
<1>3. QED
  BY <1>1, <1>2, PTL DEF Spec
--------------------------------------------------------------------------------

\* What the table holds: records before slot are of this turn, the others of the
\* turn before or, in the first turn, empty.
TableInv ==
  /\ slot <= written /\ (written = slot \/ written >= slot + TableRecordNum)
  /\ \A s \in Slots :
       table[s] = IF s < slot THEN written - slot + s + 1
                  ELSE IF written = slot THEN 0
                  ELSE written - slot + s + 1 - TableRecordNum

\* Where the grabber stands, unless it was lapped: its counter is that of the
\* record it is at, a valid next record is the next frame, and what it wrote last
\* is the frame before.
StandInv ==
  /\ pc \in {"search", "found"} => out = <<>>
  /\ ~lapped /\ currentFrame # -1 =>
       table[currentFrame] # 0 /\ frameCounter = Counter(table[currentFrame])
  /\ ~lapped /\ pc = "write" =>
       /\ table[NextSlot(currentFrame)] = table[currentFrame] + 1
       /\ nextCounter = Counter(table[currentFrame] + 1)
  /\ ~lapped /\ out # <<>> => table[currentFrame] = out[Len(out)] + 1
  /\ SessionInOrder

LEMMA TableInvariant == Spec => []TableInv
<1> USE GrabberAssumption
<1>1. Init => TableInv
  BY DEF Init, TableInv, Slots
<1>2. TypeOK /\ TableInv /\ [Next]_vars => TableInv'
  <2> SUFFICES ASSUME TypeOK, TableInv, [Next]_vars PROVE TableInv'
    OBVIOUS
  <2>1. CASE CameraWrites
    <3>1. /\ TableRecordNum \in Nat /\ TableRecordNum > 1
          /\ slot \in 0..TableRecordNum - 1 /\ written \in Nat
          /\ slot <= written /\ (written = slot \/ written >= slot + TableRecordNum)
      BY DEF TypeOK, TableInv, Slots
    <3>2. /\ written' = written + 1
          /\ slot' = IF slot = TableRecordNum - 1 THEN 0 ELSE slot + 1
          /\ table' = [table EXCEPT ![slot] = written + 1]
      BY <2>1 DEF CameraWrites, NextSlot
    <3>3. slot' <= written' /\ (written' = slot' \/ written' >= slot' + TableRecordNum)
      BY <3>1, <3>2
    <3>4. ASSUME NEW s \in Slots
          PROVE  table'[s] = IF s < slot' THEN written' - slot' + s + 1
                             ELSE IF written' = slot' THEN 0
                             ELSE written' - slot' + s + 1 - TableRecordNum
      <4>1. s \in 0..TableRecordNum - 1
        BY DEF Slots
      <4>2. table'[s] = IF s = slot THEN written + 1 ELSE table[s]
        BY <3>2 DEF TypeOK
      <4>3. table[s] = IF s < slot THEN written - slot + s + 1
                       ELSE IF written = slot THEN 0
                       ELSE written - slot + s + 1 - TableRecordNum
        BY DEF TableInv
      <4>4. QED
        BY ONLY <3>1, <3>2, <4>1, <4>2, <4>3
    <3>5. QED
      BY <3>3, <3>4 DEF TableInv
  <2>2. CASE UNCHANGED cameraVars
    BY <2>2 DEF TableInv, cameraVars
  <2>3. QED
    BY <2>1, <2>2 DEF Next, Grabber, SearchRecord, SearchEnds, Found, Compare, WriteFrame,
                      vars
<1>3. QED
  BY <1>1, <1>2, TypeCorrect, PTL DEF Spec

\* A record that is not empty is followed by an empty record, by the next frame,
\* or, if it is the latest, by the frame of the turn before.
LEMMA NextRecord ==
  ASSUME TypeOK, TableInv, NEW s \in Slots, table[s] # 0
  PROVE  LET next == table[NextSlot(s)] IN
           \/ next = 0
           \/ next = table[s] + 1
           \/ next = table[s] + 1 - TableRecordNum /\ table[s] = written /\ NextSlot(s) = slot
<1> DEFINE N == TableRecordNum
<1>1. /\ N \in Nat /\ N > 1 /\ s \in 0..N - 1 /\ slot \in 0..N - 1 /\ written \in Nat
      /\ slot <= written /\ (written = slot \/ written >= slot + N)
  BY GrabberAssumption DEF TypeOK, TableInv, Slots
<1>2. \A r \in 0..N - 1 :
        table[r] = IF r < slot THEN written - slot + r + 1
                   ELSE IF written = slot THEN 0 ELSE written - slot + r + 1 - N
  BY DEF TableInv, Slots
<1> HIDE DEF N
<1>3. CASE s = N - 1
  <2>1. NextSlot(s) = 0
    BY <1>3 DEF NextSlot, N
  <2>2. 0 \in 0..N - 1
    BY <1>1
  <2>3. QED
    BY <1>1, <1>2, <1>3, <2>1, <2>2 DEF N
<1>4. CASE s # N - 1
  <2>1. NextSlot(s) = s + 1
    BY <1>4 DEF NextSlot, N
  <2>2. s + 1 \in 0..N - 1
    BY <1>1, <1>4
  <2>3. QED
    BY <1>1, <1>2, <1>4, <2>1, <2>2 DEF N
<1>5. QED
  BY <1>3, <1>4

\* No frame is newer than the latest, which is the one before slot.
LEMMA LatestRecord ==
  ASSUME TypeOK, TableInv
  PROVE  /\ \A s \in Slots : table[s] <= written
         /\ \A s \in Slots : table[s] # 0 /\ NextSlot(s) = slot => table[s] = written
<1> DEFINE N == TableRecordNum
<1>1. /\ N \in Nat /\ N > 1 /\ slot \in 0..N - 1 /\ written \in Nat
      /\ slot <= written /\ (written = slot \/ written >= slot + N)
  BY GrabberAssumption DEF TypeOK, TableInv, Slots
<1>2. ASSUME NEW s \in Slots
      PROVE  table[s] <= written /\ (table[s] # 0 /\ NextSlot(s) = slot => table[s] = written)
  <2>1. s \in 0..N - 1
    BY DEF Slots
  <2>2. table[s] = IF s < slot THEN written - slot + s + 1
                   ELSE IF written = slot THEN 0 ELSE written - slot + s + 1 - N
    BY DEF TableInv
  <2>3. NextSlot(s) = IF s = N - 1 THEN 0 ELSE s + 1
    BY DEF NextSlot
  <2> HIDE DEF N
  <2>4. QED
    BY ONLY <1>1, <2>1, <2>2, <2>3
<1>3. QED
  BY <1>2

LEMMA StandInvariant == Spec => []StandInv
<1> USE GrabberAssumption
<1>1. Init => StandInv
  BY DEF Init, StandInv, SessionInOrder
<1>2. TypeOK /\ TypeOK' /\ TableInv /\ StandInv /\ [Next]_vars => StandInv'
  <2> SUFFICES ASSUME TypeOK, TypeOK', TableInv, StandInv, [Next]_vars PROVE StandInv'
    OBVIOUS
  <2> USE DEF StandInv, cameraVars, searchVars, history
  <2>0. /\ table \in [Slots -> Nat] /\ written \in Nat /\ slot \in Slots /\ out \in Seq(Nat)
        /\ currentFrame \in Slots \cup {-1} /\ (pc \in {"compare", "write"} => currentFrame \in Slots)
        /\ pc \in {"search", "found", "compare", "write"} /\ -1 \notin Slots
    <3>1. -1 \notin Slots
      BY DEF Slots
    <3>2. QED
      BY <3>1 DEF TypeOK
  <2>1. CASE CameraWrites
    <3>1. /\ UNCHANGED <<pc, currentFrame, frameCounter, nextCounter, out>>
          /\ table' = [table EXCEPT ![slot] = written + 1]
          /\ ~lapped' => ~lapped /\ slot # currentFrame
      BY <2>1 DEF CameraWrites
    <3>2. SUFFICES ASSUME ~lapped' PROVE StandInv'
      BY <2>0, <3>1 DEF SessionInOrder
    <3>3. currentFrame # -1 => table'[currentFrame] = table[currentFrame]
      BY <2>0, <3>1, <3>2
    <3>4. CASE pc = "write"
      <4>1. NextSlot(currentFrame) # slot
        BY <2>0, <3>1, <3>2, <3>4, LatestRecord, NextSlotType
      <4>2. table'[NextSlot(currentFrame)] = table[NextSlot(currentFrame)]
        BY <2>0, <3>1, <3>4, <4>1, NextSlotType
      <4>3. QED
        BY <2>0, <3>1, <3>2, <3>3, <3>4, <4>2 DEF SessionInOrder
    <3>5. CASE pc # "write"
      BY <2>0, <3>1, <3>2, <3>3, <3>5 DEF SessionInOrder
    <3>6. QED
      BY <3>4, <3>5
  <2>2. CASE SearchRecord
    <3>1. pc = "search" /\ pc' \in {"search", "found"} /\ UNCHANGED <<table, out>> /\ out = <<>>
      BY <2>2 DEF SearchRecord
    <3>2. ~lapped' /\ currentFrame' # -1 =>
            table[currentFrame'] # 0 /\ frameCounter' = Counter(table[currentFrame'])
      BY <2>2 DEF SearchRecord
    <3>3. SessionInOrder'
      BY <3>1 DEF SessionInOrder
    <3>4. QED
      BY <3>1, <3>2, <3>3
  <2>3. CASE SearchEnds
    BY <2>3 DEF SearchEnds, SessionInOrder
  <2>4. ASSUME RestartSearch, UNCHANGED cameraVars PROVE StandInv'
    <3>1. SessionInOrder'
      BY <2>4 DEF RestartSearch, SessionInOrder
    <3>2. QED
      BY <2>4, <3>1 DEF RestartSearch
  <2>5. CASE Found
    <3>1. CASE currentFrame = -1
      BY <2>4, <2>5, <3>1 DEF Found
    <3>2. CASE currentFrame # -1
      BY <2>5, <3>2 DEF Found, SessionInOrder
    <3>3. QED
      BY <3>1, <3>2
  <2>6. CASE Compare
    <3> DEFINE next == table[NextSlot(currentFrame)]
    <3>1. pc = "compare" /\ next # 0 /\ UNCHANGED <<table, written, slot>>
      BY <2>6 DEF Compare
    <3>2. CASE ValidStep(frameCounter, Counter(next)) /\ nextCounter' = Counter(next)
               /\ pc' = "write" /\ UNCHANGED <<searchVars, history, lapped>>
      <4>1. ASSUME ~lapped PROVE next = table[currentFrame] + 1
        <5> DEFINE k == table[currentFrame]
        <5>1. currentFrame \in Slots /\ k \in Nat /\ k # 0 /\ frameCounter = Counter(k)
          BY <2>0, <3>1, <4>1
        <5>2. next = 0 \/ next = k + 1 \/ next = k + 1 - TableRecordNum
          BY <5>1, NextRecord
        <5>3. next \in Nat
          BY <2>0, <5>1, NextSlotType
        <5>4. next = k + 1 - TableRecordNum => ~ValidStep(Counter(k), Counter(next))
          <6> HIDE DEF k, next
          <6>1. SUFFICES ASSUME next = k + 1 - TableRecordNum
                         PROVE  ~ValidStep(Counter(k), Counter(next))
            OBVIOUS
          <6>2. k \in Nat /\ k + 1 - TableRecordNum > 0
            BY <3>1, <5>1, <5>3, <6>1
          <6>3. QED
            BY <6>1, <6>2, StaleIsInvalid
        <5>5. QED
          BY <3>1, <3>2, <5>1, <5>2, <5>4
      <4>2. QED
        BY <3>1, <3>2, <4>1 DEF SessionInOrder
    <3>3. CASE RestartSearch
      BY <2>4, <3>1, <3>3
    <3>4. CASE UNCHANGED <<pc, searchVars, history, lapped, nextCounter>>
      BY <3>1, <3>4 DEF SessionInOrder
    <3>5. QED
      BY <2>6, <3>2, <3>3, <3>4 DEF Compare
  <2>7. CASE WriteFrame
    <3> DEFINE k == table[currentFrame]
    <3>1. /\ pc = "write" /\ pc' = "compare" /\ UNCHANGED <<table, lapped>>
          /\ out' = Append(out, k) /\ currentFrame' = NextSlot(currentFrame)
          /\ frameCounter' = nextCounter
      BY <2>7 DEF WriteFrame
    <3>2. k \in Nat /\ out' # <<>> /\ Len(out') = Len(out) + 1 /\ out'[Len(out')] = k
          /\ \A j \in 1..Len(out) : out'[j] = out[j]
      <4>1. k \in Nat
        BY <2>0, <3>1
      <4>2. out \in Seq(Nat) /\ out' = Append(out, k)
        BY <2>0, <3>1
      <4> HIDE DEF k
      <4>3. QED
        BY ONLY <4>1, <4>2, SMT
    <3>3. ASSUME ~lapped PROVE table[NextSlot(currentFrame)] = k + 1 /\ nextCounter = Counter(k + 1)
      BY <3>1, <3>3
    <3>4. SessionInOrder'
      <4>1. SUFFICES ASSUME ~lapped, NEW j \in 1..Len(out)
                     PROVE  out'[j + 1] = out'[j] + 1
        BY <2>0, <3>1, <3>2, LenProperties DEF SessionInOrder
      <4>2. Len(out) \in Nat
        BY <2>0, LenProperties
      <4>3. CASE j = Len(out)
        <5>1. out # <<>>
          BY <2>0, <4>1, <4>3, EmptySeq
        <5>2. k = out[Len(out)] + 1
          BY <4>1, <5>1
        <5>3. QED
          BY <3>2, <4>1, <4>3, <5>2
      <4>4. CASE j # Len(out)
        <5>1. j \in 1..Len(out) - 1 /\ j + 1 \in 1..Len(out)
          BY <4>1, <4>2, <4>4
        <5>2. out[j + 1] = out[j] + 1
          BY <4>1, <5>1 DEF SessionInOrder
        <5>3. QED
          BY <3>2, <5>1, <5>2
      <4>5. QED
        BY <4>3, <4>4
    <3>5. QED
      BY <3>1, <3>2, <3>3, <3>4
  <2>8. CASE UNCHANGED vars
    BY <2>8 DEF vars, SessionInOrder
  <2>9. QED
    BY <2>1, <2>2, <2>3, <2>5, <2>6, <2>7, <2>8 DEF Next, Grabber
<1>3. QED
  BY <1>1, <1>2, TypeCorrect, TableInvariant, PTL DEF Spec

\* Between two searches the grabber writes consecutive frames in order, for every
\* size of the table and width of the counters and however the camera's writes
\* interleave with its reads, unless the camera overwrites the record it is at.
THEOREM FramesInOrder == Spec => []SessionInOrder
<1>1. StandInv => SessionInOrder
  BY DEF StandInv
<1>2. QED
  BY <1>1, StandInvariant, PTL

--------------------------------------------------------------------------------
(* What the search finds, and what is written again, until the counters wrap. *)

LEMMA Monotone ==
  ASSUME NEW c \in Nat \ {0}, NEW a \in Nat, NEW b \in Nat
  PROVE  a <= b <=> c * a <= c * b
<1>1. a <= b => c * a <= c * b
  BY SMT
<1>2. a > b => c * a > c * b
  <2>1. SUFFICES ASSUME a > b PROVE c * a > c * b
    OBVIOUS
  <2>2. PICK d \in Nat : a = b + 1 + d
    <3>1. a - b - 1 \in Nat /\ a = b + 1 + (a - b - 1)
      BY <2>1
    <3>2. QED
      BY <3>1
  <2>3. c * a = c * b + c + c * d
    BY <2>2, SMT
  <2>4. c * d \in Nat /\ c * b \in Nat
    BY SMT
  <2>5. QED
    BY ONLY <2>3, <2>4, c \in Nat \ {0}
<1>3. c * a \in Nat /\ c * b \in Nat
  BY SMT
<1>4. QED
  BY <1>1, <1>2, <1>3

\* The counters order the frames, and none is as low as where the search starts.
LEMMA CountersOrder ==
  ASSUME NEW w \in Nat, Base + Stride * w < Width, NEW a \in 0..w, NEW b \in 0..w
  PROVE  /\ Counter(a) <= Counter(b) <=> a <= b
         /\ a # 0 => Counter(a) > Lowest
<1>1. /\ Base \in Nat /\ Stride \in Nat \ {0} /\ Width \in Nat \ {0} /\ Lowest \in {-1, 0}
      /\ a \in Nat /\ b \in Nat
  BY GrabberAssumption
<1>2. PICK x \in Nat, y \in Nat, z \in Nat : x = Stride * a /\ y = Stride * b /\ z = Stride * w
  <2>1. Stride * a \in Nat /\ Stride * b \in Nat /\ Stride * w \in Nat
    BY <1>1
  <2>2. QED
    BY <2>1
<1>3. x <= z /\ y <= z /\ (x <= y <=> a <= b)
  BY <1>1, <1>2, Monotone
<1>4. a # 0 => x > 0
  <2>1. Stride * 1 = Stride
    BY <1>1
  <2>2. a # 0 => Stride * 1 <= Stride * a
    BY <1>1, Monotone
  <2>3. QED
    BY <1>1, <1>2, <2>1, <2>2
<1>5. Counter(a) = Base + x /\ Counter(b) = Base + y
  <2>1. Base + x < Width /\ Base + y < Width
    BY <1>1, <1>2, <1>3
  <2>2. (Base + x) % Width = Base + x /\ (Base + y) % Width = Base + y
    BY ONLY <1>1, <1>2, <2>1, SMT
  <2>3. QED
    BY <1>2, <2>2, Zenon DEF Counter
<1>6. QED
  BY ONLY <1>1, <1>2, <1>3, <1>4, <1>5

\* t is the last frame of the turn before the one of the newest frame when the search
\* began; the camera goes on in that turn, or is in a later one.
Turn(t) ==
  /\ t < atSearch /\ atSearch <= t + TableRecordNum
  /\ written - slot = t \/ written - slot >= t + TableRecordNum

\* Where the search is: at its beginning, or at a record whose frame f, as it was read,
\* is as new as the search, or comes right before the record it looks at, and from a
\* turn that is not older than t.
Searching(t) ==
  \/ i = 0 /\ currentFrame = -1 /\ frameCounter = Lowest
  \/ /\ currentFrame # -1
     /\ \E f \in 0..written :
          /\ frameCounter = Counter(f)
          /\ ~lapped => table[currentFrame] = f
          /\ f >= atSearch \/ (currentFrame = i - 1 /\ f >= t + i)

SearchInv ==
  /\ atSearch <= written
  /\ NotWrapped /\ pc = "search" /\ atSearch > 0 => \E t \in Int : Turn(t) /\ Searching(t)
  /\ FindsLatestUntilWrap

LEMMA RestartSearches ==
  ASSUME TypeOK, TableInv, RestartSearch, UNCHANGED cameraVars
  PROVE  SearchInv'
<1> DEFINE N == TableRecordNum
<1>1. /\ N \in Nat /\ N > 1 /\ slot \in 0..N - 1 /\ written \in Nat
      /\ slot <= written /\ (written = slot \/ written >= slot + N)
  BY GrabberAssumption DEF TypeOK, TableInv, Slots
<1>2. atSearch' = written /\ UNCHANGED <<written, slot, table>> /\ pc' = "search"
      /\ i' = 0 /\ currentFrame' = -1 /\ frameCounter' = Lowest
  BY DEF RestartSearch, cameraVars
<1>3. PICK t \in Int : /\ written > 0 => t < written
                       /\ written <= t + N
                       /\ written - slot = t \/ written - slot >= t + N
  <2>1. CASE slot = 0
    <3>1. written - N \in Int
      BY <1>1
    <3>2. QED
      BY <1>1, <2>1, <3>1
  <2>2. CASE slot # 0
    <3>1. written - slot \in Int
      BY <1>1
    <3>2. QED
      BY <1>1, <2>2, <3>1
  <2>3. QED
    BY <2>1, <2>2
<1>4. atSearch' > 0 => Turn(t)'
  BY <1>2, <1>3 DEF Turn
<1>5. Searching(t)'
  BY <1>2 DEF Searching
<1>6. atSearch' <= written'
  BY <1>1, <1>2
<1>7. FindsLatestUntilWrap'
  BY <1>2 DEF FindsLatestUntilWrap, FindsLatest
<1>8. atSearch' > 0 => \E u \in Int : Turn(u)' /\ Searching(u)'
  BY <1>3, <1>4, <1>5
<1>9. QED
  BY <1>6, <1>7, <1>8 DEF SearchInv

\* A record that is not empty holds a frame of the camera's turn or of the one before,
\* an empty one is one the camera has not reached.
LEMMA RecordFrame ==
  ASSUME TypeOK, TableInv, NEW s \in Slots
  PROVE  /\ table[s] \in 0..written
         /\ table[s] = 0 => written = slot /\ slot <= s
         /\ table[s] # 0 => \/ table[s] = written - slot + s + 1 /\ s < slot
                            \/ /\ table[s] = written - slot + s + 1 - TableRecordNum
                               /\ s >= slot /\ written >= slot + TableRecordNum
<1> DEFINE N == TableRecordNum
<1>1. /\ N \in Nat /\ N > 1 /\ s \in 0..N - 1 /\ slot \in 0..N - 1 /\ written \in Nat
      /\ slot <= written /\ (written = slot \/ written >= slot + N)
  BY GrabberAssumption DEF TypeOK, TableInv, Slots
<1>2. table[s] = IF s < slot THEN written - slot + s + 1
                 ELSE IF written = slot THEN 0 ELSE written - slot + s + 1 - N
  BY DEF TableInv
<1> HIDE DEF N
<1>3. QED
  BY ONLY <1>1, <1>2 DEF N

LEMMA SearchRecordStep ==
  ASSUME TypeOK, TableInv, StandInv, SearchInv, SearchRecord
  PROVE  SearchInv'
<1>1. /\ UNCHANGED <<table, written, slot, atSearch>> /\ pc = "search"
      /\ i \in Slots /\ written \in Nat /\ atSearch \in Nat /\ slot \in Nat
      /\ table[i] \in 0..written /\ TableRecordNum \in Nat
  <2>1. i \in Slots
    BY GrabberAssumption DEF SearchRecord, TypeOK, Slots
  <2>2. QED
    BY <2>1, RecordFrame, GrabberAssumption DEF SearchRecord, TypeOK, cameraVars, history, Slots
<1>2. atSearch' <= written'
  BY <1>1 DEF SearchInv
<1>3. SUFFICES ASSUME NotWrapped
               PROVE  /\ pc' = "search" /\ atSearch > 0 =>
                           \E t \in Int : Turn(t)' /\ Searching(t)'
                      /\ FindsLatest'
  BY <1>1, <1>2 DEF SearchInv, FindsLatestUntilWrap, NotWrapped
<1>4. CASE atSearch = 0
  <2>1. \A s \in Slots : table[s] >= 0
    BY DEF TypeOK
  <2>2. currentFrame' # -1 => currentFrame' \in Slots
    BY <1>1 DEF SearchRecord, TypeOK
  <2>3. QED
    BY <1>1, <1>4, <2>1, <2>2 DEF FindsLatest
<1>5. CASE atSearch > 0
  <2>1. PICK t \in Int : Turn(t) /\ Searching(t)
    BY <1>1, <1>3, <1>5 DEF SearchInv
  <2>2. Turn(t)'
    BY <1>1, <2>1 DEF Turn
  <2>3. /\ atSearch <= written /\ t < atSearch /\ atSearch <= t + TableRecordNum
        /\ written - slot = t \/ written - slot >= t + TableRecordNum
    BY <2>1 DEF SearchInv, Turn
  <2>4. table[i] = 0 => slot = written /\ slot <= i
    BY <1>1, RecordFrame
  <2>5. table[i] # 0 => \/ table[i] = written - slot + i + 1
                        \/ table[i] = written - slot + i + 1 - TableRecordNum /\ i >= slot
    BY <1>1, RecordFrame
  <2>6. Base + Stride * written < Width
    BY <1>3 DEF NotWrapped
  <2>7. i \in Int /\ i >= 0
    BY <1>1 DEF Slots
  <2>8. CASE i = 0 /\ currentFrame = -1 /\ frameCounter = Lowest
    <3>1. table[i] # 0 /\ table[i] >= t + i + 1
      BY ONLY <1>1, <1>5, <2>1, <2>3, <2>4, <2>5, <2>7, <2>8
    <3>2. Counter(table[i]) > frameCounter
      BY <1>1, <2>6, <2>8, <3>1, CountersOrder
    <3>3. /\ currentFrame' = i /\ frameCounter' = Counter(table[i]) /\ i' = i + 1 /\ pc' = pc
      <4>1. Counter(table[i]) \in Int /\ frameCounter \in Int
        BY <1>1, <2>8, CounterRange, GrabberAssumption
      <4>2. QED
        BY <3>1, <3>2, <4>1 DEF SearchRecord
    <3>4. Searching(t)'
      BY <1>1, <2>1, <2>7, <3>1, <3>3 DEF Searching
    <3>5. QED
      BY <1>1, <2>2, <3>3, <3>4 DEF FindsLatest
  <2>9. ASSUME currentFrame # -1,
               NEW f \in 0..written,
               frameCounter = Counter(f),
               ~lapped => table[currentFrame] = f,
               f >= atSearch \/ (currentFrame = i - 1 /\ f >= t + i)
        PROVE  /\ pc' = "search" /\ atSearch > 0 =>
                    \E u \in Int : Turn(u)' /\ Searching(u)'
               /\ FindsLatest'
    <3>1. Counter(table[i]) <= frameCounter <=> table[i] <= f
      BY <1>1, <2>6, <2>9, CountersOrder
    <3>2. Counter(table[i]) \in Int /\ frameCounter \in Int
      BY <1>1, <2>9, CounterRange
    <3>3. CASE table[i] = 0
      <4>1. f >= atSearch
        BY ONLY <1>1, <2>1, <2>3, <2>4, <2>7, <2>9, <3>3
      <4>2. UNCHANGED <<pc, currentFrame, frameCounter, lapped>>
        BY <3>3 DEF SearchRecord
      <4>3. Searching(t)'
        BY <1>1, <2>9, <4>1, <4>2 DEF Searching
      <4>4. QED
        BY <1>1, <2>2, <4>2, <4>3 DEF FindsLatest
    <3>4. CASE table[i] # 0 /\ Counter(table[i]) > frameCounter
      <4>1. table[i] > f
        BY <1>1, <3>1, <3>2, <3>4
      <4>2. table[i] >= atSearch \/ table[i] >= t + i + 1
        BY ONLY <1>1, <2>1, <2>3, <2>5, <2>7, <2>9, <4>1
      <4>3. /\ currentFrame' = i /\ frameCounter' = Counter(table[i]) /\ i' = i + 1 /\ pc' = pc
        BY <3>2, <3>4 DEF SearchRecord
      <4>4. Searching(t)'
        BY <1>1, <2>1, <2>7, <4>2, <4>3 DEF Searching
      <4>5. QED
        BY <1>1, <2>2, <4>3, <4>4 DEF FindsLatest
    <3>5. CASE table[i] # 0 /\ Counter(table[i]) <= frameCounter
      <4>1. pc' = "found" /\ UNCHANGED <<currentFrame, lapped>>
        BY <3>2, <3>5 DEF SearchRecord
      <4>2. SUFFICES ASSUME ~lapped PROVE f >= atSearch
        BY <1>1, <2>9, <4>1 DEF FindsLatest
      <4>3. table[i] <= f
        BY <3>1, <3>5
      <4>4. CASE currentFrame = i - 1
        <5>1. currentFrame \in Slots /\ NextSlot(currentFrame) = i /\ table[currentFrame] = f
          BY <1>1, <2>7, <2>9, <4>2, <4>4 DEF TypeOK, Slots, NextSlot
        <5>2. f # 0
          BY <1>1, <3>5, <4>3
        <5>3. table[i] = f + 1 \/ (table[i] = f + 1 - TableRecordNum /\ f = written)
          BY <3>5, <5>1, <5>2, NextRecord
        <5>4. QED
          BY ONLY <1>1, <2>3, <2>9, <4>3, <5>3
      <4>5. QED
        BY <2>9, <4>4
    <3>6. QED
      BY <3>2, <3>3, <3>4, <3>5
  <2>10. QED
    BY <2>1, <2>8, <2>9 DEF Searching
<1>6. QED
  BY <1>1, <1>4, <1>5

LEMMA SearchInvariant == Spec => []SearchInv
<1>1. Init => SearchInv
  BY DEF Init, SearchInv, FindsLatestUntilWrap, FindsLatest
<1>2. TypeOK /\ TableInv /\ StandInv /\ SearchInv /\ [Next]_vars => SearchInv'
  <2> SUFFICES ASSUME TypeOK, TableInv, StandInv, SearchInv, [Next]_vars PROVE SearchInv'
    OBVIOUS
  <2>1. CASE CameraWrites
    <3>1. /\ written' = written + 1 /\ slot' = NextSlot(slot)
          /\ table' = [table EXCEPT ![slot] = written + 1]
          /\ UNCHANGED <<pc, i, currentFrame, frameCounter, atSearch>>
          /\ ~lapped' => ~lapped /\ slot # currentFrame
      BY <2>1 DEF CameraWrites, searchVars, history
    <3>2. /\ table \in [Slots -> Nat] /\ written \in Nat /\ slot \in Slots
          /\ currentFrame \in Slots \cup {-1} /\ atSearch \in Nat
      BY DEF TypeOK
    <3>3. NotWrapped' => NotWrapped
      <4>1. Base \in Nat /\ Width \in Nat /\ Stride \in Nat \ {0}
        BY GrabberAssumption
      <4>2. Stride * (written + 1) = Stride * written + Stride /\ Stride * written \in Nat
        BY <3>2, <4>1
      <4>3. QED
        BY <3>1, <3>2, <4>1, <4>2 DEF NotWrapped
    <3>4. currentFrame # -1 /\ ~lapped' => table'[currentFrame'] = table[currentFrame]
      BY <3>1, <3>2
    <3>5. FindsLatestUntilWrap'
      BY <3>1, <3>3, <3>4 DEF SearchInv, FindsLatestUntilWrap, FindsLatest
    <3>6. ASSUME NEW t \in Int, Turn(t), Searching(t) PROVE Turn(t)' /\ Searching(t)'
      <4>1. Turn(t)'
        <5>1. TableRecordNum \in Nat /\ TableRecordNum > 1 /\ slot \in 0..TableRecordNum - 1
          BY <3>2, GrabberAssumption DEF Slots
        <5>2. slot' = IF slot = TableRecordNum - 1 THEN 0 ELSE slot + 1
          BY <3>1 DEF NextSlot
        <5>3. QED
          BY <3>1, <3>2, <3>6, <5>1, <5>2 DEF Turn
      <4>2. Searching(t)'
        <5>1. \A f \in 0..written : f \in 0..written'
          BY <3>1, <3>2
        <5>2. QED
          BY <3>1, <3>4, <3>6, <5>1 DEF Searching
      <4>3. QED
        BY <4>1, <4>2
    <3>7. atSearch' <= written'
      BY <3>1, <3>2 DEF SearchInv
    <3>8. QED
      BY <3>1, <3>3, <3>5, <3>6, <3>7 DEF SearchInv
  <2>2. CASE SearchRecord
    BY <2>2, SearchRecordStep
  <2>3. CASE SearchEnds
    <3>1. /\ UNCHANGED <<table, written, slot, atSearch, currentFrame, lapped>>
          /\ pc = "search" /\ i = TableRecordNum /\ pc' = "found"
      BY <2>3 DEF SearchEnds, cameraVars, searchVars, history
    <3>2. SUFFICES ASSUME NotWrapped, ~lapped, currentFrame # -1
                   PROVE  table[currentFrame] >= atSearch
      BY <3>1 DEF SearchInv, FindsLatestUntilWrap, FindsLatest, NotWrapped
    <3>3. CASE atSearch = 0
      BY <3>2, <3>3 DEF TypeOK
    <3>4. CASE atSearch > 0
      <4>1. PICK t \in Int : Turn(t) /\ Searching(t)
        BY <3>1, <3>2, <3>4 DEF SearchInv
      <4>2. PICK f \in 0..written :
              /\ table[currentFrame] = f
              /\ f >= atSearch \/ f >= t + i
        BY <3>2, <4>1 DEF Searching
      <4>3. atSearch <= t + TableRecordNum /\ written \in Nat /\ atSearch \in Nat
            /\ TableRecordNum \in Nat
        BY <4>1, GrabberAssumption DEF Turn, TypeOK
      <4>4. QED
        BY ONLY <3>1, <4>1, <4>2, <4>3
    <3>5. QED
      BY <3>3, <3>4 DEF TypeOK
  <2>4. CASE Found
    <3>1. CASE currentFrame = -1
      BY <2>4, <3>1, RestartSearches DEF Found
    <3>2. CASE currentFrame # -1
      BY <2>4, <3>2 DEF Found, SearchInv, FindsLatestUntilWrap, FindsLatest, cameraVars, history
    <3>3. QED
      BY <3>1, <3>2
  <2>5. CASE Compare
    <3>1. CASE RestartSearch
      BY <2>5, <3>1, RestartSearches DEF Compare
    <3>2. CASE UNCHANGED <<searchVars, history, lapped>> /\ pc' # "search" /\ pc' # "found"
      BY <2>5, <3>2 DEF Compare, SearchInv, FindsLatestUntilWrap, FindsLatest, cameraVars, history
    <3>3. QED
      BY <2>5, <3>1, <3>2 DEF Compare
  <2>6. CASE WriteFrame
    BY <2>6 DEF WriteFrame, SearchInv, FindsLatestUntilWrap, FindsLatest, cameraVars
  <2>7. CASE UNCHANGED vars
    BY <2>7 DEF vars, cameraVars, searchVars, history, SearchInv, Turn, Searching,
                FindsLatestUntilWrap, FindsLatest, NotWrapped
  <2>8. QED
    BY <2>1, <2>2, <2>3, <2>4, <2>5, <2>6, <2>7 DEF Next, Grabber
<1>3. QED
  BY <1>1, <1>2, TypeCorrect, TableInvariant, StandInvariant, PTL DEF Spec

\* The search ends at a frame as new as the newest when it began, for every size of the
\* table and however far the camera gets ahead of it, until the counters wrap.
THEOREM FindsLatestFrame == Spec => []FindsLatestUntilWrap
<1>1. SearchInv => FindsLatestUntilWrap
  BY DEF SearchInv
<1>2. QED
  BY <1>1, SearchInvariant, PTL

\* What was written before the search is older than it; what is written since is not.
ReplayInv ==
  /\ lapped => everLapped
  /\ NotWrapped /\ ~everLapped =>
       /\ \A k \in earlier : k < atSearch
       /\ \A j \in 1..Len(out) : atSearch <= out[j] /\ out[j] < written
       /\ pc # "search" /\ currentFrame # -1 => atSearch <= table[currentFrame]

\* A new search: what was written so far is older than the newest frame, since a frame
\* is written only when there is a next one.
LEMMA RestartReplays ==
  ASSUME TypeOK, SearchInv, ReplayInv, RestartSearch, UNCHANGED <<cameraVars, everLapped>>
  PROVE  ReplayInv'
<1>1. /\ UNCHANGED <<written, everLapped>> /\ atSearch' = written /\ out' = <<>>
      /\ earlier' = earlier \cup Range(out) /\ pc' = "search" /\ lapped' = FALSE
  BY DEF RestartSearch, cameraVars
<1>2. written \in Nat /\ atSearch \in Nat /\ earlier \subseteq Nat /\ out \in Seq(Nat)
      /\ atSearch <= written
  BY DEF TypeOK, SearchInv
<1>3. ASSUME NotWrapped, ~everLapped, NEW k \in earlier \cup Range(out)
      PROVE  k < written
  <2>1. CASE k \in earlier
    BY <1>2, <1>3, <2>1 DEF ReplayInv
  <2>2. CASE k \in Range(out)
    <3>1. PICK j \in 1..Len(out) : k = out[j]
      BY <1>2, <2>2, LenProperties DEF Range
    <3>2. QED
      BY <1>3, <3>1 DEF ReplayInv
  <2>3. QED
    BY <1>3, <2>1, <2>2
<1>4. NotWrapped' => NotWrapped
  BY <1>1 DEF NotWrapped
<1>5. \A j \in 1..Len(out') : FALSE
  BY <1>1
<1>6. QED
  BY <1>1, <1>3, <1>4, <1>5 DEF ReplayInv

LEMMA ReplayInvariant == Spec => []ReplayInv
<1>1. Init => ReplayInv
  BY DEF Init, ReplayInv
<1>2. /\ TypeOK /\ TypeOK' /\ TableInv /\ StandInv /\ SearchInv /\ SearchInv' /\ ReplayInv
      /\ [Next]_vars
      => ReplayInv'
  <2> SUFFICES ASSUME TypeOK, TypeOK', TableInv, StandInv, SearchInv, SearchInv', ReplayInv,
                      [Next]_vars
               PROVE  ReplayInv'
    OBVIOUS
  <2>0. /\ table \in [Slots -> Nat] /\ written \in Nat /\ slot \in Slots /\ out \in Seq(Nat)
        /\ currentFrame \in Slots \cup {-1} /\ (pc \in {"compare", "write"} => currentFrame \in Slots)
        /\ atSearch \in Nat
    BY DEF TypeOK
  <2>1. CASE CameraWrites
    <3>1. /\ written' = written + 1 /\ table' = [table EXCEPT ![slot] = written + 1]
          /\ UNCHANGED <<pc, currentFrame, out, earlier, atSearch>>
          /\ lapped' = (lapped \/ slot = currentFrame) /\ everLapped' = (everLapped \/ lapped')
      BY <2>1 DEF CameraWrites, searchVars, history
    <3>2. NotWrapped' => NotWrapped
      <4>1. Base \in Nat /\ Width \in Nat /\ Stride \in Nat \ {0}
        BY GrabberAssumption
      <4>2. Stride * (written + 1) = Stride * written + Stride /\ Stride * written \in Nat
        BY <2>0, <4>1
      <4>3. QED
        BY <2>0, <3>1, <4>1, <4>2 DEF NotWrapped
    <3>3. ~everLapped' => ~everLapped /\ slot # currentFrame
      BY <3>1
    <3>4. lapped' => everLapped'
      BY <3>1
    <3>5. currentFrame # -1 /\ slot # currentFrame => table'[currentFrame] = table[currentFrame]
      BY <2>0, <3>1
    <3>6. \A j \in 1..Len(out) : out[j] < written => out[j] < written + 1
      <4>1. \A j \in 1..Len(out) : out[j] \in Nat
        BY <2>0, ElementOfSeq
      <4>2. QED
        BY <2>0, <4>1
    <3>7. QED
      BY <3>1, <3>2, <3>3, <3>4, <3>5, <3>6 DEF ReplayInv
  <2>2. CASE SearchRecord
    <3>1. /\ UNCHANGED <<table, written, out, earlier, atSearch, everLapped>>
          /\ lapped' = lapped \/ lapped' = FALSE
          /\ pc' = "search" \/ (pc' = "found" /\ UNCHANGED lapped)
      BY <2>2 DEF SearchRecord, cameraVars, history
    <3>2. NotWrapped' /\ ~lapped' /\ pc' = "found" /\ currentFrame' # -1
            => atSearch <= table'[currentFrame']
      <4>1. FindsLatestUntilWrap'
        BY DEF SearchInv
      <4>2. currentFrame' # -1 => table'[currentFrame'] \in Nat
        BY DEF TypeOK
      <4>3. QED
        BY <2>0, <3>1, <4>1, <4>2 DEF FindsLatestUntilWrap, FindsLatest
    <3>3. QED
      BY <3>1, <3>2 DEF ReplayInv, NotWrapped
  <2>3. CASE SearchEnds
    <3>1. /\ UNCHANGED <<table, written, out, earlier, atSearch, everLapped, lapped>>
          /\ pc' = "found"
      BY <2>3 DEF SearchEnds, cameraVars, searchVars, history
    <3>2. NotWrapped' /\ ~lapped' /\ currentFrame' # -1 => atSearch <= table'[currentFrame']
      <4>1. FindsLatestUntilWrap'
        BY DEF SearchInv
      <4>2. currentFrame' # -1 => table'[currentFrame'] \in Nat
        BY DEF TypeOK
      <4>3. QED
        BY <2>0, <3>1, <4>1, <4>2 DEF FindsLatestUntilWrap, FindsLatest
    <3>3. QED
      BY <3>1, <3>2 DEF ReplayInv, NotWrapped
  <2>4. CASE Found
    <3>1. CASE currentFrame = -1
      BY <2>4, <3>1, RestartReplays DEF Found
    <3>2. CASE currentFrame # -1
      BY <2>4, <3>2 DEF Found, ReplayInv, NotWrapped, cameraVars, history, searchVars
    <3>3. QED
      BY <3>1, <3>2
  <2>5. CASE Compare
    <3>1. CASE RestartSearch
      BY <2>5, <3>1, RestartReplays DEF Compare
    <3>2. CASE UNCHANGED <<searchVars, history, lapped>>
      BY <2>5, <3>2 DEF Compare, ReplayInv, NotWrapped, cameraVars, history, searchVars
    <3>3. QED
      BY <2>5, <3>1, <3>2 DEF Compare
  <2>6. CASE WriteFrame
    <3> DEFINE k == table[currentFrame]
               next == table[NextSlot(currentFrame)]
    <3>1. /\ pc = "write" /\ UNCHANGED <<table, written, earlier, atSearch, lapped, everLapped>>
          /\ out' = Append(out, k) /\ currentFrame' = NextSlot(currentFrame)
      BY <2>6 DEF WriteFrame, cameraVars
    <3>2. SUFFICES ASSUME NotWrapped, ~everLapped
                   PROVE  /\ \A j \in 1..Len(out') : atSearch <= out'[j] /\ out'[j] < written
                          /\ atSearch <= next
      BY <3>1 DEF ReplayInv, NotWrapped
    <3>3. k \in Nat /\ next \in Nat /\ next <= written
      BY <2>0, <3>1, NextSlotType, LatestRecord
    <3>4. next = k + 1
      BY <2>0, <3>1, <3>2 DEF StandInv, ReplayInv, Slots
    <3>5. atSearch <= k /\ currentFrame # -1
      BY <2>0, <3>1, <3>2 DEF ReplayInv, Slots
    <3>6. /\ Len(out') = Len(out) + 1 /\ out'[Len(out')] = k /\ Len(out) \in Nat
          /\ \A j \in 1..Len(out) : out'[j] = out[j]
      <4>1. out \in Seq(Nat) /\ out' = Append(out, k)
        BY <2>0, <3>1
      <4> HIDE DEF k
      <4>2. QED
        BY ONLY <3>3, <4>1, SMT
    <3>7. \A j \in 1..Len(out) : atSearch <= out[j] /\ out[j] < written
      BY <3>2 DEF ReplayInv
    <3> HIDE DEF k, next
    <3>8. \A j \in 1..Len(out') : atSearch <= out'[j] /\ out'[j] < written
      <4>1. SUFFICES ASSUME NEW j \in 1..Len(out') PROVE atSearch <= out'[j] /\ out'[j] < written
        OBVIOUS
      <4>2. CASE j = Len(out')
        BY <2>0, <3>3, <3>4, <3>5, <3>6, <4>2
      <4>3. CASE j # Len(out')
        <5>1. j \in 1..Len(out)
          BY <3>6, <4>3
        <5>2. QED
          BY <3>6, <3>7, <5>1
      <4>4. QED
        BY <4>2, <4>3
    <3>9. QED
      BY <2>0, <3>3, <3>4, <3>5, <3>8
  <2>7. CASE UNCHANGED vars
    BY <2>7 DEF vars, cameraVars, searchVars, history, ReplayInv, NotWrapped
  <2>8. QED
    BY <2>1, <2>2, <2>3, <2>4, <2>5, <2>6, <2>7 DEF Next, Grabber
<1>3. QED
  BY <1>1, <1>2, TypeCorrect, TableInvariant, StandInvariant, SearchInvariant, PTL DEF Spec

\* No frame is written twice or late across any number of searches, until the counters
\* wrap or the camera laps the grabber.
THEOREM NoFrameTwice == Spec => []NoReplay
<1>1. TypeOK /\ ReplayInv => NoReplay
  <2> SUFFICES ASSUME TypeOK, ReplayInv, NotWrapped, ~everLapped,
                      NEW j \in 1..Len(out), NEW k \in earlier
               PROVE  out[j] > k
    BY DEF NoReplay
  <2>1. out[j] \in Nat /\ k \in Nat /\ atSearch \in Nat
    BY ElementOfSeq DEF TypeOK
  <2>2. k < atSearch /\ atSearch <= out[j]
    BY DEF ReplayInv
  <2>3. QED
    BY <2>1, <2>2
<1>2. QED
  BY <1>1, TypeCorrect, ReplayInvariant, PTL
================================================================================
