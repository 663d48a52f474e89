---------------------------- MODULE ImgGrabberProofs ----------------------------
(***************************************************************************)
(* The types of ImgGrabber, that at most one process grabs among those     *)
(* that were launched by their name, and that the picture that is decoded  *)
(* is a whole one.                                                         *)
(***************************************************************************)
EXTENDS ImgGrabber, SequenceTheorems, TLAPS

LEMMA ModRange == ASSUME NEW w \in Nat \ {0}, NEW x \in Nat PROVE x % w \in 0..w - 1
  OBVIOUS

\* A record before the table counts as no frame; a record of it holds a frame that
\* was written.
LEMMA FrameType ==
  ASSUME written \in Nat, NEW s \in Slots \cup {-1}
  PROVE  Frame(s) \in Int /\ (s # -1 => Frame(s) \in Nat)
<1>1. s # -1 /\ written > s => (written - 1 - s) % TableRecordNum \in Nat
                             /\ (written - 1 - s) % TableRecordNum <= written - 1 - s
  <2> SUFFICES ASSUME s # -1, written > s
               PROVE  LET r == (written - 1 - s) % TableRecordNum
                      IN  r \in Nat /\ r <= written - 1 - s
    OBVIOUS
  <2>1. TableRecordNum \in Nat \ {0} /\ written - 1 - s \in Nat
    BY ImgAssumption DEF Slots
  <2>2. \A w \in Nat \ {0} : \A x \in Nat : x % w \in Nat /\ x % w <= x
    OBVIOUS
  <2>3. QED
    BY <2>1, <2>2
<1>2. QED
  BY <1>1, ImgAssumption DEF Frame, Slots

LEMMA CounterType == \A k \in Nat : Counter(k) \in 0..Width - 1
<1> SUFFICES ASSUME NEW k \in Nat PROVE Counter(k) \in 0..Width - 1
  OBVIOUS
<1>1. Base + k \in Nat /\ Width \in Nat \ {0}
  BY ImgAssumption
<1>2. (Base + k) % Width \in 0..Width - 1
  BY <1>1, ModRange
<1>3. QED
  BY <1>1, <1>2 DEF Counter

LEMMA KeyIsPositive ==
  ASSUME NEW k \in Int, Type(k) # Other
  PROVE  k \in Nat
  BY DEF Type, Other

LEMMA TypeNat == \A k : Type(k) \in Nat
  BY DEF Type, SPS, PPS, IFrame, Other

LEMMA NextSlotType == \A s \in Slots : NextSlot(s) \in Slots
  BY ImgAssumption DEF Slots, NextSlot

LEMMA ZeroSlot == 0 \in Slots
  BY ImgAssumption DEF Slots

LEMMA EndsType ==
  ASSUME TypeOK, NEW p \in Procs, Ends(p)
  PROVE  TypeOK'
<1>1. 0 \in 0..TableRecordNum /\ -1 \in 0..Width - 1 \cup {-1} /\ <<>> \in Seq(Nat)
  BY ImgAssumption
<1>2. /\ written' \in Nat /\ launches' \in Nat /\ pc' \in [Procs -> PC]
      /\ currentFrame' \in [Procs -> Slots \cup {-1}]
      /\ typeSum' \in [Procs -> Nat]
      /\ pointer' \in [Procs -> {"null", "held", "freed"}]
      /\ newest' \in [Procs -> Nat]
  BY DEF Ends, TypeOK, PC
<1>3. /\ i' \in [Procs -> 0..TableRecordNum]
      /\ frameCounter' \in [Procs -> 0..Width - 1 \cup {-1}]
      /\ buffer' \in [Procs -> Seq(Nat)]
  BY <1>1 DEF Ends, TypeOK
<1>4. lapped' \in [Procs -> BOOLEAN]
  BY DEF Ends, TypeOK
<1>5. QED
  BY <1>2, <1>3, <1>4 DEF TypeOK

--------------------------------------------------------------------------------
(* TypeOK, for any number of processes, any table and any width of the counters. *)
THEOREM TypeCorrect == Spec => []TypeOK
<1>1. Init => TypeOK
  <2> SUFFICES ASSUME Init PROVE TypeOK
    OBVIOUS
  <2>1. 0 \in 0..TableRecordNum /\ <<>> \in Seq(Nat)
    BY ImgAssumption
  <2>2. QED
    BY <2>1 DEF Init, TypeOK, PC
<1>2. TypeOK /\ [Next]_vars => TypeOK'
  <2> SUFFICES ASSUME TypeOK, [Next]_vars PROVE TypeOK'
    OBVIOUS
  <2>1. CASE UNCHANGED vars
    BY <2>1 DEF vars, search, collected, TypeOK
  <2>2. CASE CameraWrites
    <3>1. lapped' \in [Procs -> BOOLEAN]
      <4> DEFINE L(p) ==
            \/ lapped[p]
            \/ Waits(p) /\ currentFrame[p] = CameraSlot /\ Frame(CameraSlot) > newest[p]
            \/ Waits(p) /\ currentFrame[p] = -1 /\ CameraSlot = 0 /\ Frame(0) > newest[p]
      <4>1. lapped' = [p \in Procs |-> L(p)]
        BY <2>2 DEF CameraWrites
      <4>2. \A p \in Procs : L(p) \in BOOLEAN
        BY DEF TypeOK
      <4> HIDE DEF L
      <4>3. QED
        BY <4>1, <4>2
    <3>2. written' \in Nat
      BY <2>2 DEF CameraWrites, TypeOK
    <3>3. QED
      BY <2>2, <3>1, <3>2 DEF CameraWrites, search, collected, TypeOK
  <2> SUFFICES ASSUME NEW p \in Procs,
                      Launch(p) \/ Step(p) \/ Abort(p) \/ Timeout(p)
               PROVE  TypeOK'
    BY <2>1, <2>2 DEF Next
  <2>3. CASE Launch(p)
    BY <2>3 DEF Launch, Goto, search, collected, TypeOK, PC
  <2>4. CASE Ends(p)
    BY <2>4, EndsType
  <2>5. CASE Look(p) /\ ~Ends(p)
    BY <2>5 DEF Look, Goto, search, collected, TypeOK, PC
  <2>6. CASE Open(p) /\ ~Ends(p)
    BY <2>6 DEF Open, Goto, search, collected, TypeOK, PC
  <2>7. CASE SearchRecord(p)
    <3> DEFINE k == Frame(i[p])
    <3>1. i[p] \in Slots /\ i[p] + 1 \in 0..TableRecordNum
      BY <2>7, ImgAssumption DEF SearchRecord, TypeOK, Slots
    <3>2. k \in Nat /\ Counter(k) \in 0..Width - 1
      BY <3>1, FrameType, CounterType DEF TypeOK, Slots
    <3> HIDE DEF k
    <3>3. CASE Counter(k) > frameCounter[p]
      <4>0. ~(Counter(k) <= frameCounter[p])
        <5>1. frameCounter[p] \in Int /\ Counter(k) \in Int
          BY <3>2, ImgAssumption DEF TypeOK
        <5>2. QED
          BY <3>3, <5>1
      <4>1. /\ frameCounter' = [frameCounter EXCEPT ![p] = Counter(k)]
            /\ newest' = [newest EXCEPT ![p] = k]
            /\ i' = [i EXCEPT ![p] = @ + 1]
            /\ UNCHANGED <<pc, currentFrame, lapped>>
            /\ UNCHANGED <<written, launches, collected>>
        BY <2>7, <4>0, Zenon DEF SearchRecord, k
      <4>2. QED
        BY <3>1, <3>2, <4>1 DEF collected, TypeOK
    <3>4. CASE ~(Counter(k) > frameCounter[p])
      <4>1. /\ currentFrame' = [currentFrame EXCEPT ![p] = i[p]]
            /\ lapped' = [lapped EXCEPT ![p] = k > newest[p] + 1]
            /\ pc' = [pc EXCEPT ![p] = "loop"]
            /\ UNCHANGED <<i, frameCounter, newest, written, launches, collected>>
        BY <2>7, <3>4 DEF SearchRecord, k, Goto
      <4>2. lapped' \in [Procs -> BOOLEAN]
        BY <4>1 DEF TypeOK
      <4>3. QED
        BY <3>1, <4>1, <4>2 DEF collected, TypeOK, PC
    <3>5. QED
      BY <3>3, <3>4
  <2>8. CASE SearchEnds(p)
    <3>1. lapped' \in [Procs -> BOOLEAN]
      BY <2>8 DEF SearchEnds, TypeOK
    <3>2. QED
      BY <2>8, <3>1 DEF SearchEnds, Goto, search, collected, TypeOK, PC
  <2>9. CASE Compare(p)
    BY <2>9 DEF Compare, Goto, search, collected, TypeOK, PC
  <2>10. CASE Advance(p)
            /\ UNCHANGED <<written, launches, i, frameCounter, newest, lapped>>
            /\ typeSum' \in [Procs -> Nat] /\ pointer' \in [Procs -> {"null", "held", "freed"}]
            /\ buffer' \in [Procs -> Seq(Nat)]
    <3>1. (IF currentFrame[p] = -1 THEN 0 ELSE NextSlot(currentFrame[p])) \in Slots
      BY ZeroSlot, NextSlotType DEF TypeOK
    <3>2. currentFrame' \in [Procs -> Slots \cup {-1}]
      BY <2>10, <3>1 DEF Advance, TypeOK
    <3>3. pc' \in [Procs -> PC]
      BY <2>10 DEF Advance, Goto, TypeOK, PC
    <3>4. QED
      BY <2>10, <3>2, <3>3 DEF TypeOK
  <2>11. CASE Collect(p)
    <3> DEFINE k == Frame(currentFrame[p])
    <3>1. k \in Nat /\ Type(k) \in Nat
      <4>1. k \in Int
        BY FrameType DEF TypeOK
      <4>2. Type(k) # Other
        BY <2>11 DEF Collect
      <4>3. QED
        BY <4>1, <4>2, KeyIsPositive, TypeNat
    <3>2. /\ typeSum' = [typeSum EXCEPT ![p] = @ + Type(k)]
          /\ pointer' = [pointer EXCEPT ![p] = "held"]
          /\ buffer' = [buffer EXCEPT ![p] = Append(@, k)]
          /\ UNCHANGED <<written, launches, i, frameCounter, newest, lapped>>
          /\ \/ Goto(p, "read", "picture") /\ UNCHANGED currentFrame
             \/ Advance(p)
      BY <2>11 DEF Collect
    <3> HIDE DEF k
    <3>3. typeSum' \in [Procs -> Nat] /\ pointer' \in [Procs -> {"null", "held", "freed"}]
      BY <3>1, <3>2 DEF TypeOK
    <3>4. buffer' \in [Procs -> Seq(Nat)]
      <4>1. buffer[p] \in Seq(Nat)
        BY DEF TypeOK
      <4>2. Append(buffer[p], k) \in Seq(Nat)
        BY <3>1, <4>1, AppendProperties
      <4>3. QED
        BY <3>2, <4>2 DEF TypeOK
    <3>5. CASE Advance(p)
      BY <2>10, <3>2, <3>3, <3>4, <3>5
    <3>6. CASE Goto(p, "read", "picture") /\ UNCHANGED currentFrame
      BY <3>2, <3>3, <3>4, <3>6 DEF Goto, TypeOK, PC
    <3>7. QED
      BY <3>2, <3>5, <3>6
  <2>12. CASE Drop(p)
    <3>1. <<>> \in Seq(Nat)
      OBVIOUS
    <3>2. /\ typeSum' \in [Procs -> Nat] /\ pointer' \in [Procs -> {"null", "held", "freed"}]
          /\ buffer' \in [Procs -> Seq(Nat)]
      BY <2>12, <3>1 DEF Drop, TypeOK
    <3>3. QED
      BY <2>10, <2>12, <3>2 DEF Drop
  <2>13. QED
    BY <2>3, <2>4, <2>5, <2>6, <2>7, <2>8, <2>9, <2>11, <2>12 DEF Step, Decode, Abort, Timeout
<1>3. QED
  BY <1>1, <1>2, PTL DEF Spec

--------------------------------------------------------------------------------

\* What a step does to the processes that grab: one more only by Look, which has
\* found no other one.
LEMMA GrabSteps ==
  ASSUME TypeOK, [Next]_vars, NEW p \in Procs, Grabs(p)', ~Grabs(p)
  PROVE  /\ \A q \in Procs : ~Finds(p, q)
         /\ \A q \in Procs \ {p} : pc'[q] = pc[q]
<1>1. /\ pc[p] \in {"off", "look"} /\ pc' # pc
  BY DEF Grabs, TypeOK, PC
<1>2. PICK q \in Procs : Launch(q) \/ Step(q) \/ Abort(q) \/ Timeout(q)
  BY <1>1 DEF Next, vars, CameraWrites
<1>3. \A r \in Procs \ {q} : pc'[r] = pc[r]
  BY <1>2 DEF TypeOK, Launch, Step, Abort, Timeout, Decode, Ends, Goto, Look, Open, SearchRecord,
     SearchEnds, Compare, Collect, Drop, Advance
<1>4. q = p
  BY <1>1, <1>3 DEF Grabs
<1>5. ~Ends(p)
  BY DEF Ends, Grabs, TypeOK
<1>6. ~Launch(p)
  BY DEF Launch, Goto, Grabs, TypeOK
<1>7. Look(p)
  BY <1>1, <1>2, <1>4, <1>5, <1>6
     DEF Step, Abort, Timeout, Decode, Open, Goto, SearchRecord, SearchEnds, Compare,
         Collect, Drop, Advance
<1>8. QED
  BY <1>3, <1>4, <1>5, <1>7 DEF Look

(* Two processes grab at once only if one was launched with a path (proc_find). *)
THEOREM OneGrabber == Spec => []AtMostOneGrabs
<1>1. Init => AtMostOneGrabs
  BY DEF Init, AtMostOneGrabs, Grabs
<1>2. TypeOK /\ AtMostOneGrabs /\ [Next]_vars => AtMostOneGrabs'
  <2> SUFFICES ASSUME TypeOK, AtMostOneGrabs, [Next]_vars,
                      NEW p \in Procs, NEW q \in Procs, p # q, Grabs(p)', Grabs(q)'
               PROVE  p \in ByPath \/ q \in ByPath
    BY DEF AtMostOneGrabs
  <2>1. CASE Grabs(p) /\ Grabs(q)
    BY <2>1 DEF AtMostOneGrabs
  <2>2. CASE ~Grabs(p)
    <3>1. ~Finds(p, q) /\ pc'[q] = pc[q]
      BY <2>2, GrabSteps
    <3>2. QED
      BY <3>1 DEF Finds, Grabs
  <2>3. CASE ~Grabs(q)
    <3>1. ~Finds(q, p) /\ pc'[p] = pc[p]
      BY <2>3, GrabSteps
    <3>2. QED
      BY <3>1 DEF Finds, Grabs
  <2>4. QED
    BY <2>1, <2>2, <2>3
<1>3. QED
  BY <1>1, <1>2, TypeCorrect, PTL DEF Spec

--------------------------------------------------------------------------------
(* The picture.  First the remainders: of a few more, of a turn more, and of what *)
(* is a multiple.                                                                  *)

LEMMA ModShift ==
  ASSUME NEW w \in Nat \ {0}, NEW x \in Nat, NEW m \in Nat, m < w, m <= x
  PROVE  \/ x % w = ((x - m) % w) + m
         \/ x % w = ((x - m) % w) + m - w
  OBVIOUS

LEMMA ModAdd ==
  ASSUME NEW w \in Nat \ {0}, NEW x \in Nat, NEW d \in Nat, d < w
  PROVE  (x + d) % w = IF (x % w) + d < w THEN (x % w) + d ELSE (x % w) + d - w
<1>1. PICK y \in Nat : y = x + d
  OBVIOUS
<1>2. y % w = ((y - d) % w) + d \/ y % w = ((y - d) % w) + d - w
  <2>1. d <= y
    BY <1>1
  <2>2. QED
    BY <2>1, ModShift
<1>3. y - d = x
  BY <1>1
<1>4. y % w \in 0..w-1 /\ x % w \in 0..w-1
  BY ModRange
<1>5. y % w = IF (x % w) + d < w THEN (x % w) + d ELSE (x % w) + d - w
  BY <1>2, <1>3, <1>4
<1>6. QED
  BY <1>1, <1>5

LEMMA ModWrap ==
  ASSUME NEW w \in Nat \ {0}, NEW x \in Nat
  PROVE  (x + w) % w = x % w
<1>0. CASE w = 1
  <2>1. (x + w) % w \in 0..0 /\ x % w \in 0..0
    BY <1>0, ModRange
  <2>2. QED
    BY <2>1
<1>1. CASE w > 1
  <2>1. PICK d \in Nat : d = w - 1
    OBVIOUS
  <2>2. PICK y \in Nat : y = x + d
    OBVIOUS
  <2>3. d < w /\ 1 < w /\ 1 \in Nat
    BY <1>1, <2>1
  <2>4. (x + d) % w = IF (x % w) + d < w THEN (x % w) + d ELSE (x % w) + d - w
    BY <2>3, ModAdd
  <2>5. (y + 1) % w = IF (y % w) + 1 < w THEN (y % w) + 1 ELSE (y % w) + 1 - w
    BY <2>3, ModAdd
  <2>6. x % w \in 0..w-1 /\ y + 1 = x + w
    BY <2>1, <2>2, ModRange
  <2>7. (y + 1) % w = x % w
    BY <2>1, <2>2, <2>4, <2>5, <2>6
  <2>8. QED
    BY <2>6, <2>7
<1>2. QED
  BY <1>0, <1>1

LEMMA ModSub ==
  ASSUME NEW w \in Nat \ {0}, NEW x \in Nat, NEW s \in Nat, s < w, s <= x
  PROVE  (x - ((x - s) % w)) % w = s /\ (x - s) % w \in 0..w-1 /\ (x - s) % w <= x - s
  OBVIOUS

LEMMA ModZero ==
  ASSUME NEW w \in Nat \ {0}, NEW z \in Nat, NEW d \in Nat, z % w = 0, d < w
  PROVE  (z + d) % w = d
  BY SMTT(20)

LEMMA ModSmall ==
  ASSUME NEW w \in Nat \ {0}, NEW x \in Nat, x < w
  PROVE  x % w = x
  OBVIOUS

LEMMA ModBase ==
  ASSUME NEW w \in Nat \ {0}, NEW x \in Nat
  PROVE  x % w \in 0..w-1 /\ x % w <= x /\ (x - (x % w)) % w = 0
<1>1. 0 \in Nat /\ 0 < w /\ 0 <= x /\ x - 0 = x
  OBVIOUS
<1>2. (x - ((x - 0) % w)) % w = 0 /\ (x - 0) % w \in 0..w-1 /\ (x - 0) % w <= x - 0
  BY <1>1, ModSub
<1>3. QED
  BY <1>1, <1>2

LEMMA Sizes ==
  /\ TableRecordNum \in Nat \ {0} /\ TableRecordNum >= Gop + 3
  /\ Gop \in Nat \ {0} /\ Gop > 3
  /\ Width \in Nat \ {0} /\ Width > TableRecordNum /\ Base \in Nat
  BY ImgAssumption

\* The frame in the record of e: e from its write until it is overwritten.
LEMMA FrameIs ==
  ASSUME written \in Nat, NEW e \in Nat \ {0}, e <= written, written < e + TableRecordNum
  PROVE  Frame((e - 1) % TableRecordNum) = e
<1>1. PICK x \in Nat : x = e - 1
  OBVIOUS
<1>2. x % TableRecordNum \in 0..TableRecordNum-1 /\ x % TableRecordNum <= x
      /\ (x - (x % TableRecordNum)) % TableRecordNum = 0
  BY Sizes, ModBase
<1>2a. PICK s \in Nat : s = x % TableRecordNum
  BY <1>2
<1>3. PICK z \in Nat, d \in Nat : z = x - s /\ d = written - e
  BY <1>2, <1>2a
<1>4. (z + d) % TableRecordNum = d
  <2>1. z = x - (x % TableRecordNum)
    BY <1>2a, <1>3, Zenon
  <2>2. z % TableRecordNum = 0
    BY <1>2, <2>1, Zenon
  <2>3. d < TableRecordNum
    BY <1>3, Sizes
  <2>4. QED
    BY <2>2, <2>3, Sizes, ModZero
<1>5. written - 1 - s = z + d /\ ~(written <= s) /\ s # -1 /\ written - d = e
  BY <1>1, <1>2, <1>2a, <1>3
<1>6. QED
  BY <1>1, <1>2a, <1>4, <1>5 DEF Frame

\* Before its write: the frame a turn earlier, or none.
LEMMA FrameBehind ==
  ASSUME written \in Nat, NEW e \in Nat \ {0}, written < e, e <= written + TableRecordNum
  PROVE  Frame((e - 1) % TableRecordNum) = IF e > TableRecordNum THEN e - TableRecordNum ELSE 0
<1>1. CASE e > TableRecordNum
  <2>1. PICK f \in Nat \ {0} : f = e - TableRecordNum
    BY <1>1, Sizes
  <2>2. f <= written /\ written < f + TableRecordNum
    BY <2>1, Sizes
  <2>3. Frame((f - 1) % TableRecordNum) = f
    BY <2>2, FrameIs
  <2>4. ((f - 1) + TableRecordNum) % TableRecordNum = (f - 1) % TableRecordNum
    <3>1. f - 1 \in Nat
      OBVIOUS
    <3>2. QED
      BY <3>1, Sizes, ModWrap
  <2>5. (f - 1) + TableRecordNum = e - 1
    BY <2>1, Sizes
  <2>6. QED
    BY <1>1, <2>1, <2>3, <2>4, <2>5
<1>2. CASE ~(e > TableRecordNum)
  <2>1. PICK x \in Nat : x = e - 1
    OBVIOUS
  <2>2. x < TableRecordNum /\ written <= x /\ x # -1
    BY <1>2, <2>1, Sizes
  <2>3. x % TableRecordNum = x
    BY <2>2, Sizes, ModSmall
  <2>4. QED
    BY <1>2, <2>1, <2>2, <2>3 DEF Frame
<1>3. QED
  BY <1>1, <1>2

\* The other way around.
LEMMA FrameAt ==
  ASSUME written \in Nat, NEW s \in Slots
  PROVE  /\ written <= s => Frame(s) = 0
         /\ ~(written <= s) =>
              /\ Frame(s) \in 1..written /\ (Frame(s) - 1) % TableRecordNum = s
              /\ written < Frame(s) + TableRecordNum
<1>1. s \in Nat /\ s < TableRecordNum /\ s # -1
  BY Sizes DEF Slots
<1>2. ASSUME ~(written <= s)
      PROVE  /\ Frame(s) \in 1..written /\ (Frame(s) - 1) % TableRecordNum = s
             /\ written < Frame(s) + TableRecordNum
  <2>1. PICK x \in Nat : x = written - 1
    BY <1>1, <1>2
  <2>2. s <= x
    BY <1>1, <1>2, <2>1
  <2>2a. /\ (x - ((x - s) % TableRecordNum)) % TableRecordNum = s
        /\ (x - s) % TableRecordNum \in 0..TableRecordNum-1 /\ (x - s) % TableRecordNum <= x - s
    BY <1>1, <2>2, Sizes, ModSub
  <2>3. PICK r \in 0..TableRecordNum-1 : r = (x - s) % TableRecordNum
    BY <2>2a
  <2>4. (x - r) % TableRecordNum = s /\ r \in 0..TableRecordNum-1 /\ r <= x - s
    BY <2>2a, <2>3
  <2>5. Frame(s) = written - r
    BY <1>1, <1>2, <2>1, <2>3 DEF Frame
  <2>6. (written - r) - 1 = x - r
    BY <2>1, <2>4
  <2>7. QED
    BY <1>1, <2>1, <2>4, <2>5, <2>6, Sizes
<1>3. written <= s => Frame(s) = 0
  BY <1>1 DEF Frame
<1>4. QED
  BY <1>2, <1>3

LEMMA NextAt ==
  ASSUME NEW e \in Nat \ {0}
  PROVE  /\ (e - 1) % TableRecordNum \in Slots
         /\ NextSlot((e - 1) % TableRecordNum) = e % TableRecordNum
<1>1. PICK x \in Nat : x = e - 1
  OBVIOUS
<1>2. x % TableRecordNum \in 0..TableRecordNum-1
  BY Sizes, ModRange
<1>3. (x + 1) % TableRecordNum =
        IF (x % TableRecordNum) + 1 < TableRecordNum THEN (x % TableRecordNum) + 1
        ELSE (x % TableRecordNum) + 1 - TableRecordNum
  <2>1. 1 \in Nat /\ 1 < TableRecordNum
    BY Sizes
  <2>2. QED
    BY <2>1, Sizes, ModAdd
<1>4. x + 1 = e
  BY <1>1
<1>5. QED
  BY <1>1, <1>2, <1>3, <1>4, Sizes DEF NextSlot, Slots

\* Counters that did not wrap between y and x, and when they did not.
LEMMA CounterOrder ==
  ASSUME NEW x \in Nat \ {0}, NEW y \in Nat \ {0}, y <= x
  PROVE  /\ x - y <= Counter(x) => Counter(y) <= Counter(x)
         /\ x - y < Width /\ Counter(y) <= Counter(x) => Counter(x) >= x - y
<1>1. Counter(x) \in 0..Width-1 /\ Counter(y) \in 0..Width-1
  BY CounterType
<1>2. CASE ~(x - y < Width)
  BY <1>1, <1>2, Sizes
<1>3. CASE x - y < Width
  <2>1. PICK a \in Nat, m \in Nat : a = Base + x /\ m = x - y
    BY Sizes
  <2>2. m < Width /\ m <= a /\ a - m = Base + y
    BY <1>3, <2>1, Sizes
  <2>3. a % Width = ((a - m) % Width) + m \/ a % Width = ((a - m) % Width) + m - Width
    BY <2>2, Sizes, ModShift
  <2>4. Counter(x) = a % Width /\ Counter(y) = (a - m) % Width
    BY <2>1, <2>2 DEF Counter
  <2>5. QED
    BY <1>1, <2>1, <2>2, <2>3, <2>4, Sizes
<1>4. QED
  BY <1>2, <1>3

LEMMA TypeAt ==
  /\ \A k \in Nat : Type(k) = SPS => k % Gop = 1
  /\ \A k \in Nat \ {0} : k % Gop = 1 => Type(k) = SPS
  /\ \A k \in Nat : Type(k) = PPS => k % Gop = 2
  /\ \A k \in Nat \ {0} : k % Gop = 2 => Type(k) = PPS
  /\ \A k \in Nat : Type(k) = IFrame => k % Gop = 3
  /\ \A k \in Nat \ {0} : k % Gop = 3 => Type(k) = IFrame
  /\ \A k : Type(k) \in {SPS, PPS, IFrame, Other}
  /\ SPS = 7 /\ PPS = 8 /\ IFrame = 5 /\ Other = 1
  /\ Type(-1) = Other
  BY DEF Type, SPS, PPS, IFrame, Other

\* What comes after what.
LEMMA TypeNext ==
  ASSUME NEW k \in Nat \ {0}
  PROVE  /\ Type(k) = SPS => Type(k + 1) = PPS
         /\ Type(k) = PPS => Type(k + 1) = IFrame
         /\ Type(k) = IFrame => Type(k + 1) = Other
<1>1. (k + 1) % Gop = IF (k % Gop) + 1 < Gop THEN (k % Gop) + 1 ELSE (k % Gop) + 1 - Gop
  <2>1. 1 \in Nat /\ 1 < Gop
    BY Sizes
  <2>2. QED
    BY <2>1, Sizes, ModAdd
<1>2. k % Gop \in 0..Gop-1 /\ (k + 1) \in Nat \ {0}
  BY Sizes, ModRange
<1>3. Type(k) = SPS => Type(k + 1) = PPS
  <2> SUFFICES ASSUME Type(k) = SPS PROVE Type(k + 1) = PPS
    OBVIOUS
  <2>1. k % Gop = 1
    BY TypeAt
  <2>2. (k + 1) % Gop = 2
    BY <1>1, <2>1, Sizes
  <2>3. QED
    BY <1>2, <2>2, TypeAt
<1>4. Type(k) = PPS => Type(k + 1) = IFrame
  <2> SUFFICES ASSUME Type(k) = PPS PROVE Type(k + 1) = IFrame
    OBVIOUS
  <2>1. k % Gop = 2
    BY TypeAt
  <2>2. (k + 1) % Gop = 3
    BY <1>1, <2>1, Sizes
  <2>3. QED
    BY <1>2, <2>2, TypeAt
<1>5. Type(k) = IFrame => Type(k + 1) = Other
  <2> SUFFICES ASSUME Type(k) = IFrame PROVE Type(k + 1) = Other
    OBVIOUS
  <2>1. k % Gop = 3
    BY TypeAt
  <2>2. (k + 1) % Gop \notin {1, 2, 3}
    BY <1>1, <2>1, Sizes
  <2>3. Type(k + 1) # SPS /\ Type(k + 1) # PPS /\ Type(k + 1) # IFrame
    BY <1>2, <2>2, TypeAt
  <2>4. QED
    BY <2>3, TypeAt
<1>6. QED
  BY <1>3, <1>4, <1>5

\* Wherever a process begins, an SPS comes within a group.
LEMMA GroupHasSPS ==
  ASSUME NEW s \in Nat \ {0}
  PROVE  \E x \in s..s + Gop - 1 : Type(x) = SPS
<1>1. PICK r \in 0..Gop-1 : r = s % Gop
  BY Sizes, ModRange
<1>2. PICK d \in Nat : d < Gop /\ (r + d = 1 \/ r + d = Gop + 1)
  <2>1. CASE r <= 1
    <3>1. 1 - r \in Nat /\ 1 - r < Gop /\ r + (1 - r) = 1
      BY <2>1, Sizes
    <3>2. QED
      BY <3>1
  <2>2. CASE ~(r <= 1)
    <3>1. Gop + 1 - r \in Nat /\ Gop + 1 - r < Gop /\ r + (Gop + 1 - r) = Gop + 1
      BY <2>2, Sizes
    <3>2. QED
      BY <3>1
  <2>3. QED
    BY <2>1, <2>2
<1>3. (s + d) % Gop = IF r + d < Gop THEN r + d ELSE r + d - Gop
  BY <1>1, <1>2, Sizes, ModAdd
<1>4. (s + d) % Gop = 1
  BY <1>2, <1>3, Sizes
<1>5. s + d \in s..s + Gop - 1 /\ s + d \in Nat \ {0}
  BY <1>2, Sizes
<1>6. QED
  BY <1>4, <1>5, TypeAt

\* The counter after the one that is not the last.
LEMMA CounterWrap ==
  ASSUME NEW k \in Nat \ {0}, Counter(k + 1) <= Counter(k)
  PROVE  Counter(k) = Width - 1
<1>1. PICK a \in Nat : a = Base + k
  BY Sizes
<1>2. (a + 1) % Width = IF (a % Width) + 1 < Width THEN (a % Width) + 1 ELSE (a % Width) + 1 - Width
  <2>1. 1 \in Nat /\ 1 < Width
    BY Sizes
  <2>2. QED
    BY <2>1, Sizes, ModAdd
<1>3. a % Width \in 0..Width-1
  BY Sizes, ModRange
<1>4. Base + (k + 1) = a + 1 /\ k # 0 /\ k + 1 # 0
  BY <1>1, Sizes
<1>5. Counter(k) = a % Width /\ Counter(k + 1) = (a + 1) % Width
  BY <1>1, <1>4 DEF Counter
<1>6. QED
  BY <1>2, <1>3, <1>5, Sizes

--------------------------------------------------------------------------------
(* The search has found the newest of the first i records, with a counter not less *)
(* than i - 1 as they grow.                                                         *)
Held(p) ==
  IF i[p] = 0 THEN newest[p] = 0 /\ frameCounter[p] = -1
  ELSE /\ frameCounter[p] = Counter(newest[p]) /\ frameCounter[p] >= i[p] - 1
       /\ newest[p] <= written
       /\ newest[p] = 0 => i[p] = 1
       /\ newest[p] > 0 => (newest[p] - 1) % TableRecordNum = i[p] - 1

\* What the process that looks at frame e, and has started at s, has in its buffer.
Collected(p, s, e) ==
  \/ buffer[p] = <<>> /\ typeSum[p] = 0
  \/ /\ buffer[p] = <<e - 1>> /\ e - 1 >= s /\ Type(e - 1) # Other
     /\ typeSum[p] = Type(e - 1)
  \/ /\ buffer[p] = <<e - 2, e - 1>> /\ e - 2 >= s /\ Type(e - 2) # Other /\ Type(e - 1) # Other
     /\ typeSum[p] = Type(e - 2) + Type(e - 1)

\* It has missed no SPS but one whose PPS and I frame it is about to take.
At(p, s, e) ==
  /\ s = newest[p] + 1 \/ (newest[p] = 0 /\ s = 2)
  /\ s <= e
  /\ currentFrame[p] = (e - 1) % TableRecordNum
  /\ written < e + TableRecordNum
  /\ e > s => written >= e
  /\ pc[p] = "read" => written >= e + 1 \/ (written >= e /\ e - 2 >= s /\ Type(e - 2) = SPS)
  /\ \A x \in s..e - 3 : Type(x) # SPS
  /\ e - 1 >= s /\ Type(e - 1) = SPS => buffer[p] = <<e - 1>>
  /\ e - 2 >= s /\ Type(e - 2) = SPS => buffer[p] = <<e - 2, e - 1>>
  /\ Collected(p, s, e)

\* The search has come to the end of the table: the frame after the newest is the one
\* in its first record.
BeforeTable(p) ==
  /\ currentFrame[p] = -1 /\ newest[p] > 0 /\ newest[p] % TableRecordNum = 0
  /\ typeSum[p] = 0 /\ buffer[p] = <<>>
  /\ written <= newest[p] + TableRecordNum

Follows(p) ==
  /\ frameCounter[p] = Counter(newest[p]) /\ newest[p] <= written
  /\ frameCounter[p] >= newest[p] - 1 \/ frameCounter[p] >= TableRecordNum - 1
  /\ \/ BeforeTable(p)
     \/ \E s, e \in Nat \ {0} : At(p, s, e)

Untouched(p) == i[p] = 0 /\ frameCounter[p] = -1 /\ newest[p] = 0
Nothing(p) == currentFrame[p] = -1 /\ typeSum[p] = 0 /\ buffer[p] = <<>>

Whole(p) ==
  \E k \in newest[p] + 1..written :
    /\ buffer[p] = <<k, k + 1, k + 2>>
    /\ Type(k) = SPS /\ Type(k + 1) = PPS /\ Type(k + 2) = IFrame

Pic(p) ==
  /\ pc[p] \in {"off", "look", "open"} => Untouched(p) /\ Nothing(p)
  /\ pc[p] = "search" => Nothing(p) /\ Held(p)
  /\ pc[p] \in {"loop", "read"} /\ ~lapped[p] => Follows(p)
  /\ pc[p] = "picture" /\ ~lapped[p] => Whole(p)

PicInv == \A p \in Procs : Pic(p)

\* The other processes.
LEMMA PicKept ==
  ASSUME NEW p \in Procs, Pic(p), written' = written, pc'[p] = pc[p], i'[p] = i[p],
         currentFrame'[p] = currentFrame[p], frameCounter'[p] = frameCounter[p],
         typeSum'[p] = typeSum[p], buffer'[p] = buffer[p], newest'[p] = newest[p],
         lapped'[p] = lapped[p]
  PROVE  Pic(p)'
<1>1. Untouched(p) => Untouched(p)'
  BY DEF Untouched
<1>2. Nothing(p) => Nothing(p)'
  BY DEF Nothing
<1>3. Held(p) => Held(p)'
  BY DEF Held
<1>4. BeforeTable(p) => BeforeTable(p)'
  BY DEF BeforeTable
<1>5. ASSUME NEW s \in Nat \ {0}, NEW e \in Nat \ {0}, At(p, s, e) PROVE At(p, s, e)'
  <2>1. Collected(p, s, e)'
    BY <1>5 DEF At, Collected
  <2>2. QED
    BY <1>5, <2>1 DEF At
<1>6. Follows(p) => Follows(p)'
  BY <1>4, <1>5 DEF Follows
<1>7. Whole(p) => Whole(p)'
  BY DEF Whole
<1>8. QED
  BY <1>1, <1>2, <1>3, <1>6, <1>7 DEF Pic

LEMMA PicEnds ==
  ASSUME TypeOK, NEW p \in Procs, Ends(p)
  PROVE  Pic(p)'
<1>1. pc'[p] = "off"
  BY DEF Ends, TypeOK
<1>2. Untouched(p)'
  BY DEF Ends, TypeOK, Untouched
<1>3. Nothing(p)'
  BY DEF Ends, TypeOK, Nothing
<1>4. QED
  BY <1>1, <1>2, <1>3 DEF Pic

\* The camera overwrites what the process is to look at only if it is lapped then.
LEMMA PicCamera ==
  ASSUME TypeOK, CameraWrites, NEW p \in Procs, Pic(p)
  PROVE  Pic(p)'
<1>1. /\ written' = written + 1 /\ written \in Nat /\ newest[p] \in Nat
      /\ UNCHANGED <<pc, i, currentFrame, frameCounter, typeSum, buffer, newest>>
  BY DEF CameraWrites, search, collected, TypeOK
<1>2. lapped[p] => lapped'[p]
  BY DEF CameraWrites, TypeOK
<1>3. /\ Waits(p) /\ currentFrame[p] = CameraSlot /\ Frame(CameraSlot) > newest[p] => lapped'[p]
      /\ Waits(p) /\ currentFrame[p] = -1 /\ CameraSlot = 0 /\ Frame(0) > newest[p] => lapped'[p]
  BY DEF CameraWrites, TypeOK
<1>4. Untouched(p) => Untouched(p)'
  BY <1>1 DEF Untouched
<1>5. Nothing(p) => Nothing(p)'
  BY <1>1 DEF Nothing
<1>6. Held(p) => Held(p)'
  BY <1>1 DEF Held
<1>7. Whole(p) => Whole(p)'
  <2> SUFFICES ASSUME Whole(p) PROVE Whole(p)'
    OBVIOUS
  <2>1. PICK k \in newest[p] + 1..written :
          /\ buffer[p] = <<k, k + 1, k + 2>>
          /\ Type(k) = SPS /\ Type(k + 1) = PPS /\ Type(k + 2) = IFrame
    BY DEF Whole
  <2>2. k \in newest'[p] + 1..written'
    BY <1>1
  <2>3. QED
    BY <1>1, <2>1, <2>2 DEF Whole
<1>8. ASSUME Waits(p), ~lapped'[p], BeforeTable(p) PROVE BeforeTable(p)'
  <2>1. CASE written < newest[p] + TableRecordNum
    BY <1>1, <1>8, <2>1, Sizes DEF BeforeTable
  <2>2. CASE written = newest[p] + TableRecordNum
    <3>1. PICK m \in Nat \ {0}, e \in Nat \ {0} : m = newest[p] /\ e = m + 1
      BY <1>1, <1>8 DEF BeforeTable
    <3>2. (m + TableRecordNum) % TableRecordNum = m % TableRecordNum
      BY Sizes, ModWrap
    <3>3. CameraSlot = 0
      BY <1>8, <2>2, <3>1, <3>2 DEF BeforeTable, CameraSlot
    <3>4. e <= written /\ written < e + TableRecordNum
      BY <2>2, <3>1, Sizes
    <3>5. Frame((e - 1) % TableRecordNum) = e
      BY <1>1, <3>4, FrameIs
    <3>6. e - 1 = m /\ e > m
      BY <3>1
    <3>7. Frame(0) = e
      BY <1>8, <3>1, <3>5, <3>6 DEF BeforeTable
    <3>8. QED
      BY <1>3, <1>8, <3>1, <3>3, <3>6, <3>7 DEF BeforeTable
  <2>3. QED
    BY <1>1, <1>8, <2>1, <2>2, Sizes DEF BeforeTable
<1>9. ASSUME Waits(p), ~lapped'[p], NEW s \in Nat \ {0}, NEW e \in Nat \ {0}, At(p, s, e)
      PROVE  At(p, s, e)'
  <2>1. written + 1 < e + TableRecordNum
    <3> SUFFICES ASSUME ~(written + 1 < e + TableRecordNum) PROVE FALSE
      OBVIOUS
    <3>1. written < e + TableRecordNum /\ s <= e
          /\ (s = newest[p] + 1 \/ (newest[p] = 0 /\ s = 2))
          /\ currentFrame[p] = (e - 1) % TableRecordNum
      BY <1>9 DEF At
    <3>2. e <= written /\ e > newest[p] /\ written = (e - 1) + TableRecordNum
      <4>1. written = (e - 1) + TableRecordNum
        BY <1>1, <3>1, Sizes
      <4>2. e <= written
        BY <4>1, Sizes
      <4>3. PICK n \in Nat : n = newest[p]
        BY <1>1
      <4>4. n < e
        BY <3>1, <4>3
      <4>5. QED
        BY <4>1, <4>2, <4>3, <4>4
    <3>3. Frame((e - 1) % TableRecordNum) = e
      BY <1>1, <3>1, <3>2, FrameIs
    <3>4. ((e - 1) + TableRecordNum) % TableRecordNum = (e - 1) % TableRecordNum
      <4>1. e - 1 \in Nat
        OBVIOUS
      <4>2. QED
        BY <4>1, Sizes, ModWrap
    <3>5. CameraSlot = (e - 1) % TableRecordNum
      BY <3>2, <3>4, Zenon DEF CameraSlot
    <3>6. QED
      BY <1>3, <1>9, <3>1, <3>2, <3>3, <3>5
  <2>2. Collected(p, s, e)'
    BY <1>1, <1>9 DEF At, Collected
  <2>3. QED
    BY <1>1, <1>9, <2>1, <2>2 DEF At
<1>10. Waits(p) /\ ~lapped'[p] /\ Follows(p) => Follows(p)'
  <2> SUFFICES ASSUME Waits(p), ~lapped'[p], Follows(p) PROVE Follows(p)'
    OBVIOUS
  <2>1. BeforeTable(p)' \/ \E s, e \in Nat \ {0} : At(p, s, e)'
    BY <1>8, <1>9 DEF Follows
  <2>2. /\ frameCounter'[p] = Counter(newest'[p]) /\ newest'[p] <= written'
        /\ frameCounter'[p] >= newest'[p] - 1 \/ frameCounter'[p] >= TableRecordNum - 1
    BY <1>1 DEF Follows
  <2>3. QED
    BY <2>1, <2>2 DEF Follows
<1>11. QED
  BY <1>1, <1>2, <1>4, <1>5, <1>6, <1>7, <1>10 DEF Pic, Waits

\* It starts at the record where the counters stop growing.
LEMMA PicSearch ==
  ASSUME TypeOK, NEW p \in Procs, Pic(p), SearchRecord(p)
  PROVE  Pic(p)'
<1>1. /\ pc[p] = "search" /\ i[p] \in Slots /\ i[p] \in Nat /\ i[p] # -1 /\ i[p] < TableRecordNum
      /\ written' = written /\ written \in Nat /\ newest[p] \in Nat
      /\ UNCHANGED <<typeSum, buffer>>
      /\ Nothing(p) /\ Held(p)
  BY Sizes DEF SearchRecord, TypeOK, Slots, collected, Pic
<1>2. PICK k \in Nat : k = Frame(i[p])
  BY <1>1, FrameType
<1>3. /\ written <= i[p] => k = 0
      /\ ~(written <= i[p]) => /\ k \in 1..written /\ (k - 1) % TableRecordNum = i[p]
                               /\ written < k + TableRecordNum
  BY <1>1, <1>2, FrameAt
<1>4. Counter(k) \in 0..Width-1 /\ frameCounter[p] \in Int /\ Counter(newest[p]) \in 0..Width-1
  <2>1. Counter(k) \in 0..Width-1 /\ Counter(newest[p]) \in 0..Width-1
    BY <1>1, CounterType
  <2>2. frameCounter[p] \in Int
    BY Sizes DEF TypeOK
  <2>3. QED
    BY <2>1, <2>2
<1>5. CASE Counter(k) > frameCounter[p]
  <2>1. ~(Counter(k) <= frameCounter[p])
    BY <1>4, <1>5
  <2>2. /\ frameCounter' = [frameCounter EXCEPT ![p] = Counter(k)]
        /\ newest' = [newest EXCEPT ![p] = k]
        /\ i' = [i EXCEPT ![p] = @ + 1]
        /\ UNCHANGED <<pc, currentFrame, lapped>>
    BY <1>2, <2>1, Zenon DEF SearchRecord
  <2>3. /\ frameCounter'[p] = Counter(k) /\ newest'[p] = k /\ i'[p] = i[p] + 1
        /\ pc'[p] = "search" /\ currentFrame'[p] = currentFrame[p]
    BY <1>1, <2>2 DEF TypeOK
  <2>4. Counter(k) >= i[p] /\ (k = 0 => i[p] = 0)
    <3>1. CASE i[p] = 0
      BY <1>4, <3>1
    <3>2. CASE i[p] # 0
      <4>1. frameCounter[p] >= i[p] - 1
        BY <1>1, <3>2 DEF Held
      <4>2. Counter(k) >= i[p] /\ Counter(k) > 0
        BY <1>1, <1>4, <1>5, <3>2, <4>1
      <4>3. k # 0
        BY <4>2 DEF Counter
      <4>4. QED
        BY <4>2, <4>3
    <3>3. QED
      BY <3>1, <3>2
  <2>5. Held(p)'
    <3>1. k <= written /\ (k > 0 => (k - 1) % TableRecordNum = i[p])
      BY <1>1, <1>3
    <3>2. i'[p] # 0 /\ i'[p] - 1 = i[p]
      BY <1>1, <2>3
    <3>3. /\ frameCounter'[p] >= i'[p] - 1 /\ newest'[p] <= written'
          /\ (newest'[p] = 0 => i'[p] = 1)
          /\ (newest'[p] > 0 => (newest'[p] - 1) % TableRecordNum = i'[p] - 1)
      BY <1>1, <2>3, <2>4, <3>1, <3>2
    <3>4. QED
      BY <2>3, <3>2, <3>3 DEF Held
  <2>6. Nothing(p)'
    BY <1>1, <2>3 DEF Nothing
  <2>7. QED
    BY <2>3, <2>5, <2>6 DEF Pic
<1>6. CASE ~(Counter(k) > frameCounter[p])
  <2>0. Counter(k) <= frameCounter[p]
    BY <1>4, <1>6
  <2>1. /\ currentFrame' = [currentFrame EXCEPT ![p] = i[p]]
        /\ lapped' = [lapped EXCEPT ![p] = k > newest[p] + 1]
        /\ pc' = [pc EXCEPT ![p] = "loop"]
        /\ UNCHANGED <<i, frameCounter, newest>>
    BY <1>2, <1>6 DEF SearchRecord, Goto
  <2>2. /\ currentFrame'[p] = i[p] /\ pc'[p] = "loop" /\ lapped'[p] = (k > newest[p] + 1)
        /\ newest'[p] = newest[p] /\ frameCounter'[p] = frameCounter[p]
        /\ typeSum'[p] = 0 /\ buffer'[p] = <<>>
    BY <1>1, <2>1 DEF TypeOK, Nothing
  <2>3. i[p] # 0 /\ frameCounter[p] = Counter(newest[p]) /\ frameCounter[p] >= i[p] - 1
        /\ newest[p] <= written /\ (newest[p] = 0 => i[p] = 1)
        /\ (newest[p] > 0 => (newest[p] - 1) % TableRecordNum = i[p] - 1)
    <3>1. i[p] # 0
      BY <1>1, <1>4, <2>0 DEF Held
    <3>2. QED
      BY <1>1, <3>1 DEF Held
  <2>4. PICK m \in Nat, c \in Nat, f \in Int :
           m = newest[p] /\ c = i[p] /\ f = frameCounter[p]
    BY <1>1, <1>4
  <2> SUFFICES ASSUME k <= m + 1
               PROVE  Follows(p)'
    <3>1. ASSUME ~lapped'[p] PROVE k <= m + 1
      <4>1. ~(k > newest[p] + 1)
        BY <2>2, <3>1, Zenon
      <4>2. QED
        BY <2>4, <4>1
    <3>2. QED
      BY <2>2, <3>1, Zenon DEF Pic
  <2>5. /\ c \in 1..TableRecordNum - 1 /\ f = Counter(m) /\ f >= c - 1 /\ m <= written
        /\ (m = 0 => c = 1) /\ (m > 0 => (m - 1) % TableRecordNum = c - 1)
        /\ Counter(k) <= f
        /\ (written <= c => k = 0)
        /\ (~(written <= c) => k \in 1..written /\ (k - 1) % TableRecordNum = c
                               /\ written < k + TableRecordNum)
    BY <1>1, <1>3, <2>0, <2>3, <2>4, Sizes
  <2>6. ASSUME NEW s \in Nat \ {0}, s = m + 1 \/ (m = 0 /\ s = 2),
               c = (s - 1) % TableRecordNum, written < s + TableRecordNum,
               f >= m - 1 \/ f >= TableRecordNum - 1
        PROVE  Follows(p)'
    <3>1. Collected(p, s, s)'
      BY <2>2 DEF Collected
    <3>2. At(p, s, s)'
      <4>1. s - 3 < s /\ ~(s - 1 >= s) /\ ~(s - 2 >= s) /\ ~(s > s) /\ s <= s
        OBVIOUS
      <4>2. \A x \in s..s - 3 : Type(x) # SPS
        OBVIOUS
      <4>3. QED
        BY <1>1, <2>2, <2>4, <2>6, <3>1, <4>1, <4>2 DEF At
    <3>3. /\ frameCounter'[p] = Counter(newest'[p]) /\ newest'[p] <= written'
          /\ frameCounter'[p] >= newest'[p] - 1 \/ frameCounter'[p] >= TableRecordNum - 1
      BY <1>1, <2>2, <2>4, <2>5, <2>6
    <3>4. QED
      BY <3>2, <3>3 DEF Follows
  <2>7. CASE m = 0
    <3>1. c = 1
      BY <2>5, <2>7
    <3>2. written <= 1
      <4> SUFFICES ASSUME written > 1 PROVE FALSE
        BY <1>1
      <4>1. k = 1 /\ (k - 1) % TableRecordNum = 1
        BY <1>1, <2>5, <2>7, <3>1
      <4>2. 0 % TableRecordNum = 0
        BY Sizes, ModSmall
      <4>3. QED
        BY <4>1, <4>2
    <3>3. 1 % TableRecordNum = 1
      <4>1. 1 \in Nat /\ 1 < TableRecordNum
        BY Sizes
      <4>2. QED
        BY <4>1, Sizes, ModSmall
    <3>4. 2 - 1 = 1 /\ 2 \in Nat \ {0} /\ f >= m - 1 /\ written < 2 + TableRecordNum
      BY <1>1, <2>5, <2>7, <3>1, <3>2, Sizes
    <3>5. c = (2 - 1) % TableRecordNum
      BY <3>1, <3>3, <3>4, Zenon
    <3>6. QED
      BY <2>6, <2>7, <3>4, <3>5
  <2>8. CASE m > 0
    <3>1. m \in Nat \ {0} /\ m + 1 \in Nat \ {0} /\ (m + 1) - 1 = m
      BY <2>8
    <3>2. m % TableRecordNum = c
      <4>1. NextSlot((m - 1) % TableRecordNum) = m % TableRecordNum
        BY <3>1, NextAt
      <4>2. (m - 1) % TableRecordNum = c - 1
        BY <2>5, <2>8
      <4>3. NextSlot(c - 1) = c
        BY <2>5 DEF NextSlot
      <4>4. QED
        BY <4>1, <4>2, <4>3
    <3>3. written < (m + 1) + TableRecordNum
      BY <1>1, <2>5, Sizes
    <3>4. f >= m - 1 \/ f >= TableRecordNum - 1
      <4>1. CASE written <= c
        BY <1>1, <2>5, <4>1
      <4>2. CASE ~(written <= c) /\ k = m + 1
        <5>1. Counter(m + 1) <= Counter(m)
          BY <2>5, <4>2
        <5>2. f = Width - 1
          BY <2>5, <3>1, <5>1, CounterWrap
        <5>3. QED
          BY <5>2, Sizes
      <4>3. CASE ~(written <= c) /\ k # m + 1
        <5>1. k <= m /\ k \in Nat \ {0}
          BY <2>5, <4>3
        <5>2. written = m
          <6> SUFFICES ASSUME m + 1 <= written PROVE FALSE
            BY <1>1, <2>5
          <6>1. Frame(((m + 1) - 1) % TableRecordNum) = m + 1
            BY <1>1, <3>1, <3>3, FrameIs
          <6>2. Frame(c) = m + 1
            BY <3>1, <3>2, <6>1
          <6>3. QED
            BY <1>2, <2>4, <4>3, <6>2
        <5>3. k = (m + 1) - TableRecordNum
          <6>1. Frame(((m + 1) - 1) % TableRecordNum)
                  = IF m + 1 > TableRecordNum THEN (m + 1) - TableRecordNum ELSE 0
            <7>1. written < m + 1 /\ m + 1 <= written + TableRecordNum
              BY <5>2, Sizes
            <7>2. QED
              BY <1>1, <3>1, <7>1, FrameBehind
          <6>2. Frame(c) = k
            BY <1>2, <2>4
          <6>3. k = IF m + 1 > TableRecordNum THEN (m + 1) - TableRecordNum ELSE 0
            BY <3>1, <3>2, <6>1, <6>2
          <6>4. QED
            BY <5>1, <6>3
        <5>4. m - k = TableRecordNum - 1 /\ m - k < Width
          BY <5>3, Sizes
        <5>5. Counter(k) <= Counter(m)
          BY <2>5
        <5>6. Counter(m) >= m - k
          BY <3>1, <5>1, <5>4, <5>5, CounterOrder
        <5>7. QED
          BY <2>5, <5>4, <5>6
      <4>4. QED
        BY <4>1, <4>2, <4>3
    <3>5. QED
      BY <2>6, <3>1, <3>2, <3>3, <3>4
  <2>9. QED
    BY <2>7, <2>8
<1>7. QED
  BY <1>5, <1>6

LEMMA PicSearchEnds ==
  ASSUME TypeOK, NEW p \in Procs, Pic(p), SearchEnds(p)
  PROVE  Pic(p)'
<1>1. /\ i[p] = TableRecordNum /\ Nothing(p) /\ Held(p) /\ i[p] # 0 /\ i[p] # 1
      /\ written \in Nat /\ newest[p] \in Nat
  BY Sizes DEF SearchEnds, Goto, Pic, TypeOK
<1>2. /\ pc'[p] = "loop" /\ lapped'[p] = (Frame(0) > newest[p] + 1)
      /\ UNCHANGED <<written, i, currentFrame, frameCounter, newest, typeSum, buffer>>
  BY DEF SearchEnds, Goto, search, collected, TypeOK
<1>3. PICK m \in Nat : m = newest[p]
  BY <1>1
<1>4. /\ m > 0 /\ frameCounter[p] = Counter(m) /\ frameCounter[p] >= TableRecordNum - 1
      /\ m <= written /\ (m - 1) % TableRecordNum = TableRecordNum - 1
  BY <1>1, <1>3 DEF Held
<1>5. m % TableRecordNum = 0
  <2>1. m \in Nat \ {0}
    BY <1>4
  <2>2. NextSlot((m - 1) % TableRecordNum) = m % TableRecordNum
    BY <2>1, NextAt
  <2>3. QED
    BY <1>4, <2>2 DEF NextSlot
<1>6. Frame(0) <= m + 1 => written <= m + TableRecordNum
  <2>1. ~(written <= 0)
    BY <1>1, <1>4
  <2>2. Frame(0) \in 1..written /\ written < Frame(0) + TableRecordNum
    BY <1>1, <2>1, ZeroSlot, FrameAt
  <2>3. QED
    BY <1>1, <2>2, Sizes
<1>7. Frame(0) \in Nat
  BY <1>1, ZeroSlot, FrameType
<1> SUFFICES ASSUME Frame(0) <= m + 1
             PROVE  Follows(p)'
  <2>1. ASSUME ~lapped'[p] PROVE Frame(0) <= m + 1
    <3>1. ~(Frame(0) > newest[p] + 1)
      BY <1>2, <2>1, Zenon
    <3>2. QED
      BY <1>3, <1>7, <3>1
  <2>2. QED
    BY <1>2, <2>1, Zenon DEF Pic
<1>8. BeforeTable(p)'
  BY <1>1, <1>2, <1>3, <1>4, <1>5, <1>6 DEF Nothing, BeforeTable
<1>9. QED
  BY <1>2, <1>3, <1>4, <1>8 DEF Follows

\* The counter of the next record is larger than the one found: it is the next frame,
\* as a group with its SPS comes before a whole turn, but for an I frame that is there.
LEMMA PicCompare ==
  ASSUME TypeOK, NEW p \in Procs, Pic(p), Compare(p)
  PROVE  Pic(p)'
<1>1. /\ pc[p] = "loop" /\ pc'[p] = "read" /\ written \in Nat /\ newest[p] \in Nat
      /\ UNCHANGED <<written, i, currentFrame, frameCounter, newest, typeSum, buffer, lapped>>
      /\ Counter(NextFrame(p)) > frameCounter[p]
  BY DEF Compare, Goto, search, collected, TypeOK
<1> SUFFICES ASSUME Follows(p) PROVE Follows(p)'
  BY <1>1 DEF Pic
<1>2. BeforeTable(p) => BeforeTable(p)'
  BY <1>1 DEF BeforeTable
<1>3. PICK m \in Nat, f \in 0..Width-1 : m = newest[p] /\ f = frameCounter[p] /\ f = Counter(m)
  BY <1>1, CounterType DEF Follows
<1>4. m <= written /\ (f >= m - 1 \/ f >= TableRecordNum - 1)
  BY <1>3 DEF Follows
<1>5. ASSUME NEW s \in Nat \ {0}, NEW e \in Nat \ {0}, At(p, s, e) PROVE At(p, s, e)'
  <2>1. /\ s = m + 1 \/ (m = 0 /\ s = 2)
        /\ s <= e /\ currentFrame[p] = (e - 1) % TableRecordNum
        /\ e > s => written >= e
        /\ \A x \in s..e - 3 : Type(x) # SPS
    BY <1>3, <1>5 DEF At
  <2>2. Collected(p, s, e)'
    BY <1>1, <1>5 DEF At, Collected
  <2>3. written >= e + 1 \/ (written >= e /\ e - 2 >= s /\ Type(e - 2) = SPS)
    <3> SUFFICES ASSUME written <= e, ~(e - 2 >= s /\ Type(e - 2) = SPS)
                 PROVE  FALSE
      BY <1>1, <2>1
    <3>1. e <= s + Gop
      <4>1. PICK x \in s..s + Gop - 1 : Type(x) = SPS
        BY GroupHasSPS
      <4>2. x \notin s..e - 3 /\ ~(x = e - 2)
        BY <2>1, <4>1
      <4>3. QED
        BY <4>2, Sizes
    <3>0. PICK g \in Nat \ {0} : g = e + 1
      OBVIOUS
    <3>2. PICK y \in Nat : y = IF g > TableRecordNum THEN g - TableRecordNum ELSE 0
      <4>1. (IF g > TableRecordNum THEN g - TableRecordNum ELSE 0) \in Nat
        BY Sizes
      <4>2. QED
        BY <4>1, Zenon
    <3>3. NextFrame(p) = y
      <4>1. (e - 1) % TableRecordNum \in Slots
            /\ NextSlot((e - 1) % TableRecordNum) = e % TableRecordNum
        BY NextAt
      <4>2. (e - 1) % TableRecordNum # -1
        BY <4>1, Sizes DEF Slots
      <4>3. NextFrame(p) = Frame(e % TableRecordNum)
        BY <2>1, <4>1, <4>2 DEF NextFrame
      <4>4. written < g /\ g <= written + TableRecordNum
        <5>1. PICK v \in Nat : v = written
          BY <1>1
        <5>2. s <= m + 2 /\ m <= v /\ v <= e
          BY <1>4, <2>1, <5>1
        <5>3. v < g /\ g <= v + TableRecordNum
          BY <3>0, <3>1, <5>2, Sizes
        <5>4. QED
          BY <5>1, <5>3
      <4>5. Frame((g - 1) % TableRecordNum) = y
        BY <1>1, <3>2, <4>4, FrameBehind
      <4>6. g - 1 = e
        BY <3>0
      <4>7. QED
        BY <4>3, <4>5, <4>6
    <3>4. y <= m /\ (y > 0 => m - y <= TableRecordNum - 2)
      BY <2>1, <3>0, <3>1, <3>2, Sizes
    <3>5. CASE y = 0
      BY <1>1, <1>3, <3>3, <3>5, Sizes DEF Counter
    <3>6. CASE y # 0
      <4>1. m \in Nat \ {0} /\ y \in Nat \ {0} /\ m - y <= Counter(m)
        BY <1>3, <1>4, <3>4, <3>6, Sizes
      <4>2. Counter(y) <= Counter(m)
        BY <3>4, <4>1, CounterOrder
      <4>3. Counter(y) > Counter(m)
        BY <1>1, <1>3, <3>3
      <4>4. Counter(y) \in 0..Width-1
        BY CounterType
      <4>5. QED
        BY <1>3, <4>2, <4>3, <4>4
    <3>7. QED
      BY <3>5, <3>6
  <2>4. QED
    BY <1>1, <1>5, <2>2, <2>3 DEF At
<1>6. QED
  BY <1>1, <1>2, <1>5 DEF Follows

LEMMA Appends ==
  ASSUME NEW a \in Int, NEW b \in Int, NEW e \in Int
  PROVE  /\ Append(<<>>, e) = <<e>> /\ Append(<<a>>, e) = <<a, e>>
         /\ Append(<<a, b>>, e) = <<a, b, e>>
<1>1. Append(<<>>, e) = <<e>>
  OBVIOUS
<1>2. Append(<<a>>, e) = <<a, e>>
  <2>1. <<a>> \in Seq(Int) /\ <<a, e>> \in Seq(Int) /\ Len(<<a>>) = 1 /\ Len(<<a, e>>) = 2
    OBVIOUS
  <2>2. /\ Append(<<a>>, e) \in Seq(Int) /\ Len(Append(<<a>>, e)) = 2
        /\ Append(<<a>>, e)[1] = a /\ Append(<<a>>, e)[2] = e
    BY <2>1, AppendProperties
  <2>3. <<a, e>>[1] = a /\ <<a, e>>[2] = e
    OBVIOUS
  <2>4. \A j \in 1..2 : Append(<<a>>, e)[j] = <<a, e>>[j]
    <3>1. 1..2 = {1, 2}
      OBVIOUS
    <3>2. QED
      BY <2>2, <2>3, <3>1, Zenon
  <2>5. QED
    BY <2>1, <2>2, <2>4, SeqEqual
<1>3. Append(<<a, b>>, e) = <<a, b, e>>
  <2>1. <<a, b>> \in Seq(Int) /\ <<a, b, e>> \in Seq(Int)
        /\ Len(<<a, b>>) = 2 /\ Len(<<a, b, e>>) = 3
    OBVIOUS
  <2>2. /\ Append(<<a, b>>, e) \in Seq(Int) /\ Len(Append(<<a, b>>, e)) = 3
        /\ Append(<<a, b>>, e)[1] = a /\ Append(<<a, b>>, e)[2] = b
        /\ Append(<<a, b>>, e)[3] = e
    BY <2>1, AppendProperties
  <2>3. <<a, b, e>>[1] = a /\ <<a, b, e>>[2] = b /\ <<a, b, e>>[3] = e
    OBVIOUS
  <2>4. \A j \in 1..3 : Append(<<a, b>>, e)[j] = <<a, b, e>>[j]
    <3>1. 1..3 = {1, 2, 3}
      OBVIOUS
    <3>2. QED
      BY <2>2, <2>3, <3>1, Zenon
  <2>5. QED
    BY <2>1, <2>2, <2>4, SeqEqual
<1>4. QED
  BY <1>1, <1>2, <1>3

\* What the process reads is the frame it is at.
LEMMA ReadsFrame ==
  ASSUME TypeOK, NEW p \in Procs, pc[p] = "read",
         NEW s \in Nat \ {0}, NEW e \in Nat \ {0}, At(p, s, e)
  PROVE  /\ Frame(currentFrame[p]) = e /\ e <= written /\ s <= e
         /\ NextSlot(currentFrame[p]) = e % TableRecordNum
         /\ currentFrame[p] # -1
         /\ written >= e + 1 \/ (e - 2 >= s /\ Type(e - 2) = SPS)
<1>1. written \in Nat
  BY DEF TypeOK
<1>2. /\ currentFrame[p] = (e - 1) % TableRecordNum /\ written < e + TableRecordNum /\ s <= e
      /\ written >= e + 1 \/ (written >= e /\ e - 2 >= s /\ Type(e - 2) = SPS)
  BY DEF At
<1>3. e <= written
  BY <1>1, <1>2
<1>4. Frame((e - 1) % TableRecordNum) = e
  BY <1>1, <1>2, <1>3, FrameIs
<1>5. (e - 1) % TableRecordNum \in Slots
      /\ NextSlot((e - 1) % TableRecordNum) = e % TableRecordNum
  BY NextAt
<1>6. (e - 1) % TableRecordNum # -1
  BY <1>5, Sizes DEF Slots
<1>7. QED
  BY <1>2, <1>3, <1>4, <1>5, <1>6

\* After SPS and PPS there is the I frame: with any of the three the buffer grows.
LEMMA PicCollect ==
  ASSUME TypeOK, NEW p \in Procs, Pic(p), Collect(p)
  PROVE  Pic(p)'
<1>1. /\ pc[p] = "read" /\ written \in Nat /\ newest[p] \in Nat
      /\ UNCHANGED <<written, i, frameCounter, newest, lapped>>
      /\ Type(Frame(currentFrame[p])) # Other
  BY DEF Collect, Advance, Goto, TypeOK
<1>2. /\ typeSum'[p] = typeSum[p] + Type(Frame(currentFrame[p]))
      /\ buffer'[p] = Append(buffer[p], Frame(currentFrame[p]))
  BY DEF Collect, TypeOK
<1>3. CASE lapped[p]
  <2>1. pc'[p] \in {"loop", "picture"} /\ lapped'[p]
    BY <1>1, <1>3 DEF Collect, Advance, Goto, TypeOK
  <2>2. QED
    BY <2>1 DEF Pic
<1>4. CASE ~lapped[p]
  <2>1. Follows(p)
    BY <1>1, <1>4 DEF Pic
  <2>2. ~BeforeTable(p)
    BY <1>1, TypeAt DEF BeforeTable, Frame
  <2>3. PICK s \in Nat \ {0}, e \in Nat \ {0} : At(p, s, e)
    BY <2>1, <2>2 DEF Follows
  <2>4. /\ Frame(currentFrame[p]) = e /\ e <= written /\ s <= e
        /\ NextSlot(currentFrame[p]) = e % TableRecordNum
        /\ currentFrame[p] # -1
        /\ written >= e + 1 \/ (e - 2 >= s /\ Type(e - 2) = SPS)
    BY <1>1, <2>3, ReadsFrame
  <2>5. Type(e) \in {7, 8, 5} /\ SPS = 7 /\ PPS = 8 /\ IFrame = 5 /\ Other = 1
    BY <1>1, <2>4, TypeAt
  <2>6. /\ s = newest[p] + 1 \/ (newest[p] = 0 /\ s = 2)
        /\ written < e + TableRecordNum
        /\ \A x \in s..e - 3 : Type(x) # SPS
        /\ e - 1 >= s /\ Type(e - 1) = SPS => buffer[p] = <<e - 1>>
        /\ e - 2 >= s /\ Type(e - 2) = SPS => buffer[p] = <<e - 2, e - 1>>
        /\ Collected(p, s, e)
    BY <2>3 DEF At
  <2>7. /\ typeSum'[p] = typeSum[p] + Type(e) /\ buffer'[p] = Append(buffer[p], e)
    BY <1>2, <2>4
  <2>8. e - 1 >= s =>
          /\ Type(e - 1) = SPS => Type(e) = PPS
          /\ Type(e - 1) = PPS => Type(e) = IFrame
          /\ Type(e - 1) = IFrame => Type(e) = Other
          /\ Type(e - 1) \in {SPS, PPS, IFrame, Other}
    <3> SUFFICES ASSUME e - 1 >= s
                 PROVE  /\ Type(e - 1) = SPS => Type(e) = PPS
                        /\ Type(e - 1) = PPS => Type(e) = IFrame
                        /\ Type(e - 1) = IFrame => Type(e) = Other
      BY TypeAt
    <3>1. PICK k \in Nat \ {0} : k = e - 1
      OBVIOUS
    <3>2. k + 1 = e
      BY <3>1
    <3>3. QED
      BY <3>1, <3>2, TypeNext
  <2>9. e - 2 >= s =>
          /\ Type(e - 2) = SPS => Type(e - 1) = PPS
          /\ Type(e - 2) = PPS => Type(e - 1) = IFrame
          /\ Type(e - 2) = IFrame => Type(e - 1) = Other
          /\ Type(e - 2) \in {SPS, PPS, IFrame, Other}
    <3> SUFFICES ASSUME e - 2 >= s
                 PROVE  /\ Type(e - 2) = SPS => Type(e - 1) = PPS
                        /\ Type(e - 2) = PPS => Type(e - 1) = IFrame
                        /\ Type(e - 2) = IFrame => Type(e - 1) = Other
      BY TypeAt
    <3>1. PICK k \in Nat \ {0} : k = e - 2
      OBVIOUS
    <3>2. k + 1 = e - 1
      BY <3>1
    <3>3. QED
      BY <3>1, <3>2, TypeNext
  <2>10. e - 2 >= s => e - 1 >= s
    OBVIOUS
  <2>11. CASE e - 2 >= s /\ Type(e - 2) = SPS
    <3>1. Type(e - 1) = PPS /\ Type(e) = IFrame /\ buffer[p] = <<e - 2, e - 1>>
      BY <2>6, <2>8, <2>9, <2>10, <2>11
    <3>2. typeSum[p] = Type(e - 2) + Type(e - 1)
      <4>1. <<e - 2, e - 1>> # <<>> /\ <<e - 2, e - 1>> # <<e - 1>>
        <5>1. Len(<<e - 2, e - 1>>) = 2 /\ Len(<<>>) = 0 /\ Len(<<e - 1>>) = 1
          OBVIOUS
        <5>2. QED
          BY <5>1
      <4>2. QED
        BY <2>6, <3>1, <4>1 DEF Collected
    <3>3. typeSum'[p] = 20
      BY <2>5, <2>7, <2>11, <3>1, <3>2
    <3>4. buffer'[p] = <<e - 2, e - 1, e>>
      <4>1. e - 2 \in Int /\ e - 1 \in Int /\ e \in Int
        OBVIOUS
      <4>2. Append(<<e - 2, e - 1>>, e) = <<e - 2, e - 1, e>>
        BY <4>1, Appends
      <4>3. QED
        BY <2>7, <3>1, <4>2, Zenon
    <3>5. pc'[p] = "picture"
      BY <1>1, <3>3 DEF Collect, Goto, TypeOK
    <3>6. Whole(p)'
      <4>1. PICK k \in Nat : k = e - 2
        BY <2>11
      <4>2. k \in newest[p] + 1..written
        BY <1>1, <2>4, <2>6, <2>11, <4>1
      <4>3. k + 1 = e - 1 /\ k + 2 = e
        BY <4>1
      <4>4. buffer'[p] = <<k, k + 1, k + 2>>
            /\ Type(k) = SPS /\ Type(k + 1) = PPS /\ Type(k + 2) = IFrame
        BY <2>11, <3>1, <3>4, <4>1, <4>3
      <4>5. k \in newest'[p] + 1..written'
        BY <1>1, <4>2
      <4>6. QED
        BY <4>4, <4>5 DEF Whole
    <3>7. QED
      BY <3>5, <3>6 DEF Pic
  <2>12. CASE ~(e - 2 >= s /\ Type(e - 2) = SPS)
    <3>1. \/ buffer[p] = <<>> /\ typeSum[p] = 0
          \/ /\ buffer[p] = <<e - 1>> /\ e - 1 >= s /\ Type(e - 1) # Other
             /\ typeSum[p] = Type(e - 1)
      <4>1. ~(e - 2 >= s /\ Type(e - 2) # Other /\ Type(e - 1) # Other)
        BY <2>5, <2>8, <2>9, <2>10, <2>12
      <4>2. QED
        BY <2>6, <4>1 DEF Collected
    <3>2. typeSum'[p] # 20
      <4>1. CASE typeSum[p] = 0
        BY <2>5, <2>7, <4>1
      <4>2. CASE e - 1 >= s /\ Type(e - 1) # Other /\ typeSum[p] = Type(e - 1)
        BY <2>5, <2>7, <2>8, <4>2
      <4>3. QED
        BY <3>1, <4>1, <4>2
    <3>3. pc'[p] = "loop" /\ currentFrame'[p] = e % TableRecordNum
      <4>1. Advance(p)
        BY <3>2 DEF Collect
      <4>2. QED
        BY <2>4, <4>1 DEF Advance, Goto, TypeOK
    <3>4. PICK g \in Nat \ {0} : g = e + 1
      OBVIOUS
    <3>5. g - 1 = e /\ g - 2 = e - 1 /\ g - 3 = e - 2
      BY <3>4
    <3>6. /\ buffer[p] = <<>> => buffer'[p] = <<e>>
          /\ buffer[p] = <<e - 1>> => buffer'[p] = <<e - 1, e>>
      <4>1. e - 1 \in Int /\ e \in Int
        OBVIOUS
      <4>2. Append(<<>>, e) = <<e>> /\ Append(<<e - 1>>, e) = <<e - 1, e>>
        BY <4>1, Appends
      <4>3. QED
        BY <2>7, <4>2, Zenon
    <3>7. Collected(p, s, g)'
      <4>1. CASE buffer[p] = <<>> /\ typeSum[p] = 0
        <5>1. buffer'[p] = <<g - 1>> /\ g - 1 >= s /\ Type(g - 1) # Other
              /\ typeSum'[p] = Type(g - 1)
          BY <2>4, <2>5, <2>7, <3>5, <3>6, <4>1
        <5>2. QED
          BY <5>1 DEF Collected
      <4>2. CASE /\ buffer[p] = <<e - 1>> /\ e - 1 >= s /\ Type(e - 1) # Other
                 /\ typeSum[p] = Type(e - 1)
        <5>1. buffer'[p] = <<g - 2, g - 1>> /\ g - 2 >= s /\ Type(g - 2) # Other
              /\ Type(g - 1) # Other /\ typeSum'[p] = Type(g - 2) + Type(g - 1)
          BY <2>5, <2>7, <3>5, <3>6, <4>2
        <5>2. QED
          BY <5>1 DEF Collected
      <4>3. QED
        BY <3>1, <4>1, <4>2
    <3>8. \A x \in s..g - 3 : Type(x) # SPS
      <4> SUFFICES ASSUME NEW x \in s..g - 3 PROVE Type(x) # SPS
        OBVIOUS
      <4>1. x \in s..e - 3 \/ (x = e - 2 /\ e - 2 >= s)
        BY <3>5
      <4>2. QED
        BY <2>6, <2>12, <4>1
    <3>9. g - 1 >= s /\ Type(g - 1) = SPS => buffer'[p] = <<g - 1>>
      <4> SUFFICES ASSUME Type(e) = SPS PROVE buffer'[p] = <<e>>
        BY <3>5
      <4>1. ~(e - 1 >= s /\ Type(e - 1) # Other)
        BY <2>5, <2>8
      <4>2. QED
        BY <3>1, <3>6, <4>1
    <3>10. g - 2 >= s /\ Type(g - 2) = SPS => buffer'[p] = <<g - 2, g - 1>>
      <4> SUFFICES ASSUME e - 1 >= s, Type(e - 1) = SPS PROVE buffer'[p] = <<e - 1, e>>
        BY <3>5
      <4>1. buffer[p] = <<e - 1>>
        BY <2>6
      <4>2. QED
        BY <3>6, <4>1
    <3>11. /\ s <= g /\ written' < g + TableRecordNum
           /\ written' >= g
           /\ s = newest'[p] + 1 \/ (newest'[p] = 0 /\ s = 2)
      <4>1. written' = written /\ newest'[p] = newest[p]
        BY <1>1
      <4>2. written < g + TableRecordNum
        BY <1>1, <2>6, <3>4, Sizes
      <4>3. written >= g /\ s <= g
        BY <2>4, <2>12, <3>4
      <4>4. QED
        BY <2>6, <4>1, <4>2, <4>3
    <3>12. At(p, s, g)'
      BY <3>3, <3>5, <3>7, <3>8, <3>9, <3>10, <3>11 DEF At
    <3>13. Follows(p)'
      BY <1>1, <2>1, <3>12 DEF Follows
    <3>14. QED
      BY <3>3, <3>13 DEF Pic
  <2>13. QED
    BY <2>11, <2>12
<1>5. QED
  BY <1>3, <1>4

\* Another frame does not come between an SPS and its I frame.
LEMMA PicDrop ==
  ASSUME TypeOK, NEW p \in Procs, Pic(p), Drop(p)
  PROVE  Pic(p)'
<1>1. /\ pc[p] = "read" /\ pc'[p] = "loop" /\ written \in Nat /\ newest[p] \in Nat
      /\ UNCHANGED <<written, i, frameCounter, newest, lapped>>
      /\ Type(Frame(currentFrame[p])) = Other
      /\ typeSum'[p] = 0 /\ buffer'[p] = <<>>
      /\ currentFrame'[p] = IF currentFrame[p] = -1 THEN 0 ELSE NextSlot(currentFrame[p])
  BY DEF Drop, Advance, Goto, TypeOK
<1> SUFFICES ASSUME Follows(p) PROVE Follows(p)'
  BY <1>1 DEF Pic
<1>2. ASSUME NEW s \in Nat \ {0}, NEW g \in Nat \ {0}, At(p, s, g)' PROVE Follows(p)'
  BY <1>1, <1>2 DEF Follows
<1>3. CASE BeforeTable(p)
  <2>1. PICK m \in Nat \ {0}, g \in Nat \ {0} : m = newest[p] /\ g = m + 1
    BY <1>1, <1>3 DEF BeforeTable
  <2>2. currentFrame'[p] = 0 /\ m % TableRecordNum = 0 /\ written <= m + TableRecordNum
    BY <1>1, <1>3, <2>1 DEF BeforeTable
  <2>3. Collected(p, g, g)'
    BY <1>1 DEF Collected
  <2>4. g - 1 = m /\ ~(g - 1 >= g) /\ ~(g - 2 >= g) /\ ~(g > g) /\ g <= g /\ g - 3 < g
        /\ written < g + TableRecordNum
    BY <1>1, <2>1, <2>2, Sizes
  <2>5. \A x \in g..g - 3 : Type(x) # SPS
    OBVIOUS
  <2>6. currentFrame'[p] = (g - 1) % TableRecordNum
    BY <2>2, <2>4
  <2>7. At(p, g, g)'
    BY <1>1, <2>1, <2>3, <2>4, <2>5, <2>6 DEF At
  <2>8. QED
    BY <1>2, <2>7
<1>4. CASE ~BeforeTable(p)
  <2>3. PICK s \in Nat \ {0}, e \in Nat \ {0} : At(p, s, e)
    BY <1>4 DEF Follows
  <2>4. /\ Frame(currentFrame[p]) = e /\ e <= written /\ s <= e
        /\ NextSlot(currentFrame[p]) = e % TableRecordNum
        /\ currentFrame[p] # -1
        /\ written >= e + 1 \/ (e - 2 >= s /\ Type(e - 2) = SPS)
    BY <1>1, <2>3, ReadsFrame
  <2>5. Type(e) = Other /\ SPS = 7 /\ PPS = 8 /\ IFrame = 5 /\ Other = 1
    BY <1>1, <2>4, TypeAt
  <2>6. /\ s = newest[p] + 1 \/ (newest[p] = 0 /\ s = 2)
        /\ written < e + TableRecordNum
        /\ \A x \in s..e - 3 : Type(x) # SPS
    BY <2>3 DEF At
  <2>7. ~(e - 1 >= s /\ Type(e - 1) \in {SPS, PPS})
    <3> SUFFICES ASSUME e - 1 >= s, Type(e - 1) \in {SPS, PPS} PROVE FALSE
      OBVIOUS
    <3>1. PICK k \in Nat \ {0} : k = e - 1
      OBVIOUS
    <3>2. k + 1 = e
      BY <3>1
    <3>3. Type(e) \in {PPS, IFrame}
      BY <3>1, <3>2, TypeNext
    <3>4. QED
      BY <2>5, <3>3
  <2>8. ~(e - 2 >= s /\ Type(e - 2) = SPS)
    <3> SUFFICES ASSUME e - 2 >= s, Type(e - 2) = SPS PROVE FALSE
      OBVIOUS
    <3>1. PICK k \in Nat \ {0} : k = e - 2
      OBVIOUS
    <3>2. k + 1 = e - 1 /\ e - 1 >= s
      BY <3>1
    <3>3. Type(e - 1) = PPS
      BY <3>1, <3>2, TypeNext
    <3>4. QED
      BY <2>7, <3>2, <3>3
  <2>9. PICK g \in Nat \ {0} : g = e + 1
    OBVIOUS
  <2>10. g - 1 = e /\ g - 2 = e - 1 /\ g - 3 = e - 2
    BY <2>9
  <2>11. \A x \in s..g - 3 : Type(x) # SPS
    <3> SUFFICES ASSUME NEW x \in s..g - 3 PROVE Type(x) # SPS
      OBVIOUS
    <3>1. x \in s..e - 3 \/ (x = e - 2 /\ e - 2 >= s)
      BY <2>10
    <3>2. QED
      BY <2>6, <2>8, <3>1
  <2>12. /\ s <= g /\ written' < g + TableRecordNum
         /\ written' >= g
         /\ s = newest'[p] + 1 \/ (newest'[p] = 0 /\ s = 2)
    <3>1. written' = written /\ newest'[p] = newest[p]
      BY <1>1
    <3>2. written < g + TableRecordNum
      BY <1>1, <2>6, <2>9, Sizes
    <3>3. written >= g /\ s <= g
      BY <2>4, <2>8, <2>9
    <3>4. QED
      BY <2>6, <3>1, <3>2, <3>3
  <2>13. Collected(p, s, g)'
    BY <1>1 DEF Collected
  <2>14. /\ currentFrame'[p] = (g - 1) % TableRecordNum
         /\ ~(Type(g - 1) = SPS) /\ ~(g - 2 >= s /\ Type(g - 2) = SPS)
    BY <1>1, <2>4, <2>5, <2>7, <2>10
  <2>15. At(p, s, g)'
    BY <1>1, <2>11, <2>12, <2>13, <2>14 DEF At
  <2>16. QED
    BY <1>2, <2>15
<1>5. QED
  BY <1>3, <1>4

(* PictureWhole: what is decoded is the SPS, the PPS and the I frame of one picture, *)
(* for any table that holds a group behind a partial one, wherever the counters and   *)
(* the group begin.                                                                   *)
THEOREM WholePicture == Spec => []PictureWhole
<1>1. Init => PicInv
  BY ZenonT(40) DEF Init, PicInv, Pic, Untouched, Nothing
<1>2. TypeOK /\ PicInv /\ [Next]_vars => PicInv'
  <2> SUFFICES ASSUME TypeOK, PicInv, [Next]_vars, NEW q \in Procs PROVE Pic(q)'
    BY DEF PicInv
  <2>0. Pic(q)
    BY DEF PicInv
  <2>1. CASE UNCHANGED vars
    BY <2>0, <2>1, PicKept DEF vars, search, collected
  <2>2. CASE CameraWrites
    BY <2>0, <2>2, PicCamera
  <2> SUFFICES ASSUME NEW p \in Procs, Launch(p) \/ Step(p) \/ Abort(p) \/ Timeout(p)
               PROVE  Pic(q)'
    BY <2>1, <2>2 DEF Next
  <2>3. CASE q # p
    <3>1. /\ written' = written /\ pc'[q] = pc[q] /\ i'[q] = i[q]
          /\ currentFrame'[q] = currentFrame[q] /\ frameCounter'[q] = frameCounter[q]
          /\ newest'[q] = newest[q]
      BY <2>3 DEF Launch, Step, Abort, Timeout, Look, Open, SearchRecord, SearchEnds, Compare,
                  Collect, Drop, Decode, Ends, Goto, Advance, search, collected, TypeOK
    <3>2. typeSum'[q] = typeSum[q] /\ buffer'[q] = buffer[q] /\ lapped'[q] = lapped[q]
      BY <2>3 DEF Launch, Step, Abort, Timeout, Look, Open, SearchRecord, SearchEnds, Compare,
                  Collect, Drop, Decode, Ends, Goto, Advance, search, collected, TypeOK
    <3>3. QED
      BY <2>0, <3>1, <3>2, PicKept
  <2> SUFFICES ASSUME q = p PROVE Pic(q)'
    BY <2>3
  <2>4. CASE Ends(p)
    BY <2>4, PicEnds
  <2>5. CASE Launch(p) \/ (Look(p) /\ ~Ends(p)) \/ (Open(p) /\ ~Ends(p))
    <3>1. /\ pc[p] \in {"off", "look", "open"} /\ pc'[p] \in {"look", "open", "search"}
          /\ UNCHANGED <<written, search, collected, lapped>>
      BY <2>5 DEF Launch, Look, Open, Goto, TypeOK
    <3>2. Untouched(p)' /\ Nothing(p)'
      BY <2>0, <3>1 DEF Pic, Untouched, Nothing, search, collected
    <3>3. Held(p)'
      BY <3>2 DEF Untouched, Held
    <3>4. QED
      BY <3>1, <3>2, <3>3 DEF Pic
  <2>6. CASE SearchRecord(p)
    BY <2>0, <2>6, PicSearch
  <2>7. CASE SearchEnds(p)
    BY <2>0, <2>7, PicSearchEnds
  <2>8. CASE Compare(p)
    BY <2>0, <2>8, PicCompare
  <2>9. CASE Collect(p)
    BY <2>0, <2>9, PicCollect
  <2>10. CASE Drop(p)
    BY <2>0, <2>10, PicDrop
  <2>11. QED
    BY <2>4, <2>5, <2>6, <2>7, <2>8, <2>9, <2>10 DEF Step, Decode, Abort, Timeout
<1>3. PicInv => PictureWhole
  BY DEF PicInv, Pic, Whole, PictureWhole
<1>4. QED
  BY <1>1, <1>2, <1>3, TypeCorrect, PTL DEF Spec
================================================================================
