------------------------------- MODULE ImgGrabber -------------------------------
(***************************************************************************)
(* imggrabber (src/snapshot/snapshot/imggrabber.c): it takes a snapshot    *)
(* from the circular table of frames in the memory the camera shares.  It  *)
(* looks for the latest frame, waits for newer ones, and collects an SPS,  *)
(* a PPS and an I frame in a buffer, which is then decoded.                *)
(*                                                                         *)
(* Several processes may be launched, by snapshot.sh and by the MQTT       *)
(* program.  The camera is external; a frame is the number of its write,   *)
(* 0 is an empty record, and -1 stands for what lies before the table.     *)
(* Left out: options, the native API, decoding and encoding.               *)
(***************************************************************************)
EXTENDS Integers, Sequences

CONSTANTS
  Procs,          \* the processes that launches of imggrabber can be
  ByPath,         \* those launched with a path in argv[0]
  TableRecordNum, \* records of the table: 150 to 300 in the code
  Width,          \* frame counters are modulo Width: 2^16
  Base,           \* the counter of frame k is (Base + k) modulo Width
  Gop,            \* records from one SPS to the next
  MaxFrames,      \* bound: frames the camera writes
  MaxLaunches     \* bound: launches of the program

ASSUME ImgAssumption ==
  /\ ByPath \subseteq Procs
  /\ TableRecordNum \in Nat /\ TableRecordNum > 1
  /\ Width \in Nat /\ Width > TableRecordNum
  /\ Base \in Nat
  /\ Gop \in Nat /\ Gop > 3   \* some frame that is none of the three comes in between
  \* the table holds a whole group behind a partial one: the process, which compares
  \* with the counter of its search only, cannot tell a frame of its second turn from
  \* one of the first
  /\ Gop + 3 <= TableRecordNum
  /\ MaxFrames \in Nat
  /\ MaxLaunches \in Nat

Slots == 0..TableRecordNum - 1
NextSlot(s) == IF s = TableRecordNum - 1 THEN 0 ELSE s + 1

VARIABLES
  written,      \* how many frames the camera has written
  launches,     \* how many times the program was launched
  pc,           \* where each process is
  i,            \* the record the search looks at
  currentFrame, \* the record the process is at, -1 for the one before the table
  frameCounter, \* the largest counter of the search
  typeSum,      \* frame_type_sum
  pointer,      \* bufferh264: "null", or a block that is "held" or "freed"
  buffer,       \* the frames in that block
  newest,       \* history: the frame frameCounter was read from
  lapped        \* history: the camera has overwritten frames the process was to look at

search == <<i, currentFrame, frameCounter, newest>>
collected == <<typeSum, pointer, buffer>>
vars == <<written, launches, pc, search, collected, lapped>>

\* The camera goes around the table: the frame in a record, and its two fields.
Frame(s) ==
  IF s = -1 THEN -1
  ELSE IF written <= s THEN 0
  ELSE written - ((written - 1 - s) % TableRecordNum)
Counter(k) == IF k = 0 THEN 0 ELSE (Base + k) % Width

SPS == 7
PPS == 8
IFrame == 5
Other == 1
\* In front of the table there is no record; what the bytes say there is taken not
\* to be one of the three.
Type(k) ==
  CASE k > 0 /\ k % Gop = 1 -> SPS
    [] k > 0 /\ k % Gop = 2 -> PPS
    [] k > 0 /\ k % Gop = 3 -> IFrame
    [] OTHER -> Other

PC == {"off", "look", "open", "search", "loop", "read", "picture"}

TypeOK ==
  /\ written \in Nat
  /\ launches \in Nat
  /\ pc \in [Procs -> PC]
  /\ i \in [Procs -> 0..TableRecordNum]
  /\ currentFrame \in [Procs -> Slots \cup {-1}]
  /\ frameCounter \in [Procs -> 0..Width - 1 \cup {-1}]
  /\ typeSum \in [Procs -> Nat]
  /\ pointer \in [Procs -> {"null", "held", "freed"}]
  /\ buffer \in [Procs -> Seq(Nat)]
  /\ newest \in [Procs -> Nat]
  /\ lapped \in [Procs -> BOOLEAN]

Init ==
  /\ written = 0
  /\ launches = 0
  /\ pc = [p \in Procs |-> "off"]
  /\ i = [p \in Procs |-> 0]
  /\ currentFrame = [p \in Procs |-> -1]
  /\ frameCounter = [p \in Procs |-> -1]
  /\ typeSum = [p \in Procs |-> 0]
  /\ pointer = [p \in Procs |-> "null"]
  /\ buffer = [p \in Procs |-> <<>>]
  /\ newest = [p \in Procs |-> 0]
  /\ lapped = [p \in Procs |-> FALSE]

Goto(p, from, to) == pc[p] = from /\ pc' = [pc EXCEPT ![p] = to]

\* The record the camera writes next.
CameraSlot == written % TableRecordNum

Waits(p) == pc[p] \in {"loop", "read"}

CameraWrites ==
  /\ written < MaxFrames
  /\ written' = written + 1
  /\ lapped' = [p \in Procs |->
       \/ lapped[p]
       \/ Waits(p) /\ currentFrame[p] = CameraSlot /\ Frame(CameraSlot) > newest[p]
       \* before the table it is the first record whose frame is still to be seen
       \/ Waits(p) /\ currentFrame[p] = -1 /\ CameraSlot = 0 /\ Frame(0) > newest[p]]
  /\ UNCHANGED <<launches, pc, search, collected>>

--------------------------------------------------------------------------------
(* Start of a process. *)

Launch(p) ==
  /\ launches < MaxLaunches
  /\ launches' = launches + 1
  /\ Goto(p, "off", "look")
  /\ UNCHANGED <<written, search, collected, lapped>>

\* The process ends, with all it had.
Ends(p) ==
  /\ pc' = [pc EXCEPT ![p] = "off"]
  /\ i' = [i EXCEPT ![p] = 0]
  /\ currentFrame' = [currentFrame EXCEPT ![p] = -1]
  /\ frameCounter' = [frameCounter EXCEPT ![p] = -1]
  /\ typeSum' = [typeSum EXCEPT ![p] = 0]
  /\ pointer' = [pointer EXCEPT ![p] = "null"]
  /\ buffer' = [buffer EXCEPT ![p] = <<>>]
  /\ newest' = [newest EXCEPT ![p] = 0]
  /\ lapped' = [lapped EXCEPT ![p] = FALSE]
  /\ UNCHANGED <<written, launches>>

\* Variant of Finds: it finds only processes that have opened the memory.
FindsLate(p, q) == q # p /\ pc[q] \notin {"off", "look", "open"} /\ q \notin ByPath

\* proc_find compares argv[0] of every other process with the name after the last
\* slash of its own: it misses a process that was launched with a path.
Finds(p, q) == q # p /\ pc[q] # "off" /\ q \notin ByPath

\* "Process is already running": the process gives up.
Look(p) ==
  /\ pc[p] = "look"
  /\ \/ /\ \E q \in Procs : Finds(p, q)
        /\ Ends(p)
     \/ /\ \A q \in Procs : ~Finds(p, q)
        /\ Goto(p, "look", "open")
        /\ UNCHANGED <<written, launches, search, collected, lapped>>

\* The memory of the camera is opened and mapped, or the process gives up.
Open(p) ==
  \/ /\ Goto(p, "open", "search")
     /\ UNCHANGED <<written, launches, search, collected, lapped>>
  \/ /\ pc[p] = "open"
     /\ Ends(p)

--------------------------------------------------------------------------------
(* The search for the largest counter, one record at a time. *)

\* The first counter that is not larger ends it: the process starts at that record.
SearchRecord(p) ==
  /\ pc[p] = "search"
  /\ i[p] < TableRecordNum
  /\ LET k == Frame(i[p]) IN
       \/ /\ Counter(k) > frameCounter[p]
          /\ frameCounter' = [frameCounter EXCEPT ![p] = Counter(k)]
          /\ newest' = [newest EXCEPT ![p] = k]
          /\ i' = [i EXCEPT ![p] = @ + 1]
          /\ UNCHANGED <<pc, currentFrame, lapped>>
       \/ /\ Counter(k) <= frameCounter[p]
          /\ currentFrame' = [currentFrame EXCEPT ![p] = i[p]]
          /\ lapped' = [lapped EXCEPT ![p] = k > newest[p] + 1]
          /\ Goto(p, "search", "loop")
          /\ UNCHANGED <<i, frameCounter, newest>>
  /\ UNCHANGED <<written, launches, collected>>

\* Each counter was larger: current_frame stays -1, the record before the table.
SearchEnds(p) ==
  /\ Goto(p, "search", "loop")
  /\ i[p] = TableRecordNum
  /\ lapped' = [lapped EXCEPT ![p] = Frame(0) > newest[p] + 1]
  /\ UNCHANGED <<written, launches, search, collected>>

--------------------------------------------------------------------------------
(* The loop. *)

NextFrame(p) == IF currentFrame[p] = -1 THEN Frame(0) ELSE Frame(NextSlot(currentFrame[p]))

\* Variant of Compare: it waits for the frame right after the one found.
CompareNext(p) ==
  /\ Counter(NextFrame(p)) = frameCounter[p] + 1
  /\ Goto(p, "loop", "read")
  /\ UNCHANGED <<written, launches, search, collected, lapped>>

\* The counter of the next record is larger than the one the search found, which
\* stays the same: the record before it has been written since.
Compare(p) ==
  /\ Counter(NextFrame(p)) > frameCounter[p]
  /\ Goto(p, "loop", "read")
  /\ UNCHANGED <<written, launches, search, collected, lapped>>

Advance(p) ==
  /\ Goto(p, "read", "loop")
  /\ currentFrame' = [currentFrame EXCEPT ![p] = IF @ = -1 THEN 0 ELSE NextSlot(@)]

\* SPS, PPS or I-FRAME: it is appended to the buffer, after a realloc.  With 7, 8
\* and 5 the sum is 20, and the loop is left.
Collect(p) ==
  /\ Type(Frame(currentFrame[p])) # Other
  /\ typeSum' = [typeSum EXCEPT ![p] = @ + Type(Frame(currentFrame[p]))]
  /\ pointer' = [pointer EXCEPT ![p] = "held"]
  /\ buffer' = [buffer EXCEPT ![p] = Append(@, Frame(currentFrame[p]))]
  /\ IF typeSum'[p] = 20
       THEN Goto(p, "read", "picture") /\ UNCHANGED currentFrame
       ELSE Advance(p)
  /\ UNCHANGED <<written, launches, i, frameCounter, newest, lapped>>

\* Variant of Drop: the sum is kept.
DropKeepsSum(p) ==
  /\ Type(Frame(currentFrame[p])) = Other
  /\ pointer' = [pointer EXCEPT ![p] = IF @ = "null" THEN "null" ELSE "freed"]
  /\ buffer' = [buffer EXCEPT ![p] = <<>>]
  /\ Advance(p)
  /\ UNCHANGED <<written, launches, i, frameCounter, newest, lapped, typeSum>>

\* Another frame: what was collected is dropped.  The pointer keeps the freed block.
Drop(p) ==
  /\ Type(Frame(currentFrame[p])) = Other
  /\ typeSum' = [typeSum EXCEPT ![p] = 0]
  /\ pointer' = [pointer EXCEPT ![p] = IF @ = "null" THEN "null" ELSE "freed"]
  /\ buffer' = [buffer EXCEPT ![p] = <<>>]
  /\ Advance(p)
  /\ UNCHANGED <<written, launches, i, frameCounter, newest, lapped>>

\* To free or to realloc a block that was freed before is undefined: the C library
\* may end the process there, or go on.
Abort(p) ==
  /\ pc[p] = "read"
  /\ pointer[p] = "freed"
  /\ Ends(p)

\* More than TIMEOUT_INTERVAL seconds in the loop.
Timeout(p) ==
  /\ pc[p] = "loop"
  /\ Ends(p)

\* The picture is decoded and written, and the process is done.
Decode(p) ==
  /\ pc[p] = "picture"
  /\ Ends(p)

Step(p) ==
  \/ Look(p) \/ Open(p) \/ SearchRecord(p) \/ SearchEnds(p)
  \/ Compare(p) \/ Collect(p) \/ Drop(p) \/ Decode(p)

Next ==
  \/ CameraWrites
  \/ \E p \in Procs : Launch(p) \/ Step(p) \/ Abort(p) \/ Timeout(p)

Spec == Init /\ [][Next]_vars

\* The process polls; the camera may stop, and a timeout need not come.
FairSpec == Spec /\ \A p \in Procs : WF_vars(Step(p))

--------------------------------------------------------------------------------
(* Properties *)

\* "We saved SPS, PPS and I-FRAME": the buffer that is decoded holds the three frames
\* of one picture, in their order and all newer than the launch, wherever in a group
\* the process started and whatever it dropped before; unless it was lapped.
PictureWhole ==
  \A p \in Procs : pc[p] = "picture" /\ ~lapped[p] =>
    \E k \in newest[p] + 1..written :
      /\ buffer[p] = <<k, k + 1, k + 2>>
      /\ Type(k) = SPS /\ Type(k + 1) = PPS /\ Type(k + 2) = IFrame

\* Check if the process is already running (main): two processes that look at the
\* table at once are there only because one of them was launched with a path.
Grabs(p) == pc[p] \in PC \ {"off", "look"}
AtMostOneGrabs ==
  \A p, q \in Procs : p # q /\ Grabs(p) /\ Grabs(q) => p \in ByPath \/ q \in ByPath

\* Once the camera has written a whole group behind a partial one, a process in the
\* loop gets its picture without a timeout, wherever it started and also if the camera
\* stops then, unless the counters wrapped by then or it is lapped.
Suffices(p) == LET k == newest[p] + Gop + 3 IN written >= k /\ Base + k < Width
PictureTaken ==
  \A p \in Procs :
    pc[p] = "loop" /\ Suffices(p) ~> pc[p] \in {"picture", "off"} \/ lapped[p]

\* "Error, buffer is empty" (main): bufferh264 is NULL when it holds nothing.
NullWhenEmpty == \A p \in Procs : buffer[p] = <<>> => pointer[p] = "null"
================================================================================
