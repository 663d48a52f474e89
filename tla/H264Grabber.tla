------------------------------- MODULE H264Grabber -------------------------------
(***************************************************************************)
(* h264grabber (src/h264grabber/h264grabber/h264grabber.c): it follows the *)
(* circular table of frames in the memory the camera shares (/tmp/view),   *)
(* and writes each frame to a fifo.  Nothing locks the table: the grabber  *)
(* finds the latest frame once, and then goes from record to record as     *)
(* long as the counter of the next record fits.                            *)
(*                                                                         *)
(* The loops for video (frame counters of 16 bits) and for audio           *)
(* (timestamps of 32 bits) differ in the constants below only.  The camera *)
(* is external; a frame is the number of its write, 0 is an empty record.  *)
(***************************************************************************)
EXTENDS Integers, Sequences, Functions

CONSTANTS
  TableRecordNum, \* records of the table: 150 to 300 in the code
  Width,          \* counters are modulo Width: 2^16 for video, 2^32 for audio
  Base, Stride,   \* the counter of frame k is (Base + Stride * k) modulo Width
  MinStep,        \* least step between valid counters: 1 video, 0 audio
  MaxStep,        \* greatest: 10 video, 256 audio
  MaxInvalid,     \* invalid counters until sync is lost: 10
  Lowest,         \* where the search starts: -1 video, 0 audio
  MaxFrames       \* bound: frames the camera writes

ASSUME GrabberAssumption ==
  /\ TableRecordNum \in Nat /\ TableRecordNum > 1
  /\ Width \in Nat \ {0}
  /\ Base \in Nat
  /\ Stride \in Nat \ {0}
  /\ MinStep \in {0, 1}
  /\ MaxStep \in Nat
  /\ MaxInvalid \in Nat \ {0}
  /\ Lowest \in {-1, 0}
  /\ MaxFrames \in Nat
  \* a counter fits the next one, and the table spans less than a turn of the counter
  /\ Stride <= MaxStep
  /\ Stride * (TableRecordNum - 1) + MaxStep < Width

Slots == 0..TableRecordNum - 1
NextSlot(s) == IF s = TableRecordNum - 1 THEN 0 ELSE s + 1
Counter(k) == (Base + Stride * k) % Width

VARIABLES
  table,        \* the frame in each record
  written,      \* how many frames the camera has written
  slot,         \* the record the camera writes next
  pc,           \* where the grabber is
  i,            \* the record the search looks at
  currentFrame, \* the record the grabber is at, -1 if it found none
  frameCounter, \* the counter of that record, as it was read
  nextCounter,  \* the counter of the next record, as it was read
  invalid,      \* frame_counter_invalid, which counts no further than MaxInvalid
  out,          \* history: the frames handed to fwrite since the search
  earlier,      \* history: the frames handed to it before the search
  atSearch,     \* history: how many frames there were when the search began
  lapped,       \* history: the camera has overwritten the grabber's record
  everLapped    \* history: ... in this or an earlier session

cameraVars == <<table, written, slot>>
searchVars == <<i, currentFrame, frameCounter>>
history == <<out, earlier, atSearch>>
vars == <<cameraVars, pc, searchVars, nextCounter, invalid, history, lapped, everLapped>>

TypeOK ==
  /\ table \in [Slots -> Nat]
  /\ written \in Nat
  /\ slot \in Slots
  /\ pc \in {"search", "found", "compare", "write"}
  /\ i \in 0..TableRecordNum
  /\ currentFrame \in Slots \cup {-1}
  /\ pc \in {"compare", "write"} => currentFrame \in Slots
  /\ frameCounter \in 0..Width - 1 \cup {-1}
  /\ nextCounter \in 0..Width - 1
  /\ invalid \in 0..MaxInvalid
  /\ out \in Seq(Nat)
  /\ earlier \subseteq Nat
  /\ atSearch \in Nat
  /\ lapped \in BOOLEAN /\ everLapped \in BOOLEAN

Init ==
  /\ table = [s \in Slots |-> 0]
  /\ written = 0
  /\ slot = 0
  /\ pc = "search"
  /\ i = 0
  /\ currentFrame = -1
  /\ frameCounter = Lowest
  /\ nextCounter = 0
  /\ invalid = 0
  /\ out = <<>>
  /\ earlier = {}
  /\ atSearch = 0
  /\ lapped = FALSE
  /\ everLapped = FALSE

--------------------------------------------------------------------------------
(* The camera writes the next frame over the oldest. *)

CameraWrites ==
  /\ written < MaxFrames
  /\ written' = written + 1
  /\ table' = [table EXCEPT ![slot] = written + 1]
  /\ slot' = NextSlot(slot)
  /\ lapped' = (lapped \/ slot = currentFrame)
  /\ everLapped' = (everLapped \/ lapped')
  /\ UNCHANGED <<pc, searchVars, nextCounter, invalid, history>>

--------------------------------------------------------------------------------
(* The search for the latest frame, one record at a time. *)

\* The start of the search, again after sync is lost: frame_counter_invalid keeps
\* its value.
RestartSearch ==
  /\ pc' = "search"
  /\ i' = 0
  /\ currentFrame' = -1
  /\ frameCounter' = Lowest
  /\ out' = <<>>
  /\ earlier' = earlier \cup Range(out)
  /\ atSearch' = written
  /\ lapped' = FALSE

\* Variant of SearchRecord: the counters are not compared.
SearchRecordLast ==
  /\ pc = "search"
  /\ i < TableRecordNum
  /\ i' = i + 1
  /\ \/ /\ table[i] = 0
        /\ UNCHANGED <<currentFrame, frameCounter, lapped>>
     \/ /\ table[i] # 0
        /\ currentFrame' = i
        /\ frameCounter' = Counter(table[i])
        /\ lapped' = FALSE
  /\ UNCHANGED <<cameraVars, pc, nextCounter, invalid, history, everLapped>>

\* Empty records are skipped; the first counter that is not larger ends the search.
SearchRecord ==
  /\ pc = "search"
  /\ i < TableRecordNum
  /\ \/ /\ table[i] = 0
        /\ i' = i + 1
        /\ UNCHANGED <<pc, currentFrame, frameCounter, lapped>>
     \/ /\ table[i] # 0 /\ Counter(table[i]) > frameCounter
        /\ currentFrame' = i
        /\ frameCounter' = Counter(table[i])
        /\ lapped' = FALSE
        /\ i' = i + 1
        /\ UNCHANGED pc
     \/ /\ table[i] # 0 /\ Counter(table[i]) <= frameCounter
        /\ pc' = "found"
        /\ UNCHANGED <<i, currentFrame, frameCounter, lapped>>
  /\ UNCHANGED <<cameraVars, nextCounter, invalid, history, everLapped>>

SearchEnds ==
  /\ pc = "search"
  /\ i = TableRecordNum
  /\ pc' = "found"
  /\ UNCHANGED <<cameraVars, searchVars, nextCounter, invalid, history, lapped, everLapped>>

\* After the search and 10 milliseconds.
Found ==
  /\ pc = "found"
  /\ IF currentFrame = -1
       THEN RestartSearch
       ELSE pc' = "compare" /\ UNCHANGED <<searchVars, history, lapped>>
  /\ UNCHANGED <<cameraVars, nextCounter, invalid, everLapped>>

--------------------------------------------------------------------------------
(* The loop from record to record. *)

\* Variants of ValidStep: a counter that wraps is not valid; any larger counter is.
ValidStepNoWrap(this, next) == next - this >= MinStep /\ next - this <= MaxStep
ValidStepAny(this, next) == next # this

\* The counter of the next record goes on from this one, perhaps around Width.
ValidStep(this, next) ==
  \/ next - this >= MinStep /\ next - this <= MaxStep
  \/ next + Width - this >= MinStep /\ next + Width - this <= MaxStep

\* While the next record is empty the grabber waits.
Compare ==
  /\ pc = "compare"
  /\ LET next == table[NextSlot(currentFrame)] IN
       /\ next # 0
       /\ \/ /\ ValidStep(frameCounter, Counter(next))
             /\ nextCounter' = Counter(next)
             /\ pc' = "write"
             /\ UNCHANGED <<searchVars, invalid, history, lapped>>
          \/ /\ ~ValidStep(frameCounter, Counter(next))
             /\ invalid' = IF invalid < MaxInvalid THEN invalid + 1 ELSE invalid
             /\ IF invalid' < MaxInvalid
                  THEN UNCHANGED <<pc, searchVars, history, lapped>>
                  ELSE RestartSearch
             /\ UNCHANGED nextCounter
  /\ UNCHANGED <<cameraVars, everLapped>>

\* fwrite of what the current record holds by now, and fflush.  The grabber does not
\* look at their results: when nobody reads the fifo the frame is lost, and the
\* grabber goes on.  A full fifo makes this step late.
WriteFrame ==
  /\ pc = "write"
  /\ out' = Append(out, table[currentFrame])
  /\ currentFrame' = NextSlot(currentFrame)
  /\ frameCounter' = nextCounter
  /\ invalid' = 0
  /\ pc' = "compare"
  /\ UNCHANGED <<cameraVars, i, nextCounter, earlier, atSearch, lapped, everLapped>>

Grabber == SearchRecord \/ SearchEnds \/ Found \/ Compare \/ WriteFrame

Next == CameraWrites \/ Grabber

Spec == Init /\ [][Next]_vars

\* The grabber polls, and who has the fifo open reads it; the camera may stop.
FairSpec == Spec /\ WF_vars(Grabber)

--------------------------------------------------------------------------------
(* Properties *)

\* From one search to the next the frames written are consecutive, unless the
\* camera has overwritten the record the grabber stands at: the step between two
\* counters tells the next frame from one of the turn before.
SessionInOrder ==
  ~lapped => \A j \in 1..Len(out) - 1 : out[j + 1] = out[j] + 1

NotWrapped == Base + Stride * written < Width

\* Across searches no frame is written twice or late, as long as the counters
\* have not wrapped and the grabber has never been lapped.
NoReplay ==
  NotWrapped /\ ~everLapped =>
    \A j \in 1..Len(out) : \A k \in earlier : out[j] > k

\* The grabber keeps up: when the camera has written the frame after the one
\* the grabber is at, that one is handed to fwrite, also when the counters
\* wrap, or it is overwritten.
FrameShown ==
  \A k \in 1..MaxFrames :
    pc = "compare" /\ table[currentFrame] = k /\ ~lapped /\ written > k ~>
      lapped \/ k \in Range(out)

\* "found latest frame" (the message after the search): the record found is at
\* least as new as the latest one when the search began.
FindsLatest == pc = "found" /\ currentFrame # -1 /\ ~lapped => table[currentFrame] >= atSearch

\* Although the search reads one record after the other while the camera writes,
\* that is so until the counters wrap.
FindsLatestUntilWrap == NotWrapped => FindsLatest
================================================================================
