------------------------------- MODULE RtspServer -------------------------------
(***************************************************************************)
(* rRTSPServer (src/rRTSPServer): one event loop that reads the fifos of   *)
(* the video and the audio grabber and serves the clients.  A source takes *)
(* bytes from its fifo when the sink behind it awaits them; the audio      *)
(* source has to find the frames in the bytes, is opened once, before the  *)
(* loop, and is shared; the video source is opened for each client that    *)
(* finds none.  live555 and the clients are external.                      *)
(***************************************************************************)
EXTENDS Integers, Sequences, FiniteSets

CONSTANTS
  WithAudio,   \* whether the options ask for audio
  LooksLikeSync, \* the parts of an audio frame that pass for a syncword
  Capacity,    \* how many units a fifo holds
  Gop,         \* every Gop-th unit of the video holds its parameter sets
  MaxAudio, MaxVideo, \* bound: units written to each fifo
  MaxStarts,   \* bound: how often the grabbers are started
  MaxClients   \* bound: requests of clients

\* An audio frame is four units: syncword, the rest of its header, two of data.
Parts == 1..4
HeaderUnits == 2
DataUnits == 2

ASSUME RtspAssumption ==
  /\ WithAudio \in BOOLEAN
  /\ 1 \in LooksLikeSync /\ LooksLikeSync \subseteq Parts
  /\ Capacity \in Nat \ {0} /\ Gop \in Nat \ {0}
  /\ MaxAudio \in Nat /\ MaxVideo \in Nat /\ MaxStarts \in Nat /\ MaxClients \in Nat

Fifos == {"audio", "video"}
MaxUnits(f) == IF f = "audio" THEN MaxAudio ELSE MaxVideo

VARIABLES
  pc,        \* where the server is: "loop" is its event loop, "held" a fopen without end
  grab,      \* which grabbers run
  exists,    \* which fifos have been made
  written,   \* how many units each grabber has written
  starts, asks, \* how often, and requests of clients: for the bounds
  source,    \* the source of each fifo; "stale" is one whose fifo was replaced
  pipe,      \* the units in the fifo of each source
  awaiting,  \* isCurrentlyAwaitingData
  started,   \* fHaveStartedReading
  handler,   \* whether the event loop watches the fifo for the source
  head,      \* the unit that passed for a syncword
  skip,      \* units of the first frame still to skip
  got,       \* the audio units delivered last, until cut
  sdp,       \* the description of the video: "empty" is one without parameter sets
  aux,       \* whether the framer has seen the sets, for the description
  active,    \* which sources a client plays
  cut        \* history: a read that ended within a frame

grabVars == <<grab, exists, written, starts>>
sourceVars == <<source, pipe, awaiting, started, handler>>
audioVars == <<head, skip, got, cut>>
sdpVars == <<sdp, aux>>
rtspVars == <<pc, grabVars, asks, sourceVars, audioVars, sdpVars, active>>

Unit == [part : Parts, frame : Nat]
None == [part |-> 2, frame |-> 0] \* no unit

RtspTypeOK ==
  /\ pc \in {"options", "main", "openAudio", "search", "header", "skip", "loop", "resync",
             "openDescribe", "openPlay", "held", "dead"}
  /\ grab \in SUBSET Fifos /\ exists \in SUBSET Fifos /\ active \in SUBSET Fifos
  /\ written \in [Fifos -> Nat]
  /\ starts \in 0..MaxStarts /\ asks \in 0..MaxClients
  /\ source \in [Fifos -> {"none", "opening", "open", "stale", "null"}]
  /\ pipe \in [Fifos -> Seq(Unit)] /\ \A f \in Fifos : Len(pipe[f]) <= Capacity
  /\ awaiting \in SUBSET Fifos /\ started \in SUBSET Fifos /\ handler \in SUBSET Fifos
  /\ head \in Unit /\ skip \in 0..DataUnits /\ got \in Seq(Unit)
  /\ sdp \in {"unknown", "asking", "known", "empty"}
  /\ aux \in BOOLEAN /\ cut \in BOOLEAN

RtspInit ==
  /\ pc = "options" /\ grab = {} /\ exists = {} /\ active = {}
  /\ written = [f \in Fifos |-> 0] /\ starts = 0 /\ asks = 0
  /\ source = [f \in Fifos |-> "none"] /\ pipe = [f \in Fifos |-> <<>>]
  /\ awaiting = {} /\ started = {} /\ handler = {}
  /\ head = None /\ skip = 0 /\ got = <<>>
  /\ sdp = "unknown" /\ aux = FALSE /\ cut = FALSE

--------------------------------------------------------------------------------
(* The grabbers (h264grabber -f). *)

\* The fifo is removed and made again: who has the old one open, or waits for its
\* writer, keeps it.  The thread that lets fopen through takes the first bytes, at
\* most 1024: nobody has opened the new fifo yet.
StartGrabber(f) ==
  /\ f \notin grab /\ starts < MaxStarts
  /\ starts' = starts + 1
  /\ grab' = grab \cup {f} /\ exists' = exists \cup {f}
  /\ source' = [source EXCEPT ![f] = IF @ \in {"opening", "open"} THEN "stale" ELSE @]
  /\ UNCHANGED <<pc, written, asks, pipe, awaiting, started, handler, audioVars,
                 sdpVars, active>>

\* The next unit; a grabber that was killed begins with a frame again.
NextPart(f) == IF f = "audio" THEN (written[f] % 4) + 1
               ELSE IF written[f] % Gop = 0 THEN 1 ELSE 2

\* fwrite and fflush.  Without a reader the write fails (SIGPIPE is caught) and the
\* bytes are gone; on a full fifo it blocks.
Write(f) ==
  /\ f \in grab /\ written[f] < MaxUnits(f)
  /\ IF source[f] = "open"
       THEN /\ Len(pipe[f]) < Capacity
            /\ LET unit == [part |-> NextPart(f), frame |-> written[f] \div 4]
               IN pipe' = [pipe EXCEPT ![f] = Append(@, unit)]
       ELSE UNCHANGED pipe
  /\ written' = [written EXCEPT ![f] = @ + 1]
  /\ UNCHANGED <<pc, grab, exists, starts, asks, source, awaiting, started, handler,
                 audioVars, sdpVars, active>>

\* A grabber dies, in the middle of a frame or not.
GrabberDies(f) ==
  /\ f \in grab
  /\ grab' = grab \ {f}
  /\ written' = [written EXCEPT ![f] = IF f = "audio" THEN ((@ + 3) \div 4) * 4 ELSE @]
  /\ UNCHANGED <<pc, exists, starts, asks, sourceVars, audioVars, sdpVars, active>>

\* Source f reads, or waits for, a fifo whose other end is open.
Fed(f) == source[f] \in {"opening", "open"} /\ f \in grab

Min2(m, n) == IF m < n THEN m ELSE n
Front(f, n) == SubSeq(pipe[f], 1, Min2(n, Len(pipe[f])))
Behind(f, n) == [pipe EXCEPT ![f] = SubSeq(@, n + 1, Len(@))]

--------------------------------------------------------------------------------
(* main, and ADTSAudioFifoSource::createNew: before the event loop. *)

\* A wrong option or -h ends the server.
Options ==
  /\ pc = "options"
  /\ pc' \in {"main", "dead"}
  /\ UNCHANGED <<grabVars, asks, sourceVars, audioVars, sdpVars, active>>

\* So does a port that is taken, or nothing to stream; without a fifo there is no audio.
Main ==
  /\ pc = "main"
  /\ \/ pc' = "dead" /\ UNCHANGED source
     \/ /\ WithAudio /\ "audio" \in exists
        /\ pc' = "openAudio" /\ source' = [source EXCEPT !["audio"] = "opening"]
     \/ ~(WithAudio /\ "audio" \in exists) /\ pc' = "loop" /\ UNCHANGED source
  /\ UNCHANGED <<grabVars, asks, pipe, awaiting, started, handler, audioVars,
                 sdpVars, active>>

\* fopen waits for a writer of the fifo it has found - a grabber that starts now makes
\* another one, and the wait is for ever.  Then the fifo is emptied.
Open(f) ==
  /\ source[f] = "opening" /\ f \in grab
  /\ source' = [source EXCEPT ![f] = "open"]
  /\ pipe' = [pipe EXCEPT ![f] = <<>>]

OpenAudio ==
  /\ pc = "openAudio"
  /\ Open("audio")
  /\ pc' = "search"
  /\ UNCHANGED <<grabVars, asks, awaiting, started, handler, audioVars, sdpVars, active>>

\* fopen finds no fifo (the grabber has just removed it to make another) or has no
\* descriptor left: there is no source, and the replicator is made without one.
OpenAudioFails ==
  /\ pc = "openAudio" /\ source["audio"] = "opening"
  /\ source' = [source EXCEPT !["audio"] = "null"]
  /\ pc' = "loop"
  /\ UNCHANGED <<grabVars, asks, pipe, awaiting, started, handler, audioVars, sdpVars, active>>

\* One byte after the other until one passes for a syncword.
Search ==
  /\ pc = "search" /\ pipe["audio"] # <<>>
  /\ head' = Head(pipe["audio"])
  /\ pipe' = Behind("audio", 1)
  /\ pc' = IF head'.part \in LooksLikeSync THEN "header" ELSE "search"
  /\ UNCHANGED <<grabVars, asks, source, awaiting, started, handler, skip, got, cut,
                 sdpVars, active>>

\* The rest of the header.  In the middle of a frame it is garbage: a profile or a
\* frequency that does not exist, for which there will be no source, or any length.
ReadHeader ==
  /\ pc = "header" /\ (pipe["audio"] # <<>> \/ ~Fed("audio"))
  /\ LET real == head.part = 1 /\ pipe["audio"] # <<>>
     IN \/ /\ pc' = "skip" /\ UNCHANGED source
           /\ skip' \in IF real THEN {DataUnits} ELSE 0..DataUnits
        \/ /\ ~real /\ pc' = "loop" /\ UNCHANGED skip
           /\ source' = [source EXCEPT !["audio"] = "null"]
  /\ pipe' = Behind("audio", 1)
  /\ head' = None
  /\ cut' = (cut \/ head.part # 1)
  /\ UNCHANGED <<grabVars, asks, awaiting, started, handler, got, sdpVars, active>>

\* The data of the first frame, through the buffer of the file: each fread of one byte
\* may take all there is, and what is left in the buffer no read sees any more.
SkipFrame ==
  /\ pc = "skip"
  /\ LET n == Len(pipe["audio"])
     IN \/ /\ skip > 0 /\ n > 0
           /\ pipe' = Behind("audio", n)
           /\ skip' = IF n < skip THEN skip - n ELSE 0
           /\ cut' = (cut \/ (n >= skip /\ pipe["audio"][n].part # 4))
           /\ UNCHANGED pc
        \/ skip = 0 /\ pc' = "loop" /\ UNCHANGED <<pipe, skip, cut>>
  /\ UNCHANGED <<grabVars, asks, source, awaiting, started, handler, head, got, sdpVars,
                 active>>

--------------------------------------------------------------------------------
(* The two sources: doGetNextFrame, doStopGettingFrames, fileReadableHandler. *)

Clients(f) == f \in active \/ (f = "video" /\ sdp = "asking")

\* The sink of f asks for a frame (FramedSource::getNextFrame and doGetNextFrame).
GetNextFrame(f) ==
  /\ pc = "loop" /\ Clients(f) /\ source[f] \in {"open", "stale"} /\ f \notin awaiting
  /\ awaiting' = awaiting \cup {f}
  /\ handler' = IF f \in started THEN handler ELSE handler \cup {f}
  /\ started' = started \cup {f}
  /\ UNCHANGED <<pc, grabVars, asks, source, pipe, audioVars, sdpVars, active>>

\* Variant of StopReading: fHaveStartedReading is not reset.
StopReadingOnly(f) == handler' = handler \ {f} /\ UNCHANGED started
StopReading(f) == handler' = handler \ {f} /\ started' = started \ {f}

Readable(f) == pc = "loop" /\ f \in handler /\ (pipe[f] # <<>> \/ ~Fed(f))

\* Data, and nobody has asked for it.
NotReady(f) ==
  /\ Readable(f) /\ f \notin awaiting
  /\ StopReading(f)
  /\ UNCHANGED <<pc, grabVars, asks, source, pipe, awaiting, audioVars, sdpVars, active>>

\* The source is closed (its destructor); without a reader the fifo is empty.
Close(f) ==
  /\ source' = [source EXCEPT ![f] = "none"]
  /\ pipe' = [pipe EXCEPT ![f] = <<>>]
  /\ awaiting' = awaiting \ {f} /\ started' = started \ {f} /\ handler' = handler \ {f}

--------------------------------------------------------------------------------
(* ByteStreamFifoSource::doReadFromFile. *)

ReadVideo ==
  /\ Readable("video") /\ "video" \in awaiting
  /\ \E n \in 1..Len(pipe["video"]) :
       /\ pipe' = Behind("video", n)
       /\ aux' = (sdp = "asking" /\ (aux \/ \E k \in 1..n : pipe["video"][k].part = 1))
  /\ awaiting' = awaiting \ {"video"}
  /\ UNCHANGED <<pc, grabVars, asks, source, started, handler, audioVars, sdp, active>>

\* Variant of Closed: afterPlayingDummy does not tell that the description is over.
ClosedQuietly == UNCHANGED sdp
\* handleClosure: a description in the making stays without sets (afterPlayingDummy1
\* sets fDoneFlag, fDummyRTPSink is left, and no later client tries again).
Closed == sdp' = IF sdp = "asking" THEN "empty" ELSE sdp

\* read returned 0: the grabber is gone.
VideoEnds ==
  /\ Readable("video") /\ "video" \in awaiting /\ pipe["video"] = <<>>
  /\ Close("video")
  /\ Closed
  /\ active' = active \ {"video"}
  /\ UNCHANGED <<pc, grabVars, asks, audioVars, aux>>

--------------------------------------------------------------------------------
(* ADTSAudioFifoSource::doReadFromFile. *)

\* Fewer bytes than a header: they are gone, and the sink gets an empty frame.
ShortHeader ==
  /\ Readable("audio") /\ "audio" \in awaiting /\ Len(pipe["audio"]) < HeaderUnits
  /\ cut' = (cut \/ pipe["audio"] # <<>>)
  /\ pipe' = Behind("audio", HeaderUnits)
  /\ awaiting' = awaiting \ {"audio"}
  /\ UNCHANGED <<pc, grabVars, asks, source, started, handler, head, skip, got, sdpVars,
                 active>>

\* The length in a header that is none can be any.
Lengths(unit) == IF unit.part = 1 THEN {DataUnits} ELSE 0..DataUnits

\* Variant of DataFrom: a checksum is taken off the length where there is none.
DataFromShort(n, len) == SubSeq(pipe["audio"], n + 1, Min2(n + len - 1, Len(pipe["audio"])))
\* The data behind the first n units, as far as they are there.
DataFrom(n, len) == SubSeq(pipe["audio"], n + 1, Min2(n + len, Len(pipe["audio"])))

\* A frame of data behind n units of header is delivered.  A header cannot say more than
\* 8191 bytes, and the sinks offer far more (OutPacketBuffer::maxSize, 262144).
Deliver(n, len) ==
  LET data == DataFrom(n, len)
  IN /\ cut' = (cut \/ Len(pipe["audio"]) < n + len)
     /\ got' = IF cut' THEN <<>> ELSE IF data = <<>> THEN got ELSE data
     /\ pipe' = Behind("audio", n + Len(data))
     /\ awaiting' = awaiting \ {"audio"}

HeaderThere == Readable("audio") /\ "audio" \in awaiting /\ Len(pipe["audio"]) >= HeaderUnits

ReadFrame ==
  /\ HeaderThere /\ Head(pipe["audio"]).part \in LooksLikeSync
  /\ \E len \in Lengths(Head(pipe["audio"])) : Deliver(HeaderUnits, len)
  /\ UNCHANGED <<pc, grabVars, asks, source, started, handler, head, skip, sdpVars, active>>

BadSyncword ==
  /\ HeaderThere /\ Head(pipe["audio"]).part \notin LooksLikeSync
  /\ pc' = "resync"
  /\ pipe' = Behind("audio", HeaderUnits)
  /\ UNCHANGED <<grabVars, asks, source, awaiting, started, handler, audioVars, sdpVars,
                 active>>

\* "Try to recover sync": a byte at a time, inside the handler; the length that is
\* used in the end is the one of the header that was bad.
Resync ==
  /\ pc = "resync" /\ pipe["audio"] # <<>>
  /\ IF Head(pipe["audio"]).part \in LooksLikeSync
       THEN /\ pc' = "loop"
            /\ \E len \in 0..DataUnits : Deliver(HeaderUnits, len)
       ELSE pipe' = Behind("audio", 1) /\ UNCHANGED <<pc, got, cut, awaiting>>
  /\ UNCHANGED <<grabVars, asks, source, started, handler, head, skip, sdpVars, active>>

--------------------------------------------------------------------------------
(* The clients, and what live555 makes of their requests. *)

\* A description is made once: the first DESCRIBE opens the video and plays it until
\* the parameter sets have come (getAuxSDPLine, in an event loop of its own).
Describe ==
  /\ pc = "loop" /\ sdp = "unknown" /\ "video" \in exists /\ asks < MaxClients
  /\ asks' = asks + 1
  /\ pc' = "openDescribe"
  /\ source' = [source EXCEPT !["video"] = "opening"]
  /\ UNCHANGED <<grabVars, pipe, awaiting, started, handler, audioVars, sdpVars, active>>

\* Another DESCRIBE meanwhile opens a source of its own, waits in a loop within that loop
\* and plays nothing: the fifo the first one reads is emptied.  Without a grabber fopen
\* waits, and for ever: the next grabber makes another fifo.
DescribeAgain ==
  /\ pc = "loop" /\ sdp = "asking" /\ asks < MaxClients
  /\ asks' = asks + 1
  /\ IF "video" \in grab
       THEN /\ UNCHANGED pc
            /\ pipe' = IF source["video"] # "open" THEN pipe
                        ELSE [pipe EXCEPT !["video"] = <<>>]
       ELSE pc' = "held" /\ UNCHANGED pipe
  /\ UNCHANGED <<grabVars, source, awaiting, started, handler, audioVars, sdpVars, active>>

\* A client that has the description plays the video.
Play ==
  /\ pc = "loop" /\ sdp \in {"known", "empty"} /\ source["video"] = "none"
  /\ asks < MaxClients
  /\ asks' = asks + 1
  /\ pc' = "openPlay"
  /\ source' = [source EXCEPT !["video"] = "opening"]
  /\ UNCHANGED <<grabVars, pipe, awaiting, started, handler, audioVars, sdpVars, active>>

\* createNewStreamSource: the whole server waits in fopen.
OpenVideo ==
  /\ pc \in {"openDescribe", "openPlay"}
  /\ Open("video")
  /\ pc' = "loop"
  /\ IF pc = "openDescribe" THEN sdp' = "asking" /\ UNCHANGED active
     ELSE active' = active \cup {"video"} /\ UNCHANGED sdp
  /\ UNCHANGED <<grabVars, asks, awaiting, started, handler, audioVars, aux>>

\* Without a source there is no description yet, or the client plays nothing.
OpenVideoFails ==
  /\ pc \in {"openDescribe", "openPlay"} /\ source["video"] = "opening"
  /\ source' = [source EXCEPT !["video"] = "none"]
  /\ pc' = "loop"
  /\ UNCHANGED <<grabVars, asks, pipe, awaiting, started, handler, audioVars, sdpVars, active>>

\* checkForAuxSDPLine1, every 100 ms, until the sets are there.
CheckAux ==
  /\ pc = "loop" /\ sdp = "asking" /\ aux
  /\ sdp' = "known" /\ aux' = FALSE
  /\ Close("video")
  /\ UNCHANGED <<pc, grabVars, asks, audioVars, active>>

\* The sessions offer audio, unless it was disabled.
AudioOffered == source["audio"] \notin {"none", "opening"}

\* A client asks for audio.  createNewStreamSource looks into a source that was not
\* made, which ends the server.
Listen ==
  /\ pc = "loop" /\ AudioOffered /\ "audio" \notin active
  /\ asks < MaxClients
  /\ asks' = asks + 1
  /\ IF source["audio"] = "null" THEN pc' = "dead" /\ UNCHANGED active
     ELSE active' = active \cup {"audio"} /\ UNCHANGED pc
  /\ UNCHANGED <<grabVars, sourceVars, audioVars, sdpVars>>

\* The last client of f leaves: the video source is closed, the audio source stops.
Leave(f) ==
  /\ pc = "loop" /\ f \in active
  /\ active' = active \ {f}
  /\ IF f = "video" THEN Close(f)
     ELSE awaiting' = awaiting \ {f} /\ StopReading(f) /\ UNCHANGED <<source, pipe>>
  /\ UNCHANGED <<pc, grabVars, asks, audioVars, sdpVars>>

--------------------------------------------------------------------------------

ServerStep ==
  \/ Options \/ Main \/ OpenAudioFails \/ OpenVideoFails
  \/ OpenAudio \/ Search \/ ReadHeader \/ SkipFrame \/ OpenVideo
  \/ ReadVideo \/ VideoEnds \/ ShortHeader \/ ReadFrame \/ BadSyncword \/ Resync
  \/ CheckAux
  \/ \E f \in Fifos : GetNextFrame(f) \/ NotReady(f)

Environment ==
  \/ Describe \/ DescribeAgain \/ Play \/ Listen
  \/ \E f \in Fifos : StartGrabber(f) \/ Write(f) \/ GrabberDies(f) \/ Leave(f)

RtspNext == ServerStep \/ Environment
RtspSpec == RtspInit /\ [][RtspNext]_rtspVars

\* The server goes on, its event loop serves each fifo and each timer, and the sinks
\* ask for the next frame.  Grabbers and clients need do nothing.
RtspFairSpec ==
  /\ RtspSpec
  /\ WF_rtspVars(Search \/ ReadHeader \/ SkipFrame \/ Resync \/ OpenAudio \/ OpenVideo)
  /\ WF_rtspVars(ReadVideo \/ VideoEnds)
  /\ WF_rtspVars(ShortHeader \/ ReadFrame \/ BadSyncword)
  /\ WF_rtspVars(CheckAux)
  /\ \A f \in Fifos : WF_rtspVars(GetNextFrame(f)) /\ WF_rtspVars(NotReady(f))

--------------------------------------------------------------------------------
(* Properties *)

Whole(units) ==
  /\ Len(units) = DataUnits
  /\ units[1].part = 3 /\ units[2].part = 4 /\ units[1].frame = units[2].frame

\* As long as no read has ended within a frame, what the sinks get are whole frames,
\* one after the other, and no syncword is missed: whatever the grabber and the
\* clients do in between, and however the fifo fills (doReadFromFile).
AudioInStep ==
  [][~cut' => /\ got' # got => Whole(got') /\ (got # <<>> => got'[1].frame = got[1].frame + 1)
              /\ pc' # "resync"]_rtspVars

\* Data that is there for a sink that awaits it is delivered, unless the server is
\* held up by a fopen or another fifo: the handler is never left off with
\* fHaveStartedReading set (doGetNextFrame, doStopGettingFrames, fileReadableHandler).
\* Only a second DESCRIBE may take it away, by emptying the fifo.
DataDelivered ==
  \A f \in Fifos :
    (f \in awaiting /\ pipe[f] # <<>>) ~> (f \notin awaiting \/ pc # "loop" \/ pipe[f] = <<>>)

\* A description that was begun is finished: with the parameter sets once they come,
\* or without them when the grabber goes.  Only a grabber that runs and has not written
\* the sets holds it up, or a fopen that waits (getAuxSDPLine and its nested event loop).
Described ==
  (sdp = "asking") ~>
    (sdp # "asking" \/ pc # "loop" \/ (~aux /\ pipe["video"] = <<>> /\ Fed("video")))
================================================================================
