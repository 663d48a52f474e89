--------------------------- MODULE IpcMultiplexProofs ---------------------------
(***************************************************************************)
(* Proofs about IpcMultiplex, IpcReaders and MotionEvents for every number *)
(* of queues, every depth, every number of processes and every bound: type *)
(* correctness, the order of the copies in each queue, that a queue which  *)
(* has never been full has missed nothing, what the readers add to that,   *)
(* and that the daemon behind its queue is the one of Ipc2File.            *)
(***************************************************************************)
EXTENDS IpcReaders, MotionEvents, SequenceTheorems, TLAPS

--------------------------------------------------------------------------------
(* Lemmas on sequences, and on what one send does to a queue. *)

LEMMA HeadTail ==
  ASSUME NEW S, NEW s \in Seq(S), s # <<>>
  PROVE  /\ Head(s) \in S
         /\ Head(s) = s[1]
         /\ Tail(s) \in Seq(S)
         /\ Len(s) \in Nat \ {0}
         /\ Len(Tail(s)) = Len(s) - 1
         /\ \A j \in 1..Len(Tail(s)) : Tail(s)[j] = s[j + 1]
  BY SMT

LEMMA AppendElements ==
  ASSUME NEW S, NEW s \in Seq(S), NEW e \in S
  PROVE  /\ Append(s, e) \in Seq(S)
         /\ Len(Append(s, e)) = Len(s) + 1
         /\ \A j \in 1..Len(s) : Append(s, e)[j] = s[j]
         /\ Append(s, e)[Len(s) + 1] = e
  BY SMT

\* Taking the head of the second sequence and appending it to the first one
\* leaves their concatenation alone.
LEMMA ConcatTake ==
  ASSUME NEW S, NEW s \in Seq(S), NEW t \in Seq(S), t # <<>>
  PROVE  Append(s, Head(t)) \o Tail(t) = s \o t
<1> DEFINE u == Append(s, Head(t)) \o Tail(t)
           v == s \o t
<1>1. /\ Head(t) \in S /\ Tail(t) \in Seq(S) /\ Append(s, Head(t)) \in Seq(S)
      /\ Len(Append(s, Head(t))) = Len(s) + 1
      /\ Len(Tail(t)) = Len(t) - 1
      /\ Len(s) \in Nat /\ Len(t) \in Nat
  BY HeadTail, AppendElements, LenProperties
<1>2. u \in Seq(S) /\ v \in Seq(S) /\ Len(u) = Len(v)
  BY <1>1, ConcatProperties, LenProperties
<1>3. ASSUME NEW j \in 1..Len(u)
      PROVE  u[j] = v[j]
  BY <1>1, <1>2, HeadTail, AppendElements, ConcatProperties, SMT
<1>4. QED
  BY <1>2, <1>3, SeqEqual

LEMMA ConcatAppend ==
  ASSUME NEW S, NEW s \in Seq(S), NEW t \in Seq(S), NEW e \in S
  PROVE  s \o Append(t, e) = Append(s \o t, e)
<1> DEFINE u == s \o Append(t, e)
           v == Append(s \o t, e)
<1>1. /\ Append(t, e) \in Seq(S)
      /\ s \o t \in Seq(S)
      /\ Len(s) \in Nat /\ Len(t) \in Nat
      /\ Len(Append(t, e)) = Len(t) + 1
      /\ Len(s \o t) = Len(s) + Len(t)
  BY AppendElements, ConcatProperties, LenProperties
<1>2. u \in Seq(S) /\ v \in Seq(S) /\ Len(u) = Len(v)
  BY <1>1, AppendElements, ConcatProperties, SMT
<1>3. ASSUME NEW j \in 1..Len(u)
      PROVE  u[j] = v[j]
  BY <1>1, <1>2, AppendElements, ConcatProperties, SMTT(40)
<1>4. QED
  BY <1>2, <1>3, SeqEqual

LEMMA FrontAppend ==
  ASSUME NEW S, NEW s \in Seq(S), NEW e \in S
  PROVE  SubSeq(Append(s, e), 1, Len(Append(s, e)) - 1) = s
  BY AppendElements, SMT

LEMMA EnqueueResult ==
  ASSUME NEW old \in Seq(Message), NEW m \in Message \cup {NoMessage}
  PROVE  /\ Enqueue(old, m) \in Seq(Message)
         /\ Len(old) <= MaxMsg => Len(Enqueue(old, m)) <= MaxMsg
         /\ Len(old) \in Nat
  BY SizesAssumption, NoMessageAssumption, AppendElements, SMT DEF Enqueue

--------------------------------------------------------------------------------
(* Type correctness *)

\* Every behaviour keeps the types, and no forwarding queue outgrows its depth.
THEOREM TypeCorrect == Spec => []TypeOK
<1> USE SizesAssumption, NoMessageAssumption
<1>1. Init => TypeOK
  <2> SUFFICES ASSUME Init PROVE TypeOK
    OBVIOUS
  <2>1. <<>> \in Seq(Message) /\ Len(<<>>) = 0
    BY EmptySeq
  <2>2. /\ queues \in [Queues -> Seq(Message)]
        /\ taken \in [Queues -> Seq(Message)]
        /\ \A q \in Queues : Len(queues[q]) <= MaxMsg
    BY <2>1 DEF Init
  <2>3. i \in Queues /\ wasFull \in [Queues -> BOOLEAN]
    BY DEF Init, Queues
  <2>4. QED
    BY <2>1, <2>2, <2>3 DEF Init, TypeOK
<1>2. TypeOK /\ [Next]_vars => TypeOK'
  <2> SUFFICES ASSUME TypeOK, [Next]_vars PROVE TypeOK'
    OBVIOUS
  <2> USE DEF TypeOK, dispatchVars
  <2>1. ASSUME NEW b \in Bodies, Send(b) PROVE TypeOK'
    <3>1. [id |-> sent + 1, body |-> b] \in Message
      BY <2>1 DEF Send, Message
    <3>2. inbox' \in Seq(Message)
      BY <2>1, <3>1, AppendElements DEF Send
    <3>3. QED
      BY <2>1, <3>2 DEF Send
  <2>2. CASE Initialize
    <3>1. i' \in Queues
      BY <2>2 DEF Initialize, Queues
    <3>2. QED
      BY <2>2, <3>1 DEF Initialize
  <2>3. CASE Call
    BY <2>3 DEF Call
  <2>4. CASE Receive
    BY <2>4, HeadTail, AppendElements DEF Receive, Queues
  <2>5. CASE ReceiveFails
    BY <2>5 DEF ReceiveFails, Queues
  <2>6. CASE Forward
    <3>1. /\ Enqueue(queues[i], msg) \in Seq(Message)
          /\ Len(Enqueue(queues[i], msg)) <= MaxMsg
      BY EnqueueResult
    <3>2. /\ queues' \in [Queues -> Seq(Message)]
          /\ \A q \in Queues : Len(queues'[q]) <= MaxMsg
      BY <2>6, <3>1 DEF Forward
    <3>3. wasFull' \in [Queues -> BOOLEAN]
      BY <2>6, <3>2 DEF Forward
    <3>4. i' \in Queues /\ pc' \in {"call", "receive", "forward", "exited"}
      BY <2>6 DEF Forward, Queues
    <3>5. QED
      BY <2>6, <3>2, <3>3, <3>4 DEF Forward
  <2>7. ASSUME NEW q \in Queues, Take(q) PROVE TypeOK'
    <3>1. Head(queues[q]) \in Message /\ Tail(queues[q]) \in Seq(Message)
          /\ Len(Tail(queues[q])) <= MaxMsg
      BY <2>7, HeadTail DEF Take
    <3>2. Append(taken[q], Head(queues[q])) \in Seq(Message)
      BY <3>1, AppendElements
    <3>3. QED
      BY <2>7, <3>1, <3>2 DEF Take
  <2>8. CASE UNCHANGED vars
    BY <2>8 DEF vars
  <2>9. QED
    BY <2>1, <2>2, <2>3, <2>4, <2>5, <2>6, <2>7, <2>8 DEF Next, Dispatch
<1>3. QED
  BY <1>1, <1>2, PTL DEF Spec

--------------------------------------------------------------------------------
(* What each action does to the log of a queue. *)

LEMMA LogType ==
  ASSUME TypeOK, NEW q \in Queues
  PROVE  Log(q) \in Seq(Message) /\ Len(Log(q)) \in Nat
  BY ConcatProperties, LenProperties DEF TypeOK, Log

\* A reader that takes a message moves it from one half of its log to the other.
LEMMA LogTake ==
  ASSUME TypeOK, NEW r \in Queues, Take(r), NEW q \in Queues
  PROVE  Log(q)' = Log(q)
<1>1. CASE q = r
  <2>1. /\ taken'[q] = Append(taken[q], Head(queues[q]))
        /\ queues'[q] = Tail(queues[q])
        /\ queues[q] # <<>>
    BY <1>1 DEF Take, TypeOK
  <2>2. taken[q] \in Seq(Message) /\ queues[q] \in Seq(Message)
    BY DEF TypeOK
  <2>3. Append(taken[q], Head(queues[q])) \o Tail(queues[q]) = taken[q] \o queues[q]
    BY <2>1, <2>2, ConcatTake
  <2>4. QED
    BY <2>1, <2>3 DEF Log
<1>2. CASE q # r
  BY <1>2 DEF Take, TypeOK, Log
<1>3. QED
  BY <1>1, <1>2

\* One turn of the loop adds the message to the log of queue i, when it is not
\* the buffer of a failed receive and the queue has room, and to no other log.
LEMMA LogForward ==
  ASSUME TypeOK, Forward, NEW q \in Queues
  PROVE  Log(q)' = IF q = i /\ msg # NoMessage /\ Len(queues[q]) < MaxMsg
                     THEN Append(Log(q), msg) ELSE Log(q)
<1>1. CASE q = i /\ msg # NoMessage /\ Len(queues[q]) < MaxMsg
  <2>1. queues'[q] = Append(queues[q], msg) /\ taken' = taken
    BY <1>1 DEF Forward, TypeOK, Enqueue
  <2>2. msg \in Message
    BY <1>1 DEF TypeOK
  <2>3. QED
    BY <1>1, <2>1, <2>2, ConcatAppend DEF TypeOK, Log
<1>2. CASE ~(q = i /\ msg # NoMessage /\ Len(queues[q]) < MaxMsg)
  <2>1. queues'[q] = queues[q] /\ taken' = taken
    BY <1>2 DEF Forward, TypeOK, Enqueue
  <2>2. QED
    BY <1>2, <2>1 DEF Log
<1>3. QED
  BY <1>1, <1>2

--------------------------------------------------------------------------------
(* A queue that has never been full has missed nothing. *)

\* Lossless strengthened: while the loop runs, the message in the buffer is the
\* last one received, and a queue that has never been full has room.
LosslessInv ==
  /\ pc = "forward" /\ msg # NoMessage =>
       received # <<>> /\ msg = received[Len(received)]
  /\ \A q \in Queues : ~wasFull[q] => Len(queues[q]) < MaxMsg
  /\ Lossless

LEMMA FrontThenLast ==
  ASSUME NEW S, NEW s \in Seq(S), s # <<>>
  PROVE  Append(SubSeq(s, 1, Len(s) - 1), s[Len(s)]) = s
<1>1. PICK t \in Seq(S), e \in S : s = Append(t, e)
  BY SequenceEmptyOrAppend
<1>2. SubSeq(s, 1, Len(s) - 1) = t
  BY <1>1, FrontAppend
<1>3. s[Len(s)] = e
  BY <1>1, AppendElements
<1>4. QED
  BY <1>1, <1>2, <1>3

\* LosslessInv is inductive.
LEMMA LosslessInvariant == Spec => []LosslessInv
<1> USE SizesAssumption, NoMessageAssumption
<1>1. Init => LosslessInv
  <2> SUFFICES ASSUME Init PROVE LosslessInv
    OBVIOUS
  <2>1. \A q \in Queues : queues[q] = <<>> /\ taken[q] = <<>>
    BY DEF Init
  <2>2. received = <<>> /\ pc = "call" /\ Len(<<>>) = 0 /\ <<>> \o <<>> = <<>>
    BY EmptySeq, ConcatEmptySeq DEF Init
  <2>3. \A q \in Queues : Log(q) = <<>> /\ Offered(q) = <<>>
    BY <2>1, <2>2 DEF Log, Offered, InLoop
  <2>4. \A q \in Queues : Len(queues[q]) < MaxMsg
    BY <2>1, <2>2
  <2>5. QED
    BY <2>2, <2>3, <2>4 DEF LosslessInv, Lossless
<1>2. TypeOK /\ LosslessInv /\ [Next]_vars => LosslessInv'
  <2> SUFFICES ASSUME TypeOK, LosslessInv, [Next]_vars PROVE LosslessInv'
    OBVIOUS
  <2> USE DEF dispatchVars
  <2>1. ASSUME NEW b \in Bodies, Send(b) PROVE LosslessInv'
    BY <2>1 DEF Send, LosslessInv, Lossless, Log, Offered, InLoop
  <2>2. CASE Initialize
    BY <2>2 DEF Initialize, LosslessInv, Lossless, Log, Offered, InLoop
  <2>3. CASE Call
    BY <2>3 DEF Call, LosslessInv, Lossless, Log, Offered, InLoop
  <2>4. CASE Receive
    <3>1. /\ Head(inbox) \in Message
          /\ received' = Append(received, Head(inbox))
          /\ msg' = Head(inbox)
          /\ msg' # NoMessage
      BY <2>4, HeadTail DEF Receive, TypeOK
    <3>2. /\ received' # <<>> /\ msg' = received'[Len(received')]
          /\ SubSeq(received', 1, Len(received') - 1) = received
      BY <3>1, AppendElements, FrontAppend, EmptySeq, SMTT(20) DEF TypeOK
    <3>3. \A q \in Queues : Offered(q)' = received
      BY <2>4, <3>1, <3>2 DEF Receive, Offered, InLoop, Queues
    <3>4. \A q \in Queues : Offered(q) = received /\ Log(q)' = Log(q)
      BY <2>4 DEF Receive, Offered, InLoop, Log
    <3>5. QED
      BY <2>4, <3>2, <3>3, <3>4 DEF Receive, LosslessInv, Lossless
  <2>5. CASE ReceiveFails
    BY <2>5 DEF ReceiveFails, LosslessInv, Lossless, Log, Offered, InLoop
  <2>6. CASE Forward
    <3>1. /\ pc = "forward" /\ i \in Queues /\ received' = received /\ msg' = msg
          /\ pc' = "forward" => i' = i + 1
          /\ pc' # "forward" => i = NumQueues
          /\ pc' \in {"call", "forward"}
      BY <2>6 DEF Forward, TypeOK
    <3>2. ASSUME NEW q \in Queues
          PROVE  ~wasFull'[q] => ~wasFull[q] /\ Len(queues'[q]) < MaxMsg
      <4>1. CASE q = i
        <5>1. /\ wasFull'[q] = (wasFull[q] \/ Len(queues'[q]) = MaxMsg)
              /\ queues'[q] = Enqueue(queues[q], msg)
          BY <2>6, <4>1 DEF Forward, TypeOK
        <5>2. Len(queues'[q]) <= MaxMsg /\ Len(queues'[q]) \in Nat
          BY <5>1, EnqueueResult, LenProperties DEF TypeOK
        <5>3. wasFull[q] \in BOOLEAN
          BY DEF TypeOK
        <5>4. ~wasFull'[q] => ~wasFull[q] /\ Len(queues'[q]) # MaxMsg
          BY <5>1, <5>3, Zenon
        <5>5. QED
          BY <5>2, <5>4
      <4>2. CASE q # i
        BY <2>6, <4>2 DEF Forward, TypeOK, LosslessInv
      <4>3. QED
        BY <4>1, <4>2
    <3>3. ASSUME NEW q \in Queues, ~wasFull'[q]
          PROVE  Log(q)' = Offered(q)'
      <4>1. Log(q) = Offered(q) /\ Len(queues[q]) < MaxMsg
        BY <3>2, <3>3 DEF LosslessInv, Lossless
      <4>2. CASE msg = NoMessage
        BY <2>6, <3>1, <4>1, <4>2, LogForward DEF Offered, InLoop
      <4>3. CASE msg # NoMessage /\ q = i
        <5>1. Offered(q) = SubSeq(received, 1, Len(received) - 1)
          BY <3>1, <4>3 DEF Offered, InLoop, Queues
        <5>2. Append(Offered(q), msg) = received
          BY <3>1, <4>3, <5>1, FrontThenLast DEF LosslessInv, TypeOK
        <5>3. Offered(q)' = received
          BY <3>1, <4>3 DEF Offered, InLoop, Queues
        <5>4. QED
          BY <2>6, <4>1, <4>3, <5>2, <5>3, LogForward
      <4>4. CASE msg # NoMessage /\ q # i
        <5>1. InLoop(q)' = InLoop(q)
          BY <3>1, <4>4 DEF InLoop, Queues
        <5>2. QED
          BY <2>6, <3>1, <4>1, <4>4, <5>1, LogForward DEF Offered
      <4>5. QED
        BY <4>2, <4>3, <4>4
    <3>4. pc' = "forward" /\ msg' # NoMessage =>
            received' # <<>> /\ msg' = received'[Len(received')]
      BY <3>1 DEF LosslessInv
    <3>5. QED
      BY <3>2, <3>3, <3>4 DEF LosslessInv, Lossless
  <2>7. ASSUME NEW r \in Queues, Take(r) PROVE LosslessInv'
    <3>1. \A q \in Queues : Log(q)' = Log(q)
      BY <2>7, LogTake
    <3>2. \A q \in Queues : Offered(q)' = Offered(q)
      BY <2>7 DEF Take, Offered, InLoop
    <3>3. \A q \in Queues : ~wasFull[q] => Len(queues'[q]) < MaxMsg
      BY <2>7, HeadTail DEF Take, TypeOK, LosslessInv
    <3>4. QED
      BY <2>7, <3>1, <3>2, <3>3 DEF Take, LosslessInv, Lossless
  <2>8. CASE UNCHANGED vars
    BY <2>8 DEF vars, LosslessInv, Lossless, Log, Offered, InLoop
  <2>9. QED
    BY <2>1, <2>2, <2>3, <2>4, <2>5, <2>6, <2>7, <2>8 DEF Next, Dispatch
<1>3. QED
  BY <1>1, <1>2, TypeCorrect, PTL DEF Spec

\* A copy is lost only to a full queue: not to the state of another queue, to a
\* failed receive or to the order in which readers and loop take their turns.
THEOREM NothingLostButToFullQueues == Spec => []Lossless
<1>1. LosslessInv => Lossless
  BY DEF LosslessInv
<1>2. QED
  BY <1>1, LosslessInvariant, PTL

--------------------------------------------------------------------------------
(* The copies stay in order. *)

\* InOrder strengthened with the numbers of the messages that are still on
\* their way: those in the camera's queue are increasing, and above the one in
\* the buffer, which is above everything in the queues it has not reached.
OrderInv ==
  /\ \A j, k \in 1..Len(inbox) : j < k => inbox[j].id < inbox[k].id
  /\ \A k \in 1..Len(inbox) : inbox[k].id <= sent
  /\ \A q \in Queues : \A j \in 1..Len(Log(q)) : Log(q)[j].id <= sent
  /\ \A q \in Queues : \A j \in 1..Len(Log(q)) : \A k \in 1..Len(inbox) :
       Log(q)[j].id < inbox[k].id
  /\ pc = "forward" /\ msg # NoMessage =>
       /\ msg.id <= sent
       /\ \A k \in 1..Len(inbox) : msg.id < inbox[k].id
  /\ \A q \in Queues : InLoop(q) =>
       \A j \in 1..Len(Log(q)) : Log(q)[j].id < msg.id
  /\ InOrder

\* For every number and depth of the queues, a reader never sees two messages
\* in the other order, nor one of them twice.
THEOREM CopiesStayInOrder == Spec => []InOrder
<1> USE SizesAssumption, NoMessageAssumption
<1>1. Init => OrderInv
  <2> SUFFICES ASSUME Init PROVE OrderInv
    OBVIOUS
  <2>1. \A q \in Queues : Log(q) = <<>>
    BY EmptySeq, ConcatEmptySeq DEF Init, Log
  <2>2. inbox = <<>> /\ pc = "call" /\ Len(<<>>) = 0
    BY EmptySeq DEF Init
  <2>3. QED
    BY <2>1, <2>2 DEF OrderInv, InOrder, InLoop
<1>2. TypeOK /\ OrderInv /\ [Next]_vars => OrderInv'
  <2> SUFFICES ASSUME TypeOK, OrderInv, [Next]_vars PROVE OrderInv'
    OBVIOUS
  <2> USE DEF dispatchVars
  <2>0. /\ \A k \in 1..Len(inbox) : inbox[k].id \in Nat
        /\ Len(inbox) \in Nat /\ sent \in Nat
        /\ msg # NoMessage => msg.id \in Nat
        /\ \A q \in Queues : /\ Len(Log(q)) \in Nat
                             /\ \A k \in 1..Len(Log(q)) : Log(q)[k].id \in Nat
    <3>1. \A m \in Message : m.id \in Nat
      BY DEF Message
    <3>2. /\ Len(inbox) \in Nat /\ \A k \in 1..Len(inbox) : inbox[k] \in Message
          /\ sent \in Nat /\ msg \in Message \cup {NoMessage}
      BY ElementOfSeq, LenProperties DEF TypeOK
    <3>3. \A q \in Queues : Log(q) \in Seq(Message)
      BY LogType
    <3>4. \A q \in Queues : /\ Len(Log(q)) \in Nat
                            /\ \A k \in 1..Len(Log(q)) : Log(q)[k] \in Message
      BY <3>3, ElementOfSeq, LenProperties
    <3>5. QED
      BY <3>1, <3>2, <3>4
  <2>1. ASSUME NEW b \in Bodies, Send(b) PROVE OrderInv'
    <3> DEFINE m == [id |-> sent + 1, body |-> b]
    <3>1. /\ m \in Message /\ m.id = sent + 1
          /\ inbox' = Append(inbox, m) /\ sent' = sent + 1
      BY <2>1 DEF Send, Message, TypeOK
    <3>2. /\ Len(inbox') = Len(inbox) + 1
          /\ \A k \in 1..Len(inbox) : inbox'[k] = inbox[k]
          /\ inbox'[Len(inbox) + 1] = m
      BY <3>1, AppendElements DEF TypeOK
    <3>3. /\ \A j, k \in 1..Len(inbox') : j < k => inbox'[j].id < inbox'[k].id
          /\ \A k \in 1..Len(inbox') : inbox'[k].id <= sent'
      BY <2>0, <3>1, <3>2 DEF OrderInv
    <3>4. /\ \A q \in Queues : Log(q)' = Log(q) /\ InLoop(q)' = InLoop(q)
          /\ pc' = pc /\ msg' = msg
      BY <2>1 DEF Send, Log, InLoop
    <3>5. \A q \in Queues : \A j \in 1..Len(Log(q)) :
            /\ Log(q)[j].id <= sent'
            /\ \A k \in 1..Len(inbox') : Log(q)[j].id < inbox'[k].id
      BY <2>0, <3>1, <3>2 DEF OrderInv
    <3>6. pc = "forward" /\ msg # NoMessage =>
            msg.id <= sent' /\ \A k \in 1..Len(inbox') : msg.id < inbox'[k].id
      BY <2>0, <3>1, <3>2 DEF OrderInv
    <3>7. InOrder'
      BY <3>4 DEF OrderInv, InOrder
    <3>8. QED
      BY <3>3, <3>4, <3>5, <3>6, <3>7 DEF OrderInv
  <2>2. CASE Initialize \/ Call \/ ReceiveFails
    <3>1. /\ UNCHANGED <<inbox, sent>> /\ \A q \in Queues : Log(q)' = Log(q)
          /\ ~(pc' = "forward" /\ msg' # NoMessage)
      BY <2>2 DEF Initialize, Call, ReceiveFails, Log
    <3>2. QED
      BY <3>1 DEF OrderInv, InOrder, InLoop
  <2>3. CASE Receive
    <3>1. /\ inbox # <<>> /\ inbox' = Tail(inbox) /\ msg' = Head(inbox) /\ sent' = sent
          /\ \A q \in Queues : Log(q)' = Log(q)
      BY <2>3 DEF Receive, Log
    <3>2. /\ Len(inbox) >= 1 /\ msg' = inbox[1]
          /\ Len(inbox') = Len(inbox) - 1
          /\ \A k \in 1..Len(inbox') : inbox'[k] = inbox[k + 1]
      BY <3>1, HeadTail DEF TypeOK
    <3>3. /\ \A j, k \in 1..Len(inbox') : j < k => inbox'[j].id < inbox'[k].id
          /\ \A k \in 1..Len(inbox') : inbox'[k].id <= sent' /\ msg'.id < inbox'[k].id
          /\ msg'.id <= sent'
      BY <2>0, <3>1, <3>2 DEF OrderInv
    <3>4. \A q \in Queues : \A j \in 1..Len(Log(q)) :
            /\ Log(q)[j].id < msg'.id
            /\ \A k \in 1..Len(inbox') : Log(q)[j].id < inbox'[k].id
      BY <2>0, <3>1, <3>2 DEF OrderInv
    <3>5. QED
      BY <3>1, <3>3, <3>4 DEF OrderInv, InOrder
  <2>4. CASE Forward
    <3>1. /\ pc = "forward" /\ i \in Queues /\ msg' = msg
          /\ UNCHANGED <<inbox, sent>>
          /\ pc' = "forward" => i' = i + 1
      BY <2>4 DEF Forward, TypeOK
    <3>2. ASSUME NEW q \in Queues, msg # NoMessage, q = i, Len(queues[q]) < MaxMsg
          PROVE  /\ Len(Log(q)') = Len(Log(q)) + 1
                 /\ \A j \in 1..Len(Log(q)) : Log(q)'[j] = Log(q)[j]
                 /\ Log(q)'[Len(Log(q)) + 1] = msg
      <4>1. Log(q)' = Append(Log(q), msg) /\ msg \in Message
        BY <2>4, <3>2, LogForward DEF TypeOK
      <4>2. QED
        BY <4>1, LogType, AppendElements
    <3>3. ASSUME NEW q \in Queues, msg = NoMessage \/ q # i \/ ~(Len(queues[q]) < MaxMsg)
          PROVE  Log(q)' = Log(q)
      BY <2>4, <3>3, LogForward
    <3>4. ASSUME NEW q \in Queues
          PROVE  /\ \A j \in 1..Len(Log(q)') : Log(q)'[j].id <= sent
                 /\ \A j \in 1..Len(Log(q)') : \A k \in 1..Len(inbox) :
                      Log(q)'[j].id < inbox[k].id
                 /\ \A j, k \in 1..Len(Log(q)') :
                      j < k => Log(q)'[j].id < Log(q)'[k].id
      <4>1. CASE msg # NoMessage /\ q = i /\ Len(queues[q]) < MaxMsg
        <5>1. InLoop(q)
          BY <3>1, <4>1 DEF InLoop, Queues
        <5>2. /\ \A j \in 1..Len(Log(q)) : Log(q)[j].id < msg.id
              /\ msg.id <= sent /\ \A k \in 1..Len(inbox) : msg.id < inbox[k].id
          BY <3>1, <4>1, <5>1 DEF OrderInv
        <5>3. /\ Len(Log(q)') = Len(Log(q)) + 1
              /\ \A j \in 1..Len(Log(q)) : Log(q)'[j] = Log(q)[j]
              /\ Log(q)'[Len(Log(q)) + 1] = msg
          BY <3>2, <4>1
        <5>4. \A j \in 1..Len(Log(q)') :
                j \in 1..Len(Log(q)) \/ j = Len(Log(q)) + 1
          BY <2>0, <5>3
        <5>5. /\ \A j \in 1..Len(Log(q)') : Log(q)'[j].id <= sent
              /\ \A j \in 1..Len(Log(q)') : \A k \in 1..Len(inbox) :
                   Log(q)'[j].id < inbox[k].id
          BY <5>2, <5>3, <5>4 DEF OrderInv
        <5>6. ASSUME NEW j \in 1..Len(Log(q)'), NEW k \in 1..Len(Log(q)'), j < k
              PROVE  Log(q)'[j].id < Log(q)'[k].id
          <6>1. j \in 1..Len(Log(q))
            BY <2>0, <5>3, <5>6
          <6>2. CASE k \in 1..Len(Log(q))
            BY <5>3, <5>6, <6>1, <6>2 DEF OrderInv, InOrder
          <6>3. CASE k = Len(Log(q)) + 1
            BY <5>2, <5>3, <6>1, <6>3
          <6>4. QED
            BY <5>4, <6>2, <6>3
        <5>7. QED
          BY <5>5, <5>6
      <4>2. CASE ~(msg # NoMessage /\ q = i /\ Len(queues[q]) < MaxMsg)
        BY <3>3, <4>2 DEF OrderInv, InOrder
      <4>3. QED
        BY <4>1, <4>2
    <3>5. ASSUME NEW q \in Queues, InLoop(q)'
          PROVE  \A j \in 1..Len(Log(q)') : Log(q)'[j].id < msg.id
      <4>1. InLoop(q) /\ q # i
        BY <3>1, <3>5 DEF InLoop, Queues
      <4>2. Log(q)' = Log(q)
        BY <3>3, <4>1
      <4>3. QED
        BY <4>1, <4>2 DEF OrderInv
    <3>6. QED
      BY <3>1, <3>4, <3>5 DEF OrderInv, InOrder
  <2>5. ASSUME NEW r \in Queues, Take(r) PROVE OrderInv'
    <3>1. \A q \in Queues : Log(q)' = Log(q) /\ InLoop(q)' = InLoop(q)
      BY <2>5, LogTake DEF Take, InLoop
    <3>2. UNCHANGED <<inbox, sent, pc, msg>>
      BY <2>5 DEF Take
    <3>3. QED
      BY <3>1, <3>2 DEF OrderInv, InOrder
  <2>6. CASE UNCHANGED vars
    BY <2>6 DEF vars, OrderInv, InOrder, Log, InLoop
  <2>7. QED
    BY <2>1, <2>2, <2>3, <2>4, <2>5, <2>6 DEF Next, Dispatch
<1>3. OrderInv => InOrder
  BY DEF OrderInv
<1>4. QED
  BY <1>1, <1>2, <1>3, TypeCorrect, PTL DEF Spec

--------------------------------------------------------------------------------
(* Each queue, seen alone, is a lossy FIFO. *)

\* The loop of mq_receive and the readers of all the other queues are invisible
\* to the reader of one queue: what it sees is a behaviour of LossyFifo.
THEOREM QueuesImplementLossyFifo == Spec => FifoForEach
<1> USE SizesAssumption, NoMessageAssumption
<1>1. Init => \A q \in Queues : Fifo(q)!Init
  BY DEF Init, Fifo!Init, Offered, InLoop
<1>2. TypeOK /\ LosslessInv /\ [Next]_vars =>
        \A q \in Queues : [Fifo(q)!Next]_(Fifo(q)!vars)
  <2> SUFFICES ASSUME TypeOK, LosslessInv, [Next]_vars, NEW q \in Queues
               PROVE  [Fifo(q)!Next]_(Fifo(q)!vars)
    OBVIOUS
  <2> USE DEF dispatchVars
  <2>1. CASE Forward
    <3>1. CASE q = i /\ msg # NoMessage
      <4>1. /\ Offered(q) = SubSeq(received, 1, Len(received) - 1)
            /\ Offered(q)' = received
            /\ taken'[q] = taken[q]
            /\ queues'[q] = Enqueue(queues[q], msg)
            /\ msg \in Message
        BY <2>1, <3>1 DEF Forward, Offered, InLoop, Queues, TypeOK
      <4>2. Offered(q)' = Append(Offered(q), msg)
        BY <2>1, <3>1, <4>1, FrontThenLast DEF LosslessInv, TypeOK, Forward
      <4>3. Len(queues[q]) < MaxMsg \/ Len(queues[q]) = MaxMsg
        BY LenProperties DEF TypeOK
      <4>4. Fifo(q)!Accept(msg) \/ Fifo(q)!Lose(msg)
        BY <3>1, <4>1, <4>2, <4>3 DEF Enqueue, Fifo!Accept, Fifo!Lose
      <4>5. QED
        BY <4>1, <4>4 DEF Fifo!Next
    <3>2. CASE q # i \/ msg = NoMessage
      <4>1. queues'[q] = queues[q] /\ taken'[q] = taken[q]
        BY <2>1, <3>2 DEF Forward, TypeOK, Enqueue
      <4>2. Offered(q)' = Offered(q)
        BY <2>1, <3>2 DEF Forward, TypeOK, Offered, InLoop, Queues
      <4>3. QED
        BY <4>1, <4>2 DEF Fifo!vars
    <3>3. QED
      BY <3>1, <3>2
  <2>2. ASSUME NEW r \in Queues, Take(r) PROVE [Fifo(q)!Next]_(Fifo(q)!vars)
    <3>1. Offered(q)' = Offered(q)
      BY <2>2 DEF Take, Offered, InLoop
    <3>2. CASE q = r
      <4>1. Fifo(q)!Take
        BY <2>2, <3>1, <3>2 DEF Take, TypeOK, Fifo!Take
      <4>2. QED
        BY <4>1 DEF Fifo!Next
    <3>3. CASE q # r
      BY <2>2, <3>1, <3>3 DEF Take, TypeOK, Fifo!vars
    <3>4. QED
      BY <3>2, <3>3
  <2>3. CASE Receive
    <3>1. Offered(q)' = received
      <4>1. received' = Append(received, Head(inbox)) /\ Head(inbox) \in Message
            /\ pc' = "forward" /\ msg' = Head(inbox) /\ i' <= q
        BY <2>3, HeadTail DEF Receive, TypeOK, Queues
      <4>2. Offered(q)' = SubSeq(received', 1, Len(received') - 1)
        BY <4>1 DEF Offered, InLoop
      <4>3. QED
        BY <4>1, <4>2, FrontAppend DEF TypeOK
    <3>2. Offered(q) = received
      BY <2>3 DEF Receive, Offered, InLoop
    <3>3. QED
      BY <2>3, <3>1, <3>2 DEF Receive, Fifo!vars
  <2>4. CASE (\E b \in Bodies : Send(b)) \/ Initialize \/ Call \/ ReceiveFails
             \/ UNCHANGED vars
    BY <2>4 DEF Send, Initialize, Call, ReceiveFails, vars, Offered, InLoop, Fifo!vars
  <2>5. QED
    BY <2>1, <2>2, <2>3, <2>4 DEF Next, Dispatch
<1>3. QED
  BY <1>1, <1>2, TypeCorrect, LosslessInvariant, PTL DEF Spec, FifoForEach
--------------------------------------------------------------------------------
(* The readers. *)

\* A reader that is past open_queue has a queue, and one that is not launched has none.
OpenInv ==
  /\ at \in [Readers -> {"off", "attr", "clear", "loop", "over"}]
  /\ queue \in [Readers -> Queues \cup {NoQueue}]
  /\ \A p \in Readers : at[p] \in {"attr", "clear", "loop"} => queue[p] \in Queues
  /\ \A p \in Readers : at[p] = "off" => queue[p] = NoQueue

LEMMA OpenInvariant == ReadersSpec => []OpenInv
<1>1. ReadersInit => OpenInv
  BY DEF ReadersInit, OpenInv
<1>2. OpenInv /\ [ReadersNext]_systemVars => OpenInv'
  <2> SUFFICES ASSUME OpenInv, [ReadersNext]_systemVars PROVE OpenInv'
    OBVIOUS
  <2> USE DEF OpenInv
  <2>1. CASE UNCHANGED readerVars
    BY <2>1 DEF readerVars, localVars
  <2>2. ASSUME NEW p \in Readers, at[p] = "off", Refused(p) PROVE OpenInv'
    BY <2>2 DEF Refused
  <2>3. ASSUME NEW p \in Readers, at[p] = "off", NEW q \in Queues, OpenQueue(p, q)
        PROVE  OpenInv'
    BY <2>3 DEF OpenQueue
  <2>4. ASSUME NEW p \in Readers, ReaderStep(p) PROVE OpenInv'
    <3>1. /\ at[p] \in {"attr", "clear", "loop"} /\ queue' = queue
          /\ \E a \in {"attr", "clear", "loop", "over"} : at' = [at EXCEPT ![p] = a]
      <4>1. CASE GetAttr(p)
        BY <4>1 DEF GetAttr
      <4>2. CASE Clear(p)
        BY <4>2 DEF Clear
      <4>3. CASE Show(p)
        BY <4>3 DEF Show
      <4>4. CASE Notify(p)
        BY <4>4 DEF Notify, AfterE2BIG
      <4>5. QED
        BY <2>4, <4>1, <4>2, <4>3, <4>4 DEF ReaderStep
    <3>2. QED
      BY <3>1
  <2>5. CASE UNCHANGED systemVars
    BY <2>5, <2>1 DEF systemVars
  <2>6. QED
    BY <2>1, <2>2, <2>3, <2>4, <2>5 DEF ReadersNext, Launch
<1>3. QED
  BY <1>1, <1>2, PTL DEF ReadersSpec

\* A receive of a reader is a Take of its queue, and nothing else it does shows.
LEMMA ReaderTakes ==
  ASSUME OpenInv, NEW p \in Readers, ReaderStep(p)
  PROVE  UNCHANGED vars \/ (queue[p] \in Queues /\ Take(queue[p]))
<1>1. CASE GetAttr(p)
  BY <1>1 DEF GetAttr
<1>2. CASE Clear(p)
  BY <1>2 DEF Clear, OpenInv
<1>3. CASE Show(p)
  BY <1>3 DEF Show, OpenInv
<1>4. CASE Notify(p)
  BY <1>4 DEF Notify, OpenInv
<1>5. QED
  BY <1>1, <1>2, <1>3, <1>4 DEF ReaderStep

LEMMA ReadersStep ==
  ASSUME OpenInv, [ReadersNext]_systemVars
  PROVE  [Next]_vars
<1>1. CASE (\E b \in Bodies : Send(b)) \/ Dispatch \/ ReceiveFails
  BY <1>1 DEF Next
<1>2. ASSUME NEW p \in Readers, Launch(p) PROVE UNCHANGED vars
  BY <1>2 DEF Launch
<1>3. ASSUME NEW p \in Readers, ReaderStep(p) PROVE [Next]_vars
  BY <1>3, ReaderTakes DEF Next
<1>4. CASE UNCHANGED systemVars
  BY <1>4 DEF systemVars
<1>5. QED
  BY <1>1, <1>2, <1>3, <1>4 DEF ReadersNext

\* However many ipc_read and ipc_notify are launched, on whatever queues, the multiplexer
\* with its readers behaves as IpcMultiplex says: what holds of that module holds here.
THEOREM ReadersRefineMultiplexer == ReadersSpec => Spec
<1>1. ReadersInit => Init
  BY DEF ReadersInit
<1>2. OpenInv /\ [ReadersNext]_systemVars => [Next]_vars
  BY ReadersStep
<1>3. QED
  BY <1>1, <1>2, OpenInvariant, PTL DEF ReadersSpec, Spec

\* Two readers of one queue make it a queue with followers; clear_queue of the only
\* reader found it with a message.
ClearInv ==
  /\ \A p, r \in Readers : p # r /\ queue[p] = queue[r] /\ queue[p] \in Queues
                              => queue[p] \in followers
  /\ ClearNeverWaits

\* Nothing but a reader empties a queue.
LEMMA NotEmptied ==
  ASSUME TypeOK, NEW q \in Queues, queues[q] # <<>>,
         (\E b \in Bodies : Send(b)) \/ Dispatch \/ ReceiveFails
  PROVE  queues'[q] # <<>>
<1>1. CASE Forward
  <2>1. queues[q] \in Seq(Message)
    BY DEF TypeOK
  <2>2. Enqueue(queues[q], msg) # <<>>
    <3>1. Append(queues[q], msg) # <<>>
      BY <2>1
    <3>2. QED
      BY <3>1 DEF Enqueue
  <2>3. queues'[q] = queues[q] \/ queues'[q] = Enqueue(queues[q], msg)
    BY <1>1 DEF Forward, TypeOK
  <2>4. QED
    BY <2>2, <2>3
<1>2. CASE Initialize \/ Call \/ Receive \/ ReceiveFails \/ \E b \in Bodies : Send(b)
  BY <1>2 DEF Initialize, Call, Receive, ReceiveFails, Send
<1>3. QED
  BY <1>1, <1>2 DEF Dispatch

LEMMA ClearStep ==
  ASSUME TypeOK, OpenInv, ClearInv, [ReadersNext]_systemVars
  PROVE  ClearInv'
<1>1. CASE /\ (\E b \in Bodies : Send(b)) \/ Dispatch \/ ReceiveFails
           /\ UNCHANGED readerVars
  <2>1. UNCHANGED <<at, queue, followers>>
    BY <1>1 DEF readerVars, localVars
  <2>2. ASSUME NEW p \in Readers, at[p] = "clear", queue[p] \notin followers
        PROVE  queues'[queue[p]] # <<>>
    <3>1. queue[p] \in Queues /\ queues[queue[p]] # <<>>
      BY <2>2 DEF OpenInv, ClearInv, ClearNeverWaits
    <3>2. QED
      BY <1>1, <3>1, NotEmptied
  <2>3. QED
    BY <2>1, <2>2 DEF ClearInv, ClearNeverWaits
<1>2. ASSUME NEW p \in Readers, Launch(p) PROVE ClearInv'
  <2>1. at[p] = "off" /\ queue[p] = NoQueue /\ UNCHANGED queues
    BY <1>2 DEF Launch, OpenInv, vars
  <2>2. CASE Refused(p)
    <3>1. at' = [at EXCEPT ![p] = "over"] /\ UNCHANGED <<queue, followers, queues>>
      BY <2>1, <2>2 DEF Refused
    <3>2. QED
      BY <3>1 DEF ClearInv, ClearNeverWaits, OpenInv
  <2>3. ASSUME NEW q \in Queues, OpenQueue(p, q) PROVE ClearInv'
    <3>1. /\ queue' = [queue EXCEPT ![p] = q] /\ at' = [at EXCEPT ![p] = "attr"]
          /\ followers' = IF OnQueue(q) # {} THEN followers \cup {q} ELSE followers
      BY <2>3 DEF OpenQueue
    <3>2. followers \subseteq followers'
      BY <3>1
    <3>3. ASSUME NEW a \in Readers, NEW r \in Readers, a # r, queue'[a] = queue'[r],
                 queue'[a] \in Queues
          PROVE  queue'[a] \in followers'
      <4>1. CASE a # p /\ r # p
        BY <3>1, <3>2, <3>3, <4>1 DEF ClearInv, OpenInv
      <4>2. ASSUME NEW o \in Readers, o # p, queue'[o] = q PROVE q \in followers'
        <5>1. o \in OnQueue(q)
          BY <3>1, <4>2 DEF OnQueue, OpenInv
        <5>2. QED
          BY <3>1, <5>1
      <4>3. CASE a = p \/ r = p
        BY <3>1, <3>3, <4>2, <4>3 DEF OpenInv
      <4>4. QED
        BY <4>1, <4>3
    <3>4. ASSUME NEW a \in Readers, at'[a] = "clear"
          PROVE  queues'[queue'[a]] # <<>> \/ queue'[a] \in followers'
      <4>1. a # p
        BY <3>1, <3>4 DEF OpenInv
      <4>2. at[a] = "clear" /\ queue'[a] = queue[a]
        BY <3>1, <3>4, <4>1 DEF OpenInv
      <4>3. QED
        BY <2>1, <3>2, <4>2 DEF ClearInv, ClearNeverWaits
    <3>5. QED
      BY <3>3, <3>4 DEF ClearInv, ClearNeverWaits
  <2>4. QED
    BY <1>2, <2>2, <2>3 DEF Launch
<1>3. ASSUME NEW p \in Readers, GetAttr(p) PROVE ClearInv'
  <2>1. /\ at' = [at EXCEPT ![p] = IF queues[queue[p]] # <<>> THEN "clear" ELSE "loop"]
        /\ UNCHANGED <<queue, followers, queues>>
    BY <1>3 DEF GetAttr, vars
  <2>2. QED
    BY <2>1 DEF ClearInv, ClearNeverWaits, OpenInv
<1>4. ASSUME NEW p \in Readers, Clear(p) \/ Show(p) \/ Notify(p) PROVE ClearInv'
  <2>1. /\ queue[p] \in Queues /\ Take(queue[p])
        /\ UNCHANGED <<queue, followers>>
    BY <1>4 DEF Clear, Show, Notify, OpenInv
  <2>2. \E a \in {"attr", "loop", "over"} : at' = [at EXCEPT ![p] = a]
    BY <1>4 DEF Clear, Show, Notify, AfterE2BIG, OpenInv
  <2>3. \A q \in Queues : q # queue[p] => queues'[q] = queues[q]
    BY <2>1 DEF Take, TypeOK
  <2>4. ASSUME NEW r \in Readers, at'[r] = "clear"
        PROVE  queues'[queue'[r]] # <<>> \/ queue'[r] \in followers'
    <3>1. r # p /\ at[r] = "clear" /\ queue[r] \in Queues
      BY <2>2, <2>4 DEF OpenInv
    <3>2. CASE queue[r] = queue[p]
      BY <2>1, <3>1, <3>2 DEF ClearInv
    <3>3. CASE queue[r] # queue[p]
      BY <2>1, <2>3, <3>1, <3>3 DEF ClearInv, ClearNeverWaits
    <3>4. QED
      BY <3>2, <3>3
  <2>5. QED
    BY <2>1, <2>4 DEF ClearInv, ClearNeverWaits
<1>5. CASE UNCHANGED systemVars
  BY <1>5 DEF systemVars, vars, readerVars, localVars, ClearInv, ClearNeverWaits
<1>6. QED
  BY <1>1, <1>2, <1>3, <1>4, <1>5 DEF ReadersNext, ReaderStep

\* clear_queue of the only reader of a queue never waits in its mq_receive, for any
\* number of queues, readers and messages.
THEOREM ClearDoesNotWait == ReadersSpec => []ClearNeverWaits
<1>1. ReadersInit => ClearInv
  BY DEF ReadersInit, ClearInv, ClearNeverWaits, Queues, NoQueue
<1>2. ClearInv => ClearNeverWaits
  BY DEF ClearInv
<1>3. TypeOK /\ OpenInv /\ ClearInv /\ [ReadersNext]_systemVars => ClearInv'
  BY ClearStep
<1>4. QED
  BY <1>1, <1>2, <1>3, OpenInvariant, ReadersRefineMultiplexer, TypeCorrect, PTL
     DEF ReadersSpec

--------------------------------------------------------------------------------
(* MotionEvents: the daemon's queue is one of the multiplexer's. *)

\* Every step of the composition is one of the multiplexer, or leaves it alone.
LEMMA EventsStep ==
  ASSUME [EventsNext]_allVars
  PROVE  [Next]_vars
<1>1. ASSUME NEW b \in Bodies, Send(b) PROVE [Next]_vars
  BY <1>1 DEF Next
<1>2. ASSUME NEW c \in Cmds, RunCmd(c) \/ CmdStep(c) PROVE [Next]_vars
  <2>1. UNCHANGED vars \/ Send("MOTION_START") \/ Send("MOTION_STOP")
    BY <1>2 DEF RunCmd, CmdStep, SendStart, Fork, Wake, SendStop, muxVars
  <2>2. QED
    BY <1>1, <2>1, EventsAssumption
<1>3. CASE Camera
  BY <1>1, <1>3, EventsAssumption DEF Camera
<1>4. CASE Mux
  BY <1>4 DEF Mux, Next
<1>5. ASSUME NEW q \in Queues, OtherReader(q) PROVE [Next]_vars
  BY <1>5 DEF OtherReader, Next
<1>6. ASSUME NEW p \in Daemons, DaemonTakes(p) PROVE [Next]_vars
  BY <1>6, EventsAssumption DEF DaemonTakes, Next
<1>7. ASSUME NEW p \in Daemons, DaemonMoves(p) \/ DaemonEvent(p) PROVE [Next]_vars
  BY <1>7 DEF DaemonMoves, DaemonEvent, muxVars
<1>8. CASE UNCHANGED allVars
  BY <1>8 DEF allVars, muxVars
<1>9. QED
  BY <1>2, <1>3, <1>4, <1>5, <1>6, <1>7, <1>8 DEF EventsNext

\* What is proved of IpcMultiplex holds in the composition.
THEOREM EventsRefineMultiplexer == EventsSpec => Spec
<1>1. EventsInit => Init
  BY DEF EventsInit
<1>2. [EventsNext]_allVars => [Next]_vars
  BY EventsStep
<1>3. QED
  BY <1>1, <1>2, PTL DEF EventsSpec, Spec

\* The queues are open before there is anything to copy, and each send is received
\* once at most.
CountInv ==
  /\ pc \in {"receive", "forward"} => isInitialized
  /\ Len(received) + Len(inbox) <= sent
  /\ sent <= MaxSent

LEMMA CountInvariant == Spec => []CountInv
<1>1. Init => CountInv
  BY SizesAssumption DEF Init, CountInv
<1>2. TypeOK /\ CountInv /\ [Next]_vars => CountInv'
  <2> SUFFICES ASSUME TypeOK, CountInv, [Next]_vars PROVE CountInv'
    OBVIOUS
  <2>0. /\ received \in Seq(Message) /\ inbox \in Seq(Message) /\ sent \in Nat
        /\ Len(received) \in Nat /\ Len(inbox) \in Nat /\ MaxSent \in Nat
    BY SizesAssumption, LenProperties DEF TypeOK
  <2>1. ASSUME NEW b \in Bodies, Send(b) PROVE CountInv'
    <3>1. [id |-> sent + 1, body |-> b] \in Message
      BY <2>0, <2>1 DEF Send, Message
    <3>2. Len(inbox') = Len(inbox) + 1
      BY <2>0, <2>1, <3>1, AppendElements DEF Send
    <3>3. QED
      BY <2>0, <2>1, <3>2 DEF Send, dispatchVars, CountInv
  <2>2. CASE Receive
    <3>1. Len(inbox') = Len(inbox) - 1 /\ Head(inbox) \in Message
      BY <2>0, <2>2, HeadTail DEF Receive
    <3>2. Len(received') = Len(received) + 1
      BY <2>0, <2>2, <3>1, AppendElements DEF Receive
    <3>3. QED
      BY <2>0, <2>2, <3>1, <3>2 DEF Receive, CountInv
  <2>3. CASE Initialize \/ Call \/ Forward \/ ReceiveFails
    BY <2>3 DEF Initialize, Call, Forward, ReceiveFails, CountInv
  <2>4. ASSUME NEW q \in Queues, Take(q) PROVE CountInv'
    BY <2>4 DEF Take, dispatchVars, CountInv
  <2>5. CASE UNCHANGED vars
    BY <2>5 DEF vars, dispatchVars, CountInv
  <2>6. QED
    BY <2>1, <2>2, <2>3, <2>4, <2>5 DEF Next, Dispatch
<1>3. QED
  BY <1>1, <1>2, TypeCorrect, PTL DEF Spec

LEMMA BodiesAppend ==
  ASSUME NEW s \in Seq(Message), NEW m \in Message
  PROVE  /\ Bodies2(Append(s, m)) = Append(Bodies2(s), m.body)
         /\ Len(Bodies2(s)) = Len(s)
<1>1. /\ DOMAIN s = 1..Len(s) /\ Len(s) \in Nat
      /\ \A k \in DOMAIN s : s[k] \in Message
      /\ m.body \in Bodies /\ \A e \in Message : e.body \in Bodies
  <2>1. DOMAIN s = 1..Len(s) /\ Len(s) \in Nat
    BY LenProperties
  <2>2. \A k \in 1..Len(s) : s[k] \in Message
    OBVIOUS
  <2>3. m.body \in Bodies /\ \A e \in Message : e.body \in Bodies
    BY DEF Message
  <2>4. QED
    BY <2>1, <2>2, <2>3
<1>2. Bodies2(s) \in Seq(Bodies) /\ Len(Bodies2(s)) = Len(s)
  BY <1>1 DEF Bodies2
<1>3. /\ Append(s, m) \in Seq(Message) /\ Len(Append(s, m)) = Len(s) + 1
      /\ \A j \in 1..Len(s) : Append(s, m)[j] = s[j]
      /\ Append(s, m)[Len(s) + 1] = m
  BY AppendElements
<1>4. /\ DOMAIN Append(s, m) = 1..Len(s) + 1
      /\ Bodies2(Append(s, m)) \in Seq(Bodies)
      /\ Len(Bodies2(Append(s, m))) = Len(s) + 1
      /\ \A j \in 1..Len(s) + 1 : Bodies2(Append(s, m))[j] = Append(s, m)[j].body
  <2>1. DOMAIN Append(s, m) = 1..Len(s) + 1
    BY <1>3, LenProperties
  <2>2. \A j \in DOMAIN Append(s, m) : Append(s, m)[j] \in Message
    BY <1>3
  <2>3. QED
    BY <1>1, <2>1, <2>2 DEF Bodies2
<1>5. /\ Append(Bodies2(s), m.body) \in Seq(Bodies)
      /\ Len(Append(Bodies2(s), m.body)) = Len(s) + 1
      /\ \A j \in 1..Len(s) : Append(Bodies2(s), m.body)[j] = s[j].body
      /\ Append(Bodies2(s), m.body)[Len(s) + 1] = m.body
  <2>1. \A j \in 1..Len(s) : Bodies2(s)[j] = s[j].body
    BY <1>1 DEF Bodies2
  <2>2. QED
    BY <1>1, <1>2, <2>1, AppendElements
<1>6. \A j \in 1..Len(s) + 1 : Bodies2(Append(s, m))[j] = Append(Bodies2(s), m.body)[j]
  BY <1>1, <1>3, <1>4, <1>5
<1>7. QED
  BY <1>2, <1>4, <1>5, <1>6, SeqEqual

(* DaemonIsIpc2File: a copy onto the daemon's queue is an Arrive of its environment,  *)
(* the opening of the queues its CreateQueue; the daemon's own steps are the same.    *)
THEOREM DaemonImplemented == EventsSpec => DaemonIsIpc2File
<1> USE EventsAssumption
<1>1. EventsInit => Daemon!Init
  BY DEF EventsInit
<1>2. TypeOK /\ LosslessInv /\ CountInv /\ [EventsNext]_allVars
        => [Daemon!Next]_(Daemon!vars)
  <2> SUFFICES ASSUME TypeOK, LosslessInv, CountInv, [EventsNext]_allVars
               PROVE  [Daemon!Next]_(Daemon!vars)
    OBVIOUS
  <2> DEFINE Q == EventQueue
  <2>0. queues[Q] \in Seq(Message) /\ Q \in Queues
    BY DEF TypeOK
  <2>1. ASSUME queues'[Q] = queues[Q], Offered(Q)' = Offered(Q), Exists(Q)' = Exists(Q),
               UNCHANGED daemonVars
        PROVE  UNCHANGED Daemon!vars
    BY <2>1 DEF Daemon!vars, Daemon!queueVars, Daemon!procVars, Daemon!memory, daemonVars
  <2>2. ASSUME NEW b, Send(b), UNCHANGED daemonVars PROVE UNCHANGED Daemon!vars
    BY <2>1, <2>2 DEF Send, dispatchVars, Offered, InLoop, Exists
  <2>3. ASSUME UNCHANGED vars, UNCHANGED daemonVars PROVE UNCHANGED Daemon!vars
    BY <2>1, <2>3 DEF vars, dispatchVars, Offered, InLoop, Exists
  <2>4. ASSUME NEW c \in Cmds, RunCmd(c) \/ CmdStep(c) PROVE UNCHANGED Daemon!vars
    <3>1. /\ UNCHANGED daemonVars
          /\ UNCHANGED vars \/ Send("MOTION_START") \/ Send("MOTION_STOP")
      BY <2>4 DEF RunCmd, CmdStep, SendStart, Fork, Wake, SendStop, muxVars
    <3>2. QED
      BY <2>2, <2>3, <3>1
  <2>5. CASE Camera
    BY <2>2, <2>5 DEF Camera
  <2>6. CASE Initialize /\ UNCHANGED daemonVars
    <3>1. queues'[Q] = queues[Q] /\ Offered(Q)' = Offered(Q)
      BY <2>6 DEF Initialize, Offered, InLoop
    <3>2. CASE Exists(Q)' = Exists(Q)
      BY <2>1, <2>6, <3>1, <3>2
    <3>3. CASE Exists(Q)' # Exists(Q)
      <4>0. Q \in Nat /\ i \in Nat
        BY <2>0 DEF TypeOK, Queues
      <4>1. Exists(Q) = FALSE /\ Exists(Q)' = TRUE
        BY <2>0, <2>6, <3>3, <4>0 DEF Initialize, Exists, Queues
      <4>2. Daemon!CreateQueue
        BY <2>6, <3>1, <4>1
           DEF Daemon!CreateQueue, Daemon!procVars, Daemon!memory, daemonVars
      <4>3. QED
        BY <4>2 DEF Daemon!Next
    <3>4. QED
      BY <3>2, <3>3
  <2>7. CASE Call /\ UNCHANGED daemonVars
    BY <2>1, <2>7 DEF Call, Offered, InLoop, Exists
  <2>8. CASE Receive /\ UNCHANGED daemonVars
    <3>1. Offered(Q)' = received
      <4>1. received' = Append(received, Head(inbox)) /\ Head(inbox) \in Message
            /\ pc' = "forward" /\ msg' = Head(inbox) /\ i' <= Q
        BY <2>0, <2>8, HeadTail, SizesAssumption DEF Receive, TypeOK, Queues
      <4>2. Offered(Q)' = SubSeq(received', 1, Len(received') - 1)
        BY <4>1, NoMessageAssumption DEF Offered, InLoop
      <4>3. QED
        BY <4>1, <4>2, FrontAppend DEF TypeOK
    <3>2. Offered(Q) = received
      BY <2>8 DEF Receive, Offered, InLoop
    <3>3. Exists(Q) = TRUE /\ Exists(Q)' = TRUE
      BY <2>8 DEF Receive, CountInv, Exists
    <3>4. QED
      BY <2>1, <2>8, <3>1, <3>2, <3>3 DEF Receive
  <2>9. CASE Forward /\ UNCHANGED daemonVars
    <3>1. CASE Q = i /\ msg # NoMessage
      <4>1. /\ Offered(Q) = SubSeq(received, 1, Len(received) - 1)
            /\ Offered(Q)' = received
            /\ queues'[Q] = Enqueue(queues[Q], msg)
            /\ msg \in Message
        BY <2>9, <3>1, SizesAssumption DEF Forward, Offered, InLoop, Queues, TypeOK
      <4>2. Len(Offered(Q)') = Len(Offered(Q)) + 1 /\ Len(Offered(Q)) < MaxSent
        <5>1. received \in Seq(Message) /\ received # <<>>
              /\ Len(received) <= MaxSent
          BY <2>9, <3>1, SizesAssumption, LenProperties DEF LosslessInv, CountInv, TypeOK, Forward
        <5>2. Len(received) \in Nat \ {0}
          BY <5>1, HeadTail
        <5>3. Len(SubSeq(received, 1, Len(received) - 1)) = Len(received) - 1
          <6>1. PICK t \in Seq(Message), e \in Message : received = Append(t, e)
            BY <5>1, SequenceEmptyOrAppend
          <6>2. SubSeq(received, 1, Len(received) - 1) = t /\ Len(received) = Len(t) + 1
            BY <6>1, FrontAppend, AppendElements
          <6>3. QED
            BY <6>1, <6>2, LenProperties
        <5>4. QED
          BY <4>1, <5>1, <5>2, <5>3, SizesAssumption
      <4>3. msg.body \in Bodies
        BY <4>1 DEF Message
      <4>4. Bodies2(queues'[Q]) =
              IF Len(Bodies2(queues[Q])) < MaxMsg THEN Append(Bodies2(queues[Q]), msg.body)
                                                  ELSE Bodies2(queues[Q])
        <5>1. /\ Bodies2(Append(queues[Q], msg)) = Append(Bodies2(queues[Q]), msg.body)
              /\ Len(Bodies2(queues[Q])) = Len(queues[Q])
          BY <2>0, <4>1, BodiesAppend
        <5>2. QED
          BY <3>1, <4>1, <5>1 DEF Enqueue
      <4>5. Exists(Q) = TRUE /\ Exists(Q)' = TRUE
        BY <2>9 DEF Forward, CountInv, Exists
      <4>6. Daemon!Arrive(msg.body)
        BY <2>9, <4>2, <4>4, <4>5 DEF Daemon!Arrive, Daemon!procVars, Daemon!memory, daemonVars
      <4>7. QED
        BY <4>3, <4>6 DEF Daemon!Next
    <3>2. CASE Q # i \/ msg = NoMessage
      <4>0. Exists(Q) = TRUE /\ Exists(Q)' = TRUE
        BY <2>9 DEF Forward, CountInv, Exists
      <4>1. queues'[Q] = queues[Q]
        BY <2>0, <2>9, <3>2 DEF Forward, TypeOK, Enqueue
      <4>2. Offered(Q)' = Offered(Q)
        BY <2>0, <2>9, <3>2, SizesAssumption, SMTT(20) DEF Forward, TypeOK, Offered, InLoop, Queues
      <4>3. QED
        BY <2>1, <2>9, <4>0, <4>1, <4>2
    <3>3. QED
      BY <3>1, <3>2
  <2>10. CASE Mux
    BY <2>6, <2>7, <2>8, <2>9, <2>10 DEF Mux, Dispatch
  <2>11. ASSUME NEW q \in Queues, OtherReader(q) PROVE UNCHANGED Daemon!vars
    <3>1. /\ Take(q) /\ q # Q /\ UNCHANGED daemonVars
      BY <2>11 DEF OtherReader
    <3>2. queues'[Q] = queues[Q]
      BY <3>1 DEF Take, TypeOK
    <3>3. Offered(Q)' = Offered(Q) /\ Exists(Q)' = Exists(Q)
      BY <3>1 DEF Take, dispatchVars, Offered, InLoop, Exists
    <3>4. QED
      BY <2>1, <3>1, <3>2, <3>3
  <2>12. ASSUME NEW p \in Daemons, DaemonTakes(p) \/ DaemonMoves(p) \/ DaemonEvent(p)
         PROVE  Daemon!Next
    BY <2>12 DEF DaemonTakes, DaemonMoves, DaemonEvent, Daemon!Next, Daemon!Step
  <2>13. CASE UNCHANGED allVars
    BY <2>3, <2>13 DEF allVars, muxVars
  <2>14. QED
    BY <2>4, <2>5, <2>10, <2>11, <2>12, <2>13 DEF EventsNext
<1>3. QED
  BY <1>1, <1>2, EventsRefineMultiplexer, TypeCorrect, LosslessInvariant, CountInvariant, PTL
     DEF EventsSpec, DaemonIsIpc2File, Daemon!Spec
================================================================================
