------------------------------ MODULE IpcMultiplex ------------------------------
(***************************************************************************)
(* The IPC multiplexer (src/ipc_cmd/ipc_cmd/ipc_multiplex.c): a library    *)
(* preloaded into the camera's dispatch process that replaces mq_receive.  *)
(* Each call receives one message from the camera's own queue and copies   *)
(* it, one mq_send after the other, onto /ipc_dispatch_1 ..                *)
(* /ipc_dispatch_9, where the readers of this project take it.  The sends  *)
(* do not block: a full queue loses the copy.                              *)
(***************************************************************************)
EXTENDS Naturals, Sequences

CONSTANTS
  Bodies,      \* the payloads a message can have
  NumQueues,   \* how many forwarding queues there are: 9 in the code
  MaxMsg,      \* depth of a forwarding queue: 64 in the code
  InboxDepth,  \* depth of the camera's own queue (external)
  NoMessage,   \* what the buffer stands for after a failed receive
  MaxSent,     \* bound: messages sent to the camera's queue
  MaxErrors,   \* bound: receives that fail
  OpenMayFail  \* whether mq_open may fail

ASSUME SizesAssumption ==
  /\ NumQueues \in Nat \ {0}
  /\ MaxMsg \in Nat \ {0}
  /\ InboxDepth \in Nat \ {0}
  /\ MaxSent \in Nat
  /\ MaxErrors \in Nat
  /\ OpenMayFail \in BOOLEAN

Queues == 1..NumQueues

\* A message keeps the number of its send, so that two sends of one payload differ.
Message == [id : 1..MaxSent, body : Bodies]

ASSUME NoMessageAssumption == NoMessage \notin Message

VARIABLES
  sent,          \* number of messages sent to the camera's queue
  inbox,         \* the camera's own queue /ipc_dispatch
  pc,            \* where the dispatch process is in mq_receive
  isInitialized, \* is_initialized of the preloaded library
  msg,           \* the message in the caller's buffer
  i,             \* the loop variable: the queue opened, or copied to, next
  errors,        \* number of receives that failed
  queues,        \* what each forwarding queue holds
  received,      \* history: what the original mq_receive returned
  taken,         \* history: what the reader of each queue took
  wasFull        \* history: which queues have ever been full

dispatchVars == <<pc, isInitialized, msg, i, errors, received>>
vars == <<sent, inbox, dispatchVars, queues, taken, wasFull>>

TypeOK ==
  /\ sent \in Nat
  /\ inbox \in Seq(Message)
  /\ pc \in {"call", "receive", "forward", "exited"}
  /\ isInitialized \in BOOLEAN
  /\ msg \in Message \cup {NoMessage}
  /\ i \in Queues
  /\ errors \in Nat
  /\ queues \in [Queues -> Seq(Message)]
  /\ \A q \in Queues : Len(queues[q]) <= MaxMsg
  /\ received \in Seq(Message)
  /\ taken \in [Queues -> Seq(Message)]
  /\ wasFull \in [Queues -> BOOLEAN]

Init ==
  /\ sent = 0
  /\ inbox = <<>>
  /\ pc = "call"
  /\ isInitialized = FALSE
  /\ msg = NoMessage
  /\ i = 1
  /\ errors = 0
  /\ queues = [q \in Queues |-> <<>>]
  /\ received = <<>>
  /\ taken = [q \in Queues |-> <<>>]
  /\ wasFull = [q \in Queues |-> FALSE]

--------------------------------------------------------------------------------
(* The senders of the camera's queue: the camera's processes and ipc_cmd. *)

Send(b) ==
  /\ sent < MaxSent
  /\ Len(inbox) < InboxDepth
  /\ sent' = sent + 1
  /\ inbox' = Append(inbox, [id |-> sent + 1, body |-> b])
  /\ UNCHANGED <<dispatchVars, queues, taken, wasFull>>

--------------------------------------------------------------------------------
(* The dispatch process, inside the replaced mq_receive. *)

\* The first call opens the forwarding queues, one after the other; one that cannot
\* be opened ends the process, and leaves those before it.
Initialize ==
  /\ pc = "call"
  /\ ~isInitialized
  /\ \/ i < NumQueues /\ i' = i + 1 /\ UNCHANGED <<pc, isInitialized>>
     \/ i = NumQueues /\ i' = 1 /\ pc' = "receive" /\ isInitialized' = TRUE
     \/ OpenMayFail /\ pc' = "exited" /\ UNCHANGED <<i, isInitialized>>
  /\ UNCHANGED <<sent, inbox, msg, errors, queues, received, taken, wasFull>>

\* Whether queue q has been made.
Exists(q) == isInitialized \/ q < i

Call ==
  /\ pc = "call"
  /\ isInitialized
  /\ pc' = "receive"
  /\ UNCHANGED <<sent, inbox, isInitialized, msg, i, errors, queues, received,
                 taken, wasFull>>

\* original_mq_receive returns the oldest message of the camera's queue ...
Receive ==
  /\ pc = "receive"
  /\ inbox # <<>>
  /\ msg' = Head(inbox)
  /\ inbox' = Tail(inbox)
  /\ received' = Append(received, Head(inbox))
  /\ i' = 1
  /\ pc' = "forward"
  /\ UNCHANGED <<sent, isInitialized, errors, queues, taken, wasFull>>

\* ... or fails (a signal): bytes_read is -1, which every mq_send below refuses.
ReceiveFails ==
  /\ pc = "receive"
  /\ errors < MaxErrors
  /\ errors' = errors + 1
  /\ msg' = NoMessage
  /\ i' = 1
  /\ pc' = "forward"
  /\ UNCHANGED <<sent, inbox, isInitialized, queues, received, taken, wasFull>>

\* Variants of Enqueue a mistake in the code would give: the copy in front of older
\* ones (a wrong priority), the oldest message overwritten.
EnqueueFront(queue, m) ==
  IF m # NoMessage /\ Len(queue) < MaxMsg THEN <<m>> \o queue ELSE queue
EnqueueOverwrite(queue, m) ==
  IF m = NoMessage THEN queue
  ELSE IF Len(queue) < MaxMsg THEN Append(queue, m) ELSE Append(Tail(queue), m)

\* What one non-blocking mq_send leaves in the queue.
Enqueue(queue, m) ==
  IF m # NoMessage /\ Len(queue) < MaxMsg THEN Append(queue, m) ELSE queue

\* Variants of Forward: the loop ends at the first copy that is refused; the
\* queues are opened without O_NONBLOCK.
ForwardBreaks ==
  /\ pc = "forward"
  /\ queues' = [queues EXCEPT ![i] = Enqueue(@, msg)]
  /\ wasFull' = [wasFull EXCEPT ![i] = @ \/ Len(queues'[i]) = MaxMsg]
  /\ IF i = NumQueues \/ queues' = queues
       THEN pc' = "call" /\ UNCHANGED i
       ELSE i' = i + 1 /\ UNCHANGED pc
  /\ UNCHANGED <<sent, inbox, isInitialized, msg, errors, received, taken>>
ForwardBlocks ==
  /\ pc = "forward"
  /\ Len(queues[i]) < MaxMsg
  /\ queues' = [queues EXCEPT ![i] = Enqueue(@, msg)]
  /\ wasFull' = [wasFull EXCEPT ![i] = @ \/ Len(queues'[i]) = MaxMsg]
  /\ IF i = NumQueues
       THEN pc' = "call" /\ UNCHANGED i
       ELSE i' = i + 1 /\ UNCHANGED pc
  /\ UNCHANGED <<sent, inbox, isInitialized, msg, errors, received, taken>>

\* One turn of the loop: a copy onto queue i, then the next queue.
Forward ==
  /\ pc = "forward"
  /\ queues' = [queues EXCEPT ![i] = Enqueue(@, msg)]
  /\ wasFull' = [wasFull EXCEPT ![i] = @ \/ Len(queues'[i]) = MaxMsg]
  /\ IF i = NumQueues
       THEN pc' = "call" /\ UNCHANGED i
       ELSE i' = i + 1 /\ UNCHANGED pc
  /\ UNCHANGED <<sent, inbox, isInitialized, msg, errors, received, taken>>

Dispatch == Initialize \/ Call \/ Receive \/ Forward

--------------------------------------------------------------------------------
(* A reader of a forwarding queue: ipc2file, ipc_read or ipc_notify. *)

Take(q) ==
  /\ queues[q] # <<>>
  /\ taken' = [taken EXCEPT ![q] = Append(@, Head(queues[q]))]
  /\ queues' = [queues EXCEPT ![q] = Tail(@)]
  /\ UNCHANGED <<sent, inbox, dispatchVars, wasFull>>

Next ==
  \/ \E b \in Bodies : Send(b)
  \/ Dispatch
  \/ ReceiveFails
  \/ \E q \in Queues : Take(q)

Spec == Init /\ [][Next]_vars

\* Only the dispatch process is scheduled fairly: no reader has to read.
FairSpec == Spec /\ WF_vars(Dispatch)

--------------------------------------------------------------------------------
(* Properties *)

\* The messages queue q has been given or refused so far.
InLoop(q) == pc = "forward" /\ msg # NoMessage /\ i <= q
Offered(q) == IF InLoop(q) THEN SubSeq(received, 1, Len(received) - 1)
                           ELSE received

\* What has reached queue q, taken or not.
Log(q) == taken[q] \o queues[q]

\* The reader of a queue sees messages in the order they were sent to the
\* camera's queue, and none twice, however the copies of one message interleave
\* with the readers (the loop of mq_receive).
InOrder ==
  \A q \in Queues : \A j, k \in 1..Len(Log(q)) :
    j < k => Log(q)[j].id < Log(q)[k].id

\* A queue that has never been full has missed nothing: a copy is lost only to
\* EAGAIN, never because another queue was full or a receive failed.
Lossless == \A q \in Queues : ~wasFull[q] => Log(q) = Offered(q)

\* The camera keeps working behind readers that never read: every message sent
\* is eventually received by the dispatch process.
Dispatched == \A n \in 1..MaxSent : sent >= n ~> (Len(received) >= n \/ pc = "exited")

Fifo(q) == INSTANCE LossyFifo WITH
  Message <- Message, Capacity <- MaxMsg,
  offered <- Offered(q), buf <- queues[q], got <- taken[q]

\* Refinement: whatever the other queues and the loop are doing, each queue seen
\* alone is a lossy FIFO of what the dispatch process received
\* (\A q \in Queues : Fifo(q)!Spec, with the quantifier where TLC evaluates it).
FifoForEach ==
  /\ \A q \in Queues : Fifo(q)!Init
  /\ [][\A q \in Queues : [Fifo(q)!Next]_(Fifo(q)!vars)]_vars
================================================================================
