------------------------------- MODULE IpcReaders -------------------------------
(***************************************************************************)
(* The two programs that read a forwarding queue besides ipc2file:         *)
(* ipc_read (src/ipc_cmd/ipc_cmd/ipc_read.c) prints each message,          *)
(* ipc_notify (src/ipc_cmd/ipc_cmd/ipc_notify.c) runs a command for each,  *)
(* with the message in hexadecimal as its argument.  Any number of them    *)
(* can be launched, on the same queue too.  They read what IpcMultiplex    *)
(* forwards: each of their receives is a Take of that module.              *)
(***************************************************************************)
EXTENDS IpcMultiplex

CONSTANTS
  Readers,      \* the processes
  Notifiers,    \* those of them that run ipc_notify
  Bytes,        \* the length of each payload
  DigitsThatFit \* how many digits fit into command_buffer behind the command

ASSUME ReadersAssumption ==
  /\ Notifiers \subseteq Readers
  /\ Bytes \in [Bodies -> Nat]
  /\ DigitsThatFit \in Nat

NoQueue == 0 \* a queue number that names no queue

VARIABLES
  at,       \* where each process is
  queue,    \* queue_number
  served,   \* history: the copies printed or handed to a command, by queue
  cleared,  \* history: the copies dropped by clear_queue, by queue
  followers \* history: queues that a second program has opened

localVars == <<at, queue, followers>>
readerVars == <<localVars, served, cleared>>
systemVars == <<vars, readerVars>>

Copies == Queues \X (1..MaxSent)

ReadersTypeOK ==
  /\ at \in [Readers -> {"off", "attr", "clear", "loop", "over"}]
  /\ queue \in [Readers -> Queues \cup {NoQueue}]
  /\ served \in SUBSET Copies
  /\ cleared \in SUBSET Copies
  /\ followers \in SUBSET Queues

ReadersInit ==
  /\ Init
  /\ at = [p \in Readers |-> "off"]
  /\ queue = [p \in Readers |-> NoQueue]
  /\ served = {}
  /\ cleared = {}
  /\ followers = {}

Oldest(q) == <<q, Head(queues[q]).id>>
OnQueue(q) == {p \in Readers : queue[p] = q}

--------------------------------------------------------------------------------

\* Options and open_queue.  A number out of range, no number or -h
\* print the usage; before the multiplexer has made the queue it cannot be opened.
\* ipc_notify without -n takes whatever its variable holds: any queue, or none.
Refused(p) == at' = [at EXCEPT ![p] = "over"] /\ UNCHANGED <<queue, followers>>
OpenQueue(p, q) ==
  /\ Exists(q)
  /\ queue' = [queue EXCEPT ![p] = q]
  /\ followers' = IF OnQueue(q) # {} THEN followers \cup {q} ELSE followers
  /\ at' = [at EXCEPT ![p] = "attr"]

\* main up to the opening of the queue.
Launch(p) ==
  /\ at[p] = "off"
  /\ Refused(p) \/ \E q \in Queues : OpenQueue(p, q)
  /\ UNCHANGED <<vars, served, cleared>>

\* Variant of GetAttr: the queue is looked at once only, as an if would.
GetAttrOnce(p) ==
  /\ at[p] = "attr"
  /\ at' = [at EXCEPT ![p] = "clear"]
  /\ UNCHANGED <<vars, queue, followers, served, cleared>>

\* clear_queue: mq_getattr, and the test of the loop.
GetAttr(p) ==
  /\ at[p] = "attr"
  /\ at' = [at EXCEPT ![p] = IF queues[queue[p]] # <<>> THEN "clear" ELSE "loop"]
  /\ UNCHANGED <<vars, queue, followers, served, cleared>>

\* The mq_receive of the loop, which blocks when another reader was faster.
Clear(p) ==
  /\ at[p] = "clear"
  /\ Take(queue[p])
  /\ cleared' = cleared \cup {Oldest(queue[p])}
  /\ at' = [at EXCEPT ![p] = "attr"]
  /\ UNCHANGED <<queue, followers, served>>

\* Whether the command line with the digits of message m fits into command_buffer.  The
\* digit that an earlier, longer message left behind them is printed too, but decides
\* nothing: that message had two digits more at least, and fitted.
Fits(m) == 2 * Bytes[m.body] <= DigitsThatFit

\* ipc_read's loop: mq_receive and parse_message, which prints the message.
Show(p) ==
  /\ at[p] = "loop" /\ p \notin Notifiers
  /\ Take(queue[p])
  /\ served' = served \cup {Oldest(queue[p])}
  /\ UNCHANGED <<at, queue, followers, cleared>>

\* Where ipc_notify is after a line that is too long; variant: it skips the message.
AfterE2BIGSkips == "loop"
AfterE2BIG == "over"

\* ipc_notify's loop: mq_receive and parse_message.  A command line that is too long
\* ends the program, and so does a command killed by signal 7, whose status is the
\* value of E2BIG.
Notify(p) ==
  /\ at[p] = "loop" /\ p \in Notifiers
  /\ Take(queue[p])
  /\ IF Fits(Head(queues[queue[p]]))
       THEN /\ served' = served \cup {Oldest(queue[p])}
            /\ \E killed \in BOOLEAN : at' = [at EXCEPT ![p] = IF killed THEN AfterE2BIG ELSE @]
       ELSE at' = [at EXCEPT ![p] = AfterE2BIG] /\ UNCHANGED served
  /\ UNCHANGED <<queue, followers, cleared>>

ReaderStep(p) == GetAttr(p) \/ Clear(p) \/ Show(p) \/ Notify(p)

ReadersNext ==
  \/ /\ (\E b \in Bodies : Send(b)) \/ Dispatch \/ ReceiveFails
     /\ UNCHANGED readerVars
  \/ \E p \in Readers : Launch(p) \/ ReaderStep(p)

ReadersSpec == ReadersInit /\ [][ReadersNext]_systemVars

\* The dispatch process goes on, and so does each reader that can; nobody has to
\* launch one.
ReadersFairSpec ==
  /\ ReadersSpec
  /\ WF_systemVars(Dispatch /\ UNCHANGED readerVars)
  /\ \A p \in Readers : WF_systemVars(ReaderStep(p))

--------------------------------------------------------------------------------
(* Properties *)

On(c) == \E k \in DOMAIN queues[c[1]] : queues[c[1]][k].id = c[2]
Taken(c) == \E k \in DOMAIN taken[c[1]] : taken[c[1]][k].id = c[2]

\* Message n waits for a program in its loop, or was taken and forgotten.
Pending(n) ==
  \E p \in Readers :
    /\ at[p] = "loop"
    /\ queue[p] \notin followers
    /\ LET c == <<queue[p], n>>
       IN On(c) \/ (Taken(c) /\ c \notin served \cup cleared)

\* A message that waits for a program in its loop is printed or handed to the command,
\* unless that program ends (a line that is too long, signal 7): none stays behind,
\* whatever is copied and whatever fails meanwhile (the loops of ipc_read and
\* ipc_notify).
Answered == \A n \in 1..MaxSent : Pending(n) ~> ~Pending(n)

\* clear_queue drops what is there and never waits for more, which it would drop
\* too: between mq_getattr and mq_receive the queue cannot become empty as long as
\* it has one reader.
ClearNeverWaits ==
  \A p \in Readers : at[p] = "clear" => queues[queue[p]] # <<>> \/ queue[p] \in followers
================================================================================
