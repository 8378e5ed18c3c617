------------------------------ MODULE AsyncRead ------------------------------
(***************************************************************************)
(* conn_unix.go, AsyncRead: reading away from the poller, for one stream   *)
(* fd of an edge-triggered or one-shot engine.                             *)
(*                                                                         *)
(* The poller turns every read event into a call of AsyncRead, which hands *)
(* a task to IOExecute (a pool, see TaskPool, that starts it later).  In   *)
(* edge-triggered mode c.readEvents folds the events that arrive while a   *)
(* task reads; in one-shot mode there is no event until the task has       *)
(* called ResetPollerEvent.  A task reads until the kernel has nothing     *)
(* left: it cuts its buffer to what it read before it compares the two, so *)
(* a short read does not end the loop.                                     *)
(*                                                                         *)
(* What a read returns is a Packet; the module that composes this one says *)
(* what the data handler does with it.                                     *)
(***************************************************************************)
EXTENDS Integers, Sequences

CONSTANTS Packets,    \* the peer's data, in the order it is sent
          Readers,    \* names for the tasks handed to IOExecute
          Modes,      \* subset of {"et", "oneshot"}: engines to consider
          MinEvents   \* bound: readEvents is not followed below this

ASSUME ModesAssumption == Modes \subseteq {"et", "oneshot"}
ASSUME MinEventsAssumption == MinEvents \in Int /\ MinEvents < 0

VARIABLES
  mode,        \* g.isOneshot, or plain EPOLLET
  toSend,      \* what the peer has not sent yet
  sock,        \* what the kernel has received and nobody has read
  edge,        \* epoll has a read event for the poller
  armed,       \* the fd is armed (always so without EPOLLONESHOT)
  readEvents,  \* c.readEvents
  poller,      \* "wait", or "undo" between AsyncRead's two AddInt32
  reader,      \* where each task is
  data,        \* what it has read and not yet handed over
  drifted      \* history: an event was taken back too late (UndoEvent)

readVars == <<mode, toSend, sock, edge, armed, readEvents, poller, reader, data, drifted>>

ReadInit == /\ mode \in Modes
            /\ toSend = Packets
            /\ sock = <<>>
            /\ edge = FALSE /\ armed = TRUE
            /\ readEvents = 0
            /\ poller = "wait"
            /\ reader = [t \in Readers |-> "none"]
            /\ data = [t \in Readers |-> <<>>]
            /\ drifted = FALSE

\* Data arrives, or the socket becomes writable while data waits: epoll has
\* a new event, and reports the fd as readable with it.
Arrive == /\ \/ /\ toSend # <<>>
                /\ sock' = Append(sock, Head(toSend))
                /\ toSend' = Tail(toSend)
             \/ sock # <<>> /\ UNCHANGED <<sock, toSend>>
          /\ edge' = TRUE
          /\ UNCHANGED <<mode, armed, readEvents, poller, reader, data, drifted>>

\* The task is handed to the pool ...
IOExecute == LET Free == {t \in Readers : reader[t] = "none"} IN
             /\ Free # {}
             /\ reader' = [reader EXCEPT ![CHOOSE t \in Free : TRUE] = "pool"]

\* ... and a worker of the pool starts it.
StartTask(t) == /\ reader[t] \in {"pool", "stranded"}
                /\ reader' = [reader EXCEPT ![t] = "read"]
                /\ UNCHANGED <<mode, toSend, sock, edge, armed, readEvents, poller, data, drifted>>

\* The pool's dispatcher has wasted its wake-up (QueuedTaskRuns of TaskPool):
\* the task is left until some later call of Go happens to free it.
StrandTask(t) == /\ reader[t] = "pool"
                 /\ reader' = [reader EXCEPT ![t] = "stranded"]
                 /\ UNCHANGED <<mode, toSend, sock, edge, armed, readEvents, poller, data, drifted>>

\* The poller takes the event and calls AsyncRead.
PollRead ==
  /\ edge /\ armed /\ poller = "wait"
  /\ edge' = FALSE
  /\ \/ /\ mode = "oneshot"
        /\ armed' = FALSE
        /\ IOExecute
        /\ UNCHANGED <<readEvents, poller>>
     \/ /\ mode = "et"
        /\ readEvents' = readEvents + 1
        /\ \/ readEvents' > 2 /\ poller' = "undo" /\ UNCHANGED reader
           \/ readEvents' = 2 /\ UNCHANGED <<poller, reader>>
           \/ readEvents' < 2 /\ IOExecute /\ UNCHANGED poller
        /\ UNCHANGED armed
  /\ UNCHANGED <<mode, toSend, sock, data, drifted>>

\* AddInt32(&c.readEvents, -1), which a task that never ends repeats for ever:
\* from MinEvents on the counter stays where it is.
OneEventLess == IF readEvents > MinEvents THEN readEvents - 1 ELSE readEvents

\* More than two events wait: this one is taken back.  The two AddInt32 are
\* not one step: a task that ends its rounds in between counts this event as
\* its own, and readEvents is one too low from then on.  A later task misses
\* zero and goes round and round, and events start further ones.
UndoEvent == /\ poller = "undo"
             /\ poller' = "wait"
             /\ readEvents' = OneEventLess
             /\ drifted' = (drifted \/ readEvents' < 1)
             /\ UNCHANGED <<mode, toSend, sock, edge, armed, reader, data>>

\* ReadAndGetConn on a Conn that is not closed: data, or EAGAIN (or the end
\* of the stream, which ends the loop the same way and closes nothing).
ReadData(t) ==
  /\ reader[t] = "read"
  /\ \/ /\ sock # <<>>
        /\ data' = [data EXCEPT ![t] = <<Head(sock)>>]
        /\ sock' = Tail(sock)
        /\ reader' = [reader EXCEPT ![t] = "data"]
     \/ /\ sock = <<>>
        /\ reader' = [reader EXCEPT ![t] = "again"]
        /\ UNCHANGED <<data, sock>>
  /\ UNCHANGED <<mode, toSend, edge, armed, readEvents, poller, drifted>>

\* The read fails: closed already, or an error for which the task closes
\* the Conn.  The task returns and leaves readEvents as it is.
ReadFails(t) == /\ reader[t] = "read"
                /\ reader' = [reader EXCEPT ![t] = "none"]
                /\ UNCHANGED <<mode, toSend, sock, edge, armed, readEvents, poller, data, drifted>>

\* onDataPtr returns.
HandedOver(t) == /\ reader[t] = "data"
                 /\ reader' = [reader EXCEPT ![t] = "read"]
                 /\ data' = [data EXCEPT ![t] = <<>>]
                 /\ UNCHANGED <<mode, toSend, sock, edge, armed, readEvents, poller, drifted>>


\* One event is done; the task goes on reading unless it was the last.
EventDone(t) ==
  /\ reader[t] = "again" /\ mode = "et"
  /\ readEvents' = OneEventLess
  /\ reader' = [reader EXCEPT ![t] = IF readEvents' = 0 THEN "none" ELSE "read"]
  /\ UNCHANGED <<mode, toSend, sock, edge, armed, poller, data, drifted>>

\* The one-shot task arms the fd again, and epoll looks whether it is
\* readable; a closed Conn is not armed.
ResetPollerEvent(t, isClosed) ==
  /\ reader[t] = "again" /\ mode = "oneshot"
  /\ reader' = [reader EXCEPT ![t] = "none"]
  /\ armed' = ~isClosed
  /\ edge' = (sock # <<>>)
  /\ UNCHANGED <<mode, toSend, sock, readEvents, poller, data, drifted>>
=============================================================================
