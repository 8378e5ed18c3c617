------------------------------- MODULE WsSend --------------------------------
(***************************************************************************)
(* nbhttp/websocket/conn.go: writing.  A message is cut into frames, each  *)
(* in a buffer of its own.  On a blocking connection with asynchronous     *)
(* writes the buffers go through sendQueue, which a goroutine of its own   *)
(* empties; else they are written at once.  Both the writers and the       *)
(* goroutine take c.mux, so that one step is one critical section.         *)
(***************************************************************************)
EXTENDS Integers, Sequences, FiniteSets, SequencesExt

CONSTANTS
  MaxFrame,        \* MaxWebsocketFramePayloadSize
  SendQueueSize,   \* BlockingModSendQueueMaxSize, 0 for no limit
  MaxControl       \* maxControlFramePayloadSize

ASSUME SendAssumption == MaxFrame \in Nat \ {0} /\ SendQueueSize \in Nat /\ MaxControl \in Nat

VARIABLES
  async,       \* sendQueue # nil
  netOpen,     \* the underlying net.Conn is open
  expired,     \* the write deadline of a blocking connection has passed
  delayed,     \* an AfterFunc is to close it
  closed,      \* c.closed
  sendQueue,   \* ids of buffers, NoBuf for an entry that was taken
  writer,      \* the goroutine: [at, i, pbuf]
  buffers,     \* every buffer allocated: its frame, and whether writeFrame accepted it
  freed,       \* how often each was freed
  sent         \* ids of the buffers written to the connection

sendVars == <<sendQueue, writer, buffers, freed, sent>>
closeVars == <<netOpen, delayed, expired>>

NoBuf == 0
NoWriter == [at |-> "off", i |-> 0, pbuf |-> NoBuf]
Control == {"ping", "pong", "close"}

SendInit ==
  /\ netOpen = TRUE /\ expired = FALSE /\ delayed = FALSE /\ closed = FALSE
  /\ sendQueue = <<>> /\ writer = NoWriter /\ buffers = <<>> /\ freed = <<>> /\ sent = <<>>

\* The frames of a message of n bytes: the opcode and RSV1 go with the first, fin
\* with the last, and an empty message has one frame.
Frames(messageType, n, compress) ==
  LET count == IF n = 0 THEN 1 ELSE (n + MaxFrame - 1) \div MaxFrame IN
  [k \in 1 .. count |->
     [msg |-> Len(buffers) + 1, op |-> IF k = 1 THEN messageType ELSE "cont",
      rsv1 |-> compress /\ k = 1, fin |-> k = count]]

\* A write succeeds: the deadline that commResponse or the HTTP request left
\* on the connection is never cleared.
Writable == netOpen /\ ~expired

\* How many of them writeFrame accepts before it reports an error.
Accepted(fs) ==
  IF ~async THEN (IF Writable THEN Len(fs) ELSE 0)
  ELSE IF SendQueueSize = 0 \/ Len(sendQueue) + Len(fs) <= SendQueueSize THEN Len(fs)
  ELSE SendQueueSize - Len(sendQueue)

\* Does WriteMessage return an error?
WriteFails(messageType, n, compress) ==
  \/ closed
  \/ messageType \in Control /\ n > MaxControl
  \/ LET fs == Frames(messageType, n, compress) IN Accepted(fs) < Len(fs)

\* Mutant: the head stays in the queue, where CloseAndClean finds it again.
writeFrameKeepsHead(fs) ==
  LET n     == Accepted(fs)
      made  == IF n < Len(fs) THEN n + 1 ELSE n
      ids   == [k \in 1 .. n |-> Len(buffers) + k]
      heads == async /\ sendQueue = <<>> /\ n > 0
  IN  /\ buffers' = buffers \o [k \in 1 .. made |-> [frame |-> fs[k], ok |-> k <= n]]
      /\ freed' = freed \o [k \in 1 .. made |-> IF async /\ k <= n THEN 0 ELSE 1]
      /\ sent' = IF async THEN sent ELSE sent \o ids
      /\ sendQueue' = IF async THEN sendQueue \o ids ELSE sendQueue
      /\ writer' = IF heads THEN [at |-> "write", i |-> 0, pbuf |-> ids[1]] ELSE writer

\* writeFrame for each frame: the first that is refused ends the message.  The
\* first buffer of an empty queue goes to a new goroutine.
writeFrame(fs) ==
  LET n     == Accepted(fs)
      made  == IF n < Len(fs) THEN n + 1 ELSE n
      ids   == [k \in 1 .. n |-> Len(buffers) + k]
      heads == async /\ sendQueue = <<>> /\ n > 0
  IN  /\ buffers' = buffers \o [k \in 1 .. made |-> [frame |-> fs[k], ok |-> k <= n]]
      /\ freed' = freed \o [k \in 1 .. made |-> IF async /\ k <= n THEN 0 ELSE 1]
      /\ sent' = IF async THEN sent ELSE sent \o ids
      /\ sendQueue' = IF ~async THEN sendQueue
                      ELSE IF heads THEN <<NoBuf>> \o Tail(ids) ELSE sendQueue \o ids
      /\ writer' = IF heads THEN [at |-> "write", i |-> 0, pbuf |-> ids[1]] ELSE writer

WriteMessage(messageType, n, compress) ==
  IF closed \/ (messageType \in Control /\ n > MaxControl)
  THEN UNCHANGED sendVars
  ELSE writeFrame(Frames(messageType, n, compress))

\* Conn.Close: on an asynchronous connection after a delay, so that what is
\* queued may still be sent.
Close ==
  IF async THEN delayed' = TRUE /\ UNCHANGED <<netOpen, expired>>
           ELSE netOpen' = FALSE /\ UNCHANGED <<delayed, expired>>

-----------------------------------------------------------------------------
(* The goroutine that empties the queue.                                   *)

Free(id) == freed' = [freed EXCEPT ![id] = @ + 1]

WriterWrite ==
  /\ writer.at = "write"
  /\ Free(writer.pbuf)
  /\ IF Writable
     THEN /\ sent' = Append(sent, writer.pbuf)
          /\ writer' = [writer EXCEPT !.at = "next", !.i = @ + 1, !.pbuf = NoBuf]
          /\ UNCHANGED closeVars
     ELSE writer' = NoWriter /\ Close /\ UNCHANGED sent   \* CloseWithError
  /\ UNCHANGED <<async, closed, sendQueue, buffers>>

\* Mutant: an exhausted queue keeps its length.
WriterNextKeeps ==
  /\ writer.at = "next"
  /\ IF closed \/ Len(sendQueue) <= writer.i
     THEN writer' = NoWriter /\ UNCHANGED sendQueue
     ELSE LET k == writer.i + 1 IN
          /\ writer' = IF sendQueue[k] = NoBuf THEN NoWriter
                       ELSE [writer EXCEPT !.at = "write", !.pbuf = sendQueue[k]]
          /\ sendQueue' = [sendQueue EXCEPT ![k] = NoBuf]
  /\ UNCHANGED <<async, closeVars, closed, buffers, freed, sent>>

WriterNext ==
  /\ writer.at = "next"
  /\ IF closed THEN writer' = NoWriter /\ UNCHANGED sendQueue
     ELSE IF Len(sendQueue) <= writer.i THEN writer' = NoWriter /\ sendQueue' = <<>>
     ELSE LET k == writer.i + 1 IN
          /\ writer' = IF sendQueue[k] = NoBuf THEN NoWriter
                       ELSE [writer EXCEPT !.at = "write", !.pbuf = sendQueue[k]]
          /\ sendQueue' = [sendQueue EXCEPT ![k] = NoBuf]
  /\ UNCHANGED <<async, closeVars, closed, buffers, freed, sent>>

Writer == WriterWrite \/ WriterNext

\* CloseAndClean gives back what is still queued.
CleanQueue ==
  /\ freed' = [id \in DOMAIN freed |->
                 IF \E k \in DOMAIN sendQueue : sendQueue[k] = id THEN freed[id] + 1 ELSE freed[id]]
  /\ sendQueue' = [k \in DOMAIN sendQueue |-> NoBuf]
  /\ UNCHANGED <<writer, buffers, sent>>

-----------------------------------------------------------------------------
(* Properties.                                                             *)

\* What was accepted, was written and is on its way.
AcceptedIds == {id \in 1 .. Len(buffers) : buffers[id].ok}
SentIds == {sent[k] : k \in DOMAIN sent}
Queued == {sendQueue[k] : k \in DOMAIN sendQueue} \ {NoBuf}
InHand == {writer.pbuf} \ {NoBuf}

\* Oldest first: what was written, what the goroutine has, what is queued.
OldestFirst ==
  /\ \A k, l \in DOMAIN sent : k < l => sent[k] < sent[l]
  /\ \A id \in SentIds, i \in InHand \cup Queued : id < i
  /\ \A i \in InHand, q \in Queued : i < q
  /\ \A k, l \in DOMAIN sendQueue :
       k < l /\ sendQueue[k] # NoBuf /\ sendQueue[l] # NoBuf => sendQueue[k] < sendQueue[l]

\* The frames that writeFrame accepted reach the connection in their order and
\* without a gap, whatever the goroutine and the writers do at the same time:
\* until a write fails none is lost, then only the last ones are, and until then
\* a queue with a frame in it has its goroutine.  The frames of a message are not
\* torn apart: after one without fin comes the next of its message, unless the
\* queue was full for that one (conn.go, WriteMessage and writeFrame).
SendOrder ==
  /\ OldestFirst /\ SentIds \subseteq AcceptedIds
  /\ \A id \in AcceptedIds, s \in SentIds : id < s => id \in SentIds
  /\ ~closed /\ (Writable \/ writer.at # "off") => SentIds \cup InHand \cup Queued = AcceptedIds
  /\ ~closed /\ Writable /\ Queued # {} => writer.at # "off"
  /\ \A k \in 1 .. Len(sent) - 1 :
       LET a == buffers[sent[k]].frame   b == buffers[sent[k + 1]].frame IN
       IF a.fin THEN b.op # "cont"
       ELSE \/ b.op = "cont" /\ b.msg = a.msg
            \/ \E id \in 1 .. Len(buffers) : buffers[id].frame.msg = a.msg /\ ~buffers[id].ok

\* A buffer has one owner, the queue or the goroutine, until it is freed, and is
\* freed once, also when CloseAndClean runs while the goroutine writes (conn.go,
\* writeFrame and CloseAndClean).
SendBuffersOwned ==
  \A id \in 1 .. Len(buffers) :
    Cardinality({k \in DOMAIN sendQueue : sendQueue[k] = id})
    + (IF writer.pbuf = id THEN 1 ELSE 0) + freed[id] = 1
=============================================================================
