----------------------------- MODULE WebSocket -------------------------------
(***************************************************************************)
(* One WebSocket connection (nbhttp/websocket): the upgrade, the reader    *)
(* that takes frames from what arrived (conn.go, Parse), the runner that   *)
(* executes the handlers, the writers (WsSend), and closing.               *)
(*                                                                         *)
(* How a connection is driven (mode):                                      *)
(*   poller    nbio connection: the poller parses, the connection's job    *)
(*             list runs the handlers; Upgrade is itself one of its jobs   *)
(*   transfer  a blocking connection that Upgrade adds to a poller         *)
(*   oneshot   the same on an ET and one-shot engine: the reader runs the  *)
(*             handlers, the job list only the clean-up                    *)
(*   dial      Dialer: the poller handles the 101 and then parses          *)
(*   parser    blocking connection of the engine: its read loop runs       *)
(*             Upgrade and the handlers itself                             *)
(*   loop      connection of a std server: HandleRead in a new goroutine   *)
(*                                                                         *)
(* A frame is a sequence of units on the wire: the first two bytes, the    *)
(* rest of the head, the payload.  A unit is <<frame, position>>.  Reads   *)
(* cut the units anywhere.                                                 *)
(***************************************************************************)
EXTENDS WsSend

CONSTANTS
  Modes,
  Requests,            \* upgrade requests and responses, see commCheck and DialCheck
  Inputs,              \* records [frames, messages, onMessage, sends]: what the peer sends, see
                       \* WsMessagesExact, messageHandler # nil, and how much the user writes
  ReadLimit,           \* engine.ReadLimit
  ReadSize,            \* units one read returns at most
  MessageLengthLimit,  \* 0 for no limit
  Compression,         \* enableCompression
  HasFrameHandler,     \* dataFrameHandler # nil
  SendSizes            \* sizes of the messages a user writes

WireFrame ==
  [len : Nat, negative : BOOLEAN, op : STRING, fin : BOOLEAN, rsv1 : BOOLEAN, rsv23 : BOOLEAN, ext : BOOLEAN,
   utf8 : BOOLEAN, corrupt : BOOLEAN, inflated : Nat, code : Nat]
ASSUME InputAssumption ==
  /\ \A i \in Inputs : i.sends \in Nat /\ i.frames \in Seq(WireFrame)
  /\ SendSizes \subseteq Nat
ASSUME LimitAssumption == {ReadLimit, ReadSize, MessageLengthLimit} \subseteq Nat

VARIABLES
  mode, request, input,
  phase,       \* of the upgrade: "check", "respond", "open", "done", "failed"
  sends,       \* messages the user may still write (a bound)
  fed,         \* how many units of the input were read
  inbox,       \* a read that Parse was not called with yet
  pc,          \* the reader: "idle", "frame", "handoff", "calling", "fail", "toobig",
               \* "drop", "lost", "gone"
  out,         \* jobs that Parse is to hand over
  bytesCached, message, msgType, compress, expectingFragments,
  jobs,        \* the connection's job list
  notified,    \* the engine's OnClose function has run
  session,     \* chSessionInited: "nil", "pending", and "set" when it is closed
  events       \* the callbacks made: "open", "close", messages and frames

upgradeVars == <<mode, request, input, phase>>
parseVars == <<bytesCached, message, msgType, compress, expectingFragments>>
readVars == <<fed, inbox, pc, out, parseVars>>
vars == <<async, closeVars, closed, sendVars, upgradeVars, sends, readVars, jobs, notified,
          session, events>>

Blocking == mode \in {"parser", "loop"}     \* a read loop, which runs the handlers
Transferred == mode \in {"transfer", "oneshot"}
ByReader == mode = "oneshot"                \* SyncExecutor beside the job list
Nil == <<>>
CleanJob == [kind |-> "clean"]

Init ==
  /\ mode \in Modes /\ request \in {r \in Requests : (r.start = "101") = (mode = "dial")} /\ input \in Inputs
  /\ async \in IF Blocking THEN BOOLEAN ELSE {FALSE}
  /\ SendInit
  /\ phase = "check" /\ sends = input.sends
  /\ fed = 0 /\ inbox = Nil /\ pc = "idle" /\ out = Nil
  /\ bytesCached = Nil /\ message = Nil /\ msgType = "cont" /\ compress = FALSE
  /\ expectingFragments = FALSE
  /\ jobs = <<>> /\ notified = FALSE /\ session = "nil" /\ events = <<>>

\* A short head that carries no mask has no second unit.
HeadLen(f) == IF mode = "dial" /\ ~f.ext THEN 1 ELSE 2
Units(k) == [j \in 1 .. HeadLen(input.frames[k]) + input.frames[k].len |-> <<k, j>>]
StreamTo[k \in 0 .. Len(input.frames)] == IF k = 0 THEN <<>> ELSE StreamTo[k - 1] \o Units(k)
Stream == StreamTo[Len(input.frames)]

-----------------------------------------------------------------------------
(* The upgrade.                                                            *)

headerContains(values, token) == token \in values

\* A server's commCheck; start is the method or the status, proof the key or what
\* is computed from it.
commCheck(r) ==
  /\ headerContains(r.connection, "upgrade") /\ headerContains(r.upgrade, "websocket")
  /\ r.start = "GET" /\ headerContains(r.version, "13")
  /\ ~r.responseExtensions /\ r.sameOrigin /\ r.proof

\* A client's check of the response.
DialCheck(r) ==
  /\ r.start = "101" /\ headerContains(r.upgrade, "websocket")
  /\ headerContains(r.connection, "upgrade") /\ r.proof
  /\ "permessage-deflate" \in r.extensions => "no_context_takeover" \in r.extensions

Checked == IF mode = "dial" THEN DialCheck(request) ELSE commCheck(request)

\* permessage-deflate is negotiated: what is written may be compressed.
Deflate == "permessage-deflate" \in request.extensions /\ (mode = "dial" \/ Compression)

Refuse ==
  /\ phase = "check" /\ ~Checked
  /\ phase' = "failed"
  /\ UNCHANGED <<mode, request, input, async, closeVars, closed, sendVars, sends, readVars,
                 jobs, notified, session, events>>

\* Hijack, newConn, and the Conn becomes the session of the connection (or the
\* parser's ParserCloser): from here on the reader calls its Parse.
Hijack ==
  /\ phase = "check" /\ Checked
  /\ phase' = IF mode = "dial" THEN "open" ELSE "respond"
  /\ UNCHANGED <<mode, request, input, async, closeVars, closed, sendVars, sends, readVars,
                 jobs, notified, session, events>>

\* AddTransferredConn refuses the connection: the session is cleared again.
TransferFails ==
  /\ phase = "check" /\ Checked /\ Transferred
  /\ phase' = "failed"
  /\ UNCHANGED <<mode, request, input, async, closeVars, closed, sendVars, sends, readVars,
                 jobs, notified, session, events>>

\* The 101 is written; if that fails the connection is closed and forgotten.
commResponse ==
  /\ phase = "respond"
  /\ phase' = IF netOpen THEN "open" ELSE "failed"
  /\ UNCHANGED <<mode, request, input, async, closeVars, closed, sendVars, sends, readVars,
                 jobs, notified, session, events>>

\* Mutant: the open handler is called behind the start of the reading.
openHandlerLate ==
  \/ /\ phase = "open"
     /\ phase' = "done"
     /\ session' = IF mode = "loop" THEN "pending" ELSE session
     /\ UNCHANGED <<mode, request, input, async, closeVars, closed, sendVars, sends, readVars,
                    jobs, notified, events>>
  \/ /\ phase = "done" /\ ~\E k \in DOMAIN events : events[k] = <<"open">>
     /\ events' = Append(events, <<"open">>)
     /\ UNCHANGED <<mode, request, input, async, closeVars, closed, sendVars, sends, readVars,
                    jobs, notified, phase, session>>

\* The open handler; HandleRead is started behind it.
openHandler ==
  /\ phase = "open"
  /\ phase' = "done"
  /\ events' = Append(events, <<"open">>)
  /\ session' = IF mode = "loop" THEN "pending" ELSE session
  /\ UNCHANGED <<mode, request, input, async, closeVars, closed, sendVars, sends, readVars,
                 jobs, notified>>

\* The http.Handler sets the session when Upgrade has returned.
SetSession ==
  /\ phase = "done" /\ session = "pending"
  /\ session' = "set"
  /\ UNCHANGED <<async, closeVars, closed, sendVars, upgradeVars, sends, readVars, jobs,
                 notified, events>>

-----------------------------------------------------------------------------
(* Parsing.                                                                *)

isMessageTooLarge(n) == MessageLengthLimit > 0 /\ n > MessageLengthLimit

\* Mutant: a control frame may be a fragment, and a data frame may come between.
validFrameLax(f) == (f.rsv1 => Compression) /\ ~f.rsv23 /\ f.op # "reserved"

validFrame(f) ==
  /\ f.rsv1 => Compression
  /\ ~f.rsv23
  /\ f.op # "reserved"
  /\ ~f.fin => f.op \in {"cont", "text", "binary"}
  /\ expectingFragments => f.op \notin {"text", "binary"}

\* What the cached bytes begin with: an error, an incomplete frame or a frame.
\* The length is known when the head is complete, or from its first two bytes;
\* one of 64 bits may be negative.
nextFrame ==
  IF bytesCached = Nil THEN [is |-> "more"]
  ELSE
    LET f       == input.frames[bytesCached[1][1]]
        l       == Len(bytesCached)
        bodyLen == IF f.ext /\ l < 2 THEN 0 - 1 ELSE f.len
        total   == HeadLen(f) + bodyLen
    IN  IF f.ext /\ f.negative /\ l >= 2 THEN [is |-> "fail"]
        ELSE IF \/ isMessageTooLarge(Len(message) + bodyLen)
                \/ bodyLen > MaxControl /\ f.op \in Control THEN [is |-> "toobig"]
        ELSE IF bodyLen < 0 \/ l < total THEN [is |-> "more"]
        ELSE IF ~validFrame(f) THEN [is |-> "fail"]
        ELSE [is |-> "frame", frame |-> f, total |-> total,
              body |-> SubSeq(bytesCached, HeadLen(f) + 1, total)]

\* readAll: a message of the limit's length may fill the buffer before the
\* decompressor reports its end; it is refused then.
readAllOutcomes(f) ==
  IF f.corrupt THEN {"fail"}
  ELSE IF isMessageTooLarge(f.inflated) THEN {"toobig"}
  ELSE IF isMessageTooLarge(f.inflated + 1) THEN {"ok", "toobig"}
  ELSE {"ok"}

\* A read.  Nothing comes before the peer has seen the 101 (a client: sent it).
Fetch(n) ==
  /\ pc = "idle" /\ inbox = Nil /\ netOpen
  /\ phase \in (IF mode = "poller" \/ Transferred THEN {"open", "done"} ELSE {"done"})
  /\ Blocking => jobs = <<>>
  /\ n <= Len(Stream) - fed
  /\ inbox' = SubSeq(Stream, fed + 1, fed + n)
  /\ fed' = fed + n
  /\ UNCHANGED <<async, closeVars, closed, sendVars, upgradeVars, sends, pc, out, parseVars,
                 jobs, notified, session, events>>

\* Mutant: no limit on what is cached.
ParseUnlimited ==
  /\ pc = "idle" /\ inbox # Nil
  /\ inbox' = Nil
  /\ IF closed THEN pc' = "fail" /\ UNCHANGED bytesCached
     ELSE pc' = "frame" /\ bytesCached' = bytesCached \o inbox
  /\ UNCHANGED <<async, closeVars, closed, sendVars, upgradeVars, sends, fed, out, message,
                 msgType, compress, expectingFragments, jobs, notified, session, events>>

Parse ==
  /\ pc = "idle" /\ inbox # Nil
  /\ inbox' = Nil
  /\ IF closed THEN pc' = "fail" /\ UNCHANGED bytesCached
     ELSE IF ReadLimit > 0 /\ bytesCached # Nil /\ Len(bytesCached) + Len(inbox) > ReadLimit
     THEN pc' = "drop" /\ UNCHANGED bytesCached
     ELSE pc' = "frame" /\ bytesCached' = bytesCached \o inbox
  /\ UNCHANGED <<async, closeVars, closed, sendVars, upgradeVars, sends, fed, out, message,
                 msgType, compress, expectingFragments, jobs, notified, session, events>>

Consume(r) == bytesCached' = SubSeq(bytesCached, r.total + 1, Len(bytesCached))

FrameJob(type, fin, body) ==
  IF body # Nil /\ HasFrameHandler
  THEN <<[kind |-> "frame", op |-> type, fin |-> fin, body |-> body]>> ELSE <<>>

\* A data frame: the first of a message decides its type and compression, the
\* last completes it.  A message without a byte is dropped.  Without a message
\* handler nothing is put together, and the first type stays.
DataFrame(r) ==
  LET f     == r.frame
      first == msgType = "cont"
      type  == IF first THEN f.op ELSE msgType
      z     == IF first THEN f.rsv1 ELSE compress
      whole == message \o r.body
  IN  IF ~input.onMessage
      THEN /\ msgType' = type /\ compress' = z /\ UNCHANGED <<message, expectingFragments>>
           /\ out' = FrameJob(type, f.fin, r.body) /\ pc' = "handoff"
           /\ Consume(r)
      ELSE IF ~f.fin
      THEN /\ message' = whole /\ msgType' = type /\ compress' = z
           /\ expectingFragments' = TRUE
           /\ out' = FrameJob(type, FALSE, r.body) /\ pc' = "handoff"
           /\ Consume(r)
      ELSE \E o \in IF ~z THEN {"ok"} ELSE IF whole = Nil THEN {"panic"} ELSE readAllOutcomes(f) :
             IF o = "ok"
             THEN /\ message' = Nil /\ msgType' = "cont" /\ compress' = FALSE
                  /\ expectingFragments' = FALSE
                  /\ out' = (IF whole = Nil THEN <<>>
                             ELSE <<[kind |-> "message", op |-> type, body |-> whole,
                                     utf8 |-> f.utf8]>>) \o FrameJob(type, TRUE, r.body)
                  /\ pc' = "handoff" /\ Consume(r)
             ELSE /\ message' = Nil /\ msgType' = type /\ compress' = z
                  /\ UNCHANGED <<expectingFragments, out>>
                  /\ pc' = CASE o = "panic" -> "drop" [] o # "panic" -> o
                  /\ bytesCached' = IF o = "panic" THEN Nil ELSE bytesCached

\* One turn of Parse's loop, under c.mux; the reader ran its handlers before.
ParseFrame ==
  /\ pc = "frame" /\ (Blocking => jobs = <<>>)
  /\ LET r == nextFrame IN
     CASE closed -> pc' = "idle" /\ UNCHANGED <<out, parseVars>>
       [] ~closed /\ r.is = "more" -> pc' = "idle" /\ UNCHANGED <<out, parseVars>>
       [] ~closed /\ r.is \in {"fail", "toobig"} -> pc' = r.is /\ UNCHANGED <<out, parseVars>>
       [] ~closed /\ r.is = "frame" ->
            CASE r.frame.op \in {"cont", "text", "binary"} -> DataFrame(r)
              [] r.frame.op \in Control ->
                   /\ out' = <<[kind |-> "protocol", op |-> r.frame.op, n |-> Len(r.body),
                                code |-> r.frame.code, utf8 |-> r.frame.utf8]>>
                   /\ pc' = "handoff" /\ Consume(r)
                   /\ UNCHANGED <<message, msgType, compress, expectingFragments>>
              [] OTHER -> pc' = "fail" /\ UNCHANGED <<out, parseVars>>
  /\ UNCHANGED <<async, closeVars, closed, sendVars, upgradeVars, sends, fed, inbox, jobs,
                 notified, session, events>>

\* handleMessage, handleDataFrame and handleProtocolMessage, without the lock.
\* Execute refuses jobs of a closed connection; SyncExecutor runs them at once.
Executed == IF Blocking \/ ByReader \/ netOpen THEN out ELSE <<>>
HandOff ==
  /\ pc = "handoff" /\ (ByReader => out = Nil)
  /\ jobs' = jobs \o Executed
  /\ out' = Nil
  /\ pc' = "frame"
  /\ UNCHANGED <<async, closeVars, closed, sendVars, upgradeVars, sends, fed, inbox, parseVars,
                 notified, session, events>>

\* Parse returned an error: the poller's data handler closes the connection,
\* HandleRead ends; the engine's blocking read loop goes on, and when bytes were
\* dropped it no longer knows where a frame begins ("lost": not followed further).
ParseFails ==
  /\ pc \in {"fail", "toobig", "drop"}
  /\ IF pc = "toobig" THEN WriteMessage("close", 2, FALSE) ELSE UNCHANGED sendVars
  /\ pc' = IF mode = "loop" THEN "gone" ELSE IF mode = "parser" /\ pc = "drop" THEN "lost" ELSE "idle"
  /\ netOpen' = (netOpen /\ Blocking) /\ UNCHANGED <<delayed, expired>>
  /\ UNCHANGED <<async, closed, upgradeVars, sends, fed, inbox, out, parseVars, jobs, notified,
                 session, events>>

-----------------------------------------------------------------------------
(* Handlers.                                                               *)

\* The connection's runner is busy with Upgrade until that returns.
RunnerFree == /\ mode = "poller" => phase \in {"done", "failed"}
              /\ Blocking => pc = "frame"

\* 1005 stands for a close frame without a code.
CloseCode(j) == IF j.n = 0 THEN 1005 ELSE IF j.n >= 2 THEN j.code ELSE 1002
validCloseCode(code) == code \in {1000, 1001, 1002, 1003, 1007, 1008, 1009, 1010, 1011, 1015} \cup 3000 .. 4999

\* handleWsMessage
handleWsMessage(j) ==
  CASE j.op = "binary" \/ (j.op = "text" /\ j.utf8) ->
         /\ events' = IF closed THEN events ELSE Append(events, <<"message", j.op, j.body>>)
         /\ UNCHANGED <<sendVars, closeVars>>
    [] j.op = "text" /\ ~j.utf8 ->
         /\ WriteMessage("close", 2, FALSE) /\ Close /\ UNCHANGED events
    [] j.op = "ping" ->
         /\ WriteMessage("pong", j.n, FALSE)
         /\ IF WriteFails("pong", j.n, FALSE) THEN Close ELSE UNCHANGED closeVars
         /\ UNCHANGED events
    [] j.op = "pong" -> UNCHANGED <<sendVars, closeVars, events>>
    [] j.op = "close" ->      \* an answer with the same or another code
         /\ LET bad == j.n >= 2 /\ ~(validCloseCode(j.code) /\ j.utf8)
                n   == IF CloseCode(j) = 1005 THEN 0 ELSE IF bad THEN 2 ELSE j.n
            IN  WriteMessage("close", n, FALSE)
         /\ Close /\ UNCHANGED events
    [] OTHER ->               \* a message that begins with a continuation
         Close /\ UNCHANGED <<sendVars, events>>

\* SyncExecutor: the reader runs a job.  A callback's test of c.closed is a step
\* of its own, so that CloseAndClean may run on the job list before the call.
Calls(j) == j.kind = "frame" \/ j.op = "binary" \/ (j.op = "text" /\ j.utf8)
Callback(j) == IF j.kind = "frame" THEN <<"frame", j>> ELSE <<"message", j.op, j.body>>
RunHere ==
  /\ pc = "handoff" /\ ByReader /\ out # Nil
  /\ IF Calls(Head(out))
     THEN /\ IF closed THEN out' = Tail(out) /\ UNCHANGED pc ELSE pc' = "calling" /\ UNCHANGED out
          /\ UNCHANGED <<sendVars, closeVars, events>>
     ELSE out' = Tail(out) /\ UNCHANGED pc /\ handleWsMessage(Head(out))
  /\ UNCHANGED <<async, closed, upgradeVars, sends, fed, inbox, parseVars, jobs, notified, session>>
CallHere ==
  /\ pc = "calling"
  /\ events' = Append(events, Callback(Head(out)))
  /\ out' = Tail(out) /\ pc' = "handoff"
  /\ UNCHANGED <<async, closeVars, closed, sendVars, upgradeVars, sends, fed, inbox, parseVars, jobs,
                 notified, session>>

\* A handler that uses the session waits for it.
RunJob ==
  /\ RunnerFree /\ jobs # <<>> /\ Head(jobs).kind # "clean"
  /\ session # "pending"
  /\ jobs' = Tail(jobs)
  /\ IF Head(jobs).kind = "frame"
     THEN /\ events' = IF closed THEN events ELSE Append(events, <<"frame", Head(jobs)>>)
          /\ UNCHANGED <<sendVars, closeVars>>
     ELSE handleWsMessage(Head(jobs))
  /\ UNCHANGED <<async, closed, upgradeVars, sends, readVars, notified, session>>

-----------------------------------------------------------------------------
(* The user, the peer, and closing.                                        *)

\* WriteMessage of any goroutine, Keepalive's ping included.
Send(type, n) ==
  /\ sends > 0 /\ phase = "done"
  /\ sends' = sends - 1
  /\ WriteMessage(type, n, Deflate /\ type = "binary")
  /\ UNCHANGED <<async, closeVars, closed, upgradeVars, readVars, jobs, notified, session, events>>

UserCloses ==
  /\ phase = "done" /\ netOpen /\ ~delayed
  /\ Close
  /\ UNCHANGED <<async, closed, sendVars, upgradeVars, sends, readVars, jobs, notified, session,
                 events>>

\* The write deadline of a blocking connection (a poller closes the connection).
WriteDeadline ==
  /\ Blocking /\ phase = "done" /\ Writable
  /\ expired' = TRUE /\ UNCHANGED <<netOpen, delayed>>
  /\ UNCHANGED <<async, closed, sendVars, upgradeVars, sends, readVars, jobs, notified, session,
                 events>>

\* The peer, a deadline, or the delayed close.
NetCloses ==
  /\ netOpen
  /\ netOpen' = FALSE /\ UNCHANGED <<delayed, expired>>
  /\ UNCHANGED <<async, closed, sendVars, upgradeVars, sends, readVars, jobs, notified, session,
                 events>>

DelayedClose == delayed /\ NetCloses

\* Mutant: with Execute, which refuses jobs of a closed connection.
OnCloseExecute ==
  /\ ~Blocking /\ ~netOpen /\ ~notified /\ (Transferred => phase # "check")
  /\ notified' = TRUE
  /\ UNCHANGED <<async, closeVars, closed, sendVars, upgradeVars, sends, readVars, jobs, session,
                 events>>

\* The engine's OnClose function pushes the clean-up of the session.
OnClose ==
  /\ ~Blocking /\ ~netOpen /\ ~notified /\ (Transferred => phase # "check")
  /\ notified' = TRUE
  /\ jobs' = Append(jobs, CleanJob)
  /\ UNCHANGED <<async, closeVars, closed, sendVars, upgradeVars, sends, readVars, session, events>>

\* CloseAndClean
CloseAndClean ==
  IF closed THEN UNCHANGED <<closed, netOpen, sendVars, bytesCached, message, session, events>>
  ELSE /\ closed' = TRUE /\ netOpen' = FALSE
       /\ CleanQueue
       /\ bytesCached' = Nil /\ message' = Nil
       /\ session' = IF session = "pending" THEN "set" ELSE session
       /\ events' = Append(events, <<"close">>)

\* The clean-up job.  The session is still the HTTP parser's before Hijack, and
\* nil after a failed response.
CleanUp ==
  /\ ~Blocking /\ RunnerFree /\ jobs # <<>> /\ Head(jobs) = CleanJob
  /\ jobs' = Tail(jobs)
  /\ IF phase \in {"check", "failed"}
     THEN UNCHANGED <<closed, netOpen, sendVars, bytesCached, message, session, events>>
     ELSE CloseAndClean
  /\ UNCHANGED <<async, delayed, expired, upgradeVars, sends, fed, inbox, pc, out, msgType, compress,
                 expectingFragments, notified>>

\* The reader of a blocking connection ends: Read fails, or Parse in HandleRead.
\* The engine's loop cleans the Conn also when the response could not be written.
ReadEnds ==
  /\ Blocking /\ jobs = <<>>
  /\ pc = "gone" \/ (pc \in {"idle", "lost"} /\ inbox = Nil /\ ~netOpen)
  /\ phase \in (IF mode = "parser" THEN {"done", "failed"} ELSE {"done"})
  /\ mode = "parser" /\ phase = "failed" => Checked
  /\ ~closed
  /\ pc' = "gone"
  /\ CloseAndClean
  /\ UNCHANGED <<async, delayed, expired, upgradeVars, sends, fed, inbox, out, msgType, compress,
                 expectingFragments, jobs, notified>>

WriterStep ==
  Writer /\ UNCHANGED <<upgradeVars, sends, readVars, jobs, notified, session, events>>

Upgrade == Refuse \/ Hijack \/ TransferFails \/ commResponse \/ openHandler
Reads == Parse \/ ParseFrame \/ HandOff \/ RunHere \/ CallHere \/ ParseFails \/ ReadEnds
Reader == (\E n \in 1 .. ReadSize : Fetch(n)) \/ Reads
Runner == RunJob \/ CleanUp \/ OnClose
User == (\E n \in SendSizes : Send("binary", n)) \/ Send("ping", 0) \/ UserCloses \/ WriteDeadline \/ NetCloses

Next == Upgrade \/ SetSession \/ Reader \/ Runner \/ WriterStep \/ User \/ DelayedClose

\* Goroutines that are runnable run; the timer fires; the http.Handler sets the
\* session.  Nothing is assumed of the user and the peer.
Spec ==
  /\ Init /\ [][Next]_vars
  /\ WF_vars(Upgrade) /\ WF_vars(SetSession) /\ WF_vars(Runner) /\ WF_vars(WriterStep)
  /\ WF_vars(DelayedClose)
  /\ WF_vars(Reads)

-----------------------------------------------------------------------------
(* Properties.                                                             *)

\* The messages that handlers got or will get, those without a byte left out.
Handed ==
  SelectSeq(events, LAMBDA e : e[1] = "message" /\ e[3] # Nil)
  \o LET open == SelectSeq(jobs \o Executed, LAMBDA j :
                 j.kind = "message" /\ j.body # Nil /\ Calls(j))
     IN  [k \in 1 .. Len(open) |-> <<"message", open[k].op, open[k].body>>]
Consumed == fed - Len(inbox) - Len(bytesCached)
Arrived == {k \in 1 .. Len(input.messages) :
              Consumed > 0 /\ input.messages[k].last <= Stream[Consumed][1]}
Payload(k) == SubSeq(Units(k), HeadLen(input.frames[k]) + 1, Len(Units(k)))
Expected(k) ==
  <<"message", input.messages[k].op, FlattenSeq([j \in DOMAIN input.messages[k].of |->
                                                   Payload(input.messages[k].of[j])])>>

\* input.messages lists the non-empty messages of the valid part of the input:
\* the type, the frames with its payload and the last frame.
\* Of the non-empty messages handlers get exactly those, in order, with the type
\* of the first frame and the payload of all, however the reads cut the frames
\* and whatever control frames and empty messages come between; on an open
\* connection all that were taken from the cached bytes, and nothing behind an
\* invalid frame (conn.go, Parse, nextFrame and validFrame).
WsMessagesExact ==
  /\ Len(Handed) <= Len(input.messages)
  /\ \A k \in 1 .. Len(Handed) : Handed[k] = Expected(k)
  /\ ~closed /\ netOpen /\ pc \in {"idle", "frame"} => Len(Handed) = Cardinality(Arrived)

\* What is kept for a connection is bounded by ReadLimit (0 for no limit), or
\* one read, and the message under construction by MessageLengthLimit; a closed
\* connection keeps nothing (conn.go, Parse, nextFrame and CloseAndClean).
WsCachedBounded ==
  /\ ReadLimit > 0 => Len(bytesCached) <= IF ReadLimit > ReadSize THEN ReadLimit ELSE ReadSize
  /\ ~isMessageTooLarge(Len(message))
  /\ closed => bytesCached = Nil /\ message = Nil

Ended(k) == events[k] = <<"close">>
Guaranteed == mode \in {"poller", "loop"} \/ (mode = "parser" /\ phase # "failed")

\* README.md: "`OnOpen/OnMessage/OnClose` order guaranteed": the open handler is
\* not called behind another, and none behind the close handler.
OrderGuaranteed ==
  \A k \in DOMAIN events : /\ events[k] = <<"open">> => k = 1
                           /\ Ended(k) => k = Len(events)

\* The close handler is called once, and no message or frame is handled behind
\* it, though the poller, the runner and the user act at the same time; when the
\* reader runs the handlers beside the job list, at most one is, whose test of
\* c.closed came before.  That order holds with the open handler in the modes in
\* which one goroutine at a time runs Upgrade and the handlers (upgrader.go,
\* Upgrade; conn.go, CloseAndClean and the handlers' test of c.closed).
CallbackOrder ==
  /\ \A k \in DOMAIN events : Ended(k) =>
       \A i, j \in k + 1 .. Len(events) :
         /\ ~Ended(j) /\ (~ByReader => events[j] = <<"open">>)
         /\ events[i] # <<"open">> /\ events[j] # <<"open">> => i = j
  /\ Guaranteed => OrderGuaranteed /\ (events # <<>> => events[1] = <<"open">>)

\* When the connection of an opened Conn has gone, the close handler is called,
\* no handler waits for the session and the goroutine of the send queue ends
\* (conn.go, CloseAndClean, writeFrame; upgrader.go, Upgrade).  A dialed
\* connection whose close looked at the session before the dialer set it is
\* left out: its Conn is never cleaned.
CloseCompletes ==
  (phase = "done" /\ ~netOpen /\ (mode = "dial" => ~notified))
    ~> (closed /\ session # "pending" /\ writer.at = "off")
=============================================================================
