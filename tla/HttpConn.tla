------------------------------ MODULE HttpConn -------------------------------
(***************************************************************************)
(* One HTTP connection: the poller reads and parses (HttpParser), the      *)
(* connection's runner executes the jobs, one at a time (the job list that *)
(* ConnExecute shows to be a SerialExecutor), and anybody may close.       *)
(*                                                                         *)
(* The bytes that arrive are chosen at the start; where the reads cut them *)
(* is not.                                                                 *)
(***************************************************************************)
EXTENDS HttpParser, Response, FiniteSets

CONSTANTS
  Inputs,           \* records [isClient, bytes, messages, ops], see MessagesExact
  ReadBufferSize,   \* the bytes one read delivers at most
  ReadSizes,        \* buffer sizes a handler calls Body.Read with
  Heads,            \* what handlers put into the header of a response
  WriteSizes,       \* sizes of what they write
  CloseJob          \* the job that the OnClose function pushes

ByteType == STRING \X STRING \X Nat
BodyType == [index : Nat, left : Int, closed : BOOLEAN,
             buffers : Seq([data : Seq(ByteType), cap : Nat])]
NameType == STRING \cup {Nil, "other"}   \* what Name returns
MessageType == [id : Nat, name : NameType, proto : NameType,
                headers : Seq(NameType \X Seq(ByteType)),
                body : BodyType, trailers : Seq(NameType \X NameType)]

ASSUME InputsAssumption == \A x \in Inputs : x.bytes \in Seq(ByteType)
ASSUME ReadsAssumption == ReadBufferSize \in Nat /\ ReadSizes \subseteq Nat \ {0}
ASSUME HandlersAssumption == Heads \subseteq HeadType /\ WriteSizes \subseteq Nat \ {0}
ASSUME NilAssumption == NoMsg # CloseJob /\ {NoMsg, CloseJob} \cap MessageType = {}

VARIABLES
  input,      \* what the peer sends
  fed,        \* how much of it was read
  inbox,      \* the bytes of a read that Parse has not been called with
  closing,    \* how far the close is: "no", "closed" or "notified"
  running,    \* the job in execution, NoMsg for none
  got, eof,   \* what its handler has read, and whether it saw io.EOF
  handled,    \* the messages that handlers were called with
  panicked,   \* ids of those whose handler panicked
  ops,        \* calls that handlers may still make on their Response (a bound)
  res,        \* the Response of the running job
  responses   \* the responses completed on the connection, each with its request's id

connVars == <<input, fed, inbox>>
answers == <<ops, res, responses>>
jobVars == <<closing, running, got, eof, handled, panicked, answers>>
vars == <<parserVars, connVars, jobVars>>

\* What is left to read of a body (RawBodyBuffers).
Pieces(br) == [k \in 1 .. Len(br.buffers) |->
                 IF k = 1 THEN SubSeq(br.buffers[k].data, br.index + 1, Len(br.buffers[k].data))
                 ELSE br.buffers[k].data]
JoinedUpTo(ps) == LET u[k \in 0 .. Len(ps)] == IF k = 0 THEN <<>> ELSE u[k - 1] \o ps[k] IN u
Joined(ps) == JoinedUpTo(ps)[Len(ps)]
Contents(br) == Joined(Pieces(br))

\* What a handler sees of a message.
View(m) == [name |-> m.name, proto |-> m.proto, headers |-> m.headers,
            body |-> Contents(m.body), trailers |-> m.trailers]

NoHead == [contentLength |-> None, te |-> FALSE, trailers |-> FALSE]

Init ==
  /\ input \in Inputs
  /\ isClient = input.isClient
  /\ ParserInit
  /\ fed = 0 /\ inbox = <<>>
  /\ closing = "no" /\ running = NoMsg /\ got = <<>> /\ eof = FALSE
  /\ handled = <<>> /\ panicked = {} /\ responses = <<>>
  /\ ops = input.ops /\ res = NewResponse(NoHead, TRUE)

-----------------------------------------------------------------------------
(* The poller.                                                             *)

\* A read of n bytes; Parse is called with them after the lock is released.
Fetch(n) ==
  /\ ~closed /\ pc = "idle" /\ inbox = <<>>
  /\ n <= Len(input.bytes) - fed
  /\ inbox' = SubSeq(input.bytes, fed + 1, fed + n)
  /\ fed' = fed + n
  /\ UNCHANGED <<parserVars, input, jobVars>>

DataHandler ==
  /\ inbox # <<>>
  /\ Parse(inbox)
  /\ inbox' = <<>>
  /\ UNCHANGED <<input, fed, jobVars>>

ParseStep == (ParseByte \/ Exit) /\ UNCHANGED <<connVars, jobVars>>

\* Conn.Close: the first one wins.
SetClosed == closed' = TRUE /\ closing' = IF closed THEN closing ELSE "closed"

\* DataHandler closes the connection when Parse returns an error.
ParseFailed ==
  /\ pc = "fail"
  /\ pc' = "idle" /\ data' = <<>> /\ i' = 1 /\ start' = 1
  /\ SetClosed
  /\ UNCHANGED <<isClient, state, bytesCached, tokens, framing, messages,
                 connVars, running, got, eof, handled, panicked, answers>>

-----------------------------------------------------------------------------
(* Closing.                                                                *)

\* The peer, the user, a deadline or Shutdown.
Close ==
  /\ ~closed
  /\ SetClosed
  /\ UNCHANGED <<isClient, state, bytesCached, tokens, framing, pc, data, i, start, messages,
                 connVars, running, got, eof, handled, panicked, answers>>

\* The engine's OnClose function: MustExecute of the clean-up.
OnClose ==
  /\ closing = "closed"
  /\ closing' = "notified"
  /\ jobs' = Append(jobs, CloseJob)
  /\ UNCHANGED <<isClient, state, bytesCached, tokens, framing, pc, data, i, start,
                 msg, made, released, closed, connVars,
                 running, got, eof, handled, panicked, answers>>

\* Mutant: the request under construction stays in the Processor's hands.
CloseAndCleanLeaks ==
  /\ running = CloseJob /\ pc # "parse"
  /\ running' = NoMsg
  /\ state' = "Close" /\ bytesCached' = <<>> /\ msg' = NoMsg
  /\ UNCHANGED <<isClient, tokens, framing, pc, data, i, start, made, released, jobs, closed,
                 connVars, closing, got, eof, handled, panicked, answers>>

\* The clean-up job.  It waits for the parser's mutex.
CloseAndClean ==
  /\ running = CloseJob /\ pc # "parse"
  /\ running' = NoMsg
  /\ state' = "Close" /\ bytesCached' = <<>> /\ msg' = NoMsg
  /\ IF msg # NoMsg THEN releaseMsg(msg) ELSE UNCHANGED released
  /\ UNCHANGED <<isClient, tokens, framing, pc, data, i, start, made, jobs, closed,
                 connVars, closing, got, eof, handled, panicked, answers>>

-----------------------------------------------------------------------------
(* The runner and the handlers.                                            *)

StartJob ==
  /\ running = NoMsg /\ jobs # <<>>
  /\ running' = Head(jobs) /\ jobs' = Tail(jobs)
  /\ got' = <<>> /\ eof' = FALSE
  /\ handled' = IF Head(jobs) = CloseJob THEN handled ELSE Append(handled, View(Head(jobs)))
  /\ \E h \in IF ops > 0 THEN Heads ELSE {NoHead} :
       res' = NewResponse(h, Head(jobs) # CloseJob /\ Head(jobs).proto # "HTTP/1.0")
  /\ UNCHANGED <<isClient, state, bytesCached, tokens, framing, pc, data, i, start,
                 msg, made, released, closed, connVars, closing, panicked, ops, responses>>

Serving == running \notin {NoMsg, CloseJob}

\* The handler calls Body.Read.
ReadBody(n) ==
  /\ Serving /\ ~eof
  /\ LET r == Body!Read(running.body, n) IN
     /\ got' = got \o r.out
     /\ eof' = (r.out = <<>>)
     /\ running' = [running EXCEPT !.body = r.reader]
  /\ UNCHANGED <<parserVars, connVars, closing, handled, panicked, answers>>

\* The handler closes the body itself.
CloseBody ==
  /\ Serving /\ ~running.body.closed
  /\ running' = [running EXCEPT !.body = Body!Close(@)]
  /\ UNCHANGED <<parserVars, connVars, closing, got, eof, handled, panicked, answers>>

\* request.Close
CloseAfter(m) ==
  LET values == Values(m.headers, "Connection")
      connection == {Trimmed(values[k][2]) : k \in 1 .. Len(values)}
  IN  \/ "close" \in connection
      \/ m.proto = "HTTP/1.0" /\ "keep-alive" \notin connection

\* The handler uses its Response.  On a closed connection nothing is sent, and
\* what becomes of the Response does not matter.
Respond(r) ==
  /\ Serving /\ ~isClient /\ ~closed /\ ~res.hijacked /\ ops > 0
  /\ res' = r /\ ops' = ops - 1
  /\ UNCHANGED <<parserVars, connVars, closing, running, got, eof, handled, panicked, responses>>

Responding ==
  \/ \E code \in {200, 204} : Respond(WriteHeader(res, code))
  \/ \E n \in WriteSizes : Respond(Write(res, n)) \/ (~ReadFromPanics(res) /\ Respond(ReadFrom(res, n)))
  \/ Respond(Flush(res)) \/ Respond(Hijack(res))

Answered == [id |-> running.id, res |-> Finished(res)]

\* Mutant: the connection is kept although the request asks for its close.
flushResponseKeeps ==
  /\ responses' = IF closed \/ res.hijacked THEN responses ELSE Append(responses, Answered)
  /\ UNCHANGED <<closed, closing>>

\* The response is written, which fails on a closed connection; then the
\* connection is closed if the request asks for it.  A hijacked connection is
\* left alone.
flushResponse ==
  IF closed \/ res.hijacked THEN UNCHANGED <<closed, closing, responses>>
  ELSE /\ responses' = Append(responses, Answered)
       /\ IF CloseAfter(running) THEN SetClosed ELSE UNCHANGED <<closed, closing>>

\* The handler returns.
ServeDone ==
  /\ Serving
  /\ running' = NoMsg
  /\ releaseMsg(running)
  /\ IF isClient THEN UNCHANGED <<closed, closing, responses>> ELSE flushResponse
  /\ UNCHANGED <<isClient, state, bytesCached, tokens, framing, pc, data, i, start,
                 msg, made, jobs, connVars, got, eof, handled, panicked, ops, res>>

\* The handler panics: the runner recovers and goes on with the next job.
HandlerPanics ==
  /\ Serving
  /\ running' = NoMsg
  /\ panicked' = panicked \cup {running.id}
  /\ UNCHANGED <<parserVars, connVars, closing, got, eof, handled, answers>>

Next ==
  \/ \E n \in 1 .. ReadBufferSize : Fetch(n)
  \/ DataHandler \/ ParseStep \/ ParseFailed
  \/ Close \/ OnClose \/ CloseAndClean
  \/ StartJob
  \/ \E n \in ReadSizes : ReadBody(n)
  \/ CloseBody \/ Responding \/ ServeDone \/ HandlerPanics

Spec == Init /\ [][Next]_vars

-----------------------------------------------------------------------------
(* Properties.                                                             *)

\* input.messages lists what the input says, each message as
\* [view, last, ok]: what a handler is to see, the position of its last byte,
\* and whether it is well-formed and within MaxHTTPBodySize.
consumed == fed - Len(inbox) - (IF pc = "parse" THEN Len(data) - i + 1 ELSE 0)
Over == {k \in 1 .. Len(input.messages) : input.messages[k].last <= consumed}
Delivered ==
  handled \o [k \in 1 .. Len(SelectSeq(jobs, LAMBDA j : j # CloseJob)) |-> View(jobs[k])]

\* The messages that handlers are called with are those of the input, in their
\* order and with their headers, bodies and trailers, however the reads cut the
\* input (nbhttp/parser.go, Parse and its Exit).  On an open connection that
\* parsed without an error they are all those that have arrived completely; an
\* error is reported only for a malformed or too long message or at the read
\* limit, and a malformed one is never passed over.
MessagesExact ==
  /\ Len(Delivered) <= Len(input.messages)
  /\ \A k \in 1 .. Len(Delivered) : /\ input.messages[k].ok
                                    /\ Delivered[k] = input.messages[k].view
  /\ ~closed /\ pc # "fail" => Over = 1 .. Len(Delivered)
  /\ pc = "fail" /\ data # <<>> /\ ~closed =>
       LET k == Len(Delivered) + 1 IN k \in 1 .. Len(input.messages) /\ ~input.messages[k].ok

\* A handler reads the body from its first byte on without a gap, whatever
\* buffers hold it and whatever sizes it reads with, and sees io.EOF exactly
\* behind the last byte, or when it has closed the body itself; the counter of
\* bytes left agrees with the buffers (nbhttp/body.go, append, Read and Close).
BodyInOrder ==
  Serving =>
    LET body == handled[Len(handled)].body IN
    /\ got = SubSeq(body, 1, Len(got))
    /\ running.body.left = Len(Contents(running.body))
    /\ ~running.body.closed => got \o Contents(running.body) = body
    /\ eof => running.body.closed \/ got = body

\* A pooled request or response has one owner: the parser, the job list, the
\* handler or, once given back, the pool.  It is given back once, also when the
\* connection is closed between any two steps; only a panicking handler keeps it
\* (nbhttp/processor.go, OnComplete, flushResponse and Clean).
Owners(id) ==
  LET one(b) == IF b THEN 1 ELSE 0 IN
  one(msg # NoMsg /\ msg.id = id)
  + Cardinality({k \in 1 .. Len(jobs) : jobs[k] # CloseJob /\ jobs[k].id = id})
  + one(Serving /\ running.id = id)
  + one(id \in panicked)
  + released[id]

ReleasedOnce == \A id \in 1 .. made : Owners(id) = 1

\* What is kept between two reads is bounded by ReadLimit, or by one read: a
\* peer that never completes a line or a body is cut off (nbhttp/parser.go,
\* Parse).
CachedBounded ==
  ReadLimit > 0 => Len(bytesCached) <= IF ReadLimit > ReadBufferSize THEN ReadLimit ELSE ReadBufferSize

\* Pipelined requests are answered in their order, each at most once, and no
\* request is answered after one that asked for the close of the connection.
\* A client reads each response as the handler wrote it: one head with a status,
\* then the body in its order and whole, in well-formed chunks or in as many
\* units as the head declares, whichever calls the handler made and whatever
\* was cached or sent directly between them (nbhttp/processor.go,
\* flushResponse; nbhttp/response.go).  Where that is not so (flawed), see
\* Response, and where the handler breaks its own Content-Length, it is not claimed.
ResponsesExact ==
  /\ \A a, b \in 1 .. Len(responses) :
       a < b => /\ responses[a].id < responses[b].id
                /\ ~CloseAfter(handled[responses[a].id])
  /\ \A a \in 1 .. Len(responses) :
       LET r == responses[a].res IN r.flawed \/ ~AsDeclared(r) \/ ReadsAs(r)
=============================================================================
