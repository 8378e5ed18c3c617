----------------------------- MODULE HttpParser ------------------------------
(***************************************************************************)
(* nbhttp/parser.go and nbhttp/processor.go: the parser of one connection, *)
(* as a server (requests) or as a client (responses).  Parse works byte by *)
(* byte on what a read delivered, appended to what the reads before left   *)
(* unfinished (bytesCached); everything from start on is kept for the next *)
(* call.  A complete message becomes a job of the connection.              *)
(*                                                                         *)
(* A byte is <<class, name, k>>: the k-th byte of a two-byte name (method, *)
(* URL, protocol, header key or value, size), a delimiter, or the k-th     *)
(* byte of the body of the message with that name.  So a slice is a name   *)
(* exactly when it was cut at the right places.                            *)
(***************************************************************************)
EXTENDS Integers, Sequences

CONSTANTS
  ReadLimit,        \* Engine.ReadLimit, 0 for no limit
  MaxHTTPBodySize,  \* Engine.MaxHTTPBodySize, 0 for no limit
  Spare,            \* spare capacities the body allocator may give
  NoMsg             \* nil

ASSUME LimitsAssumption == ReadLimit \in Nat /\ MaxHTTPBodySize \in Nat /\ Spare \subseteq Nat

Body == INSTANCE BodyReader

VARIABLES
  isClient, state, bytesCached, headerKey, headerExists, header, trailer,
  chunked, contentLength, chunkSize,  \* fields of Parser
  statusCode,  \* p.statusCode
  word,        \* p.proto, p.status or the headerValue of a trailer: at most one is set
  pc,          \* Parse is not called ("idle"), runs ("parse") or has failed
  data, i, start,  \* its locals
  msg,         \* the Processor's request or response
  made,        \* messages taken from the pool so far
  released,    \* how often each of them was given back
  closed,      \* the Conn is closed: Execute refuses jobs
  jobs         \* the Conn's jobs that have not been started

tokens   == <<headerKey, word, statusCode>>
framing  == <<headerExists, header, trailer, chunked, contentLength, chunkSize>>
messages == <<msg, made, released, jobs>>
parserVars == <<isClient, state, bytesCached, tokens, framing, pc, data, i, start, messages, closed>>

-----------------------------------------------------------------------------
(* Bytes.                                                                  *)

Nil == ""   \* the empty string

\* The name a slice spells; "other" unless it is cut at both its ends.
Name(s) == CASE s = <<>> -> Nil
             [] Len(s) = 2 /\ s[1][2] = s[2][2] /\ s[1][3] = 1 /\ s[2][3] = 2 -> s[1][2]
             [] OTHER -> "other"

\* The same without the spaces at its ends (TrimString).
Trimmed(s) ==
  LET text == {k \in DOMAIN s : s[k][1] # "sp"}
  IN  IF text = {} THEN Nil
      ELSE Name(SubSeq(s, CHOOSE k \in text : \A j \in text : k <= j,
                          CHOOSE k \in text : \A j \in text : j <= k))

\* The numbers that sizes spell; any other name is an error of ParseInt.
Sizes == [s \in {"0", "1", "2", "3", "4", "12"} |->
            CASE s = "0" -> 0 [] s = "1" -> 1 [] s = "2" -> 2
              [] s = "3" -> 3 [] s = "4" -> 4 [] OTHER -> 12]

\* What url.ParseRequestURI and http.ParseHTTPVersion accept.
ValidURL(u) == u # "bad"
ValidProto(p) == p \in {"HTTP/1.1", "HTTP/1.0"}

c == data[i][1]
Slice == SubSeq(data, start, i - 1)
isAlpha == c = "alpha"
isNum == c = "digit"
isHex == isNum
isToken == isAlpha \/ isNum

FirstOf(old) == IF old = Nil THEN Name(Slice) ELSE old

-----------------------------------------------------------------------------
(* Processor.                                                              *)

NewMsg == [id |-> made + 1, name |-> Nil, proto |-> Nil, headers |-> <<>>,
           body |-> Body!NewBodyReader, trailers |-> <<>>]

\* Take a message from the pool, unless one is under construction.
Obtain(m) == /\ msg' = IF msg = NoMsg THEN m ELSE msg
             /\ made' = IF msg = NoMsg THEN made + 1 ELSE made
             /\ released' = IF msg = NoMsg THEN Append(released, 0) ELSE released
             /\ UNCHANGED jobs

With(m) == msg' = m /\ UNCHANGED <<made, released, jobs>>

releaseMsg(m) == released' = [released EXCEPT ![m.id] = @ + 1]

OnHeader(k, v) == With([msg EXCEPT !.headers = Append(@, <<k, v>>)])
OnTrailerHeader(k, v) == With([msg EXCEPT !.trailers = Append(@, <<k, v>>)])

\* OnComplete hands the message to the Conn's job list; a closed Conn refuses
\* and the message is released here.
OnComplete(m) ==
  /\ msg' = NoMsg
  /\ \/ closed /\ releaseMsg(m) /\ UNCHANGED jobs
     \/ ~closed /\ jobs' = Append(jobs, m) /\ UNCHANGED released
  /\ UNCHANGED made

-----------------------------------------------------------------------------
(* Parse.                                                                  *)

Goto(s, st) == state' = s /\ start' = st /\ i' = i + 1
Stay == Goto(state, start)
Fail == /\ pc' = "fail"
        /\ UNCHANGED <<state, start, i, tokens, framing, messages>>
Keep == UNCHANGED <<tokens, framing, messages, pc>>
At(s) == pc = "parse" /\ i <= Len(data) /\ state = s

First == IF isClient THEN "ClientProtoBefore" ELSE "MethodBefore"

\* Mutant: the limit is put on a single read.
OverLimitRead(offset, n) == ReadLimit > 0 /\ n > ReadLimit

OverLimit(offset, n) == offset > 0 /\ ReadLimit > 0 /\ offset + n > ReadLimit

\* The call, with the bytes d of a read.
Parse(d) ==
  /\ pc = "idle"
  /\ LET offset == Len(bytesCached)
         fails == state = "Close" \/ OverLimit(offset, Len(d))
     IN
     /\ pc' = IF fails THEN "fail" ELSE "parse"
     /\ data' = IF fails THEN <<>> ELSE bytesCached \o d
     /\ bytesCached' = IF fails \/ offset = 0 THEN bytesCached ELSE bytesCached \o d
     /\ i' = offset + 1
  /\ start' = 1
  /\ UNCHANGED <<isClient, state, tokens, framing, messages, closed>>

\* Mutant: when bytes were cached, the consumed ones are kept with them.
ExitKeepsConsumed ==
  /\ pc = "parse" /\ i > Len(data)
  /\ bytesCached' = IF bytesCached # <<>> THEN data ELSE SubSeq(data, start, Len(data))
  /\ pc' = "idle"
  /\ data' = <<>> /\ i' = 1 /\ start' = 1
  /\ UNCHANGED <<isClient, state, tokens, framing, messages, closed>>

\* Exit: what has not been consumed is kept.
Exit ==
  /\ pc = "parse" /\ i > Len(data)
  /\ bytesCached' = SubSeq(data, start, Len(data))
  /\ pc' = "idle"
  /\ data' = <<>> /\ i' = 1 /\ start' = 1
  /\ UNCHANGED <<isClient, state, tokens, framing, messages, closed>>

RequestLine ==
  \/ /\ At("MethodBefore")
     /\ IF isAlpha THEN Goto("Method", i) /\ Keep ELSE Fail
  \/ /\ At("Method")
     /\ CASE c = "sp" /\ Name(Slice) = "GET" -> /\ Goto("PathBefore", i + 1)
                                                /\ Obtain(NewMsg)
                                                /\ UNCHANGED <<tokens, framing, pc>>
          [] isAlpha -> Stay /\ Keep
          [] OTHER -> Fail
  \/ /\ At("PathBefore")
     /\ CASE c = "slash" -> Goto("Path", i) /\ Keep
          [] c = "sp" -> Stay /\ Keep
          [] OTHER -> Fail
  \/ /\ At("Path")
     /\ CASE c # "sp" -> Stay /\ Keep
          [] c = "sp" /\ ValidURL(Name(Slice)) ->
               /\ Goto("ProtoBefore", i + 1)
               /\ With([msg EXCEPT !.name = Name(Slice)])
               /\ UNCHANGED <<tokens, framing, pc>>
          [] OTHER -> Fail
  \/ /\ At("ProtoBefore")
     /\ (IF c = "sp" THEN Stay ELSE Goto("Proto", i)) /\ Keep
  \/ /\ At("Proto")
     /\ CASE c = "sp" -> /\ word' = FirstOf(word) /\ Stay
                         /\ UNCHANGED <<headerKey, statusCode, framing, messages, pc>>
          [] c = "cr" /\ ValidProto(FirstOf(word)) ->
                         /\ With([msg EXCEPT !.proto = FirstOf(word)])
                         /\ word' = Nil /\ Goto("ProtoLF", start)
                         /\ UNCHANGED <<headerKey, statusCode, framing, pc>>
          [] c = "cr" /\ ~ValidProto(FirstOf(word)) -> Fail
          [] OTHER -> Stay /\ Keep
  \/ /\ At("ProtoLF")
     /\ IF c = "lf" THEN Goto("HeaderKeyBefore", i + 1) /\ Keep ELSE Fail

StatusLine ==
  \/ /\ At("ClientProtoBefore")
     /\ IF c = "H" THEN Goto("ClientProto", i) /\ Keep ELSE Fail
  \/ /\ At("ClientProto")
     /\ CASE c = "sp" /\ ValidProto(Name(Slice)) ->
                         /\ Goto("StatusCodeBefore", start)
                         /\ Obtain([NewMsg EXCEPT !.proto = Name(Slice)])
                         /\ UNCHANGED <<tokens, framing, pc>>
          [] c = "sp" /\ ~ValidProto(Name(Slice)) -> Fail
          [] OTHER -> Stay /\ Keep
  \/ /\ At("StatusCodeBefore")
     /\ CASE c = "sp" -> Fail
          [] isNum -> Goto("StatusCode", i) /\ Keep
          [] OTHER -> Stay /\ Keep
  \/ /\ At("StatusCode")
     /\ CASE c = "sp" -> /\ statusCode' = Name(Slice) /\ Goto("StatusBefore", start)
                         /\ UNCHANGED <<headerKey, word, framing, messages, pc>>
          [] isNum -> Stay /\ Keep
          [] OTHER -> Fail
  \/ /\ At("StatusBefore")
     /\ CASE c = "sp" -> Fail
          [] isAlpha -> Goto("Status", i) /\ Keep
          [] OTHER -> Stay /\ Keep
  \/ /\ At("Status")
     /\ CASE c = "sp" -> /\ word' = FirstOf(word) /\ Stay
                         /\ UNCHANGED <<headerKey, statusCode, framing, messages, pc>>
          [] c = "cr" -> /\ With([msg EXCEPT !.name = statusCode])
                         /\ word' = Nil /\ statusCode' = Nil
                         /\ Goto("StatusLF", start)
                         /\ UNCHANGED <<headerKey, framing, pc>>
          [] OTHER -> Stay /\ Keep
  \/ /\ At("StatusLF")
     /\ IF c = "lf" THEN Goto("HeaderKeyBefore", start) /\ Keep ELSE Fail

-----------------------------------------------------------------------------
(* Headers.  p.header holds the three that say how the message is framed.  *)

Values(h, k) == SelectSeq(h, LAMBDA kv : kv[1] = k)
Without(h, k) == SelectSeq(h, LAMBDA kv : kv[1] # k)

FramingKeys == {"Transfer-Encoding", "Content-Length", "Trailer"}

\* What the end of the header makes of them, in this order.
parseTransferEncoding ==
  LET te == Values(header, "Transfer-Encoding") IN
  [ok |-> te = <<>> \/ (Len(te) = 1 /\ Trimmed(te[1][2]) = "chunked"),
   chunked |-> chunked \/ te # <<>>,
   header |-> IF te = <<>> THEN header
              ELSE Without(Without(header, "Transfer-Encoding"), "Content-Length")]

parseContentLength(h) ==
  LET cl == Values(h, "Content-Length") IN
  IF cl = <<>> \/ Head(cl)[2] = <<>> THEN [ok |-> TRUE, length |-> -1]
  ELSE LET n == Trimmed(Head(cl)[2]) IN
       [ok |-> n \in DOMAIN Sizes, length |-> IF n \in DOMAIN Sizes THEN Sizes[n] ELSE -1]

parseTrailer(h, isChunked) ==
  LET t    == Values(h, "Trailer")
      keys == {Trimmed(t[k][2]) : k \in 1 .. Len(t)} \ {Nil}
  IN
  [ok |-> ~isChunked \/ keys \cap FramingKeys = {},
   trailer |-> IF isChunked /\ keys # {} THEN keys ELSE trailer,
   header |-> IF isChunked THEN Without(h, "Trailer") ELSE h]

\* The value of a header is complete.
HeaderDone ==
  /\ header' = IF headerKey \in FramingKeys
               THEN Append(header, <<headerKey, Slice>>) ELSE header
  /\ OnHeader(headerKey, Slice)
  /\ headerKey' = Nil
  /\ Goto("HeaderValueLF", i + 1)
  /\ UNCHANGED <<word, statusCode, headerExists, trailer, chunked, contentLength, chunkSize, pc>>

HeaderEnd ==
  LET te == parseTransferEncoding
      cl == parseContentLength(te.header)
      tr == parseTrailer(te.header, te.chunked)
  IN
  \/ ~(te.ok /\ cl.ok /\ tr.ok) /\ Fail
  \/ /\ te.ok /\ cl.ok /\ tr.ok
     /\ chunked' = te.chunked /\ contentLength' = cl.length
     /\ header' = tr.header /\ trailer' = tr.trailer
     /\ Goto("HeaderOverLF", i + 1)
     /\ UNCHANGED <<tokens, headerExists, chunkSize, messages, pc>>

Headers ==
  \/ /\ At("HeaderKeyBefore")
     /\ CASE c = "cr" -> HeaderEnd
          [] c = "sp" /\ headerExists -> Stay /\ Keep
          [] isToken -> /\ headerExists' = TRUE /\ Goto("HeaderKey", i)
                        /\ UNCHANGED <<tokens, header, trailer, chunked, contentLength, chunkSize,
                                       messages, pc>>
          [] OTHER -> Fail
  \/ /\ At("HeaderKey")
     /\ CASE c \in {"sp", "colon"} ->
               /\ headerKey' = FirstOf(headerKey)
               /\ IF c = "sp" THEN Stay ELSE Goto("HeaderValueBefore", i + 1)
               /\ UNCHANGED <<word, statusCode, framing, messages, pc>>
          [] isToken -> Stay /\ Keep
          [] OTHER -> Fail
  \/ /\ At("HeaderValueBefore")
     /\ CASE c = "sp" -> Stay /\ Keep
          [] c = "cr" -> HeaderDone
          [] c = "lf" -> Fail
          [] OTHER -> Goto("HeaderValue", i) /\ Keep
  \/ /\ At("HeaderValue")
     /\ CASE c = "cr" -> HeaderDone
          [] c = "lf" -> Fail
          [] OTHER -> Stay /\ Keep
  \/ /\ At("HeaderValueLF")
     /\ IF c = "lf" THEN Goto("HeaderKeyBefore", i + 1) /\ Keep ELSE Fail

-----------------------------------------------------------------------------
(* Bodies.                                                                 *)

\* handleMessage, for the message m that is complete with this step.
handleMessage(m) ==
  /\ OnComplete(m)
  /\ chunked' = FALSE /\ header' = <<>> /\ trailer' = {}

\* The header is over: a body follows, or the message is complete.
HeaderOver ==
  /\ At("HeaderOverLF")
  /\ \/ c # "lf" /\ Fail
     \/ /\ c = "lf" /\ (chunked \/ contentLength > 0)
        /\ headerExists' = FALSE
        /\ Goto(IF chunked THEN "BodyChunkSizeBefore" ELSE "BodyContentLength", i + 1)
        /\ UNCHANGED <<tokens, header, trailer, chunked, contentLength, chunkSize, messages, pc>>
     \/ /\ c = "lf" /\ ~chunked /\ contentLength <= 0
        /\ headerExists' = FALSE
        /\ handleMessage(msg)
        /\ Goto(First, i + 1)
        /\ UNCHANGED <<tokens, contentLength, chunkSize, pc>>

\* The next n bytes of the body, which are taken when all of them are there;
\* otherwise the call ends.
BodyBytes(n) == SubSeq(data, start, start + n - 1)
HasBody(n) == Len(data) - start + 1 >= n
Wait == i' = Len(data) + 1 /\ UNCHANGED <<state, start, tokens, framing, messages, pc>>
OnBody(n, spare) == [msg EXCEPT !.body = Body!append(@, BodyBytes(n), spare)]

ContentLengthBody ==
  /\ At("BodyContentLength")
  /\ LET n == contentLength IN
     \/ ~HasBody(n) /\ Wait
     \/ HasBody(n) /\ Body!TooLong(msg.body, BodyBytes(n)) /\ Fail
     \/ /\ HasBody(n) /\ ~Body!TooLong(msg.body, BodyBytes(n))
        /\ \E spare \in Spare : handleMessage(OnBody(n, spare))
        /\ state' = First /\ start' = start + n /\ i' = start + n
        /\ UNCHANGED <<tokens, headerExists, contentLength, chunkSize, pc>>

ChunkData ==
  /\ At("BodyChunkData")
  /\ LET n == chunkSize IN
     \/ ~HasBody(n) /\ Wait
     \/ HasBody(n) /\ Body!TooLong(msg.body, BodyBytes(n)) /\ Fail
     \/ /\ HasBody(n) /\ ~Body!TooLong(msg.body, BodyBytes(n))
        /\ \E spare \in Spare : With(OnBody(n, spare))
        /\ state' = "BodyChunkDataCR" /\ start' = start + n /\ i' = start + n
        /\ UNCHANGED <<tokens, framing, pc>>

SetChunkSize(n) ==
  /\ chunkSize' = n
  /\ UNCHANGED <<tokens, headerExists, header, trailer, chunked, contentLength, messages, pc>>
SizeOfSlice == IF Name(Slice) \in DOMAIN Sizes THEN Sizes[Name(Slice)] ELSE -1

Chunks ==
  \/ /\ At("BodyChunkSizeBefore")
     /\ IF isHex THEN Goto("BodyChunkSize", i) /\ SetChunkSize(-1) ELSE Fail
  \/ /\ At("BodyChunkSize")
     /\ LET n == IF chunkSize < 0 THEN SizeOfSlice ELSE chunkSize IN
        CASE isHex -> Stay /\ Keep
          [] ~isHex /\ n < 0 -> Fail
          [] OTHER -> /\ SetChunkSize(n)
                      /\ IF c = "cr" THEN Goto("BodyChunkSizeLF", i + 1) ELSE Stay
  \/ /\ At("BodyChunkSizeLF")
     /\ IF c = "lf"
        THEN /\ Goto(IF chunkSize > 0 THEN "BodyChunkData"
                     ELSE IF trailer # {} THEN "BodyTrailerHeaderKeyBefore" ELSE "TailCR", i + 1)
             /\ Keep
        ELSE Fail
  \/ ChunkData
  \/ /\ At("BodyChunkDataCR")
     /\ IF c = "cr" THEN Goto("BodyChunkDataLF", start) /\ Keep ELSE Fail
  \/ /\ At("BodyChunkDataLF")
     /\ IF c = "lf" THEN Goto("BodyChunkSizeBefore", start) /\ Keep ELSE Fail

-----------------------------------------------------------------------------
(* Trailers and the end of a chunked message.                              *)

TrailerDone(rest) ==
  /\ trailer' = rest
  /\ OnTrailerHeader(headerKey, FirstOf(word))
  /\ headerKey' = Nil /\ word' = Nil
  /\ Goto("BodyTrailerHeaderValueLF", i + 1)
  /\ UNCHANGED <<statusCode, headerExists, header, chunked, contentLength, chunkSize, pc>>

Trailers ==
  \/ /\ At("BodyTrailerHeaderKeyBefore")
     /\ CASE isToken -> Goto("BodyTrailerHeaderKey", i) /\ Keep
          [] c = "cr" /\ trailer # {} -> Fail
          [] c = "cr" /\ trailer = {} -> Goto("TailLF", i + 1) /\ Keep
          [] OTHER -> Stay /\ Keep
  \/ /\ At("BodyTrailerHeaderKey")
     /\ CASE c \in {"sp", "colon"} ->
               /\ headerKey' = FirstOf(headerKey)
               /\ IF c = "sp" THEN Stay ELSE Goto("BodyTrailerHeaderValueBefore", i + 1)
               /\ UNCHANGED <<word, statusCode, framing, messages, pc>>
          [] isToken -> Stay /\ Keep
          [] OTHER -> Fail
  \/ /\ At("BodyTrailerHeaderValueBefore")
     /\ CASE c = "sp" -> Stay /\ Keep
          [] c = "cr" -> TrailerDone(trailer)
          [] OTHER -> Goto("BodyTrailerHeaderValue", i) /\ Keep
  \/ /\ At("BodyTrailerHeaderValue")
     /\ CASE c = "sp" -> /\ word' = FirstOf(word) /\ Stay
                         /\ UNCHANGED <<headerKey, statusCode, framing, messages, pc>>
          [] c = "cr" /\ trailer = {} -> Fail
          [] c = "cr" /\ trailer # {} -> TrailerDone(trailer \ {headerKey})
          [] OTHER -> Stay /\ Keep
  \/ /\ At("BodyTrailerHeaderValueLF")
     /\ IF c = "lf" THEN Goto("BodyTrailerHeaderKeyBefore", i) /\ Keep ELSE Fail

TailOfChunks ==
  \/ /\ At("TailCR")
     /\ IF c = "cr" THEN Goto("TailLF", start) /\ Keep ELSE Fail
  \/ /\ At("TailLF")
     /\ \/ c # "lf" /\ Fail
        \/ /\ c = "lf"
           /\ handleMessage(msg)
           /\ Goto(First, i + 1)
           /\ UNCHANGED <<tokens, headerExists, contentLength, chunkSize, pc>>

\* One round of Parse's loop.
ParseByte ==
  /\ \/ RequestLine \/ StatusLine \/ Headers \/ HeaderOver
     \/ ContentLengthBody \/ Chunks \/ Trailers \/ TailOfChunks
  /\ UNCHANGED <<isClient, bytesCached, data, closed>>

-----------------------------------------------------------------------------
ParserInit ==
  /\ state = First /\ bytesCached = <<>>
  /\ headerKey = Nil /\ word = Nil /\ statusCode = Nil
  /\ headerExists = FALSE /\ header = <<>> /\ trailer = {}
  /\ chunked = FALSE /\ contentLength = 0 /\ chunkSize = 0
  /\ pc = "idle" /\ data = <<>> /\ i = 1 /\ start = 1
  /\ msg = NoMsg /\ made = 0 /\ released = <<>> /\ closed = FALSE /\ jobs = <<>>
=============================================================================
