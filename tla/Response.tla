------------------------------ MODULE Response -------------------------------
(***************************************************************************)
(* nbhttp/response.go: the server's side of a response.  The head and the  *)
(* chunks are cached in buffer, a body without chunks in bodyBuffer, and   *)
(* what reaches maxPacketSize is sent.  An operator takes the Response and *)
(* gives what it becomes; sent is what it has written to the connection.   *)
(*                                                                         *)
(* A buffer is a sequence of items of size 1:                              *)
(*   <<"head", statusCode, "chunked" or "length", n>>                      *)
(*   <<"size", n>>  <<"end">>  around the data of a chunk,  <<"last">>     *)
(*   <<"data", k>>  the k-th unit of the body                              *)
(*   <<"stale">>    whatever a buffer of the pool held before              *)
(***************************************************************************)
EXTENDS Integers, Sequences, SequencesExt

CONSTANT maxPacketSize

ASSUME PacketAssumption == maxPacketSize \in Nat \ {0}

NoBuf == << <<"nil">> >>
None == 0 - 1        \* no Content-Length
Invalid == 0 - 2     \* one that is no number

HeadType == [contentLength : Nat \cup {None, Invalid}, te : BOOLEAN, trailers : BOOLEAN]

\* h: what the handler puts into the header.  accepted counts the units of the
\* body that were taken, flawed tells that the response is not claimed to be exact.
NewResponse(h, http11) ==
  [contentLength |-> h.contentLength, te |-> h.te, trailers |-> h.trailers, http11 |-> http11,
   statusCode |-> 0, chunkChecked |-> FALSE, chunked |-> FALSE, headEncoded |-> FALSE,
   hasBody |-> FALSE, hijacked |-> FALSE, buffer |-> NoBuf, bodyBuffer |-> NoBuf,
   bodyWritten |-> 0, sent |-> <<>>, accepted |-> 0, flawed |-> FALSE]

Hijack(r) == [r EXCEPT !.hijacked = TRUE]

WriteHeader(r, code) ==
  IF r.hijacked \/ r.statusCode # 0 THEN r
  ELSE [r EXCEPT !.statusCode = code, !.contentLength = IF @ = Invalid THEN None ELSE @]

checkChunked(r) ==
  LET chunked == \/ r.te \/ r.trailers
                 \/ r.http11 /\ r.contentLength = None /\ r.statusCode \notin {204, 304}
  IN  IF r.chunkChecked THEN r
      ELSE [r EXCEPT !.chunkChecked = TRUE, !.chunked = chunked,
                     !.contentLength = IF chunked THEN None ELSE @]

Content(buf) == IF buf = NoBuf THEN <<>> ELSE buf

\* Without a Content-Length the head declares what is in bodyBuffer by now.
eoncodeHead(r) ==
  LET n == IF r.contentLength # None THEN r.contentLength ELSE Len(Content(r.bodyBuffer))
  IN  IF r.headEncoded THEN r
      ELSE [r EXCEPT !.headEncoded = TRUE,
                     !.buffer = << <<"head", r.statusCode, IF r.chunked THEN "chunked" ELSE "length",
                                     IF r.chunked THEN 0 ELSE n>> >>]

Send(r, items) == [r EXCEPT !.sent = @ \o items]
Data(r, n) == [k \in 1 .. n |-> <<"data", r.accepted + k>>]

\* A chunk is cached if it fits.  Otherwise the cached buffer is sent and freed,
\* yet used on, and a buffer of the pool is appended to before it is emptied:
\* both make the response flawed.
writeChunk(r, n) ==
  LET h      == eoncodeHead(r)
      data   == Data(r, n) \o << <<"end">> >>
      framed == << <<"size", n>> >> \o data
      total  == Len(framed) + Len(Content(h.buffer))
      taken  == [h EXCEPT !.accepted = @ + n]
      keep(w, items) == IF Len(items) < maxPacketSize THEN [w EXCEPT !.buffer = items]
                        ELSE [Send(w, items) EXCEPT !.buffer = NoBuf]
  IN  IF total < maxPacketSize
      THEN IF h.buffer # NoBuf THEN [taken EXCEPT !.buffer = @ \o framed]
           ELSE [taken EXCEPT !.flawed = TRUE, !.buffer = [k \in 1 .. total |-> <<"stale">>] \o framed]
      ELSE IF h.buffer # NoBuf
      THEN keep([Send(taken, h.buffer \o << <<"size", n>> >>) EXCEPT !.flawed = TRUE], data)
      ELSE keep(taken, framed)

\* Mutant: a body that fills the packet overtakes the cached buffer.
CacheOvertakes(r, b, data) ==
  IF r.contentLength > 0 /\ Len(b \o data) >= maxPacketSize
  THEN [Send(r, data) EXCEPT !.bodyBuffer = b]
  ELSE [r EXCEPT !.bodyBuffer = b \o data]

\* Append to bodyBuffer b; a full one is sent if the length was declared.
Cache(r, b, data) ==
  IF r.contentLength > 0 /\ Len(b \o data) >= maxPacketSize
  THEN [Send(r, b \o data) EXCEPT !.bodyBuffer = <<>>]
  ELSE [r EXCEPT !.bodyBuffer = b \o data]

\* A body of declared length: the head becomes the start of bodyBuffer or is sent.
TakeHead(r, n) ==
  LET h == eoncodeHead(r) IN
  IF r.contentLength <= 0 THEN r
  ELSE IF h.buffer = NoBuf THEN h
  ELSE IF Len(h.buffer) + n < maxPacketSize
  THEN [h EXCEPT !.bodyBuffer = h.buffer, !.buffer = NoBuf]
  ELSE [Send(h, h.buffer) EXCEPT !.buffer = NoBuf]

writeBody(r, n) ==
  LET a    == [TakeHead(r, n) EXCEPT !.bodyWritten = @ + n, !.accepted = @ + n,
                                     !.flawed = @ \/ (r.headEncoded /\ r.contentLength = None)]
      b    == a.bodyBuffer
      data == Data(r, n)
      big  == r.contentLength > 0 /\ n >= maxPacketSize
  IN  CASE b = NoBuf /\ big -> Send(a, data)
        [] b = NoBuf /\ ~big -> Cache(a, <<>>, data)
        [] b # NoBuf /\ r.contentLength > 0 /\ Len(b) + n > maxPacketSize ->
             IF big THEN [Send(a, b \o data) EXCEPT !.bodyBuffer = NoBuf] ELSE Cache(Send(a, b), <<>>, data)
        [] OTHER -> Cache(a, b, data)

Write(r, n) ==
  LET w == [checkChunked(WriteHeader(r, 200)) EXCEPT !.hasBody = TRUE] IN
  IF w.chunked THEN writeChunk(w, n)
  ELSE IF w.contentLength > 0 /\ w.bodyWritten + n > w.contentLength THEN w      \* ErrContentLength
  ELSE writeBody(w, n)

\* ReadFrom sends the head and then the data, or the file, as they are: right
\* only for a status and a length that were set, and no chunks.  It panics
\* when there is no buffer.
ReadFromPanics(r) == r.headEncoded /\ r.buffer = NoBuf
ReadFrom(r, n) ==
  LET h == eoncodeHead([r EXCEPT !.hasBody = TRUE]) IN
  [Send(h, h.buffer \o Data(r, n))
     EXCEPT !.buffer = NoBuf, !.accepted = @ + n,
            !.flawed = @ \/ r.statusCode = 0 \/ r.contentLength = None \/ r.te \/ r.trailers]

\* An emptied buffer is kept.
Flush(r) ==
  LET h == eoncodeHead(checkChunked(WriteHeader(r, 200)))
      emptied(b) == IF b = NoBuf THEN NoBuf ELSE <<>>
  IN  IF r.hijacked THEN r
      ELSE [Send(h, Content(h.buffer) \o Content(h.bodyBuffer))
              EXCEPT !.buffer = emptied(@), !.bodyBuffer = emptied(@)]

flush(r) ==
  IF r.chunked THEN [Send(r, Content(r.buffer) \o << <<"last">> >>) EXCEPT !.buffer = NoBuf]
  ELSE [Send(r, Content(r.buffer) \o Content(r.bodyBuffer)) EXCEPT !.buffer = NoBuf, !.bodyBuffer = NoBuf]

\* What flushResponse makes of a response.
Finished(r) == flush(eoncodeHead(checkChunked(WriteHeader(r, 200))))

-----------------------------------------------------------------------------
(* What a client reads.                                                    *)

\* The handler wrote what it declared.
AsDeclared(r) == r.contentLength \in {None, r.accepted}

\* The chunks of s: a size, so many units and an end, up to the last one.
ChunksOk(s) ==
  LET starts(p) == p <= Len(s) /\ s[p][1] \in {"size", "last"} IN
  /\ starts(1) /\ s[Len(s)] = <<"last">>
  /\ \A p \in 1 .. Len(s) :
       /\ s[p][1] = "size" => LET q == p + s[p][2] + 1 IN
                              /\ q <= Len(s) /\ s[q] = <<"end">>
                              /\ \A j \in p + 1 .. q - 1 : s[j][1] = "data"
       /\ s[p][1] = "end" => starts(p + 1)
       /\ s[p][1] = "last" => p = Len(s)

\* The units 1 .. n of the body are in s, each once and in their order.
UnitsOf(s) == {p \in 1 .. Len(s) : s[p][1] = "data"}
InOrder(s, n) == /\ {s[p][2] : p \in UnitsOf(s)} = 1 .. n
                 /\ \A p, q \in UnitsOf(s) : p < q => s[p][2] < s[q][2]

ReadsAs(r) ==
  LET head == r.sent[1]   s == Tail(r.sent) IN
  /\ r.sent # <<>> /\ head[1] = "head" /\ head[2] # 0
  /\ InOrder(s, r.accepted)
  /\ IF head[3] = "length" THEN Len(s) = head[4] /\ head[4] = r.accepted ELSE ChunksOk(s)
=============================================================================
