----------------------------- MODULE MCHttpConn ------------------------------
(***************************************************************************)
(* Inputs for HttpConn: messages, their bytes, and what a handler is to    *)
(* see of them.  A header line is <<key, value, style>>.                   *)
(***************************************************************************)
EXTENDS HttpConn

Byte(x) == <<x, x, 0>>
Sp == <<Byte("sp")>>
CRLF == <<Byte("cr"), Byte("lf")>>
Cat(ss) == FoldLeft(LAMBDA a, b : a \o b, <<>>, ss)

\* Two bytes that spell w, of the given classes.
Spell(w, c1, c2) == <<<<c1, w, 1>>, <<c2, w, 2>>>>
Word(w) == Spell(w, "alpha", "alpha")
Number(w) == Spell(w, "digit", "digit")
SizeName == [n \in {0, 1, 2, 3, 4, 12} |-> CHOOSE w \in DOMAIN Sizes : Sizes[w] = n]

\* Body bytes look like delimiters.
BodyPart(m, from, n) ==
  [k \in 1 .. n |-> <<IF (from + k) % 2 = 1 THEN "cr" ELSE "lf", m, from + k>>]

ValueOf(h) ==
  CASE h[3] = "empty" -> <<>>
    [] h[3] = "padded" -> Word(h[2]) \o Sp
    [] OTHER -> Word(h[2])
Line(h) ==
  LET gap == IF h[3] = "spaced" THEN Sp ELSE <<>>
  IN  Word(h[1]) \o gap \o <<Byte("colon")>> \o gap \o ValueOf(h) \o CRLF

StartLine(m) ==
  IF m.isClient
  THEN Spell(m.proto, "H", "alpha") \o Sp \o Number(m.name) \o Sp \o Word("OK")
       \o (IF m.spaced THEN Sp \o Word("OK") ELSE <<>>) \o CRLF
  ELSE LET gap == IF m.spaced THEN Sp \o Sp ELSE Sp IN
       Word("GET") \o gap \o Spell(m.name, "slash", "alpha") \o gap \o Word(m.proto)
       \o (IF m.spaced THEN Sp ELSE <<>>) \o CRLF

\* A body is a sequence of sizes: one for Content-Length, else the chunks.
SumTo(m, k) == FoldLeft(LAMBDA a, b : a + b, 0, SubSeq(m.sizes, 1, k))
Chunk(m, k) ==
  Number(SizeName[m.sizes[k]]) \o (IF m.spaced THEN Sp ELSE <<>>) \o CRLF
  \o BodyPart(m.name, SumTo(m, k - 1), m.sizes[k]) \o CRLF
BodyOf(m) == BodyPart(m.name, 0, SumTo(m, Len(m.sizes)))
Encode(m) ==
  StartLine(m) \o Cat([k \in 1 .. Len(m.headers) |-> Line(m.headers[k])]) \o CRLF
  \o (IF m.chunked
      THEN Cat([k \in 1 .. Len(m.sizes) |-> Chunk(m, k)]) \o Number("0") \o CRLF
           \o Cat([k \in 1 .. Len(m.trailers) |-> Line(m.trailers[k])]) \o CRLF
      ELSE BodyOf(m))

ViewOf(m) ==
  [name |-> m.name, proto |-> m.proto, body |-> BodyOf(m),
   headers |-> [k \in 1 .. Len(m.headers) |-> <<m.headers[k][1], ValueOf(m.headers[k])>>],
   trailers |-> [k \in 1 .. Len(m.trailers) |-> <<m.trailers[k][1], Trimmed(ValueOf(m.trailers[k]))>>]]

Input(ms) ==
  [isClient |-> ms[1].isClient, ops |-> 0,
   bytes |-> Cat([k \in 1 .. Len(ms) |-> Encode(ms[k])]),
   messages |-> [k \in 1 .. Len(ms) |->
                   [view |-> ViewOf(ms[k]), ok |-> ms[k].ok,
                    last |-> Len(Cat([j \in 1 .. k |-> Encode(ms[j])]))]]]

\* The message m with one byte replaced so that it has to be refused.
Breaks(m) ==
  LET e      == Encode(m)
      keys   == {(m.headers \o m.trailers)[k][1] : k \in 1 .. Len(m.headers \o m.trailers)}
      values == {m.headers[k][2] : k \in 1 .. Len(m.headers)}
      fixed(x) == \/ x \in {Byte("lf"), Byte("colon")}
                  \/ x[1] \in {"H", "slash"}
                  \/ x[1] = "digit" /\ (m.isClient => x[3] = 2)
                  \/ x[2] \in {"GET", m.proto} \cup keys
      value(x) == x[1] = "alpha" /\ x[2] \in values
      status(x) == /\ m.isClient /\ x[2] \in {m.name, "OK"}
                   /\ x[1] \in {"digit", "alpha"} /\ x[3] = 1
      lineEnd(p) == /\ m.chunked /\ e[p] = Byte("cr")
                    /\ \/ e[p - 1][1] \in {"cr", "lf"} /\ e[p - 1][3] > 0
                       \/ p = Len(e) - 1 /\ m.trailers = <<>>
  IN  {b \in {"ctl", "lf", "sp"} \X (1 .. Len(e)) :
         LET x == e[b[2]] IN
         CASE b[1] = "ctl" -> fixed(x) \/ lineEnd(b[2]) [] b[1] = "lf" -> value(x) [] OTHER -> status(x)}
Broken(m) ==
  {[isClient |-> m.isClient, ops |-> 0,
    bytes |-> [Encode(m) EXCEPT ![b[2]] = Byte(b[1])],
    messages |-> <<[view |-> ViewOf(m), ok |-> FALSE, last |-> Len(Encode(m))]>>] :
   b \in Breaks(m)}

-----------------------------------------------------------------------------
Get == [isClient |-> FALSE, name |-> "/a", proto |-> "HTTP/1.1", spaced |-> FALSE,
        headers |-> <<<<"Host", "h", "plain">>>>, sizes |-> <<>>, chunked |-> FALSE,
        trailers |-> <<>>, ok |-> TRUE]
TE(v, style) == <<"Transfer-Encoding", v, style>>
CL(v, style) == <<"Content-Length", v, style>>
Tr(v) == <<"Trailer", v, "plain">>

Put == [Get EXCEPT !.name = "/b", !.headers = <<CL("2", "padded")>>, !.sizes = <<2>>,
                   !.spaced = TRUE]
Chunked == [Get EXCEPT !.name = "/c", !.headers = <<TE("chunked", "spaced"), Tr("T")>>,
                       !.chunked = TRUE, !.sizes = <<1, 2>>, !.spaced = TRUE,
                       !.trailers = <<<<"T", "t", "padded">>>>]
Short == [Chunked EXCEPT !.headers = <<TE("chunked", "plain")>>, !.sizes = <<1>>,
                         !.spaced = FALSE, !.trailers = <<>>]
Empty == [Get EXCEPT !.name = "/d", !.headers = <<CL("", "empty")>>]
Final == [Get EXCEPT !.name = "/e", !.headers = <<<<"Connection", "close", "padded">>>>]
Old == [Get EXCEPT !.name = "/f", !.headers = <<>>, !.proto = "HTTP/1.0"]
Bare == [Get EXCEPT !.headers = <<>>]
Reply == [Get EXCEPT !.isClient = TRUE, !.name = "200", !.headers = <<CL("3", "plain")>>,
                        !.sizes = <<3>>]
Reply2 == [Chunked EXCEPT !.isClient = TRUE, !.name = "404",
                             !.headers = <<CL("12", "plain"), TE("chunked", "padded"), Tr("T")>>,
                             !.trailers = <<<<"U", "", "empty">>, <<"T", "t", "plain">>>>]

\* Requests that have to be refused.
Bad(f) == [f EXCEPT !.ok = FALSE]
BadRequests ==
  {Bad([Get EXCEPT !.name = "bad"]),
   Bad([Get EXCEPT !.proto = "HTTQ/1.1"]),
   Bad([Put EXCEPT !.headers = <<CL("x", "plain")>>]),
   Bad([Put EXCEPT !.headers = <<CL("12", "plain")>>, !.sizes = <<12>>]),
   Bad([Put EXCEPT !.headers = <<CL("4", "plain")>>, !.sizes = <<4>>]),
   Bad([Chunked EXCEPT !.headers = <<TE("gzip", "plain")>>, !.trailers = <<>>]),
   Bad([Chunked EXCEPT !.headers = <<TE("chunked", "plain"), TE("chunked", "plain")>>]),
   Bad([Chunked EXCEPT !.headers = <<TE("chunked", "plain"), Tr("Trailer")>>]),
   Bad([Chunked EXCEPT !.trailers = <<>>]),
   Bad([Chunked EXCEPT !.trailers = @ \o @]),
   Bad([Chunked EXCEPT !.sizes = <<2, 2>>])}

MCInputs ==
  {Input(<<Put, Chunked>>), Input(<<Chunked, Final, Get>>), Input(<<Empty, Get>>),
   Input(<<Old, Get>>), Input(<<Reply, Reply2>>)}
  \cup {[Input(<<Bare>>) EXCEPT !.ops = 4], [Input(<<Old>>) EXCEPT !.ops = 3]}
  \cup {Input(<<b>>) : b \in BadRequests}
  \cup Broken(Short) \cup Broken(Chunked) \cup Broken(Reply)

MCSpare == {0, 1}
MCReadSizes == {1, 2}

\* maxPacketSize is 8: a head and two chunks of one unit fit, three do not.
MCHeads == {NoHead} \cup {[NoHead EXCEPT !.contentLength = n] : n \in {Invalid, 0, 4, 7, 12}}
           \cup {[NoHead EXCEPT !.te = TRUE, !.contentLength = 2], [NoHead EXCEPT !.trailers = TRUE]}
MCWriteSizes == {1, 3, 8}
=============================================================================
