--------------------------- MODULE HttpConnProofs ----------------------------
(***************************************************************************)
(* What HttpConn keeps, for every input, every way the reads cut it and    *)
(* every limit: a pooled message has one owner, what is cached is bounded, *)
(* a handler reads the body in order, and the answers come in order and    *)
(* are read as the handlers wrote them.                                    *)
(***************************************************************************)
EXTENDS HttpConn, DataLemmas, FiniteSetTheorems

-----------------------------------------------------------------------------
(* The inductive invariant.                                                *)

ByteSeq == Seq(ByteType)
BufferType == {b \in [data : ByteSeq, cap : Nat] : Len(b.data) <= b.cap}
ViewType == [name : NameType, proto : NameType, headers : Seq(NameType \X ByteSeq), body : ByteSeq,
             trailers : Seq(NameType \X NameType)]

\* The buffers of a body: the index is inside the first one.
Shape(br) == /\ br.index \in Nat /\ br.buffers \in Seq(BufferType)
             /\ br.buffers = <<>> => br.index = 0
             /\ br.buffers # <<>> => br.index <= Len(br.buffers[1].data)
BodyFields == [index : Nat, left : Int, closed : BOOLEAN, buffers : Seq(BufferType)]
Bodies == {br \in BodyFields : Shape(br)}

\* The counter of bytes left agrees with them.
Exact(br) == br \in Bodies /\ br.left = Len(Contents(br))

\* One of the first n messages that were taken from the pool.
MessageUpTo(m, n) == m \in MessageType /\ m.id \in 1 .. n /\ Exact(m.body)
Message(m) == MessageUpTo(m, made)

\* The parser has a message in these states.
Building ==
  {"PathBefore", "Path", "ProtoBefore", "Proto", "ProtoLF", "StatusCodeBefore", "StatusCode",
   "StatusBefore", "Status", "StatusLF", "HeaderKeyBefore", "HeaderKey", "HeaderValueBefore",
   "HeaderValue", "HeaderValueLF", "HeaderOverLF", "BodyContentLength", "BodyChunkData",
   "BodyChunkSizeBefore", "BodyChunkSize", "BodyChunkSizeLF", "BodyChunkDataCR", "BodyChunkDataLF",
   "BodyTrailerHeaderKeyBefore", "BodyTrailerHeaderKey", "BodyTrailerHeaderValueBefore",
   "BodyTrailerHeaderValue", "BodyTrailerHeaderValueLF", "TailCR", "TailLF"}

TokensOK == headerKey \in NameType /\ word \in NameType /\ statusCode \in NameType
LengthsOK == /\ contentLength \in Int /\ chunkSize \in Int
             /\ state = "BodyContentLength" => contentLength > 0
             /\ state = "BodyChunkData" => chunkSize > 0
IndexOK == /\ data \in ByteSeq /\ i \in Nat /\ start \in Nat /\ start >= 1
           /\ pc = "parse" => start <= i /\ i <= Len(data) + 1
BuildingOK == state \in Building => msg # NoMsg
ParserOK == TokensOK /\ LengthsOK /\ IndexOK /\ BuildingOK

Limit == IF ReadLimit > ReadBufferSize THEN ReadLimit ELSE ReadBufferSize
CacheOK == /\ bytesCached \in ByteSeq /\ inbox \in ByteSeq /\ Len(inbox) <= ReadBufferSize
           /\ fed \in Nat /\ input \in Inputs
           /\ ReadLimit > 0 => Len(bytesCached) <= Limit /\ (pc = "parse" => Len(data) <= Limit)

\* The owners of the message id: the parser, with its message m, the list of
\* jobs js, the runner, with its job run, the panicked handlers pan, or the pool,
\* when it is released.
Holds(m, id) == m \in MessageType /\ m.id = id
InJobs(js, id) == \E k \in 1 .. Len(js) : Holds(js[k], id)
OneOf(a, b, p, d, e) ==
  /\ a \/ b \/ p \/ d \/ e
  /\ ~(a /\ b) /\ ~(a /\ p) /\ ~(a /\ d) /\ ~(a /\ e) /\ ~(b /\ p) /\ ~(b /\ d) /\ ~(b /\ e)
  /\ ~(p /\ d) /\ ~(p /\ e) /\ ~(d /\ e)
OneOwner(id, m, js, run, pan, rel) ==
  /\ rel[id] \in {0, 1}
  /\ OneOf(Holds(m, id), InJobs(js, id), Holds(run, id), id \in pan, rel[id] = 1)

JobsTyped(js, n) == /\ js \in Seq(MessageType \cup {CloseJob})
                    /\ \A k \in 1 .. Len(js) : js[k] = CloseJob \/ MessageUpTo(js[k], n)
JobsOnce(js) == \A a, b \in 1 .. Len(js) :
  js[a] \in MessageType /\ js[b] \in MessageType /\ js[a].id = js[b].id => a = b

\* The first n messages of the pool and where they are.
PoolTyped(n, m, js, run, pan, rel) ==
  /\ n \in Nat /\ rel \in Seq(Nat) /\ Len(rel) = n /\ pan \subseteq 1 .. n
  /\ m = NoMsg \/ MessageUpTo(m, n)
  /\ run = NoMsg \/ run = CloseJob \/ MessageUpTo(run, n)
Pool(n, m, js, run, pan, rel) ==
  /\ PoolTyped(n, m, js, run, pan, rel) /\ JobsTyped(js, n) /\ JobsOnce(js)
  /\ \A id \in 1 .. n : OneOwner(id, m, js, run, pan, rel)
PoolOK == Pool(made, msg, jobs, running, panicked, released)

\* What the handler has read, and what it has not.
ReadingOK ==
  /\ handled \in Seq(ViewType) /\ got \in ByteSeq
  /\ Serving =>
       LET body == handled[Len(handled)].body IN
       /\ handled # <<>>
       /\ ~running.body.closed => got \o Contents(running.body) = body
       /\ Len(got) <= Len(body) /\ got = SubSeq(body, 1, Len(got))
       /\ eof => running.body.closed \/ got = body

IInv == /\ ParserOK /\ CacheOK
        /\ PoolOK /\ ReadingOK

-----------------------------------------------------------------------------
(* Sequences of bytes.                                                     *)

LEMMA EmptyBytes == <<>> \in ByteSeq /\ Len(<<>>) = 0 /\ \A s \in ByteSeq : s \o <<>> = s /\ <<>> \o s = s
  BY EmptySeq, ConcatEmptySeq DEF ByteSeq

LEMMA BytesLen == \A s \in ByteSeq : Len(s) \in Nat /\ (s = <<>> <=> Len(s) = 0)
  BY SeqFacts DEF ByteSeq

LEMMA ConcatBytes ==
  \A s, t \in ByteSeq : /\ s \o t \in ByteSeq /\ Len(s \o t) = Len(s) + Len(t)
                        /\ Len(s) \in Nat /\ Len(t) \in Nat
  BY ConcatSeq, SeqFacts DEF ByteSeq

LEMMA ConcatElements ==
  \A s, t \in ByteSeq : /\ s \o t \in ByteSeq /\ Len(s \o t) = Len(s) + Len(t)
                        /\ \A k \in 1 .. Len(s) : (s \o t)[k] = s[k]
                        /\ \A k \in 1 .. Len(t) : (s \o t)[Len(s) + k] = t[k]
  BY ConcatSeq DEF ByteSeq

LEMMA JoinBytes ==
  \A x, y, z \in ByteSeq : (x \o y) \o z = x \o (y \o z)
<1> SUFFICES ASSUME NEW x \in Seq(ByteType), NEW y \in Seq(ByteType), NEW z \in Seq(ByteType)
             PROVE  (x \o y) \o z = x \o (y \o z)
  BY DEF ByteSeq
<1> QED BY ConcatAssociative

LEMMA PartBytes ==
  ASSUME NEW s \in ByteSeq, NEW m \in Nat, NEW n \in Nat, m <= n, n <= Len(s)
  PROVE  /\ SubSeq(s, m + 1, n) \in ByteSeq /\ Len(SubSeq(s, m + 1, n)) = n - m
         /\ \A k \in 1 .. n - m : SubSeq(s, m + 1, n)[k] = s[m + k]
  BY SliceSeq DEF ByteSeq

LEMMA SameBytes ==
  ASSUME NEW s \in ByteSeq, NEW t \in ByteSeq, Len(s) = Len(t), \A k \in 1 .. Len(s) : s[k] = t[k]
  PROVE  s = t
  BY EqualSeq DEF ByteSeq

LEMMA CutBytes ==
  ASSUME NEW s \in ByteSeq, NEW n \in Nat, n <= Len(s)
  PROVE  /\ SubSeq(s, 1, n) \in ByteSeq /\ Len(SubSeq(s, 1, n)) = n
         /\ SubSeq(s, n + 1, Len(s)) \in ByteSeq /\ Len(SubSeq(s, n + 1, Len(s))) = Len(s) - n
         /\ SubSeq(s, 1, n) \o SubSeq(s, n + 1, Len(s)) = s
  BY CutSeq DEF ByteSeq

LEMMA WholeBytes == \A s \in ByteSeq : SubSeq(s, 1, Len(s)) = s
<1> SUFFICES ASSUME NEW s \in Seq(ByteType) PROVE SubSeq(s, 1, Len(s)) = s
  BY DEF ByteSeq
<1> QED BY WholeSeq

\* What a concatenation starts with.
LEMMA StartBytes ==
  \A s, t \in ByteSeq : SubSeq(s \o t, 1, Len(s)) = s
<1> SUFFICES ASSUME NEW s \in ByteSeq, NEW t \in ByteSeq PROVE SubSeq(s \o t, 1, Len(s)) = s
  OBVIOUS
<1> DEFINE u == s \o t
           n == Len(s)
<1>1. u \in ByteSeq /\ n \in Nat /\ n <= Len(u) /\ \A k \in 1 .. n : u[k] = s[k]
  BY ConcatSeq, SeqFacts DEF ByteSeq
<1> HIDE DEF u
<1>2. /\ SubSeq(u, 0 + 1, n) \in ByteSeq /\ Len(SubSeq(u, 0 + 1, n)) = n - 0
      /\ \A k \in 1 .. n - 0 : SubSeq(u, 0 + 1, n)[k] = u[0 + k]
  <2>1. 0 \in Nat /\ 0 <= n
    BY <1>1
  <2> HIDE DEF n
  <2> QED BY <1>1, <2>1, PartBytes
<1>3. 0 + 1 = 1 /\ n - 0 = n /\ \A k \in 1 .. n : 0 + k = k
  BY <1>1
<1> DEFINE p == SubSeq(u, 1, n)
<1>4. p \in ByteSeq /\ Len(p) = n /\ \A k \in 1 .. n : p[k] = u[k]
  BY <1>2, <1>3
<1> HIDE DEF p
<1>5. Len(p) = Len(s) /\ \A k \in 1 .. Len(p) : p[k] = s[k]
  BY <1>1, <1>4
<1>6. p = s
  BY <1>4, <1>5, SameBytes
<1> QED BY <1>6 DEF p, u

-----------------------------------------------------------------------------
(* Pieces joined.                                                          *)

Pieced == Seq(ByteSeq)

LEMMA PiecedFacts ==
  \A ps \in Pieced : /\ Len(ps) \in Nat /\ (ps = <<>> <=> Len(ps) = 0)
                     /\ \A k \in 1 .. Len(ps) : ps[k] \in ByteSeq
  BY SeqFacts DEF Pieced

\* The recursion that Joined is defined by has a solution, whose values are
\* sequences of bytes.
JoinedFacts(ps) ==
  /\ JoinedUpTo(ps)[0] = <<>>
  /\ \A k \in 1 .. Len(ps) :
       JoinedUpTo(ps)[k] = JoinedUpTo(ps)[k - 1] \o ps[k]
  /\ \A k \in 0 .. Len(ps) : JoinedUpTo(ps)[k] \in ByteSeq

LEMMA JoinedTyped ==
  ASSUME NEW ps \in Pieced
  PROVE  JoinedFacts(ps)
<1> DEFINE N == Len(ps)
           U == JoinedUpTo(ps)
           step == [n \in 0 .. N - 1 |-> [t \in ByteSeq |-> t \o ps[n + 1]]]
           F(g) == [k \in 0 .. N |-> IF k = 0 THEN <<>> ELSE g[k - 1] \o ps[k]]
<1>1. N \in Nat /\ \A k \in 1 .. N : ps[k] \in ByteSeq
  BY PiecedFacts
<1>2. <<>> \in ByteSeq
  BY EmptyBytes
<1>3. \A n \in 0 .. N - 1 : \A t \in ByteSeq :
        step[n][t] = t \o ps[n + 1] /\ step[n][t] \in ByteSeq
  <2> TAKE n \in 0 .. N - 1
  <2> TAKE t \in ByteSeq
  <2>1. step[n][t] = t \o ps[n + 1]
    OBVIOUS
  <2>2. n + 1 \in 1 .. N
    BY <1>1
  <2>3. ps[n + 1] \in ByteSeq
    BY <1>1, <2>2
  <2>4. t \o ps[n + 1] \in ByteSeq
    BY <2>3, ConcatBytes
  <2> QED BY <2>1, <2>4
<1> HIDE DEF step, N
<1>4. PICK g : /\ g \in [0 .. N -> ByteSeq]
               /\ g[0] = <<>> /\ \A n \in 0 .. N - 1 : g[n + 1] = step[n][g[n]]
  <2>1. step \in Steps(N, ByteSeq)
    BY <1>3 DEF step, Steps
  <2>2. \E g : DefinedBy(g, N, ByteSeq, <<>>, step)
    BY <1>1, <1>2, <2>1, RecursionExists, Zenon
  <2> QED BY <2>2, Zenon DEF DefinedBy
<1>5. g = F(g)
  <2>1. ASSUME NEW k \in 0 .. N PROVE g[k] = IF k = 0 THEN <<>> ELSE g[k - 1] \o ps[k]
    <3>1. CASE k = 0
      BY <1>4, <3>1
    <3>2. CASE k # 0
      <4>1. k - 1 \in 0 .. N - 1 /\ (k - 1) + 1 = k /\ k - 1 \in 0 .. N
        BY <1>1, <3>2
      <4>2. g[k] = step[k - 1][g[k - 1]] /\ g[k - 1] \in ByteSeq
        BY <1>4, <4>1
      <4>3. g[k] = g[k - 1] \o ps[(k - 1) + 1]
        BY <1>3, <4>1, <4>2
      <4> QED BY <3>2, <4>1, <4>3
    <3> QED BY <3>1, <3>2
  <2> QED BY <1>4, <2>1
<1>6. U = F(U)
  <2>1. U = CHOOSE h : h = F(h)
    BY Zenon DEF JoinedUpTo, N
  <2> HIDE DEF F, U
  <2> QED BY <1>5, <2>1, Zenon
<1> HIDE DEF U
<1>7. \A k \in 0 .. N : U[k] = IF k = 0 THEN <<>> ELSE U[k - 1] \o ps[k]
  BY <1>6
<1>8. U[0] = <<>> /\ \A k \in 1 .. N : U[k] = U[k - 1] \o ps[k]
  <2>1. 0 \in 0 .. N /\ \A k \in 1 .. N : k \in 0 .. N /\ k # 0
    BY <1>1
  <2> QED BY <1>7, <2>1, Zenon
<1> DEFINE S == {k \in Nat : k <= N => U[k] \in ByteSeq}
<1>9. Nat \subseteq S
  <2>1. 0 \in S
    BY <1>2, <1>8
  <2>2. ASSUME NEW k \in Nat, k \in S PROVE k + 1 \in S
    <3> SUFFICES ASSUME k + 1 <= N PROVE U[k + 1] \in ByteSeq
      OBVIOUS
    <3>1. U[k] \in ByteSeq /\ k + 1 \in 1 .. N /\ (k + 1) - 1 = k
      BY <1>1, <2>2
    <3>2. U[k + 1] = U[k] \o ps[k + 1]
      BY <1>8, <3>1
    <3> QED BY <1>1, <3>1, <3>2, ConcatBytes
  <2> HIDE DEF S
  <2> QED BY <2>1, <2>2, SetInduction
<1>10. \A k \in 0 .. N : U[k] \in ByteSeq
  BY <1>1, <1>9
<1> QED BY <1>8, <1>10 DEF JoinedFacts, U, N

LEMMA JoinedIsBytes ==
  ASSUME NEW ps \in Pieced
  PROVE  Joined(ps) \in ByteSeq
<1>1. \A k \in 0 .. Len(ps) : JoinedUpTo(ps)[k] \in ByteSeq
  BY JoinedTyped, Zenon DEF JoinedFacts
<1>2. Len(ps) \in 0 .. Len(ps)
  BY PiecedFacts
<1> QED BY <1>1, <1>2 DEF Joined

LEMMA JoinedEmpty == Joined(<<>>) = <<>>
<1>1. <<>> \in Pieced /\ Len(<<>>) = 0
  BY EmptySeq DEF Pieced
<1> QED BY <1>1, JoinedTyped DEF Joined, JoinedFacts

\* Lists that agree on their first pieces.
LEMMA JoinedPrefix ==
  ASSUME NEW ps \in Pieced, NEW other \in Pieced, NEW m \in Nat,
         m <= Len(ps), m <= Len(other), \A k \in 1 .. m : ps[k] = other[k]
  PROVE  \A k \in 0 .. m : JoinedUpTo(ps)[k] = JoinedUpTo(other)[k]
<1> DEFINE U == JoinedUpTo(ps)
           V == JoinedUpTo(other)
           S == {k \in Nat : k <= m => U[k] = V[k]}
<1>0. Len(ps) \in Nat /\ Len(other) \in Nat
  BY PiecedFacts
<1>1. /\ U[0] = <<>> /\ \A k \in 1 .. Len(ps) : U[k] = U[k - 1] \o ps[k]
      /\ V[0] = <<>> /\ \A k \in 1 .. Len(other) : V[k] = V[k - 1] \o other[k]
  BY JoinedTyped, Zenon DEF JoinedFacts
<1> HIDE DEF U, V
<1>2. 0 \in S
  BY <1>1
<1>3. ASSUME NEW k \in Nat, k \in S PROVE k + 1 \in S
  <2> SUFFICES ASSUME k + 1 <= m PROVE U[k + 1] = V[k + 1]
    OBVIOUS
  <2>1. /\ U[k] = V[k] /\ k + 1 \in 1 .. Len(ps) /\ k + 1 \in 1 .. Len(other) /\ (k + 1) - 1 = k
        /\ ps[k + 1] = other[k + 1]
    BY <1>0, <1>3
  <2>2. U[k + 1] = U[k] \o ps[k + 1]
    BY <1>1, <2>1
  <2>3. V[k + 1] = V[k] \o other[k + 1]
    BY <1>1, <2>1
  <2> QED BY <2>1, <2>2, <2>3
<1>4. Nat \subseteq S
  <2> HIDE DEF S
  <2> QED BY <1>2, <1>3, SetInduction
<1> QED BY <1>4 DEF U, V

\* A piece more at the end.
LEMMA JoinedAppend ==
  ASSUME NEW ps \in Pieced, NEW e \in ByteSeq
  PROVE  Joined(Append(ps, e)) = Joined(ps) \o e
<1> DEFINE new == Append(ps, e)
           m == Len(ps)
<1>1. /\ new \in Pieced /\ Len(new) = m + 1 /\ m \in Nat
      /\ (\A k \in 1 .. m : new[k] = ps[k]) /\ new[m + 1] = e
  BY AppendSeq, PiecedFacts DEF Pieced
<1> HIDE DEF new
<1>2. m <= Len(ps) /\ m <= Len(new) /\ \A k \in 1 .. m : ps[k] = new[k]
  BY <1>1
<1>3. m \in 0 .. m /\ m + 1 \in 1 .. Len(new) /\ (m + 1) - 1 = m
  BY <1>1
<1>4. JoinedUpTo(ps)[m] = JoinedUpTo(new)[m]
  <2> HIDE DEF m
  <2> QED BY <1>1, <1>2, <1>3, JoinedPrefix
<1>5. JoinedUpTo(new)[m + 1] = JoinedUpTo(new)[m] \o new[m + 1]
  BY <1>1, <1>3, JoinedTyped DEF JoinedFacts
<1> QED BY <1>1, <1>4, <1>5 DEF Joined, new

\* The last piece replaced by one with more bytes at its end.
LEMMA JoinedLast ==
  ASSUME NEW ps \in Pieced, ps # <<>>, NEW new \in Pieced, Len(new) = Len(ps),
         \A k \in 1 .. Len(ps) - 1 : new[k] = ps[k], NEW b \in ByteSeq,
         new[Len(ps)] = ps[Len(ps)] \o b
  PROVE  Joined(new) = Joined(ps) \o b
<1> DEFINE m == Len(ps) - 1
<1>1. m \in Nat /\ Len(ps) = m + 1 /\ m + 1 \in 1 .. Len(ps) /\ ps[m + 1] \in ByteSeq
  BY PiecedFacts
<1>2. Len(new) = m + 1 /\ \A k \in 1 .. m : new[k] = ps[k]
  BY <1>1
<1> HIDE DEF m
<1>3. m <= Len(ps) /\ m <= Len(new) /\ \A k \in 1 .. m : ps[k] = new[k]
  BY <1>1, <1>2
<1>4. m \in 0 .. m /\ m + 1 \in 1 .. Len(new) /\ (m + 1) - 1 = m /\ m \in 0 .. Len(ps)
  BY <1>1, <1>2
<1>5. JoinedUpTo(ps)[m] = JoinedUpTo(new)[m]
  BY <1>1, <1>2, <1>3, <1>4, JoinedPrefix
<1>6. JoinedUpTo(new)[m + 1] = JoinedUpTo(new)[m] \o new[m + 1]
  BY <1>2, <1>4, JoinedTyped DEF JoinedFacts
<1>7. /\ JoinedUpTo(ps)[m + 1] = JoinedUpTo(ps)[m] \o ps[m + 1]
      /\ JoinedUpTo(ps)[m] \in ByteSeq
  BY <1>1, <1>4, JoinedTyped DEF JoinedFacts
<1>8. ps[m + 1] \in ByteSeq
  BY <1>1
<1>9. (JoinedUpTo(ps)[m] \o ps[m + 1]) \o b
         = JoinedUpTo(ps)[m] \o (ps[m + 1] \o b)
  BY <1>7, <1>8, JoinBytes
<1> QED BY <1>1, <1>2, <1>5, <1>6, <1>7, <1>9 DEF Joined

LEMMA TailPieced ==
  ASSUME NEW ps \in Pieced, ps # <<>>
  PROVE  /\ Head(ps) = ps[1] /\ ps[1] \in ByteSeq /\ Len(ps) \in Nat \ {0}
         /\ Tail(ps) \in Pieced /\ Len(Tail(ps)) = Len(ps) - 1
         /\ \A k \in 1 .. Len(ps) - 1 : Tail(ps)[k] = ps[k + 1]
  BY TailSeq, PiecedFacts DEF Pieced

\* The head, and what is behind it.
LEMMA JoinedHead ==
  ASSUME NEW ps \in Pieced, ps # <<>>
  PROVE  Joined(ps) = ps[1] \o Joined(Tail(ps))
<1> DEFINE t == Tail(ps)
           U == JoinedUpTo(ps)
           V == JoinedUpTo(t)
           p == ps[1]
           m == Len(ps) - 1
           S == {k \in Nat : k <= m => U[k + 1] = p \o V[k]}
<1>1. /\ m \in Nat /\ Len(ps) = m + 1 /\ t \in Pieced /\ Len(t) = m /\ p \in ByteSeq
      /\ \A k \in 1 .. m : t[k] = ps[k + 1] /\ t[k] \in ByteSeq
  BY TailPieced, PiecedFacts
<1> HIDE DEF t
<1>2. U[0] = <<>> /\ \A k \in 1 .. m + 1 : U[k] = U[k - 1] \o ps[k]
  BY <1>1, JoinedTyped DEF JoinedFacts
<1>3. /\ V[0] = <<>> /\ \A k \in 1 .. m : V[k] = V[k - 1] \o t[k]
      /\ \A k \in 0 .. m : V[k] \in ByteSeq
  BY <1>1, JoinedTyped DEF JoinedFacts
<1> HIDE DEF U, V, p, m
<1>4. 0 \in S
  <2>1. 1 \in 1 .. m + 1 /\ 1 - 1 = 0 /\ 0 + 1 = 1
    BY <1>1
  <2>2. U[1] = U[0] \o p
    BY <1>2, <2>1 DEF p
  <2>3. U[1] = p \o V[0]
    BY <1>1, <1>2, <1>3, <2>2, EmptyBytes
  <2> QED BY <2>3
<1>5. ASSUME NEW k \in Nat, k \in S PROVE k + 1 \in S
  <2> SUFFICES ASSUME k + 1 <= m PROVE U[(k + 1) + 1] = p \o V[k + 1]
    OBVIOUS
  <2>1. /\ U[k + 1] = p \o V[k] /\ k \in 0 .. m /\ k + 1 \in 1 .. m /\ (k + 1) - 1 = k
        /\ (k + 1) + 1 \in 1 .. m + 1 /\ ((k + 1) + 1) - 1 = k + 1
    BY <1>1, <1>5
  <2>2. U[(k + 1) + 1] = U[k + 1] \o ps[(k + 1) + 1]
    BY <1>2, <2>1
  <2>3. V[k + 1] = V[k] \o t[k + 1]
    BY <1>3, <2>1
  <2>4. t[k + 1] = ps[(k + 1) + 1] /\ t[k + 1] \in ByteSeq
    BY <1>1, <2>1
  <2>5. t[k + 1] \in ByteSeq /\ V[k] \in ByteSeq
    BY <1>3, <2>1, <2>4
  <2>6. (p \o V[k]) \o t[k + 1] = p \o (V[k] \o t[k + 1])
    <3>1. p \in ByteSeq
      BY <1>1
    <3> QED BY <2>5, <3>1, JoinBytes, Zenon
  <2> QED BY <2>1, <2>2, <2>3, <2>4, <2>6
<1>6. Nat \subseteq S
  <2> HIDE DEF S
  <2> QED BY <1>4, <1>5, SetInduction
<1>7. U[m + 1] = p \o V[m]
  BY <1>1, <1>6
<1> QED BY <1>1, <1>7 DEF Joined, U, V, p, t

-----------------------------------------------------------------------------
(* What the buffers of a body hold.                                        *)

LEMMA BuffersFacts ==
  \A bs \in Seq(BufferType) :
    /\ Len(bs) \in Nat /\ (bs = <<>> <=> Len(bs) = 0)
    /\ \A k \in 1 .. Len(bs) : /\ bs[k] \in BufferType /\ bs[k].data \in ByteSeq /\ bs[k].cap \in Nat
                               /\ Len(bs[k].data) \in Nat /\ Len(bs[k].data) <= bs[k].cap
<1> SUFFICES ASSUME NEW bs \in Seq(BufferType)
             PROVE  /\ Len(bs) \in Nat /\ (bs = <<>> <=> Len(bs) = 0)
                    /\ \A k \in 1 .. Len(bs) :
                         /\ bs[k] \in BufferType /\ bs[k].data \in ByteSeq /\ bs[k].cap \in Nat
                         /\ Len(bs[k].data) \in Nat /\ Len(bs[k].data) <= bs[k].cap
  OBVIOUS
<1>1. Len(bs) \in Nat /\ (bs = <<>> <=> Len(bs) = 0) /\ \A k \in 1 .. Len(bs) : bs[k] \in BufferType
  BY SeqFacts
<1>2. \A e \in BufferType : /\ e.data \in ByteSeq /\ e.cap \in Nat
                            /\ Len(e.data) \in Nat /\ Len(e.data) <= e.cap
  BY BytesLen DEF BufferType
<1> QED BY <1>1, <1>2

LEMMA PiecesFacts ==
  ASSUME NEW br, Shape(br)
  PROVE  /\ Pieces(br) \in Pieced /\ Len(Pieces(br)) = Len(br.buffers) /\ Len(br.buffers) \in Nat
         /\ \A k \in 1 .. Len(br.buffers) : k # 1 => Pieces(br)[k] = br.buffers[k].data
         /\ br.buffers # <<>> =>
              /\ Pieces(br)[1] = SubSeq(br.buffers[1].data, br.index + 1, Len(br.buffers[1].data))
              /\ Len(Pieces(br)[1]) = Len(br.buffers[1].data) - br.index
<1> DEFINE N == Len(br.buffers)
           one == SubSeq(br.buffers[1].data, br.index + 1, Len(br.buffers[1].data))
<1>1. /\ N \in Nat /\ (br.buffers = <<>> <=> N = 0)
      /\ \A k \in 1 .. N : br.buffers[k].data \in ByteSeq /\ Len(br.buffers[k].data) \in Nat
  BY BuffersFacts DEF Shape
<1>2. ASSUME br.buffers # <<>>
      PROVE  one \in ByteSeq /\ Len(one) = Len(br.buffers[1].data) - br.index
  <2> DEFINE d == br.buffers[1].data
             m == br.index
  <2>1. d \in ByteSeq /\ Len(d) \in Nat /\ m \in Nat /\ m <= Len(d)
    BY <1>1, <1>2 DEF Shape
  <2> HIDE DEF d, m
  <2>2. SubSeq(d, m + 1, Len(d)) \in ByteSeq /\ Len(SubSeq(d, m + 1, Len(d))) = Len(d) - m
    BY <2>1, PartBytes
  <2> QED BY <2>2 DEF d, m
<1>3. Pieces(br) = [k \in 1 .. N |-> IF k = 1 THEN one ELSE br.buffers[k].data]
  BY DEF Pieces
<1> HIDE DEF one
<1>4. Pieces(br) \in [1 .. N -> ByteSeq]
  BY <1>1, <1>2, <1>3
<1>5. Pieces(br) \in Seq(ByteSeq) /\ Len(Pieces(br)) = N
  BY <1>1, <1>4, FunctionSeq
<1>6. \A k \in 1 .. N : Pieces(br)[k] = IF k = 1 THEN one ELSE br.buffers[k].data
  BY <1>3
<1>7. br.buffers # <<>> => Pieces(br)[1] = one
  BY <1>1, <1>6
<1> QED BY <1>1, <1>2, <1>5, <1>6, <1>7 DEF Pieced, one

LEMMA ContentsTyped ==
  ASSUME NEW br, Shape(br)
  PROVE  Contents(br) \in ByteSeq /\ Len(Contents(br)) \in Nat
  BY PiecesFacts, JoinedIsBytes, BytesLen DEF Contents

LEMMA ContentsEmpty ==
  ASSUME NEW br, Shape(br), br.buffers = <<>>
  PROVE  Contents(br) = <<>>
<1>1. Pieces(br) = <<>>
  BY PiecesFacts, PiecedFacts, BuffersFacts DEF Shape
<1> QED BY <1>1, JoinedEmpty DEF Contents

LEMMA SameBuffers ==
  ASSUME NEW br, Shape(br), NEW new, new.index = br.index, new.buffers = br.buffers
  PROVE  Shape(new) /\ Contents(new) = Contents(br)
<1>1. Pieces(new) = Pieces(br)
  BY DEF Pieces
<1> QED BY <1>1 DEF Shape, Contents

\* A buffer more.
LEMMA ContentsAppend ==
  ASSUME NEW br, Shape(br), NEW e \in BufferType, NEW new, new.index = br.index,
         new.buffers = Append(br.buffers, e)
  PROVE  Shape(new) /\ Contents(new) = Contents(br) \o e.data
<1> DEFINE N == Len(br.buffers)
<1>1. /\ br.buffers \in Seq(BufferType) /\ N \in Nat /\ (br.buffers = <<>> <=> N = 0)
      /\ \A k \in 1 .. N : br.buffers[k].data \in ByteSeq /\ Len(br.buffers[k].data) \in Nat
  BY BuffersFacts DEF Shape
<1>2. /\ new.buffers \in Seq(BufferType) /\ new.buffers # <<>> /\ Len(new.buffers) = N + 1
      /\ (\A k \in 1 .. N : new.buffers[k] = br.buffers[k]) /\ new.buffers[N + 1] = e
  BY <1>1, AppendSeq
<1>3. e.data \in ByteSeq /\ Len(e.data) \in Nat
  BY BytesLen DEF BufferType
<1>4. Shape(new)
  <2>1. CASE N = 0
    BY <1>1, <1>2, <1>3, <2>1 DEF Shape
  <2>2. CASE N # 0
    BY <1>1, <1>2, <2>2 DEF Shape
  <2> QED BY <2>1, <2>2
<1> DEFINE P == Pieces(br)
           Q == Pieces(new)
<1>5. /\ P \in Pieced /\ Len(P) = N /\ \A k \in 1 .. N : k # 1 => P[k] = br.buffers[k].data
      /\ N # 0 => P[1] = SubSeq(br.buffers[1].data, br.index + 1, Len(br.buffers[1].data))
  BY <1>1, PiecesFacts
<1>6. /\ Q \in Pieced /\ Len(Q) = N + 1 /\ \A k \in 1 .. N + 1 : k # 1 => Q[k] = new.buffers[k].data
      /\ Q[1] = SubSeq(new.buffers[1].data, br.index + 1, Len(new.buffers[1].data))
  BY <1>2, <1>4, PiecesFacts
<1> HIDE DEF P, Q
<1>7. ASSUME NEW k \in 1 .. N PROVE Q[k] = P[k]
  <2>1. CASE k = 1
    <3>1. new.buffers[1] = br.buffers[1] /\ N # 0
      BY <1>1, <1>2, <2>1
    <3> QED BY <1>5, <1>6, <2>1, <3>1
  <2>2. CASE k # 1
    BY <1>1, <1>2, <1>5, <1>6, <2>2
  <2> QED BY <2>1, <2>2
<1>8. Q[N + 1] = e.data
  <2>1. CASE N = 0
    <3>1. br.index = 0 /\ new.buffers[1] = e
      BY <1>1, <1>2, <2>1 DEF Shape
    <3>2. Q[1] = SubSeq(e.data, 1, Len(e.data))
      BY <1>6, <3>1
    <3> QED BY <1>3, <2>1, <3>2, WholeBytes
  <2>2. CASE N # 0
    BY <1>1, <1>2, <1>6, <2>2
  <2> QED BY <2>1, <2>2
<1> DEFINE R == Append(P, e.data)
<1>9. /\ R \in Pieced /\ Len(R) = N + 1 /\ (\A k \in 1 .. N : R[k] = P[k]) /\ R[N + 1] = e.data
  BY <1>3, <1>5, AppendSeq DEF Pieced
<1> HIDE DEF R
<1>10. Q = R
  <2>1. ASSUME NEW k \in 1 .. N + 1 PROVE Q[k] = R[k]
    BY <1>1, <1>7, <1>8, <1>9
  <2>2. Q \in Seq(ByteSeq) /\ R \in Seq(ByteSeq) /\ Len(Q) = Len(R) /\ \A k \in 1 .. Len(Q) : Q[k] = R[k]
    BY <1>6, <1>9, <2>1 DEF Pieced
  <2> QED BY <2>2, EqualSeq
<1>11. Joined(R) = Joined(P) \o e.data
  BY <1>3, <1>5, JoinedAppend DEF R
<1> QED BY <1>4, <1>10, <1>11 DEF Contents, P, Q

LEMMA SuffixBytes ==
  ASSUME NEW s \in ByteSeq, NEW t \in ByteSeq, NEW m \in Nat, m <= Len(s)
  PROVE  SubSeq(s \o t, m + 1, Len(s \o t)) = SubSeq(s, m + 1, Len(s)) \o t
<1> DEFINE u == s \o t
           a == Len(s)
           b == Len(t)
           p == SubSeq(u, m + 1, Len(u))
           q == SubSeq(s, m + 1, a)
           r == q \o t
<1>1. a \in Nat /\ b \in Nat
  BY BytesLen
<1>2. /\ u \in ByteSeq /\ Len(u) = a + b
      /\ (\A k \in 1 .. a : u[k] = s[k]) /\ (\A k \in 1 .. b : u[a + k] = t[k])
  BY ConcatSeq DEF ByteSeq
<1> HIDE DEF u
<1>3. p \in ByteSeq /\ Len(p) = (a + b) - m /\ \A k \in 1 .. (a + b) - m : p[k] = u[m + k]
  <2>1. m <= a + b /\ a + b \in Nat /\ Len(u) = a + b
    BY <1>1, <1>2
  <2> QED BY <1>2, <2>1, PartBytes
<1>4. q \in ByteSeq /\ Len(q) = a - m /\ \A k \in 1 .. a - m : q[k] = s[m + k]
  BY <1>1, PartBytes
<1> HIDE DEF p, q, a, b
<1>5. /\ r \in ByteSeq /\ Len(r) = (a - m) + b
      /\ (\A k \in 1 .. a - m : r[k] = q[k]) /\ (\A k \in 1 .. b : r[(a - m) + k] = t[k])
  <2>1. /\ r \in ByteSeq /\ Len(r) = Len(q) + b
        /\ (\A k \in 1 .. Len(q) : r[k] = q[k]) /\ (\A k \in 1 .. b : r[Len(q) + k] = t[k])
    BY <1>4, ConcatElements DEF b
  <2> HIDE DEF r
  <2> QED BY <1>4, <2>1
<1>0. m <= a
  BY DEF a
<1> HIDE DEF r
<1>6. ASSUME NEW k \in 1 .. (a + b) - m PROVE p[k] = r[k]
  <2>1. CASE k <= a - m
    <3>1. k \in 1 .. a - m /\ m + k \in 1 .. a
      BY <1>0, <1>1, <2>1
    <3> QED BY <1>2, <1>3, <1>4, <1>5, <3>1
  <2>2. CASE k > a - m
    <3> DEFINE j == k - (a - m)
    <3>1. j \in 1 .. b /\ (a - m) + j = k /\ a + j = m + k
      BY <1>0, <1>1, <2>2
    <3> HIDE DEF j
    <3> QED BY <1>2, <1>3, <1>5, <3>1
  <2>3. k <= a - m \/ k > a - m
    BY <1>0, <1>1
  <2> QED BY <2>1, <2>2, <2>3, Zenon
<1>7. Len(p) = Len(r) /\ \A k \in 1 .. Len(p) : p[k] = r[k]
  BY <1>0, <1>1, <1>3, <1>5, <1>6
<1>8. p = r
  BY <1>3, <1>5, <1>7, SameBytes
<1> QED BY <1>8 DEF p, r, q, u, a

\* More bytes in the last buffer.
LEMMA ContentsLast ==
  ASSUME NEW br, Shape(br), br.buffers # <<>>, NEW new, new.index = br.index,
         new.buffers \in Seq(BufferType), Len(new.buffers) = Len(br.buffers), NEW x \in ByteSeq,
         \A k \in 1 .. Len(br.buffers) - 1 : new.buffers[k] = br.buffers[k],
         new.buffers[Len(br.buffers)].data = br.buffers[Len(br.buffers)].data \o x
  PROVE  Shape(new) /\ Contents(new) = Contents(br) \o x
<1> DEFINE N == Len(br.buffers)
<1>1. /\ N \in Nat \ {0} /\ br.index \in Nat /\ br.index <= Len(br.buffers[1].data)
      /\ \A k \in 1 .. N : br.buffers[k].data \in ByteSeq /\ Len(br.buffers[k].data) \in Nat
  BY BuffersFacts DEF Shape
<1>2. new.buffers # <<>> /\ Len(new.buffers[1].data) >= Len(br.buffers[1].data)
  <2>1. new.buffers # <<>>
    BY <1>1, BuffersFacts
  <2>2. CASE N = 1
    <3>1. new.buffers[1].data = br.buffers[1].data \o x /\ br.buffers[1].data \in ByteSeq
      BY <1>1, <2>2
    <3>2. Len(new.buffers[1].data) = Len(br.buffers[1].data) + Len(x) /\ Len(x) \in Nat
      BY <3>1, ConcatBytes
    <3> QED BY <1>1, <2>1, <2>2, <3>2
  <2>3. CASE N # 1
    <3>1. 1 \in 1 .. N - 1 /\ 1 \in 1 .. N
      <4>1. N \in Nat \ {0}
        BY <1>1
      <4> HIDE DEF N
      <4> QED BY <2>3, <4>1
    <3>2. new.buffers[1] = br.buffers[1] /\ Len(br.buffers[1].data) \in Nat
      BY <1>1, <3>1
    <3> QED BY <2>1, <3>2
  <2> QED BY <2>1, <2>2, <2>3
<1>3. Shape(new)
  <2>1. Len(new.buffers[1].data) \in Nat
    BY <1>1, BuffersFacts
  <2> QED BY <1>1, <1>2, <2>1 DEF Shape
<1> DEFINE P == Pieces(br)
           Q == Pieces(new)
<1>4. /\ P \in Pieced /\ Len(P) = N /\ \A k \in 1 .. N : k # 1 => P[k] = br.buffers[k].data
      /\ P[1] = SubSeq(br.buffers[1].data, br.index + 1, Len(br.buffers[1].data))
  BY <1>1, PiecesFacts
<1>5. /\ Q \in Pieced /\ Len(Q) = N /\ \A k \in 1 .. N : k # 1 => Q[k] = new.buffers[k].data
      /\ Q[1] = SubSeq(new.buffers[1].data, br.index + 1, Len(new.buffers[1].data))
  BY <1>2, <1>3, PiecesFacts
<1> HIDE DEF P, Q
<1>6. ASSUME NEW k \in 1 .. N - 1 PROVE Q[k] = P[k]
  <2>1. k \in 1 .. N /\ new.buffers[k] = br.buffers[k]
    BY <1>1
  <2>2. CASE k = 1
    BY <1>4, <1>5, <2>1, <2>2
  <2>3. CASE k # 1
    BY <1>4, <1>5, <2>1, <2>3
  <2> QED BY <2>2, <2>3
<1>7. Q[N] = P[N] \o x
  <2>1. CASE N = 1
    <3> DEFINE d == br.buffers[1].data
               m == br.index
    <3>1. d \in ByteSeq /\ m \in Nat /\ m <= Len(d) /\ new.buffers[1].data = d \o x
      BY <1>1, <2>1
    <3>2. Q[1] = SubSeq(d \o x, m + 1, Len(d \o x)) /\ P[1] = SubSeq(d, m + 1, Len(d))
      BY <1>4, <1>5, <3>1
    <3> HIDE DEF d, m
    <3> QED BY <2>1, <3>1, <3>2, SuffixBytes
  <2>2. CASE N # 1
    <3>1. N \in 1 .. N
      BY <1>1
    <3>2. Q[N] = new.buffers[N].data /\ P[N] = br.buffers[N].data
      <4> HIDE DEF N
      <4> QED BY <1>4, <1>5, <2>2, <3>1
    <3> QED BY <3>2
  <2> QED BY <2>1, <2>2
<1>8. P # <<>>
  BY <1>1, <1>4, PiecedFacts
<1>9. Joined(Q) = Joined(P) \o x
  <2>1. Len(Q) = Len(P) /\ (\A k \in 1 .. Len(P) - 1 : Q[k] = P[k]) /\ Q[Len(P)] = P[Len(P)] \o x
    BY <1>4, <1>5, <1>6, <1>7
  <2> QED BY <1>4, <1>5, <1>8, <2>1, JoinedLast
<1> QED BY <1>3, <1>9 DEF Contents, P, Q

\* Lists that differ in their first piece only.
LEMMA SameTail ==
  ASSUME NEW ps \in Pieced, NEW qs \in Pieced, ps # <<>>, qs # <<>>, Len(qs) = Len(ps),
         \A k \in 1 .. Len(ps) : k # 1 => qs[k] = ps[k]
  PROVE  Tail(qs) = Tail(ps)
<1>1. /\ Len(ps) \in Nat /\ Tail(ps) \in Pieced /\ Len(Tail(ps)) = Len(ps) - 1
      /\ \A k \in 1 .. Len(ps) - 1 : Tail(ps)[k] = ps[k + 1]
  BY TailPieced
<1>2. /\ Tail(qs) \in Pieced /\ Len(Tail(qs)) = Len(ps) - 1
      /\ \A k \in 1 .. Len(ps) - 1 : Tail(qs)[k] = qs[k + 1]
  BY TailPieced
<1>3. ASSUME NEW k \in 1 .. Len(ps) - 1 PROVE Tail(qs)[k] = Tail(ps)[k]
  BY <1>1, <1>2
<1>4. Tail(ps) \in Seq(ByteSeq) /\ Tail(qs) \in Seq(ByteSeq) /\ Len(Tail(qs)) = Len(Tail(ps))
      /\ \A k \in 1 .. Len(Tail(qs)) : Tail(qs)[k] = Tail(ps)[k]
  BY <1>1, <1>2, <1>3 DEF Pieced
<1> QED BY <1>4, EqualSeq

\* The bytes from m on, cut after n of them.
LEMMA CutPart ==
  ASSUME NEW s \in ByteSeq, NEW m \in Nat, NEW n \in Nat, m + n <= Len(s)
  PROVE  /\ SubSeq(s, m + 1, m + n) \in ByteSeq /\ Len(SubSeq(s, m + 1, m + n)) = n
         /\ SubSeq(s, (m + n) + 1, Len(s)) \in ByteSeq
         /\ SubSeq(s, m + 1, Len(s)) = SubSeq(s, m + 1, m + n) \o SubSeq(s, (m + n) + 1, Len(s))
<1> DEFINE L == Len(s)
           x == SubSeq(s, m + 1, m + n)
           y == SubSeq(s, (m + n) + 1, L)
           z == SubSeq(s, m + 1, L)
           r == x \o y
<1>1. L \in Nat /\ m + n \in Nat /\ m <= m + n /\ m <= L /\ (m + n) - m = n
  BY BytesLen
<1>2. x \in ByteSeq /\ Len(x) = n /\ \A k \in 1 .. n : x[k] = s[m + k]
  <2>1. /\ x \in ByteSeq /\ Len(x) = (m + n) - m /\ \A k \in 1 .. (m + n) - m : x[k] = s[m + k]
    BY <1>1, PartBytes
  <2> QED BY <1>1, <2>1
<1>3. y \in ByteSeq /\ Len(y) = L - (m + n) /\ \A k \in 1 .. L - (m + n) : y[k] = s[(m + n) + k]
  <2> DEFINE j == m + n
  <2>1. j \in Nat /\ j <= L
    BY <1>1
  <2> HIDE DEF j
  <2>2. /\ SubSeq(s, j + 1, L) \in ByteSeq /\ Len(SubSeq(s, j + 1, L)) = L - j
        /\ \A k \in 1 .. L - j : SubSeq(s, j + 1, L)[k] = s[j + k]
    BY <1>1, <2>1, PartBytes
  <2> QED BY <2>2 DEF j
<1>4. z \in ByteSeq /\ Len(z) = L - m /\ \A k \in 1 .. L - m : z[k] = s[m + k]
  BY <1>1, PartBytes
<1> HIDE DEF x, y, z, L
<1>5. /\ r \in ByteSeq /\ Len(r) = n + (L - (m + n))
      /\ (\A k \in 1 .. n : r[k] = x[k]) /\ (\A k \in 1 .. L - (m + n) : r[n + k] = y[k])
  <2>1. /\ r \in ByteSeq /\ Len(r) = Len(x) + Len(y)
        /\ (\A k \in 1 .. Len(x) : r[k] = x[k]) /\ (\A k \in 1 .. Len(y) : r[Len(x) + k] = y[k])
    BY <1>2, <1>3, ConcatElements
  <2> HIDE DEF r
  <2> QED BY <1>2, <1>3, <2>1
<1>0. m + n <= L
  BY DEF L
<1> HIDE DEF r
<1>6. ASSUME NEW k \in 1 .. L - m PROVE z[k] = r[k]
  <2>1. CASE k <= n
    BY <1>1, <1>2, <1>4, <1>5, <2>1
  <2>2. CASE k > n
    <3>1. k - n \in 1 .. L - (m + n) /\ n + (k - n) = k /\ (m + n) + (k - n) = m + k
      BY <1>0, <1>1, <2>2
    <3>2. r[n + (k - n)] = y[k - n] /\ y[k - n] = s[(m + n) + (k - n)]
      BY <1>3, <1>5, <3>1
    <3> QED BY <1>4, <3>1, <3>2
  <2>3. k <= n \/ k > n
    BY <1>1
  <2> QED BY <2>1, <2>2, <2>3, Zenon
<1>7. Len(z) = Len(r) /\ \A k \in 1 .. Len(z) : z[k] = r[k]
  BY <1>0, <1>1, <1>4, <1>5, <1>6
<1>8. z = r
  BY <1>4, <1>5, <1>7, SameBytes
<1> QED BY <1>2, <1>3, <1>8 DEF x, y, z, r, L

\* The first n unread bytes of the first buffer taken, and the buffer kept.
LEMMA ContentsAdvance ==
  ASSUME NEW br, Shape(br), br.buffers # <<>>, NEW n \in Nat,
         br.index + n <= Len(br.buffers[1].data),
         NEW new, new.index = br.index + n, new.buffers = br.buffers
  PROVE  /\ Shape(new) /\ SubSeq(br.buffers[1].data, br.index + 1, br.index + n) \in ByteSeq
         /\ Len(SubSeq(br.buffers[1].data, br.index + 1, br.index + n)) = n
         /\ Contents(br) = SubSeq(br.buffers[1].data, br.index + 1, br.index + n) \o Contents(new)
<1> DEFINE d == br.buffers[1].data
           m == br.index
           x == SubSeq(d, m + 1, m + n)
           y == SubSeq(d, (m + n) + 1, Len(d))
           rest == Joined(Tail(Pieces(br)))
<1>1. /\ d \in ByteSeq /\ Len(d) \in Nat /\ m \in Nat /\ m + n <= Len(d)
      /\ br.buffers \in Seq(BufferType)
  BY BuffersFacts DEF Shape
<1>2. Shape(new)
  BY <1>1 DEF Shape
<1>3. /\ Pieces(br) \in Pieced /\ Pieces(br) # <<>> /\ Pieces(br)[1] = SubSeq(d, m + 1, Len(d))
      /\ Pieces(new) \in Pieced /\ Pieces(new) # <<>> /\ Pieces(new)[1] = y
      /\ Len(Pieces(new)) = Len(Pieces(br))
      /\ \A k \in 1 .. Len(Pieces(br)) : k # 1 => Pieces(new)[k] = Pieces(br)[k]
  <2>1. /\ Pieces(br) \in Pieced /\ Len(Pieces(br)) = Len(br.buffers) /\ Len(br.buffers) \in Nat
        /\ \A k \in 1 .. Len(br.buffers) : k # 1 => Pieces(br)[k] = br.buffers[k].data
        /\ Pieces(br)[1] = SubSeq(d, m + 1, Len(d))
    BY PiecesFacts
  <2>2. /\ Pieces(new) \in Pieced /\ Len(Pieces(new)) = Len(br.buffers)
        /\ \A k \in 1 .. Len(br.buffers) : k # 1 => Pieces(new)[k] = br.buffers[k].data
        /\ Pieces(new)[1] = y
    BY <1>2, PiecesFacts
  <2>3. Pieces(br) # <<>> /\ Pieces(new) # <<>>
    <3>1. Len(br.buffers) # 0
      BY <1>1, BuffersFacts
    <3> QED BY <2>1, <2>2, <3>1, PiecedFacts
  <2> QED BY <2>1, <2>2, <2>3
<1>4. Tail(Pieces(new)) = Tail(Pieces(br))
  BY <1>3, SameTail
<1>5. /\ x \in ByteSeq /\ Len(x) = n /\ y \in ByteSeq /\ SubSeq(d, m + 1, Len(d)) = x \o y
  <2> HIDE DEF d, m
  <2> QED BY <1>1, CutPart
<1>6. Joined(Pieces(br)) = (x \o y) \o rest /\ Joined(Pieces(new)) = y \o rest
  <2>1. Joined(Pieces(br)) = Pieces(br)[1] \o rest
    BY <1>3, JoinedHead
  <2>2. Joined(Pieces(new)) = Pieces(new)[1] \o Joined(Tail(Pieces(new)))
    BY <1>3, JoinedHead
  <2> QED BY <1>3, <1>4, <1>5, <2>1, <2>2
<1>7. rest \in ByteSeq
  BY <1>3, TailPieced, JoinedIsBytes
<1>8. (x \o y) \o rest = x \o (y \o rest)
  BY <1>5, <1>7, JoinBytes
<1> QED BY <1>2, <1>5, <1>6, <1>8 DEF Contents

\* The first buffer read to its end, and freed.
LEMMA ContentsHead ==
  ASSUME NEW br, Shape(br), br.buffers # <<>>, NEW new, new.index = 0, new.buffers = Tail(br.buffers)
  PROVE  /\ Shape(new) /\ Len(new.buffers) = Len(br.buffers) - 1
         /\ Contents(br) =
              SubSeq(br.buffers[1].data, br.index + 1, Len(br.buffers[1].data)) \o Contents(new)
<1>1. /\ br.buffers \in Seq(BufferType) /\ Len(br.buffers) \in Nat \ {0}
  BY BuffersFacts DEF Shape
<1>2. /\ new.buffers \in Seq(BufferType) /\ Len(new.buffers) = Len(br.buffers) - 1
      /\ \A k \in 1 .. Len(br.buffers) - 1 : new.buffers[k] = br.buffers[k + 1]
  BY <1>1, TailSeq
<1>3. Shape(new)
  <2>1. new.buffers # <<>> => 0 <= Len(new.buffers[1].data)
    BY <1>2, BuffersFacts
  <2> QED BY <1>2, <2>1 DEF Shape
<1> DEFINE P == Pieces(br)
           Q == Pieces(new)
           N == Len(br.buffers)
<1>4. /\ P \in Pieced /\ Len(P) = N /\ \A k \in 1 .. N : k # 1 => P[k] = br.buffers[k].data
      /\ P[1] = SubSeq(br.buffers[1].data, br.index + 1, Len(br.buffers[1].data))
  BY PiecesFacts
<1>5. /\ Q \in Pieced /\ Len(Q) = N - 1 /\ \A k \in 1 .. N - 1 : k # 1 => Q[k] = new.buffers[k].data
      /\ new.buffers # <<>> => Q[1] = SubSeq(new.buffers[1].data, 1, Len(new.buffers[1].data))
  <2>1. /\ Q \in Pieced /\ Len(Q) = Len(new.buffers)
        /\ \A k \in 1 .. Len(new.buffers) : k # 1 => Q[k] = new.buffers[k].data
        /\ new.buffers # <<>> =>
             Q[1] = SubSeq(new.buffers[1].data, new.index + 1, Len(new.buffers[1].data))
    BY <1>3, PiecesFacts
  <2> HIDE DEF Q
  <2>2. new.index + 1 = 1
    OBVIOUS
  <2> QED BY <1>2, <2>1, <2>2
<1> HIDE DEF P, Q
<1>6. P # <<>>
  BY <1>1, <1>4, PiecedFacts
<1>7. /\ Tail(P) \in Pieced /\ Len(Tail(P)) = N - 1 /\ \A k \in 1 .. N - 1 : Tail(P)[k] = P[k + 1]
  BY <1>4, <1>6, TailPieced
<1>8. ASSUME NEW k \in 1 .. N - 1 PROVE Q[k] = Tail(P)[k]
  <2>1. Tail(P)[k] = br.buffers[k + 1].data /\ new.buffers[k] = br.buffers[k + 1]
    BY <1>1, <1>2, <1>4, <1>7
  <2>2. CASE k = 1
    <3> DEFINE d == new.buffers[1].data
    <3>1. new.buffers # <<>> /\ d \in ByteSeq
      <4>0. 1 \in 1 .. N - 1
        BY <2>2
      <4>1. Len(new.buffers) \in Nat \ {0} /\ 1 \in 1 .. Len(new.buffers)
        BY <1>1, <1>2, <4>0
      <4> QED BY <1>2, <4>1, BuffersFacts
    <3>2. Q[1] = SubSeq(d, 1, Len(d))
      BY <1>5, <3>1
    <3>3. Q[1] = d
      BY <3>1, <3>2, WholeBytes
    <3> QED BY <2>1, <2>2, <3>3
  <2>3. CASE k # 1
    BY <1>5, <2>1, <2>3
  <2> QED BY <2>2, <2>3
<1>9. Q = Tail(P)
  <2>1. Q \in Seq(ByteSeq) /\ Tail(P) \in Seq(ByteSeq) /\ Len(Q) = Len(Tail(P))
        /\ \A k \in 1 .. Len(Q) : Q[k] = Tail(P)[k]
    BY <1>5, <1>7, <1>8 DEF Pieced
  <2> HIDE DEF N
  <2> QED BY <2>1, EqualSeq
<1>10. Joined(P) = P[1] \o Joined(Tail(P))
  BY <1>4, <1>6, JoinedHead
<1> QED BY <1>2, <1>3, <1>4, <1>9, <1>10 DEF Contents, P, Q

-----------------------------------------------------------------------------
(* append, Read and Close.                                                 *)

LEMMA BufferMade ==
  ASSUME NEW d \in ByteSeq, NEW spare \in Nat
  PROVE  Body!Buffer(d, spare) \in BufferType /\ Body!Buffer(d, spare).data = d
  BY BytesLen DEF Body!Buffer, BufferType

\* The last buffer filled with x.
LEMMA BufferFilled ==
  ASSUME NEW bs \in Seq(BufferType), bs # <<>>, NEW x \in ByteSeq,
         Len(x) <= bs[Len(bs)].cap - Len(bs[Len(bs)].data)
  PROVE  /\ [bs EXCEPT ![Len(bs)].data = @ \o x] \in Seq(BufferType)
         /\ Len([bs EXCEPT ![Len(bs)].data = @ \o x]) = Len(bs)
         /\ \A k \in 1 .. Len(bs) - 1 : [bs EXCEPT ![Len(bs)].data = @ \o x][k] = bs[k]
         /\ [bs EXCEPT ![Len(bs)].data = @ \o x][Len(bs)].data = bs[Len(bs)].data \o x
<1> DEFINE N == Len(bs)
           new == [bs EXCEPT ![N].data = @ \o x]
           e == bs[N]
<1>1. N \in Nat \ {0} /\ N \in 1 .. N /\ bs \in [1 .. N -> BufferType] /\ e \in BufferType
  BY BuffersFacts, SeqFacts
<1>2. /\ e \in [data : ByteSeq, cap : Nat] /\ e.data \in ByteSeq /\ e.cap \in Nat
      /\ e.data \o x \in ByteSeq /\ Len(e.data \o x) = Len(e.data) + Len(x)
      /\ Len(e.data) \in Nat /\ Len(x) \in Nat
  BY <1>1, ConcatBytes DEF BufferType
<1>3. Len(e.data \o x) <= e.cap
  BY <1>2
<1>4. new[N] = [e EXCEPT !.data = e.data \o x]
  BY <1>1
<1>5. new[N] \in BufferType /\ new[N].data = e.data \o x
  BY <1>2, <1>3, <1>4 DEF BufferType
<1>6. new \in [1 .. N -> BufferType] /\ \A k \in 1 .. N - 1 : new[k] = bs[k]
  <2>1. \A k \in 1 .. N : k # N => new[k] = bs[k]
    BY <1>1
  <2>2. DOMAIN new = 1 .. N /\ new = [k \in 1 .. N |-> new[k]]
    BY <1>1
  <2> HIDE DEF new
  <2> QED BY <1>1, <1>5, <2>1, <2>2
<1> HIDE DEF new
<1>7. new \in Seq(BufferType) /\ Len(new) = N
  BY <1>1, <1>6, FunctionSeq
<1> QED BY <1>5, <1>6, <1>7 DEF new

\* append puts the bytes behind those that are there, and counts them.
LEMMA AppendKeeps ==
  ASSUME NEW br, Exact(br), NEW d \in ByteSeq, NEW spare \in Nat
  PROVE  /\ Exact(Body!append(br, d, spare)) /\ Body!append(br, d, spare).closed = br.closed
         /\ Contents(Body!append(br, d, spare)) = Contents(br) \o d
<1> DEFINE new == Body!append(br, d, spare)
           bs == br.buffers
           N == Len(bs)
           tail == bs[N]
           room == IF N = 0 THEN 0 ELSE tail.cap - Len(tail.data)
           nc == IF room < Len(d) THEN room ELSE Len(d)
           x == SubSeq(d, 1, nc)
           y == SubSeq(d, nc + 1, Len(d))
           first == IF N = 0 THEN <<>> ELSE [bs EXCEPT ![N].data = @ \o x]
           B == IF y = <<>> THEN first ELSE Append(first, Body!Buffer(y, spare))
           mid == [index |-> br.index, buffers |-> first]
<1>1. /\ br \in BodyFields /\ Shape(br) /\ br.left = Len(Contents(br)) /\ bs \in Seq(BufferType)
      /\ N \in Nat /\ (bs = <<>> <=> N = 0) /\ br.left \in Int /\ br.index \in Nat
  <2>1. br \in BodyFields /\ Shape(br) /\ br.left = Len(Contents(br))
    BY DEF Exact, Bodies
  <2>2. bs \in Seq(BufferType) /\ br.left \in Int /\ br.index \in Nat
    BY <2>1 DEF BodyFields
  <2> QED BY <2>1, <2>2, BuffersFacts
<1>2. new = [br EXCEPT !.left = @ + Len(d), !.buffers = B]
  BY DEF Body!append
<1>3. Len(d) \in Nat /\ room \in Nat
  <2>1. N # 0 => tail.cap \in Nat /\ Len(tail.data) \in Nat /\ Len(tail.data) <= tail.cap
    BY <1>1, BuffersFacts
  <2> QED BY <1>1, <2>1, BytesLen
<1> HIDE DEF room
<1>4. nc \in Nat /\ nc <= Len(d) /\ nc <= room
  BY <1>3
<1> HIDE DEF nc
<1>5. x \in ByteSeq /\ Len(x) = nc /\ y \in ByteSeq /\ x \o y = d
  BY <1>4, CutBytes
<1> HIDE DEF x, y
<1>6. Shape(mid) /\ Contents(mid) = Contents(br) \o x /\ first \in Seq(BufferType)
  <2>1. CASE N = 0
    <3>1. mid.index = 0 /\ mid.buffers = <<>>
      BY <1>1, <2>1 DEF Shape
    <3>2. Shape(mid)
      BY <3>1, EmptySeq DEF Shape
    <3>3. x = <<>>
      BY <1>4, <1>5, <2>1, BytesLen DEF room
    <3>4. Contents(mid) = <<>> /\ Contents(br) = <<>>
      BY <1>1, <2>1, <3>1, <3>2, ContentsEmpty
    <3> QED BY <2>1, <3>2, <3>3, <3>4, EmptyBytes, EmptySeq
  <2>2. CASE N # 0
    <3>1. bs # <<>> /\ Len(x) <= tail.cap - Len(tail.data)
      BY <1>1, <1>4, <1>5, <2>2 DEF room
    <3>2. /\ first \in Seq(BufferType) /\ Len(first) = N
          /\ \A k \in 1 .. N - 1 : first[k] = bs[k]
          /\ first[N].data = tail.data \o x
      <4>1. first = [bs EXCEPT ![Len(bs)].data = @ \o x]
        BY <2>2
      <4>2. /\ [bs EXCEPT ![Len(bs)].data = @ \o x] \in Seq(BufferType)
            /\ Len([bs EXCEPT ![Len(bs)].data = @ \o x]) = Len(bs)
            /\ \A k \in 1 .. Len(bs) - 1 : [bs EXCEPT ![Len(bs)].data = @ \o x][k] = bs[k]
            /\ [bs EXCEPT ![Len(bs)].data = @ \o x][Len(bs)].data = bs[Len(bs)].data \o x
        <5>1. bs \in Seq(BufferType) /\ bs # <<>> /\ Len(x) <= bs[Len(bs)].cap - Len(bs[Len(bs)].data)
          BY <1>1, <3>1
        <5> HIDE DEF bs
        <5> QED BY <1>5, <5>1, BufferFilled
      <4> HIDE DEF first
      <4> QED BY <4>1, <4>2, Zenon
    <3>3. mid.index = br.index /\ mid.buffers = first
      OBVIOUS
    <3> HIDE DEF first, mid
    <3>4. Shape(mid) /\ Contents(mid) = Contents(br) \o x
      BY <1>1, <1>5, <3>1, <3>2, <3>3, ContentsLast
    <3> QED BY <3>2, <3>4
  <2> QED BY <2>1, <2>2
<1>7. mid.index = br.index /\ mid.buffers = first
  OBVIOUS
<1> HIDE DEF first, mid
<1>8. B \in Seq(BufferType)
  <2>1. Body!Buffer(y, spare) \in BufferType
    BY <1>5, BufferMade
  <2> QED BY <1>6, <2>1, AppendSeq
<1>9. /\ new \in BodyFields /\ new.left = br.left + Len(d) /\ new.buffers = B
      /\ new.index = br.index /\ new.closed = br.closed
  <2> HIDE DEF B, new
  <2>1. br \in [index : Nat, left : Int, closed : BOOLEAN, buffers : Seq(BufferType)]
    BY <1>1 DEF BodyFields
  <2>2. /\ new.left = br.left + Len(d) /\ new.buffers = B
        /\ new.index = br.index /\ new.closed = br.closed
    BY <1>2, <2>1
  <2>3. br.left + Len(d) \in Int
    BY <1>1, <1>3
  <2>4. new \in BodyFields
    BY <1>2, <1>8, <2>1, <2>3 DEF BodyFields
  <2> QED BY <2>2, <2>4, Zenon
<1> HIDE DEF new
<1>10. Shape(new) /\ Contents(new) = Contents(br) \o d
  <2>1. CASE y = <<>>
    <3>1. x = d
      BY <1>5, <2>1, EmptyBytes
    <3>2. new.buffers = mid.buffers /\ new.index = mid.index
      BY <1>7, <1>9, <2>1
    <3>3. Shape(new) /\ Contents(new) = Contents(mid)
      BY <1>6, <3>2, SameBuffers
    <3> QED BY <1>6, <3>1, <3>3
  <2>2. CASE y # <<>>
    <3> DEFINE e == Body!Buffer(y, spare)
    <3>1. e \in BufferType /\ e.data = y
      BY <1>5, BufferMade
    <3>2. new.buffers = Append(mid.buffers, e) /\ new.index = mid.index
      BY <1>7, <1>9, <2>2
    <3> HIDE DEF e
    <3>3. Shape(new) /\ Contents(new) = Contents(mid) \o e.data
      BY <1>6, <3>1, <3>2, ContentsAppend
    <3>4. (Contents(br) \o x) \o y = Contents(br) \o (x \o y)
      <4>1. Contents(br) \in ByteSeq
        BY <1>1, ContentsTyped
      <4> QED BY <1>5, <4>1, JoinBytes
    <3> QED BY <1>5, <1>6, <3>1, <3>3, <3>4
  <2> QED BY <2>1, <2>2
<1>11. new.left = Len(Contents(new))
  BY <1>1, <1>9, <1>10, ContentsTyped, ConcatBytes
<1>12. Exact(new)
  BY <1>9, <1>10, <1>11 DEF Exact, Bodies
<1> QED BY <1>9, <1>10, <1>12 DEF new

\* What a call of Read on br, with a buffer of n bytes, keeps: what it has
\* copied and what is left make up what was there.
ReadState(br, n) ==
  {r \in [need : Nat, out : ByteSeq, reader : Bodies] :
     /\ Exact(r.reader) /\ r.reader.closed = FALSE
     /\ r.out \o Contents(r.reader) = Contents(br) /\ r.need + Len(r.out) = n}

ReadOver(r) == r.need = 0 \/ r.reader.left <= 0

LEMMA LesserOf ==
  ASSUME NEW need \in Nat, NEW len \in Nat, NEW index \in Nat, index <= len
  PROVE  LET room == len - index
             nc == IF need < room THEN need ELSE room
         IN  /\ nc \in Nat /\ nc <= need /\ nc <= room /\ index + nc <= len /\ index + nc \in Nat
             /\ nc >= room => nc = room /\ index + nc = len
  OBVIOUS

\* A round keeps it, and frees a buffer unless the call is finished.
LEMMA RoundKeeps ==
  ASSUME NEW br, Exact(br), NEW n \in Nat, NEW r \in ReadState(br, n)
  PROVE  /\ Body!Round(r) \in ReadState(br, n)
         /\ ReadOver(r) => Body!Round(r) = r
         /\ ~ReadOver(r) => \/ ReadOver(Body!Round(r))
                             \/ Len(Body!Round(r).reader.buffers) = Len(r.reader.buffers) - 1
<1> DEFINE b == r.reader
           head == b.buffers[1].data
           room == Len(head) - b.index
           nc == IF r.need < room THEN r.need ELSE room
           x == SubSeq(head, b.index + 1, b.index + nc)
           new == Body!Round(r)
<1>1. /\ r \in [need : Nat, out : ByteSeq, reader : Bodies] /\ r.need \in Nat /\ r.out \in ByteSeq
      /\ b \in BodyFields /\ Shape(b) /\ b.left = Len(Contents(b)) /\ b.left \in Nat
      /\ b.closed = FALSE /\ r.out \o Contents(b) = Contents(br) /\ r.need + Len(r.out) = n
      /\ Contents(b) \in ByteSeq
  <2>1. /\ r \in [need : Nat, out : ByteSeq, reader : Bodies] /\ Exact(b)
        /\ b.closed = FALSE /\ r.out \o Contents(b) = Contents(br) /\ r.need + Len(r.out) = n
    BY DEF ReadState
  <2>2. b \in BodyFields /\ Shape(b) /\ b.left = Len(Contents(b))
    BY <2>1 DEF Exact, Bodies
  <2>3. r.need \in Nat /\ r.out \in ByteSeq
    BY <2>1
  <2>4. Contents(b) \in ByteSeq /\ Len(Contents(b)) \in Nat
    BY <2>2, ContentsTyped
  <2> QED BY <2>1, <2>2, <2>3, <2>4
<1>2. CASE ReadOver(r)
  <2>1. new = r
    BY <1>2 DEF ReadOver, Body!Round
  <2> QED BY <1>2, <2>1
<1>3. CASE ~ReadOver(r)
  <2>1. r.need # 0 /\ b.left > 0
    BY <1>1, <1>3 DEF ReadOver
  <2>2. b.buffers # <<>>
    <3> SUFFICES ASSUME b.buffers = <<>> PROVE FALSE
      OBVIOUS
    <3>1. Contents(b) = <<>>
      BY <1>1, ContentsEmpty
    <3> QED BY <1>1, <2>1, <3>1, EmptyBytes
  <2>3. head \in ByteSeq /\ Len(head) \in Nat /\ b.index \in Nat /\ b.index <= Len(head) /\ room \in Nat
    BY <1>1, <2>2, BuffersFacts DEF Shape
  <2> DEFINE reader == IF nc >= room
                       THEN [b EXCEPT !.left = @ - nc, !.buffers = Tail(@), !.index = 0]
                       ELSE [b EXCEPT !.left = @ - nc, !.index = @ + nc]
  <2>4. new = [need |-> r.need - nc, out |-> r.out \o x, reader |-> reader]
    <3>1. ~(r.need = 0 \/ b.left <= 0)
      BY <1>1, <2>1
    <3> QED BY <2>2, <3>1, Zenon DEF Body!Round, Body!Advance
  <2> HIDE DEF new
  <2>5. /\ nc \in Nat /\ nc <= r.need /\ nc <= room /\ b.index + nc <= Len(head) /\ b.index + nc \in Nat
        /\ nc >= room => nc = room /\ b.index + nc = Len(head)
    <3>1. r.need \in Nat
      BY <1>1
    <3> HIDE DEF b, head
    <3> QED BY <2>3, <3>1, LesserOf
  <2>6. /\ new.need = r.need - nc /\ new.out = r.out \o x /\ new.reader = reader
        /\ r.need - nc \in Nat
    <3> HIDE DEF reader, x, nc
    <3> QED BY <1>1, <2>4, <2>5
  <2>7. /\ Shape(reader) /\ reader \in BodyFields /\ reader.closed = FALSE /\ reader.left = b.left - nc
        /\ x \in ByteSeq /\ Len(x) = nc /\ Contents(b) = x \o Contents(reader)
        /\ nc >= room => Len(reader.buffers) = Len(b.buffers) - 1
    <3>1. b.left - nc \in Int /\ Tail(b.buffers) \in Seq(BufferType) /\ 0 \in Nat /\ b.index + nc \in Nat
      <4>1. b.buffers \in Seq(BufferType)
        BY <1>1 DEF Shape
      <4>2. Tail(b.buffers) \in Seq(BufferType)
        BY <2>2, <4>1, TailSeq
      <4>3. b.left - nc \in Int
        <5>1. b.left \in Nat
          BY <1>1
        <5> HIDE DEF nc, b
        <5> QED BY <2>5, <5>1
      <4> QED BY <2>5, <4>2, <4>3
    <3>2. b \in [index : Nat, left : Int, closed : BOOLEAN, buffers : Seq(BufferType)]
      BY <1>1 DEF BodyFields
    <3>3. CASE nc >= room
      <4>1. nc = room /\ b.index + nc = Len(head)
        <5> HIDE DEF nc, room
        <5> QED BY <2>5, <3>3
      <4>2. reader = [b EXCEPT !.left = @ - nc, !.buffers = Tail(@), !.index = 0]
        BY <3>3
      <4> HIDE DEF reader, nc
      <4>3. /\ reader.left = b.left - nc /\ reader.buffers = Tail(b.buffers) /\ reader.index = 0
            /\ reader.closed = b.closed
        BY <3>2, <4>2
      <4>4. reader \in BodyFields
        BY <3>1, <3>2, <4>2 DEF BodyFields
      <4>5. /\ Shape(reader) /\ Len(reader.buffers) = Len(b.buffers) - 1
            /\ Contents(b) = SubSeq(head, b.index + 1, Len(head)) \o Contents(reader)
        BY <1>1, <2>2, <4>3, ContentsHead
      <4>6. x \in ByteSeq /\ Len(x) = nc
        <5> HIDE DEF head
        <5> QED BY <2>3, <2>5, CutPart
      <4>7. x = SubSeq(head, b.index + 1, Len(head))
        BY <4>1
      <4> QED BY <1>1, <4>3, <4>4, <4>5, <4>6, <4>7
    <3>4. CASE ~(nc >= room)
      <4>1. reader = [b EXCEPT !.left = @ - nc, !.index = @ + nc]
        BY <3>4
      <4> HIDE DEF reader, nc
      <4>2. /\ reader.left = b.left - nc /\ reader.buffers = b.buffers /\ reader.index = b.index + nc
            /\ reader.closed = b.closed
        BY <3>2, <4>1
      <4>3. reader \in BodyFields
        BY <3>1, <3>2, <4>1 DEF BodyFields
      <4>4. /\ Shape(reader) /\ x \in ByteSeq /\ Len(x) = nc
            /\ Contents(b) = x \o Contents(reader)
        <5>1. Shape(b)
          BY <1>1
        <5> HIDE DEF b
        <5> QED BY <2>2, <2>5, <4>2, <5>1, ContentsAdvance
      <4> QED BY <1>1, <3>4, <4>2, <4>3, <4>4
    <3> HIDE DEF reader, x
    <3> QED BY <3>3, <3>4
  <2> HIDE DEF reader, x, nc, room
  <2>8. Contents(reader) \in ByteSeq /\ Len(Contents(reader)) \in Nat
    BY <2>7, ContentsTyped
  <2>9. reader.left = Len(Contents(reader))
    <3>1. Len(x \o Contents(reader)) = Len(x) + Len(Contents(reader))
      BY <2>7, <2>8, ConcatBytes
    <3> QED BY <1>1, <2>5, <2>7, <2>8, <3>1
  <2>10. (r.out \o x) \o Contents(reader) = Contents(br) /\ r.out \o x \in ByteSeq
    <3>1. (r.out \o x) \o Contents(reader) = r.out \o (x \o Contents(reader))
      BY <1>1, <2>7, <2>8, JoinBytes
    <3>2. r.out \o x \in ByteSeq
      BY <1>1, <2>7, ConcatBytes
    <3> QED BY <1>1, <2>7, <3>1, <3>2
  <2>11. (r.need - nc) + Len(r.out \o x) = n
    <3>1. Len(r.out \o x) = Len(r.out) + nc /\ Len(r.out) \in Nat
      BY <1>1, <2>7, ConcatBytes
    <3> QED BY <1>1, <2>5, <3>1
  <2>12. Exact(reader) /\ reader \in Bodies
    BY <2>7, <2>9 DEF Exact, Bodies
  <2>13. new \in ReadState(br, n)
    <3>1. new \in [need : Nat, out : ByteSeq, reader : Bodies]
      BY <2>4, <2>6, <2>10, <2>12
    <3> QED BY <2>6, <2>7, <2>10, <2>11, <2>12, <3>1 DEF ReadState
  <2>14. new.need = 0 \/ Len(new.reader.buffers) = Len(b.buffers) - 1
    <3>1. CASE r.need < room
      BY <1>1, <2>6, <3>1 DEF nc
    <3>2. CASE ~(r.need < room)
      <4>1. nc >= room
        BY <2>3, <3>2 DEF nc, room
      <4> QED BY <2>6, <2>7, <4>1
    <3> QED BY <3>1, <3>2
  <2> QED BY <1>3, <2>13, <2>14 DEF ReadOver, new
<1> QED BY <1>2, <1>3

\* Read returns the next bytes, and none only when there are none.
LEMMA ReadKeeps ==
  ASSUME NEW br, Exact(br), br.closed = FALSE, NEW n \in Nat \ {0}
  PROVE  LET r == Body!Read(br, n) IN
         /\ Exact(r.reader) /\ r.reader.closed = FALSE
         /\ r.out \in ByteSeq /\ r.out \o Contents(r.reader) = Contents(br)
         /\ r.out = <<>> => Contents(br) = <<>>
<1> DEFINE N == Len(br.buffers) + 1
           T == ReadState(br, n)
           U == Body!Rounds(br, n)
           base == [need |-> n, out |-> <<>>, reader |-> br]
           step == [k \in 0 .. N - 1 |-> [t \in T |-> Body!Round(t)]]
           F(g) == [k \in 0 .. N |-> IF k = 0 THEN base ELSE Body!Round(g[k - 1])]
<1>1. br \in Bodies /\ Shape(br) /\ Len(br.buffers) \in Nat /\ Contents(br) \in ByteSeq
  <2>1. br \in Bodies /\ Shape(br)
    BY DEF Exact, Bodies
  <2>2. Len(br.buffers) \in Nat
    BY <2>1, BuffersFacts DEF Shape
  <2> QED BY <2>1, <2>2, ContentsTyped
<1>2. N \in Nat /\ N - 1 = Len(br.buffers)
  BY <1>1
<1>3. base \in T
  <2>1. base.need = n /\ base.out = <<>> /\ base.reader = br
    OBVIOUS
  <2>2. base \in [need : Nat, out : ByteSeq, reader : Bodies]
    BY <1>1, EmptyBytes
  <2> HIDE DEF base
  <2>3. <<>> \o Contents(br) = Contents(br) /\ n + Len(<<>>) = n
    BY <1>1, EmptyBytes
  <2> QED BY <2>1, <2>2, <2>3 DEF ReadState
<1>4. \A t \in T : /\ Body!Round(t) \in T
                   /\ ReadOver(t) => Body!Round(t) = t
                   /\ ~ReadOver(t) => \/ ReadOver(Body!Round(t))
                                      \/ Len(Body!Round(t).reader.buffers) = Len(t.reader.buffers) - 1
  BY RoundKeeps
<1> HIDE DEF base, N, T
<1>5. PICK g : /\ g \in [0 .. N -> T]
               /\ g[0] = base /\ \A k \in 0 .. N - 1 : g[k + 1] = step[k][g[k]]
  <2>1. step \in Steps(N, T)
    BY <1>4 DEF Steps
  <2> HIDE DEF step
  <2>2. \E g : DefinedBy(g, N, T, base, step)
    BY <1>2, <1>3, <2>1, RecursionExists, Zenon
  <2> QED BY <2>2, Zenon DEF DefinedBy
<1>6. g = F(g)
  <2>1. ASSUME NEW k \in 0 .. N PROVE g[k] = IF k = 0 THEN base ELSE Body!Round(g[k - 1])
    <3>1. CASE k = 0
      BY <1>5, <3>1
    <3>2. CASE k # 0
      <4>1. k - 1 \in 0 .. N - 1 /\ (k - 1) + 1 = k /\ k - 1 \in 0 .. N
        BY <1>2, <3>2
      <4>2. g[k] = step[k - 1][g[k - 1]] /\ g[k - 1] \in T
        BY <1>5, <4>1
      <4> QED BY <3>2, <4>1, <4>2
    <3> QED BY <3>1, <3>2
  <2> QED BY <1>5, <2>1
<1>7. U = F(U)
  <2>1. U = CHOOSE h : h = F(h)
    BY Zenon DEF Body!Rounds, N, base
  <2> HIDE DEF F, U
  <2> QED BY <1>6, <2>1, Zenon
<1> HIDE DEF U
<1>8. \A k \in 0 .. N : U[k] = IF k = 0 THEN base ELSE Body!Round(U[k - 1])
  BY <1>7
<1> DEFINE S == {k \in Nat : k <= N =>
                   U[k] \in T /\ (ReadOver(U[k]) \/ Len(U[k].reader.buffers) <= (N - 1) - k)}
<1>9. 0 \in S
  <2>1. U[0] = base
    BY <1>2, <1>8
  <2>2. base.reader.buffers = br.buffers
    BY DEF base
  <2>3. Len(base.reader.buffers) <= (N - 1) - 0
    BY <1>1, <1>2, <2>2
  <2> QED BY <1>3, <2>1, <2>3
<1>10. ASSUME NEW k \in Nat, k \in S PROVE k + 1 \in S
  <2> SUFFICES ASSUME k + 1 <= N
               PROVE  U[k + 1] \in T /\ (ReadOver(U[k + 1]) \/ Len(U[k + 1].reader.buffers) <= (N - 1) - (k + 1))
    OBVIOUS
  <2>1. k <= N /\ k + 1 \in 0 .. N /\ k + 1 # 0 /\ (k + 1) - 1 = k
    BY <1>2
  <2>2. U[k] \in T /\ (ReadOver(U[k]) \/ Len(U[k].reader.buffers) <= (N - 1) - k)
    BY <1>10, <2>1
  <2>3. U[k + 1] = Body!Round(U[k])
    BY <1>8, <2>1
  <2>4. U[k + 1] \in T
    BY <1>4, <2>2, <2>3
  <2>5. Len(U[k].reader.buffers) \in Nat
    <3>1. U[k].reader \in Bodies
      BY <2>2 DEF T, ReadState
    <3> QED BY <3>1, BuffersFacts DEF Bodies, Shape
  <2>6. CASE ReadOver(U[k])
    <3>1. U[k + 1] = U[k]
      BY <1>4, <2>2, <2>3, <2>6
    <3> QED BY <2>4, <2>6, <3>1
  <2>7. CASE ~ReadOver(U[k])
    <3>1. ReadOver(U[k + 1]) \/ Len(U[k + 1].reader.buffers) = Len(U[k].reader.buffers) - 1
      BY <1>4, <2>2, <2>3, <2>7
    <3>2. Len(U[k].reader.buffers) <= (N - 1) - k
      BY <2>2, <2>7
    <3>3. Len(U[k].reader.buffers) - 1 <= (N - 1) - (k + 1)
      BY <1>2, <2>5, <3>2
    <3> QED BY <2>4, <3>1, <3>3, Zenon
  <2> QED BY <2>6, <2>7
<1>11. U[N] \in T /\ (ReadOver(U[N]) \/ Len(U[N].reader.buffers) <= (N - 1) - N)
  <2>1. Nat \subseteq S
    <3> HIDE DEF S
    <3> QED BY <1>9, <1>10, SetInduction
  <2> QED BY <1>2, <2>1
<1> DEFINE r == U[N]
<1>12. Body!Read(br, n) = r
  BY DEF Body!Read, U, N
<1> HIDE DEF r
<1>13. /\ r.need \in Nat /\ r.out \in ByteSeq /\ Exact(r.reader) /\ r.reader.closed = FALSE
       /\ r.out \o Contents(r.reader) = Contents(br) /\ r.need + Len(r.out) = n
  <2>1. r \in ReadState(br, n)
    BY <1>11 DEF r, T
  <2> QED BY <2>1 DEF ReadState
<1>14. ReadOver(r)
  <2>1. Shape(r.reader) /\ Len(r.reader.buffers) \in Nat
    BY <1>13, BuffersFacts DEF Exact, Bodies, Shape
  <2>2. ~(Len(r.reader.buffers) <= (N - 1) - N)
    BY <1>2, <2>1
  <2> QED BY <1>11, <2>2, Zenon DEF r
<1>15. ASSUME r.out = <<>> PROVE Contents(br) = <<>>
  <2>1. r.need # 0
    BY <1>13, <1>15, EmptyBytes
  <2>2. r.reader.left <= 0
    BY <1>14, <2>1 DEF ReadOver
  <2>3. r.reader.left = Len(Contents(r.reader)) /\ Shape(r.reader)
    BY <1>13 DEF Exact, Bodies
  <2>4. Contents(r.reader) \in ByteSeq
    BY <2>3, ContentsTyped
  <2>5. Contents(r.reader) = <<>>
    BY <2>2, <2>3, <2>4, BytesLen
  <2> QED BY <1>13, <1>15, <2>5, EmptyBytes
<1> QED BY <1>12, <1>13, <1>15

-----------------------------------------------------------------------------
(* Messages.                                                               *)

LEMMA MessageNotNil == \A m \in MessageType : m # NoMsg /\ m # CloseJob
  BY NilAssumption

LEMMA BodiesTyped == Bodies \subseteq BodyType
<1>1. BufferType \subseteq [data : Seq(ByteType), cap : Nat]
  BY DEF BufferType, ByteSeq
<1>2. ASSUME NEW bs \in Seq(BufferType) PROVE bs \in Seq([data : Seq(ByteType), cap : Nat])
  <2>1. Len(bs) \in Nat /\ bs \in [1 .. Len(bs) -> BufferType]
    BY SeqFacts
  <2>2. bs \in [1 .. Len(bs) -> [data : Seq(ByteType), cap : Nat]]
    BY <1>1, <2>1
  <2> QED BY <2>1, <2>2, FunctionSeq
<1>3. BodyFields \subseteq BodyType
  BY <1>2 DEF BodyFields, BodyType
<1> QED BY <1>3 DEF Bodies

\* What becomes of a message: the one under construction grows, or a fresh one
\* is taken from the pool.
Grown(m) == msg # NoMsg /\ m \in MessageType /\ m.id = msg.id /\ Exact(m.body)
Fresh(m) == m \in MessageType /\ m.id = made + 1 /\ Exact(m.body)

MsgWith == \E m \in MessageType : Grown(m) /\ With(m)
MsgNew  == \E m \in MessageType : Fresh(m) /\ Obtain(m)
MsgDone == \E m \in MessageType : Grown(m) /\ OnComplete(m)
MsgStep == UNCHANGED messages \/ MsgWith \/ MsgNew \/ MsgDone

MsgOK == made \in Nat /\ (msg # NoMsg => Message(msg))
Effect == ParserOK' /\ MsgStep

LEMMA MessageFields ==
  ASSUME NEW m, Message(m)
  PROVE  /\ m \in [id : Nat, name : NameType, proto : NameType, headers : Seq(NameType \X Seq(ByteType)),
                   body : BodyType, trailers : Seq(NameType \X NameType)]
         /\ m.headers \in Seq(NameType \X Seq(ByteType)) /\ m.trailers \in Seq(NameType \X NameType)
         /\ m \in MessageType /\ Exact(m.body) /\ m.id \in Nat
  BY DEF Message, MessageUpTo, MessageType

\* A field of a message replaced.
MessageOf(H, B, T) == [id : Nat, name : NameType, proto : NameType, headers : H, body : B, trailers : T]

Like(new, m, H, B, T) == new \in MessageOf(H, B, T) /\ new.id = m.id /\ new.body = m.body

LEMMA NameReplaced ==
  ASSUME NEW H, NEW B, NEW T, NEW m \in MessageOf(H, B, T), NEW v \in NameType
  PROVE  Like([m EXCEPT !.name = v], m, H, B, T) /\ Like([m EXCEPT !.proto = v], m, H, B, T)
  BY DEF MessageOf, Like

LEMMA HeadersReplaced ==
  ASSUME NEW H, NEW B, NEW T, NEW m \in MessageOf(H, B, T), NEW h \in H
  PROVE  Like([m EXCEPT !.headers = h], m, H, B, T)
  BY DEF MessageOf, Like

LEMMA TrailersReplaced ==
  ASSUME NEW H, NEW B, NEW T, NEW m \in MessageOf(H, B, T), NEW t \in T
  PROVE  Like([m EXCEPT !.trailers = t], m, H, B, T)
  BY DEF MessageOf, Like

LEMMA MessageMade ==
  ASSUME NEW H, NEW B, NEW T, NEW n \in Nat, NEW h \in H, NEW b \in B, NEW t \in T
  PROVE  [id |-> n, name |-> Nil, proto |-> Nil, headers |-> h, body |-> b, trailers |-> t]
           \in MessageOf(H, B, T)
  BY DEF MessageOf, NameType

HeaderLists == Seq(NameType \X Seq(ByteType))
TrailerLists == Seq(NameType \X NameType)

LEMMA MessageOfTypes == MessageType = MessageOf(HeaderLists, BodyType, TrailerLists)
  BY DEF MessageType, MessageOf, HeaderLists, TrailerLists

LEMMA GrownLike ==
  ASSUME MsgOK, msg # NoMsg, NEW STATE new, Like(new, msg, HeaderLists, BodyType, TrailerLists)
  PROVE  Grown(new)
  BY MessageFields, MessageOfTypes DEF MsgOK, Grown, Like

LEMMA MsgFields ==
  ASSUME MsgOK, msg # NoMsg
  PROVE  /\ msg \in MessageOf(HeaderLists, BodyType, TrailerLists)
         /\ msg.headers \in HeaderLists /\ msg.trailers \in TrailerLists
  BY MessageFields, MessageOfTypes DEF MsgOK, HeaderLists, TrailerLists

LEMMA GrownName ==
  ASSUME MsgOK, msg # NoMsg, NEW STATE v, v \in NameType
  PROVE  Grown([msg EXCEPT !.name = v]) /\ Grown([msg EXCEPT !.proto = v])
<1>1. /\ Like([msg EXCEPT !.name = v], msg, HeaderLists, BodyType, TrailerLists)
      /\ Like([msg EXCEPT !.proto = v], msg, HeaderLists, BodyType, TrailerLists)
  BY MsgFields, NameReplaced
<1> QED BY <1>1, GrownLike

LEMMA GrownHeader ==
  ASSUME MsgOK, msg # NoMsg, NEW STATE k, k \in NameType, NEW STATE v, v \in ByteSeq
  PROVE  Grown([msg EXCEPT !.headers = Append(@, <<k, v>>)])
<1> DEFINE hs == Append(msg.headers, <<k, v>>)
<1>1. hs \in HeaderLists
  <2>1. <<k, v>> \in NameType \X Seq(ByteType)
    BY DEF ByteSeq
  <2> QED BY <2>1, MsgFields, AppendSeq DEF HeaderLists
<1>2. Like([msg EXCEPT !.headers = hs], msg, HeaderLists, BodyType, TrailerLists)
  <2> HIDE DEF hs
  <2> QED BY <1>1, MsgFields, HeadersReplaced
<1> QED BY <1>2, GrownLike

LEMMA GrownTrailer ==
  ASSUME MsgOK, msg # NoMsg, NEW STATE k, k \in NameType, NEW STATE v, v \in NameType
  PROVE  Grown([msg EXCEPT !.trailers = Append(@, <<k, v>>)])
<1> DEFINE ts == Append(msg.trailers, <<k, v>>)
<1>1. ts \in TrailerLists
  BY MsgFields, AppendSeq DEF TrailerLists
<1>2. Like([msg EXCEPT !.trailers = ts], msg, HeaderLists, BodyType, TrailerLists)
  <2> HIDE DEF ts
  <2> QED BY <1>1, MsgFields, TrailersReplaced
<1> QED BY <1>2, GrownLike

LEMMA BodyReplaced ==
  ASSUME NEW n, NEW m, MessageUpTo(m, n), NEW b, Exact(b)
  PROVE  LET new == [m EXCEPT !.body = b] IN
         MessageUpTo(new, n) /\ new.id = m.id /\ new.body = b
<1>1. b \in BodyType
  BY BodiesTyped DEF Exact
<1>2. m \in MessageOf(HeaderLists, BodyType, TrailerLists) /\ m.id \in 1 .. n
  BY MessageOfTypes DEF MessageUpTo
<1> DEFINE new == [m EXCEPT !.body = b]
<1>3. new \in MessageOf(HeaderLists, BodyType, TrailerLists) /\ new.id = m.id /\ new.body = b
  <2> DEFINE H == HeaderLists
             T == TrailerLists
  <2> HIDE DEF H, T
  <2>1. m \in MessageOf(H, BodyType, T)
    BY <1>2 DEF H, T
  <2>2. new \in MessageOf(H, BodyType, T) /\ new.id = m.id /\ new.body = b
    BY <1>1, <2>1 DEF MessageOf
  <2> QED BY <2>2 DEF H, T
<1> HIDE DEF new
<1>4. MessageUpTo(new, n)
  BY <1>2, <1>3, MessageOfTypes DEF MessageUpTo
<1> QED BY <1>3, <1>4 DEF new

LEMMA GrownBody ==
  ASSUME MsgOK, msg # NoMsg, NEW STATE d, d \in ByteSeq, NEW spare \in Spare
  PROVE  Grown([msg EXCEPT !.body = Body!append(@, d, spare)])
<1>1. spare \in Nat
  BY LimitsAssumption
<1>2. Exact(Body!append(msg.body, d, spare))
  BY <1>1, MessageFields, AppendKeeps DEF MsgOK
<1> DEFINE b == Body!append(msg.body, d, spare)
           new == [msg EXCEPT !.body = b]
<1>3. MessageUpTo(msg, made)
  BY DEF MsgOK, Message
<1> HIDE DEF b
<1>4. MessageUpTo(new, made) /\ new.id = msg.id /\ new.body = b
  BY <1>2, <1>3, BodyReplaced DEF b
<1> HIDE DEF new
<1>5. Grown(new)
  BY <1>2, <1>4 DEF Grown, MessageUpTo, b
<1> QED BY <1>5 DEF new, b

LEMMA GrownSame ==
  ASSUME MsgOK, msg # NoMsg
  PROVE  Grown(msg)
  BY MessageFields DEF MsgOK, Grown

LEMMA NewBodyExact == Exact(Body!NewBodyReader)
<1> DEFINE br == Body!NewBodyReader
<1>1. br = [index |-> 0, left |-> 0, buffers |-> <<>>, closed |-> FALSE]
  BY DEF Body!NewBodyReader
<1>2. br \in BodyFields /\ br.index = 0 /\ br.left = 0 /\ br.buffers = <<>>
  BY <1>1, EmptySeq DEF BodyFields
<1> HIDE DEF br
<1>3. Shape(br)
  BY <1>2, EmptySeq DEF Shape
<1>4. Contents(br) = <<>>
  BY <1>2, <1>3, ContentsEmpty
<1>5. Exact(br)
  BY <1>2, <1>3, <1>4, EmptyBytes DEF Exact, Bodies
<1> QED BY <1>5 DEF br

LEMMA FreshMessage ==
  ASSUME MsgOK, NEW STATE v, v \in NameType
  PROVE  Fresh(NewMsg) /\ Fresh([NewMsg EXCEPT !.proto = v])
<1>1. Body!NewBodyReader \in BodyType /\ Exact(Body!NewBodyReader)
  BY NewBodyExact, BodiesTyped DEF Exact
<1>2. <<>> \in Seq(NameType \X Seq(ByteType)) /\ <<>> \in Seq(NameType \X NameType) /\ made + 1 \in Nat
  BY EmptySeq DEF MsgOK
<1> DEFINE br == Body!NewBodyReader
<1>3. NewMsg = [id |-> made + 1, name |-> Nil, proto |-> Nil, headers |-> <<>>, body |-> br, trailers |-> <<>>]
  BY DEF NewMsg
<1> HIDE DEF br
<1>4. /\ NewMsg \in MessageType /\ NewMsg.id = made + 1 /\ NewMsg.body = br
  <2>1. br \in BodyType
    BY <1>1 DEF br
  <2>2. <<>> \in HeaderLists /\ <<>> \in TrailerLists
    BY <1>2 DEF HeaderLists, TrailerLists
  <2>3. NewMsg \in MessageType
    <3>1. NewMsg \in MessageOf(HeaderLists, BodyType, TrailerLists)
      BY <1>2, <1>3, <2>1, <2>2, MessageMade
    <3> QED BY <3>1, MessageOfTypes
  <2> QED BY <1>3, <2>3
<1> DEFINE new == [NewMsg EXCEPT !.proto = v]
<1>5. /\ new \in MessageType /\ new.id = made + 1 /\ new.body = br
  BY <1>4 DEF MessageType
<1> HIDE DEF new
<1>6. Fresh(NewMsg) /\ Fresh(new)
  BY <1>1, <1>4, <1>5 DEF Fresh, br
<1> QED BY <1>6 DEF new

-----------------------------------------------------------------------------
(* One round of Parse's loop.                                              *)

LEMMA NameTyped == \A s \in ByteSeq : Name(s) \in NameType
<1> SUFFICES ASSUME NEW s \in ByteSeq PROVE Name(s) \in NameType
  OBVIOUS
<1>1. ASSUME Len(s) = 2 PROVE s[1][2] \in STRING
  <2>1. s[1] \in STRING \X STRING \X Nat
    BY <1>1, SeqFacts DEF ByteSeq, ByteType
  <2> QED BY <2>1
<1> QED BY <1>1 DEF Name, NameType

\* Parse is at a byte.
AtByte == pc = "parse" /\ i <= Len(data)

LEMMA SliceTyped ==
  ASSUME ParserOK, AtByte
  PROVE  Slice \in ByteSeq /\ Name(Slice) \in NameType
<1> DEFINE m == start - 1
           n == i - 1
<1>1. data \in ByteSeq /\ m \in Nat /\ n \in Nat /\ m <= n /\ n <= Len(data) /\ m + 1 = start
  BY BytesLen DEF ParserOK, IndexOK, AtByte
<1>2. SubSeq(data, m + 1, n) \in ByteSeq
  <2> HIDE DEF m, n
  <2> QED BY <1>1, PartBytes
<1>3. Slice \in ByteSeq
  BY <1>1, <1>2 DEF Slice
<1> QED BY <1>3, NameTyped

LEMMA FirstOfTyped ==
  ASSUME ParserOK, AtByte
  PROVE  FirstOf(word) \in NameType /\ FirstOf(headerKey) \in NameType
  BY SliceTyped DEF FirstOf, ParserOK, TokensOK

\* A byte consumed: start stays, or is put on this byte or behind it.
Moved == i' = i + 1 /\ start' \in {start, i, i + 1} /\ UNCHANGED <<data, pc>>

LEMMA MovedKeeps ==
  ASSUME ParserOK, AtByte, Moved, TokensOK', contentLength' \in Int, chunkSize' \in Int,
         state' = "BodyContentLength" => contentLength' > 0,
         state' = "BodyChunkData" => chunkSize' > 0,
         state' \in Building => msg' # NoMsg
  PROVE  ParserOK'
<1>1. LengthsOK' /\ BuildingOK'
  BY DEF LengthsOK, BuildingOK
<1>2. IndexOK'
  <2>1. /\ data \in ByteSeq /\ i \in Nat /\ start \in Nat /\ start >= 1 /\ Len(data) \in Nat
        /\ start <= i /\ i <= Len(data)
    BY BytesLen DEF ParserOK, IndexOK, AtByte
  <2>2. data' = data /\ i' = i + 1 /\ start' \in {start, i, i + 1}
    BY DEF Moved
  <2>3. /\ start' \in Nat /\ start' >= 1 /\ start' <= i' /\ i' \in Nat /\ i' <= Len(data) + 1
    BY <2>1, <2>2
  <2> QED BY <2>1, <2>2, <2>3 DEF IndexOK
<1> QED BY <1>1, <1>2 DEF ParserOK

LEMMA FailKeeps ==
  ASSUME ParserOK, Fail, UNCHANGED data
  PROVE  Effect
<1>1. TokensOK' /\ LengthsOK' /\ BuildingOK' /\ UNCHANGED messages
  BY DEF Fail, ParserOK, TokensOK, LengthsOK, BuildingOK, tokens, framing, messages
<1>2. IndexOK'
  BY DEF Fail, ParserOK, IndexOK
<1> QED BY <1>1, <1>2 DEF Effect, MsgStep, ParserOK

LEMMA KeepMoves ==
  ASSUME ParserOK, AtByte, Moved, Keep,
         state' = state \/ (/\ state' # "BodyContentLength" /\ state' # "BodyChunkData"
                            /\ state' \in Building => state \in Building)
  PROVE  Effect
<1>1. TokensOK' /\ contentLength' \in Int /\ chunkSize' \in Int /\ UNCHANGED messages
  BY DEF Keep, ParserOK, TokensOK, LengthsOK, tokens, framing
<1>2. /\ state' = "BodyContentLength" => contentLength' > 0
      /\ state' = "BodyChunkData" => chunkSize' > 0
      /\ state' \in Building => msg' # NoMsg
  BY DEF Keep, ParserOK, LengthsOK, BuildingOK, framing, messages
<1>3. ParserOK'
  BY <1>1, <1>2, MovedKeeps
<1> QED BY <1>1, <1>3 DEF Effect, MsgStep

LEMMA StayKeeps ==
  ASSUME ParserOK, AtByte, Stay, Keep, UNCHANGED data
  PROVE  Effect
<1>1. Moved /\ state' = state
  BY DEF Stay, Goto, Keep, Moved
<1> QED BY <1>1, KeepMoves

\* A move from one state to another that leaves the rest alone.
Moves(s, t, st) == At(s) /\ Goto(t, st) /\ Keep

LEMMA MovesKeep ==
  ASSUME ParserOK, NEW s, NEW t, NEW STATE st, st \in {start, i, i + 1}, Moves(s, t, st), UNCHANGED data,
         t # "BodyContentLength", t # "BodyChunkData", s \in Building \/ t \notin Building
  PROVE  Effect
<1>1. AtByte /\ state = s /\ state' = t /\ Keep /\ Moved
  BY DEF Moves, At, AtByte, Goto, Keep, Moved
<1> QED BY <1>1, KeepMoves

LEMMA WithKeeps ==
  ASSUME ParserOK, AtByte, Moved, NEW STATE m, Grown(m), With(m), TokensOK',
         contentLength' \in Int, chunkSize' \in Int,
         state' # "BodyContentLength", state' # "BodyChunkData"
  PROVE  Effect
<1>1. m \in MessageType /\ m # NoMsg
  BY MessageNotNil DEF Grown
<1>2. msg' # NoMsg
  BY <1>1 DEF With
<1>3. ParserOK'
  BY <1>2, MovedKeeps
<1>4. MsgWith
  BY <1>1 DEF MsgWith
<1> QED BY <1>3, <1>4 DEF Effect, MsgStep

LEMMA ObtainKeeps ==
  ASSUME ParserOK, AtByte, Moved, NEW STATE m, Fresh(m), Obtain(m), UNCHANGED <<tokens, framing>>,
         state' # "BodyContentLength", state' # "BodyChunkData"
  PROVE  Effect
<1>1. m \in MessageType /\ m # NoMsg
  BY MessageNotNil DEF Fresh
<1>2. msg' # NoMsg
  BY <1>1 DEF Obtain
<1>3. TokensOK' /\ contentLength' \in Int /\ chunkSize' \in Int
  BY DEF ParserOK, TokensOK, LengthsOK, tokens, framing
<1>4. ParserOK'
  BY <1>2, <1>3, MovedKeeps
<1>5. MsgNew
  BY <1>1 DEF MsgNew
<1> QED BY <1>4, <1>5 DEF Effect, MsgStep

LEMMA DoneKeeps ==
  ASSUME ParserOK', NEW STATE m, Grown(m), OnComplete(m)
  PROVE  Effect
<1>1. m \in MessageType
  BY DEF Grown
<1>2. MsgDone
  BY <1>1 DEF MsgDone
<1> QED BY <1>2 DEF Effect, MsgStep

\* A word is complete.
LEMMA WordKeeps ==
  ASSUME ParserOK, AtByte, Moved, TokensOK', UNCHANGED <<framing, messages>>,
         state' = state \/ (/\ state' # "BodyContentLength" /\ state' # "BodyChunkData"
                            /\ state \in Building)
  PROVE  Effect
<1>1. contentLength' = contentLength /\ chunkSize' = chunkSize /\ msg' = msg
  BY DEF framing, messages
<1>2. contentLength' \in Int /\ chunkSize' \in Int
  BY <1>1 DEF ParserOK, LengthsOK
<1>3. /\ state' = "BodyContentLength" => contentLength' > 0
      /\ state' = "BodyChunkData" => chunkSize' > 0
      /\ state' \in Building => msg' # NoMsg
  BY <1>1 DEF ParserOK, LengthsOK, BuildingOK
<1>4. ParserOK'
  BY <1>2, <1>3, MovedKeeps
<1> QED BY <1>4 DEF Effect, MsgStep

LEMMA RequestLineCases ==
  ASSUME RequestLine
  PROVE  /\ AtByte
         /\ \/ Fail \/ (Stay /\ Keep)
            \/ Moves("MethodBefore", "Method", i)
            \/ /\ At("Method") /\ Goto("PathBefore", i + 1) /\ Obtain(NewMsg)
               /\ UNCHANGED <<tokens, framing, pc>>
            \/ Moves("PathBefore", "Path", i)
            \/ /\ At("Path") /\ Goto("ProtoBefore", i + 1)
               /\ With([msg EXCEPT !.name = Name(Slice)]) /\ UNCHANGED <<tokens, framing, pc>>
            \/ Moves("ProtoBefore", "Proto", i)
            \/ /\ At("Proto") /\ word' = FirstOf(word) /\ Stay
               /\ UNCHANGED <<headerKey, statusCode, framing, messages, pc>>
            \/ /\ At("Proto") /\ With([msg EXCEPT !.proto = FirstOf(word)])
               /\ word' = Nil /\ Goto("ProtoLF", start)
               /\ UNCHANGED <<headerKey, statusCode, framing, pc>>
            \/ Moves("ProtoLF", "HeaderKeyBefore", i + 1)
<1>1. AtByte
  BY DEF RequestLine, At, AtByte
<1> QED BY <1>1 DEF RequestLine, Moves

LEMMA RequestLineEffect ==
  ASSUME ParserOK, MsgOK, UNCHANGED data, RequestLine
  PROVE  Effect
<1>0. AtByte
  BY RequestLineCases
<1>1. CASE Fail
  BY <1>1, FailKeeps
<1>2. CASE Stay /\ Keep
  BY <1>0, <1>2, StayKeeps
<1>3. CASE \/ Moves("MethodBefore", "Method", i) \/ Moves("PathBefore", "Path", i)
           \/ Moves("ProtoBefore", "Proto", i) \/ Moves("ProtoLF", "HeaderKeyBefore", i + 1)
  <2>1. /\ "PathBefore" \in Building /\ "ProtoBefore" \in Building /\ "ProtoLF" \in Building
        /\ "Method" \notin Building
    BY DEF Building
  <2>2. i \in {start, i, i + 1} /\ i + 1 \in {start, i, i + 1}
    OBVIOUS
  <2>3. CASE Moves("MethodBefore", "Method", i)
    BY <2>1, <2>2, <2>3, MovesKeep
  <2>4. CASE Moves("PathBefore", "Path", i)
    BY <2>1, <2>2, <2>4, MovesKeep
  <2>5. CASE Moves("ProtoBefore", "Proto", i)
    BY <2>1, <2>2, <2>5, MovesKeep
  <2>6. CASE Moves("ProtoLF", "HeaderKeyBefore", i + 1)
    BY <2>1, <2>2, <2>6, MovesKeep
  <2> QED BY <1>3, <2>3, <2>4, <2>5, <2>6
<1>4. CASE /\ At("Method") /\ Goto("PathBefore", i + 1) /\ Obtain(NewMsg)
           /\ UNCHANGED <<tokens, framing, pc>>
  <2>1. Moved /\ state' = "PathBefore" /\ UNCHANGED <<tokens, framing>>
    BY <1>4 DEF Goto, Moved
  <2>2. Fresh(NewMsg)
    <3>1. Nil \in NameType
      BY DEF NameType
    <3> QED BY <3>1, FreshMessage
  <2> QED BY <1>0, <1>4, <2>1, <2>2, ObtainKeeps
<1>5. CASE /\ At("Path") /\ Goto("ProtoBefore", i + 1)
           /\ With([msg EXCEPT !.name = Name(Slice)]) /\ UNCHANGED <<tokens, framing, pc>>
  <2>1. Moved /\ state' = "ProtoBefore" /\ state = "Path"
    BY <1>5 DEF Goto, Moved, At
  <2>2. msg # NoMsg
    BY <2>1 DEF ParserOK, BuildingOK, Building
  <2>3. Grown([msg EXCEPT !.name = Name(Slice)])
    BY <1>0, <2>2, SliceTyped, GrownName
  <2>4. TokensOK' /\ contentLength' \in Int /\ chunkSize' \in Int
    BY <1>5 DEF ParserOK, TokensOK, LengthsOK, tokens, framing
  <2> QED BY <1>0, <1>5, <2>1, <2>3, <2>4, WithKeeps
<1>6. CASE /\ At("Proto") /\ word' = FirstOf(word) /\ Stay
           /\ UNCHANGED <<headerKey, statusCode, framing, messages, pc>>
  <2>1. Moved /\ state' = state
    BY <1>6 DEF Goto, Stay, Moved
  <2>2. TokensOK'
    BY <1>0, <1>6, FirstOfTyped DEF ParserOK, TokensOK
  <2> QED BY <1>0, <1>6, <2>1, <2>2, WordKeeps
<1>7. CASE /\ At("Proto") /\ With([msg EXCEPT !.proto = FirstOf(word)])
           /\ word' = Nil /\ Goto("ProtoLF", start)
           /\ UNCHANGED <<headerKey, statusCode, framing, pc>>
  <2>1. Moved /\ state' = "ProtoLF" /\ state = "Proto"
    BY <1>7 DEF Goto, Moved, At
  <2>2. msg # NoMsg
    BY <2>1 DEF ParserOK, BuildingOK, Building
  <2>3. Grown([msg EXCEPT !.proto = FirstOf(word)])
    BY <1>0, <2>2, FirstOfTyped, GrownName
  <2>4. TokensOK' /\ contentLength' \in Int /\ chunkSize' \in Int
    BY <1>7 DEF ParserOK, TokensOK, LengthsOK, framing, NameType
  <2> QED BY <1>0, <1>7, <2>1, <2>3, <2>4, WithKeeps
<1> QED BY RequestLineCases, <1>1, <1>2, <1>3, <1>4, <1>5, <1>6, <1>7

LEMMA StatusLineCases ==
  ASSUME StatusLine
  PROVE  /\ AtByte
         /\ \/ Fail \/ (Stay /\ Keep)
            \/ Moves("ClientProtoBefore", "ClientProto", i)
            \/ /\ At("ClientProto") /\ Goto("StatusCodeBefore", start)
               /\ Obtain([NewMsg EXCEPT !.proto = Name(Slice)]) /\ UNCHANGED <<tokens, framing, pc>>
            \/ Moves("StatusCodeBefore", "StatusCode", i)
            \/ /\ At("StatusCode") /\ statusCode' = Name(Slice) /\ Goto("StatusBefore", start)
               /\ UNCHANGED <<headerKey, word, framing, messages, pc>>
            \/ Moves("StatusBefore", "Status", i)
            \/ /\ At("Status") /\ word' = FirstOf(word) /\ Stay
               /\ UNCHANGED <<headerKey, statusCode, framing, messages, pc>>
            \/ /\ At("Status") /\ With([msg EXCEPT !.name = statusCode])
               /\ word' = Nil /\ statusCode' = Nil /\ Goto("StatusLF", start)
               /\ UNCHANGED <<headerKey, framing, pc>>
            \/ Moves("StatusLF", "HeaderKeyBefore", start)
<1>1. AtByte
  BY DEF StatusLine, At, AtByte
<1> QED BY <1>1 DEF StatusLine, Moves

LEMMA StatusLineEffect ==
  ASSUME ParserOK, MsgOK, UNCHANGED data, StatusLine
  PROVE  Effect
<1>0. AtByte
  BY StatusLineCases
<1>1. CASE Fail
  BY <1>1, FailKeeps
<1>2. CASE Stay /\ Keep
  BY <1>0, <1>2, StayKeeps
<1>3. CASE \/ Moves("ClientProtoBefore", "ClientProto", i) \/ Moves("StatusCodeBefore", "StatusCode", i)
           \/ Moves("StatusBefore", "Status", i) \/ Moves("StatusLF", "HeaderKeyBefore", start)
  <2>1. /\ "StatusCodeBefore" \in Building /\ "StatusBefore" \in Building /\ "StatusLF" \in Building
        /\ "ClientProto" \notin Building
    BY DEF Building
  <2>2. i \in {start, i, i + 1} /\ start \in {start, i, i + 1}
    OBVIOUS
  <2>3. CASE Moves("ClientProtoBefore", "ClientProto", i)
    BY <2>1, <2>2, <2>3, MovesKeep
  <2>4. CASE Moves("StatusCodeBefore", "StatusCode", i)
    BY <2>1, <2>2, <2>4, MovesKeep
  <2>5. CASE Moves("StatusBefore", "Status", i)
    BY <2>1, <2>2, <2>5, MovesKeep
  <2>6. CASE Moves("StatusLF", "HeaderKeyBefore", start)
    BY <2>1, <2>2, <2>6, MovesKeep
  <2> QED BY <1>3, <2>3, <2>4, <2>5, <2>6
<1>4. CASE /\ At("ClientProto") /\ Goto("StatusCodeBefore", start)
           /\ Obtain([NewMsg EXCEPT !.proto = Name(Slice)]) /\ UNCHANGED <<tokens, framing, pc>>
  <2>1. Moved /\ state' = "StatusCodeBefore" /\ UNCHANGED <<tokens, framing>>
    BY <1>4 DEF Goto, Moved
  <2>2. Fresh([NewMsg EXCEPT !.proto = Name(Slice)])
    BY <1>0, SliceTyped, FreshMessage
  <2> QED BY <1>0, <1>4, <2>1, <2>2, ObtainKeeps
<1>5. CASE /\ At("StatusCode") /\ statusCode' = Name(Slice) /\ Goto("StatusBefore", start)
           /\ UNCHANGED <<headerKey, word, framing, messages, pc>>
  <2>1. Moved /\ state' = "StatusBefore" /\ state \in Building
    BY <1>5 DEF Goto, Moved, At, Building
  <2>2. TokensOK'
    BY <1>0, <1>5, SliceTyped DEF ParserOK, TokensOK
  <2> QED BY <1>0, <1>5, <2>1, <2>2, WordKeeps
<1>6. CASE /\ At("Status") /\ word' = FirstOf(word) /\ Stay
           /\ UNCHANGED <<headerKey, statusCode, framing, messages, pc>>
  <2>1. Moved /\ state' = state
    BY <1>6 DEF Goto, Stay, Moved
  <2>2. TokensOK'
    BY <1>0, <1>6, FirstOfTyped DEF ParserOK, TokensOK
  <2> QED BY <1>0, <1>6, <2>1, <2>2, WordKeeps
<1>7. CASE /\ At("Status") /\ With([msg EXCEPT !.name = statusCode])
           /\ word' = Nil /\ statusCode' = Nil /\ Goto("StatusLF", start)
           /\ UNCHANGED <<headerKey, framing, pc>>
  <2>1. Moved /\ state' = "StatusLF" /\ state = "Status"
    BY <1>7 DEF Goto, Moved, At
  <2>2. msg # NoMsg /\ statusCode \in NameType
    BY <2>1 DEF ParserOK, BuildingOK, Building, TokensOK
  <2>3. Grown([msg EXCEPT !.name = statusCode])
    BY <2>2, GrownName
  <2>4. TokensOK' /\ contentLength' \in Int /\ chunkSize' \in Int
    BY <1>7 DEF ParserOK, TokensOK, LengthsOK, framing, NameType
  <2> QED BY <1>0, <1>7, <2>1, <2>3, <2>4, WithKeeps
<1> QED BY StatusLineCases, <1>1, <1>2, <1>3, <1>4, <1>5, <1>6, <1>7

LEMMA ContentLengthTyped == \A h : parseContentLength(h).length \in Int
<1>1. \A n \in DOMAIN Sizes : Sizes[n] \in Int
  BY DEF Sizes
<1> QED BY <1>1 DEF parseContentLength

\* The header is complete.
HeaderEnds ==
  /\ contentLength' \in Int /\ Goto("HeaderOverLF", i + 1)
  /\ UNCHANGED <<tokens, headerExists, chunkSize, messages, pc>>

LEMMA HeaderEndCases ==
  ASSUME HeaderEnd
  PROVE  Fail \/ HeaderEnds
<1>1. CASE Fail
  BY <1>1
<1>2. CASE ~Fail
  <2>1. /\ contentLength' = parseContentLength(parseTransferEncoding.header).length
        /\ Goto("HeaderOverLF", i + 1)
        /\ UNCHANGED <<tokens, headerExists, chunkSize, messages, pc>>
    BY <1>2, Zenon DEF HeaderEnd
  <2> QED BY <2>1, ContentLengthTyped DEF HeaderEnds
<1> QED BY <1>1, <1>2

LEMMA HeadersCases ==
  ASSUME Headers
  PROVE  /\ AtByte
         /\ \/ Fail \/ (Stay /\ Keep)
            \/ At("HeaderKeyBefore") /\ HeaderEnds
            \/ /\ At("HeaderKeyBefore") /\ headerExists' = TRUE /\ Goto("HeaderKey", i)
               /\ UNCHANGED <<tokens, header, trailer, chunked, contentLength, chunkSize, messages, pc>>
            \/ /\ At("HeaderKey") /\ headerKey' = FirstOf(headerKey)
               /\ Stay \/ Goto("HeaderValueBefore", i + 1)
               /\ UNCHANGED <<word, statusCode, framing, messages, pc>>
            \/ (At("HeaderValueBefore") \/ At("HeaderValue")) /\ HeaderDone
            \/ Moves("HeaderValueBefore", "HeaderValue", i)
            \/ Moves("HeaderValueLF", "HeaderKeyBefore", i + 1)
<1>1. AtByte
  BY DEF Headers, At, AtByte
<1> QED BY <1>1, HeaderEndCases DEF Headers, Moves

LEMMA HeadersEffect ==
  ASSUME ParserOK, MsgOK, UNCHANGED data, Headers
  PROVE  Effect
<1>0. AtByte
  BY HeadersCases
<1>1. CASE Fail
  BY <1>1, FailKeeps
<1>2. CASE Stay /\ Keep
  BY <1>0, <1>2, StayKeeps
<1>3. CASE Moves("HeaderValueBefore", "HeaderValue", i) \/ Moves("HeaderValueLF", "HeaderKeyBefore", i + 1)
  <2>1. "HeaderValueBefore" \in Building /\ "HeaderValueLF" \in Building
    BY DEF Building
  <2>2. i \in {start, i, i + 1} /\ i + 1 \in {start, i, i + 1}
    OBVIOUS
  <2>3. CASE Moves("HeaderValueBefore", "HeaderValue", i)
    BY <2>1, <2>2, <2>3, MovesKeep
  <2>4. CASE Moves("HeaderValueLF", "HeaderKeyBefore", i + 1)
    BY <2>1, <2>2, <2>4, MovesKeep
  <2> QED BY <1>3, <2>3, <2>4
<1>4. CASE \/ At("HeaderKeyBefore") /\ HeaderEnds
           \/ /\ At("HeaderKeyBefore") /\ headerExists' = TRUE /\ Goto("HeaderKey", i)
              /\ UNCHANGED <<tokens, header, trailer, chunked, contentLength, chunkSize, messages, pc>>
  <2>1. /\ contentLength' \in Int /\ chunkSize' = chunkSize /\ UNCHANGED <<tokens, messages>>
        /\ state = "HeaderKeyBefore" /\ state' \in {"HeaderOverLF", "HeaderKey"}
    BY <1>4 DEF HeaderEnds, Goto, At, ParserOK, LengthsOK
  <2>2. Moved
    BY <1>4 DEF HeaderEnds, Goto, Moved
  <2>3. TokensOK' /\ chunkSize' \in Int /\ msg' # NoMsg
    BY <2>1 DEF ParserOK, TokensOK, LengthsOK, BuildingOK, Building, tokens, messages
  <2>4. ParserOK'
    BY <1>0, <2>1, <2>2, <2>3, MovedKeeps
  <2> QED BY <2>1, <2>4 DEF Effect, MsgStep
<1>5. CASE /\ At("HeaderKey") /\ headerKey' = FirstOf(headerKey)
           /\ Stay \/ Goto("HeaderValueBefore", i + 1)
           /\ UNCHANGED <<word, statusCode, framing, messages, pc>>
  <2>1. /\ Moved /\ state \in Building
        /\ state' = state \/ (state' # "BodyContentLength" /\ state' # "BodyChunkData")
    BY <1>5 DEF Goto, Stay, Moved, At, Building
  <2>2. TokensOK'
    BY <1>0, <1>5, FirstOfTyped DEF ParserOK, TokensOK
  <2> QED BY <1>0, <1>5, <2>1, <2>2, WordKeeps
<1>6. CASE (At("HeaderValueBefore") \/ At("HeaderValue")) /\ HeaderDone
  <2>1. Moved /\ state' = "HeaderValueLF" /\ state \in Building
    BY <1>6 DEF HeaderDone, Goto, Moved, At, Building
  <2>2. msg # NoMsg /\ headerKey \in NameType
    BY <2>1 DEF ParserOK, BuildingOK, TokensOK
  <2>3. Grown([msg EXCEPT !.headers = Append(@, <<headerKey, Slice>>)])
    BY <1>0, <2>2, SliceTyped, GrownHeader
  <2>4. With([msg EXCEPT !.headers = Append(@, <<headerKey, Slice>>)])
    BY <1>6 DEF HeaderDone, OnHeader
  <2>5. TokensOK' /\ contentLength' \in Int /\ chunkSize' \in Int
    BY <1>6 DEF HeaderDone, ParserOK, TokensOK, LengthsOK, NameType
  <2> QED BY <1>0, <2>1, <2>3, <2>4, <2>5, WithKeeps
<1> QED BY HeadersCases, <1>1, <1>2, <1>3, <1>4, <1>5, <1>6

\* The first state of a message.
LEMMA FirstOutside == First \notin Building /\ First # "BodyContentLength" /\ First # "BodyChunkData"
  BY DEF First, Building

LEMMA HeaderOverEffect ==
  ASSUME ParserOK, MsgOK, UNCHANGED data, HeaderOver
  PROVE  Effect
<1>0. AtByte /\ state = "HeaderOverLF"
  BY DEF HeaderOver, At, AtByte
<1>1. msg # NoMsg
  BY <1>0 DEF ParserOK, BuildingOK, Building
<1>2. CASE Fail
  BY <1>2, FailKeeps
<1>3. CASE /\ chunked \/ contentLength > 0
           /\ Goto(IF chunked THEN "BodyChunkSizeBefore" ELSE "BodyContentLength", i + 1)
           /\ UNCHANGED <<tokens, header, trailer, chunked, contentLength, chunkSize, messages, pc>>
  <2>1. /\ Moved /\ state' = IF chunked THEN "BodyChunkSizeBefore" ELSE "BodyContentLength"
        /\ contentLength' = contentLength /\ chunkSize' = chunkSize /\ UNCHANGED <<tokens, messages>>
    BY <1>3 DEF Goto, Moved
  <2>2. /\ state' = "BodyContentLength" => contentLength' > 0
        /\ state' # "BodyChunkData"
    BY <1>3, <2>1
  <2>3. TokensOK' /\ contentLength' \in Int /\ chunkSize' \in Int /\ msg' # NoMsg
    BY <1>1, <2>1 DEF ParserOK, TokensOK, LengthsOK, tokens, messages
  <2>4. ParserOK'
    BY <1>0, <2>1, <2>2, <2>3, MovedKeeps
  <2> QED BY <2>1, <2>4 DEF Effect, MsgStep
<1>4. CASE /\ handleMessage(msg) /\ Goto(First, i + 1)
           /\ UNCHANGED <<tokens, contentLength, chunkSize, pc>>
  <2>1. Moved /\ state' = First /\ contentLength' = contentLength /\ chunkSize' = chunkSize
    BY <1>4 DEF Goto, Moved
  <2>2. TokensOK' /\ contentLength' \in Int /\ chunkSize' \in Int
    BY <1>4, <2>1 DEF ParserOK, TokensOK, LengthsOK, tokens
  <2>3. ParserOK'
    BY <1>0, <2>1, <2>2, FirstOutside, MovedKeeps
  <2> QED BY <1>1, <1>4, <2>3, GrownSame, DoneKeeps DEF handleMessage
<1> QED BY <1>2, <1>3, <1>4 DEF HeaderOver

\* The bytes of a body are there.
LEMMA BodyBytesTyped ==
  ASSUME ParserOK, AtByte, NEW STATE n, n \in Nat, n > 0, HasBody(n)
  PROVE  /\ BodyBytes(n) \in ByteSeq
         /\ start + n \in Nat /\ start + n >= 1 /\ start + n <= Len(data) + 1
<1> DEFINE m == start - 1
           k == (start + n) - 1
<1>1. /\ data \in ByteSeq /\ Len(data) \in Nat /\ m \in Nat /\ k \in Nat /\ m <= k /\ k <= Len(data)
      /\ m + 1 = start /\ start \in Nat /\ k = start + n - 1
  BY BytesLen DEF ParserOK, IndexOK, AtByte, HasBody
<1>2. SubSeq(data, m + 1, k) \in ByteSeq
  <2> HIDE DEF m, k
  <2> QED BY <1>1, PartBytes
<1>3. BodyBytes(n) \in ByteSeq
  BY <1>1, <1>2 DEF BodyBytes
<1>4. start + n \in Nat /\ start + n >= 1 /\ start + n <= Len(data) + 1
  BY <1>1
<1> QED BY <1>3, <1>4

LEMMA WaitKeeps ==
  ASSUME ParserOK, AtByte, Wait, UNCHANGED data
  PROVE  Effect
<1>1. TokensOK' /\ LengthsOK' /\ BuildingOK' /\ UNCHANGED messages
  BY DEF Wait, ParserOK, TokensOK, LengthsOK, BuildingOK, tokens, framing, messages
<1>2. IndexOK'
  BY BytesLen DEF Wait, ParserOK, IndexOK, AtByte
<1> QED BY <1>1, <1>2 DEF Effect, MsgStep, ParserOK

\* A body is taken.
LEMMA TakenKeeps ==
  ASSUME ParserOK, AtByte, NEW STATE n, n \in Nat, n > 0, HasBody(n), UNCHANGED <<data, tokens>>,
         start' = start + n, i' = start + n, contentLength' = contentLength, chunkSize' = chunkSize,
         state' # "BodyContentLength", state' # "BodyChunkData", state' \in Building => msg' # NoMsg
  PROVE  ParserOK'
<1>1. TokensOK' /\ LengthsOK' /\ BuildingOK'
  BY DEF ParserOK, TokensOK, LengthsOK, BuildingOK, tokens
<1>2. data \in ByteSeq /\ start + n \in Nat /\ start + n >= 1 /\ start + n <= Len(data) + 1
  BY BodyBytesTyped DEF ParserOK, IndexOK
<1>3. IndexOK'
  BY <1>2 DEF IndexOK
<1> QED BY <1>1, <1>3 DEF ParserOK

LEMMA ContentLengthBodyEffect ==
  ASSUME ParserOK, MsgOK, UNCHANGED data, ContentLengthBody
  PROVE  Effect
<1>0. AtByte /\ state = "BodyContentLength"
  BY DEF ContentLengthBody, At, AtByte
<1>1. msg # NoMsg /\ contentLength \in Nat /\ contentLength > 0
  BY <1>0 DEF ParserOK, BuildingOK, Building, LengthsOK
<1>2. CASE Fail
  BY <1>2, FailKeeps
<1>3. CASE Wait
  BY <1>0, <1>3, WaitKeeps
<1>4. CASE /\ HasBody(contentLength)
           /\ \E spare \in Spare : handleMessage(OnBody(contentLength, spare))
           /\ state' = First /\ start' = start + contentLength /\ i' = start + contentLength
           /\ UNCHANGED <<tokens, headerExists, contentLength, chunkSize, pc>>
  <2>1. PICK spare \in Spare : handleMessage(OnBody(contentLength, spare))
    BY <1>4
  <2>2. BodyBytes(contentLength) \in ByteSeq
    BY <1>0, <1>1, <1>4, BodyBytesTyped
  <2>3. Grown(OnBody(contentLength, spare))
    BY <1>1, <2>2, GrownBody DEF OnBody
  <2>4. ParserOK'
    BY <1>0, <1>1, <1>4, FirstOutside, TakenKeeps
  <2>5. OnComplete(OnBody(contentLength, spare))
    BY <2>1 DEF handleMessage
  <2> QED BY <2>3, <2>4, <2>5, DoneKeeps
<1> QED BY <1>2, <1>3, <1>4 DEF ContentLengthBody

LEMMA ChunkDataEffect ==
  ASSUME ParserOK, MsgOK, UNCHANGED data, ChunkData
  PROVE  Effect
<1>0. AtByte /\ state = "BodyChunkData"
  BY DEF ChunkData, At, AtByte
<1>1. msg # NoMsg /\ chunkSize \in Nat /\ chunkSize > 0
  BY <1>0 DEF ParserOK, BuildingOK, Building, LengthsOK
<1>2. CASE Fail
  BY <1>2, FailKeeps
<1>3. CASE Wait
  BY <1>0, <1>3, WaitKeeps
<1>4. CASE /\ HasBody(chunkSize)
           /\ \E spare \in Spare : With(OnBody(chunkSize, spare))
           /\ state' = "BodyChunkDataCR" /\ start' = start + chunkSize /\ i' = start + chunkSize
           /\ UNCHANGED <<tokens, framing, pc>>
  <2>1. PICK spare \in Spare : With(OnBody(chunkSize, spare))
    BY <1>4
  <2>2. BodyBytes(chunkSize) \in ByteSeq
    BY <1>0, <1>1, <1>4, BodyBytesTyped
  <2>3. Grown(OnBody(chunkSize, spare))
    BY <1>1, <2>2, GrownBody DEF OnBody
  <2>4. msg' # NoMsg /\ OnBody(chunkSize, spare) \in MessageType
    BY <2>1, <2>3, MessageNotNil DEF Grown, With
  <2>5. contentLength' = contentLength /\ chunkSize' = chunkSize
    BY <1>4 DEF framing
  <2>6. ParserOK'
    BY <1>0, <1>1, <1>4, <2>4, <2>5, TakenKeeps
  <2> QED BY <2>1, <2>3, <2>4, <2>6 DEF Effect, MsgStep, MsgWith
<1> QED BY <1>2, <1>3, <1>4 DEF ChunkData

LEMMA SizeTyped == SizeOfSlice \in Int
<1>1. \A n \in DOMAIN Sizes : Sizes[n] \in Int
  BY DEF Sizes
<1> QED BY <1>1 DEF SizeOfSlice

\* The size of a chunk is set.
ChunkSized == /\ At("BodyChunkSize") /\ chunkSize' \in Int
              /\ Goto("BodyChunkSizeLF", i + 1) \/ Stay
              /\ UNCHANGED <<tokens, headerExists, header, trailer, chunked, contentLength, messages, pc>>

LEMMA ChunksCases ==
  ASSUME ParserOK, Chunks
  PROVE  /\ AtByte
         /\ \/ Fail \/ (Stay /\ Keep) \/ ChunkData \/ ChunkSized
            \/ At("BodyChunkSizeBefore") /\ Goto("BodyChunkSize", i) /\ SetChunkSize(-1)
            \/ /\ At("BodyChunkSizeLF") /\ Keep
               /\ \/ chunkSize > 0 /\ Goto("BodyChunkData", i + 1)
                  \/ Goto("BodyTrailerHeaderKeyBefore", i + 1)
                  \/ Goto("TailCR", i + 1)
            \/ Moves("BodyChunkDataCR", "BodyChunkDataLF", start)
            \/ Moves("BodyChunkDataLF", "BodyChunkSizeBefore", start)
<1>1. AtByte
  BY DEF Chunks, ChunkData, At, AtByte
<1> DEFINE n == IF chunkSize < 0 THEN SizeOfSlice ELSE chunkSize
           Size == /\ At("BodyChunkSize")
                   /\ CASE isHex -> Stay /\ Keep
                        [] ~isHex /\ n < 0 -> Fail
                        [] OTHER -> /\ SetChunkSize(n)
                                    /\ IF c = "cr" THEN Goto("BodyChunkSizeLF", i + 1) ELSE Stay
<1>2. n \in Int
  BY SizeTyped DEF ParserOK, LengthsOK
<1>3. CASE Size
  <2> HIDE DEF n
  <2>1. SetChunkSize(n) => /\ chunkSize' \in Int
                           /\ UNCHANGED <<tokens, headerExists, header, trailer, chunked, contentLength, messages, pc>>
    BY <1>2 DEF SetChunkSize
  <2> QED BY <1>1, <1>3, <2>1 DEF ChunkSized
<1> HIDE DEF Size
<1>4. CASE ~Size
  <2>1. \/ /\ At("BodyChunkSizeBefore")
           /\ IF isHex THEN Goto("BodyChunkSize", i) /\ SetChunkSize(-1) ELSE Fail
        \/ /\ At("BodyChunkSizeLF")
           /\ IF c = "lf"
              THEN /\ Goto(IF chunkSize > 0 THEN "BodyChunkData"
                           ELSE IF trailer # {} THEN "BodyTrailerHeaderKeyBefore" ELSE "TailCR", i + 1)
                   /\ Keep
              ELSE Fail
        \/ ChunkData
        \/ At("BodyChunkDataCR") /\ (IF c = "cr" THEN Goto("BodyChunkDataLF", start) /\ Keep ELSE Fail)
        \/ At("BodyChunkDataLF") /\ (IF c = "lf" THEN Goto("BodyChunkSizeBefore", start) /\ Keep ELSE Fail)
    BY <1>4, Zenon DEF Chunks, Size
  <2> QED BY <1>1, <2>1 DEF Moves
<1> QED BY <1>3, <1>4

LEMMA ChunksEffect ==
  ASSUME ParserOK, MsgOK, UNCHANGED data, Chunks
  PROVE  Effect
<1>0. AtByte
  BY ChunksCases
<1>1. CASE Fail
  BY <1>1, FailKeeps
<1>2. CASE Stay /\ Keep
  BY <1>0, <1>2, StayKeeps
<1>3. CASE ChunkData
  BY <1>3, ChunkDataEffect
<1>4. CASE \/ Moves("BodyChunkDataCR", "BodyChunkDataLF", start)
           \/ Moves("BodyChunkDataLF", "BodyChunkSizeBefore", start)
  <2>1. "BodyChunkDataCR" \in Building /\ "BodyChunkDataLF" \in Building
    BY DEF Building
  <2>2. start \in {start, i, i + 1}
    OBVIOUS
  <2>3. CASE Moves("BodyChunkDataCR", "BodyChunkDataLF", start)
    BY <2>1, <2>2, <2>3, MovesKeep
  <2>4. CASE Moves("BodyChunkDataLF", "BodyChunkSizeBefore", start)
    BY <2>1, <2>2, <2>4, MovesKeep
  <2> QED BY <1>4, <2>3, <2>4
<1>5. CASE ChunkSized \/ (At("BodyChunkSizeBefore") /\ Goto("BodyChunkSize", i) /\ SetChunkSize(-1))
  <2>1. /\ Moved /\ state \in Building /\ chunkSize' \in Int /\ contentLength' = contentLength
        /\ UNCHANGED <<tokens, messages>>
        /\ state' # "BodyContentLength" /\ state' # "BodyChunkData"
    BY <1>5 DEF ChunkSized, SetChunkSize, Goto, Stay, Moved, At, Building
  <2>2. TokensOK' /\ contentLength' \in Int /\ msg' # NoMsg
    BY <2>1 DEF ParserOK, TokensOK, LengthsOK, BuildingOK, tokens, messages
  <2>3. ParserOK'
    BY <1>0, <2>1, <2>2, MovedKeeps
  <2> QED BY <2>1, <2>3 DEF Effect, MsgStep
<1>6. CASE /\ At("BodyChunkSizeLF") /\ Keep
           /\ \/ chunkSize > 0 /\ Goto("BodyChunkData", i + 1)
              \/ Goto("BodyTrailerHeaderKeyBefore", i + 1)
              \/ Goto("TailCR", i + 1)
  <2>1. /\ Moved /\ state \in Building /\ UNCHANGED <<tokens, framing, messages>>
        /\ state' # "BodyContentLength" /\ (state' = "BodyChunkData" => chunkSize > 0)
    BY <1>6 DEF Keep, Goto, Moved, At, Building
  <2>2. /\ TokensOK' /\ contentLength' \in Int /\ chunkSize' \in Int /\ chunkSize' = chunkSize
        /\ msg' # NoMsg
    BY <2>1 DEF ParserOK, TokensOK, LengthsOK, BuildingOK, tokens, framing, messages
  <2>3. ParserOK'
    BY <1>0, <2>1, <2>2, MovedKeeps
  <2> QED BY <2>1, <2>3 DEF Effect, MsgStep
<1> QED BY ChunksCases, <1>1, <1>2, <1>3, <1>4, <1>5, <1>6

LEMMA TrailersCases ==
  ASSUME Trailers
  PROVE  /\ AtByte
         /\ \/ Fail \/ (Stay /\ Keep)
            \/ Moves("BodyTrailerHeaderKeyBefore", "BodyTrailerHeaderKey", i)
            \/ Moves("BodyTrailerHeaderKeyBefore", "TailLF", i + 1)
            \/ /\ At("BodyTrailerHeaderKey") /\ headerKey' = FirstOf(headerKey)
               /\ Stay \/ Goto("BodyTrailerHeaderValueBefore", i + 1)
               /\ UNCHANGED <<word, statusCode, framing, messages, pc>>
            \/ At("BodyTrailerHeaderValueBefore") /\ TrailerDone(trailer)
            \/ Moves("BodyTrailerHeaderValueBefore", "BodyTrailerHeaderValue", i)
            \/ /\ At("BodyTrailerHeaderValue") /\ word' = FirstOf(word) /\ Stay
               /\ UNCHANGED <<headerKey, statusCode, framing, messages, pc>>
            \/ At("BodyTrailerHeaderValue") /\ TrailerDone(trailer \ {headerKey})
            \/ Moves("BodyTrailerHeaderValueLF", "BodyTrailerHeaderKeyBefore", i)
<1>1. AtByte
  BY DEF Trailers, At, AtByte
<1> QED BY <1>1 DEF Trailers, Moves

LEMMA TrailerDoneEffect ==
  ASSUME ParserOK, MsgOK, AtByte, UNCHANGED data, state \in Building, NEW STATE rest, TrailerDone(rest)
  PROVE  Effect
<1>1. Moved /\ state' = "BodyTrailerHeaderValueLF"
  BY DEF TrailerDone, Goto, Moved
<1>2. msg # NoMsg /\ headerKey \in NameType
  BY DEF ParserOK, BuildingOK, TokensOK
<1>3. Grown([msg EXCEPT !.trailers = Append(@, <<headerKey, FirstOf(word)>>)])
  BY <1>2, FirstOfTyped, GrownTrailer
<1>4. With([msg EXCEPT !.trailers = Append(@, <<headerKey, FirstOf(word)>>)])
  BY DEF TrailerDone, OnTrailerHeader
<1>5. TokensOK' /\ contentLength' \in Int /\ chunkSize' \in Int
  BY DEF TrailerDone, ParserOK, TokensOK, LengthsOK, NameType
<1> QED BY <1>1, <1>3, <1>4, <1>5, WithKeeps

LEMMA TrailersEffect ==
  ASSUME ParserOK, MsgOK, UNCHANGED data, Trailers
  PROVE  Effect
<1>0. AtByte
  BY TrailersCases
<1>1. CASE Fail
  BY <1>1, FailKeeps
<1>2. CASE Stay /\ Keep
  BY <1>0, <1>2, StayKeeps
<1>3. CASE \/ Moves("BodyTrailerHeaderKeyBefore", "BodyTrailerHeaderKey", i)
           \/ Moves("BodyTrailerHeaderKeyBefore", "TailLF", i + 1)
           \/ Moves("BodyTrailerHeaderValueBefore", "BodyTrailerHeaderValue", i)
           \/ Moves("BodyTrailerHeaderValueLF", "BodyTrailerHeaderKeyBefore", i)
  <2>1. /\ "BodyTrailerHeaderKeyBefore" \in Building /\ "BodyTrailerHeaderValueBefore" \in Building
        /\ "BodyTrailerHeaderValueLF" \in Building
    BY DEF Building
  <2>2. i \in {start, i, i + 1} /\ i + 1 \in {start, i, i + 1}
    OBVIOUS
  <2>3. CASE Moves("BodyTrailerHeaderKeyBefore", "BodyTrailerHeaderKey", i)
    BY <2>1, <2>2, <2>3, MovesKeep
  <2>4. CASE Moves("BodyTrailerHeaderKeyBefore", "TailLF", i + 1)
    BY <2>1, <2>2, <2>4, MovesKeep
  <2>5. CASE Moves("BodyTrailerHeaderValueBefore", "BodyTrailerHeaderValue", i)
    BY <2>1, <2>2, <2>5, MovesKeep
  <2>6. CASE Moves("BodyTrailerHeaderValueLF", "BodyTrailerHeaderKeyBefore", i)
    BY <2>1, <2>2, <2>6, MovesKeep
  <2> QED BY <1>3, <2>3, <2>4, <2>5, <2>6
<1>4. CASE /\ At("BodyTrailerHeaderKey") /\ headerKey' = FirstOf(headerKey)
           /\ Stay \/ Goto("BodyTrailerHeaderValueBefore", i + 1)
           /\ UNCHANGED <<word, statusCode, framing, messages, pc>>
  <2>1. /\ Moved /\ state \in Building
        /\ state' = state \/ (state' # "BodyContentLength" /\ state' # "BodyChunkData")
    BY <1>4 DEF Goto, Stay, Moved, At, Building
  <2>2. TokensOK'
    BY <1>0, <1>4, FirstOfTyped DEF ParserOK, TokensOK
  <2> QED BY <1>0, <1>4, <2>1, <2>2, WordKeeps
<1>5. CASE At("BodyTrailerHeaderValueBefore") /\ TrailerDone(trailer)
  BY <1>0, <1>5, TrailerDoneEffect DEF At, Building
<1>6. CASE At("BodyTrailerHeaderValue") /\ TrailerDone(trailer \ {headerKey})
  BY <1>0, <1>6, TrailerDoneEffect DEF At, Building
<1>7. CASE /\ At("BodyTrailerHeaderValue") /\ word' = FirstOf(word) /\ Stay
           /\ UNCHANGED <<headerKey, statusCode, framing, messages, pc>>
  <2>1. Moved /\ state' = state
    BY <1>7 DEF Goto, Stay, Moved
  <2>2. TokensOK'
    BY <1>0, <1>7, FirstOfTyped DEF ParserOK, TokensOK
  <2> QED BY <1>0, <1>7, <2>1, <2>2, WordKeeps
<1> QED BY TrailersCases, <1>1, <1>2, <1>3, <1>4, <1>5, <1>6, <1>7

LEMMA TailOfChunksEffect ==
  ASSUME ParserOK, MsgOK, UNCHANGED data, TailOfChunks
  PROVE  Effect
<1>0. AtByte
  BY DEF TailOfChunks, At, AtByte
<1>1. CASE Fail
  BY <1>1, FailKeeps
<1>2. CASE Moves("TailCR", "TailLF", start)
  <2>1. "TailCR" \in Building /\ start \in {start, i, i + 1}
    BY DEF Building
  <2> QED BY <1>2, <2>1, MovesKeep
<1>3. CASE /\ At("TailLF") /\ handleMessage(msg) /\ Goto(First, i + 1)
           /\ UNCHANGED <<tokens, headerExists, contentLength, chunkSize, pc>>
  <2>1. Moved /\ state' = First /\ contentLength' = contentLength /\ chunkSize' = chunkSize
    BY <1>3 DEF Goto, Moved
  <2>2. TokensOK' /\ contentLength' \in Int /\ chunkSize' \in Int
    BY <1>3, <2>1 DEF ParserOK, TokensOK, LengthsOK, tokens
  <2>3. ParserOK'
    BY <1>0, <2>1, <2>2, FirstOutside, MovedKeeps
  <2>4. msg # NoMsg
    BY <1>3 DEF At, ParserOK, BuildingOK, Building
  <2> QED BY <1>3, <2>3, <2>4, GrownSame, DoneKeeps DEF handleMessage
<1> QED BY <1>1, <1>2, <1>3 DEF TailOfChunks, Moves

LEMMA ParseByteEffect ==
  ASSUME ParserOK, MsgOK, ParseByte
  PROVE  Effect /\ pc = "parse" /\ UNCHANGED <<bytesCached, data, closed>>
<1>1. UNCHANGED <<bytesCached, data, closed>> /\ UNCHANGED data
  BY DEF ParseByte
<1>2. pc = "parse"
  BY RequestLineCases, StatusLineCases, HeadersCases, ChunksCases, TrailersCases
     DEF ParseByte, HeaderOver, ContentLengthBody, TailOfChunks, At, AtByte
<1>3. Effect
  BY <1>1, RequestLineEffect, StatusLineEffect, HeadersEffect, HeaderOverEffect,
     ContentLengthBodyEffect, ChunksEffect, TrailersEffect, TailOfChunksEffect DEF ParseByte
<1> QED BY <1>1, <1>2, <1>3

-----------------------------------------------------------------------------
(* Who owns a message.                                                     *)

\* A job at the end, and the first one taken off.
LEMMA AppendHolds ==
  ASSUME NEW S, NEW js \in Seq(S), NEW x \in S, NEW id
  PROVE  InJobs(Append(js, x), id) <=> InJobs(js, id) \/ Holds(x, id)
<1> DEFINE new == Append(js, x)
           n == Len(js)
<1>1. n \in Nat /\ Len(new) = n + 1 /\ (\A k \in 1 .. n : new[k] = js[k]) /\ new[n + 1] = x
  BY AppendSeq, SeqFacts
<1> HIDE DEF new
<1>2. ASSUME InJobs(js, id) PROVE InJobs(new, id)
  <2>1. PICK k \in 1 .. n : Holds(js[k], id)
    BY <1>2 DEF InJobs
  <2>2. k \in 1 .. Len(new) /\ new[k] = js[k]
    BY <1>1
  <2> QED BY <2>1, <2>2 DEF InJobs
<1>3. ASSUME Holds(x, id) PROVE InJobs(new, id)
  <2>1. n + 1 \in 1 .. Len(new) /\ new[n + 1] = x
    BY <1>1
  <2> QED BY <1>3, <2>1 DEF InJobs
<1>4. ASSUME InJobs(new, id) PROVE InJobs(js, id) \/ Holds(x, id)
  <2>1. PICK k \in 1 .. Len(new) : Holds(new[k], id)
    BY <1>4 DEF InJobs
  <2>2. k \in 1 .. n \/ k = n + 1
    BY <1>1
  <2>3. ASSUME k \in 1 .. n PROVE InJobs(js, id)
    BY <1>1, <2>1, <2>3 DEF InJobs
  <2>4. ASSUME k = n + 1 PROVE Holds(x, id)
    BY <1>1, <2>1, <2>4
  <2> QED BY <2>2, <2>3, <2>4
<1>5. InJobs(new, id) <=> InJobs(js, id) \/ Holds(x, id)
  BY <1>2, <1>3, <1>4
<1> QED BY <1>5 DEF new

LEMMA TailHolds ==
  ASSUME NEW S, NEW js \in Seq(S), js # <<>>, NEW id
  PROVE  InJobs(js, id) <=> InJobs(Tail(js), id) \/ Holds(Head(js), id)
<1> DEFINE t == Tail(js)
           n == Len(js)
<1>1. /\ n \in Nat /\ n > 0 /\ Len(t) = n - 1 /\ (\A k \in 1 .. n - 1 : t[k] = js[k + 1])
      /\ Head(js) = js[1]
  BY TailSeq, SeqFacts
<1> HIDE DEF t
<1>2. ASSUME InJobs(t, id) PROVE InJobs(js, id)
  <2>1. PICK k \in 1 .. Len(t) : Holds(t[k], id)
    BY <1>2 DEF InJobs
  <2>2. k + 1 \in 1 .. n /\ t[k] = js[k + 1]
    BY <1>1
  <2> QED BY <2>1, <2>2 DEF InJobs
<1>3. ASSUME Holds(Head(js), id) PROVE InJobs(js, id)
  <2>1. 1 \in 1 .. n
    BY <1>1
  <2> QED BY <1>1, <1>3, <2>1 DEF InJobs
<1>4. ASSUME InJobs(js, id) PROVE InJobs(t, id) \/ Holds(Head(js), id)
  <2>1. PICK k \in 1 .. n : Holds(js[k], id)
    BY <1>4 DEF InJobs
  <2>2. CASE k = 1
    BY <1>1, <2>1, <2>2
  <2>3. CASE k # 1
    <3>1. k - 1 \in 1 .. Len(t) /\ k - 1 \in 1 .. n - 1 /\ (k - 1) + 1 = k
      BY <1>1, <2>3
    <3>2. t[k - 1] = js[k]
      BY <1>1, <3>1
    <3> QED BY <2>1, <3>1, <3>2 DEF InJobs
  <2> QED BY <2>2, <2>3
<1>5. InJobs(js, id) <=> InJobs(t, id) \/ Holds(Head(js), id)
  BY <1>2, <1>3, <1>4
<1> QED BY <1>5 DEF t

\* A message that no job has may become one.
LEMMA AppendOnce ==
  ASSUME NEW S, NEW js \in Seq(S), NEW x \in S, JobsOnce(js), x \in MessageType => ~InJobs(js, x.id)
  PROVE  JobsOnce(Append(js, x))
<1> DEFINE new == Append(js, x)
           n == Len(js)
<1>1. n \in Nat /\ Len(new) = n + 1 /\ (\A k \in 1 .. n : new[k] = js[k]) /\ new[n + 1] = x
  BY AppendSeq, SeqFacts
<1> HIDE DEF new
<1>2. ASSUME NEW a \in 1 .. Len(new), NEW b \in 1 .. Len(new),
             new[a] \in MessageType, new[b] \in MessageType, new[a].id = new[b].id
      PROVE  a = b
  <2>1. (a \in 1 .. n \/ a = n + 1) /\ (b \in 1 .. n \/ b = n + 1)
    BY <1>1
  <2>2. ASSUME a \in 1 .. n, b = n + 1 PROVE FALSE
    BY <1>1, <1>2, <2>2 DEF InJobs, Holds
  <2>3. ASSUME b \in 1 .. n, a = n + 1 PROVE FALSE
    BY <1>1, <1>2, <2>3 DEF InJobs, Holds
  <2>4. ASSUME a \in 1 .. n, b \in 1 .. n PROVE a = b
    BY <1>1, <1>2, <2>4 DEF JobsOnce
  <2> QED BY <2>1, <2>2, <2>3, <2>4
<1>3. JobsOnce(new)
  BY <1>2 DEF JobsOnce
<1> QED BY <1>3 DEF new

LEMMA TailOnce ==
  ASSUME NEW S, NEW js \in Seq(S), js # <<>>, JobsOnce(js)
  PROVE  /\ JobsOnce(Tail(js))
         /\ \A id : ~(InJobs(Tail(js), id) /\ Holds(Head(js), id))
<1> DEFINE t == Tail(js)
           n == Len(js)
<1>1. /\ n \in Nat /\ n > 0 /\ Len(t) = n - 1 /\ (\A k \in 1 .. n - 1 : t[k] = js[k + 1])
      /\ Head(js) = js[1]
  BY TailSeq, SeqFacts
<1> HIDE DEF t
<1>2. ASSUME NEW a \in 1 .. Len(t), NEW b \in 1 .. Len(t),
             t[a] \in MessageType, t[b] \in MessageType, t[a].id = t[b].id
      PROVE  a = b
  <2>1. a + 1 \in 1 .. n /\ b + 1 \in 1 .. n /\ t[a] = js[a + 1] /\ t[b] = js[b + 1]
    BY <1>1
  <2>2. a + 1 = b + 1
    BY <1>2, <2>1 DEF JobsOnce
  <2> QED BY <2>2
<1>3. ASSUME NEW id, InJobs(t, id), Holds(Head(js), id) PROVE FALSE
  <2>1. PICK k \in 1 .. Len(t) : Holds(t[k], id)
    BY <1>3 DEF InJobs
  <2>2. k + 1 \in 1 .. n /\ 1 \in 1 .. n /\ t[k] = js[k + 1] /\ k + 1 # 1
    BY <1>1
  <2>3. js[1] \in MessageType /\ js[k + 1] \in MessageType /\ js[1].id = js[k + 1].id
    BY <1>1, <1>3, <2>1, <2>2 DEF Holds
  <2> QED BY <2>2, <2>3 DEF JobsOnce
<1>4. JobsOnce(t) /\ \A id : ~(InJobs(t, id) /\ Holds(Head(js), id))
  BY <1>2, <1>3 DEF JobsOnce
<1> QED BY <1>4 DEF t

\* The messages of a list of jobs.
LEMMA JobsGrow ==
  ASSUME NEW n \in Nat, NEW js, JobsTyped(js, n)
  PROVE  JobsTyped(js, n + 1)
  BY DEF JobsTyped, MessageUpTo

LEMMA JobsAppend ==
  ASSUME NEW n \in Nat, NEW js, JobsTyped(js, n), NEW x, x = CloseJob \/ MessageUpTo(x, n)
  PROVE  /\ js \in Seq(MessageType \cup {CloseJob}) /\ x \in MessageType \cup {CloseJob}
         /\ JobsTyped(Append(js, x), n)
<1> DEFINE S == MessageType \cup {CloseJob}
           new == Append(js, x)
<1>1. js \in Seq(S) /\ x \in S
  BY DEF JobsTyped, MessageUpTo
<1> HIDE DEF S
<1>2. /\ Len(js) \in Nat /\ new \in Seq(S) /\ Len(new) = Len(js) + 1
      /\ (\A k \in 1 .. Len(js) : new[k] = js[k]) /\ new[Len(js) + 1] = x
  BY <1>1, AppendSeq, SeqFacts
<1> HIDE DEF new
<1>3. ASSUME NEW k \in 1 .. Len(new) PROVE new[k] = CloseJob \/ MessageUpTo(new[k], n)
  <2>1. k \in 1 .. Len(js) \/ k = Len(js) + 1
    BY <1>2
  <2> QED BY <1>2, <2>1 DEF JobsTyped
<1>4. JobsTyped(new, n)
  BY <1>2, <1>3 DEF JobsTyped, S
<1> QED BY <1>1, <1>4 DEF new, S

LEMMA JobsTail ==
  ASSUME NEW n \in Nat, NEW js, JobsTyped(js, n), js # <<>>
  PROVE  /\ js \in Seq(MessageType \cup {CloseJob})
         /\ Head(js) = CloseJob \/ MessageUpTo(Head(js), n)
         /\ JobsTyped(Tail(js), n)
<1> DEFINE S == MessageType \cup {CloseJob}
           t == Tail(js)
<1>1. js \in Seq(S)
  BY DEF JobsTyped
<1> HIDE DEF S
<1>2. /\ Len(js) \in Nat /\ Len(js) > 0 /\ t \in Seq(S) /\ Len(t) = Len(js) - 1 /\ Head(js) = js[1]
      /\ (\A k \in 1 .. Len(js) - 1 : t[k] = js[k + 1])
  BY <1>1, TailSeq, SeqFacts
<1> HIDE DEF t
<1>3. ASSUME NEW k \in 1 .. Len(t) PROVE t[k] = CloseJob \/ MessageUpTo(t[k], n)
  <2>1. k + 1 \in 1 .. Len(js) /\ t[k] = js[k + 1]
    BY <1>2
  <2> QED BY <2>1 DEF JobsTyped
<1>4. Head(js) = CloseJob \/ MessageUpTo(Head(js), n)
  <2>1. 1 \in 1 .. Len(js)
    BY <1>2
  <2> QED BY <1>2, <2>1 DEF JobsTyped
<1>5. JobsTyped(t, n)
  BY <1>2, <1>3 DEF JobsTyped, S
<1> QED BY <1>1, <1>4, <1>5 DEF t, S

LEMMA NilHolds == \A id : ~Holds(NoMsg, id) /\ ~Holds(CloseJob, id)
  BY MessageNotNil DEF Holds

LEMMA SameHolds ==
  ASSUME NEW n, NEW x, MessageUpTo(x, n), NEW y, MessageUpTo(y, n), x.id = y.id
  PROVE  \A id : Holds(x, id) <=> Holds(y, id)
  BY DEF MessageUpTo, Holds

LEMMA IsHolder ==
  ASSUME NEW n, NEW x, MessageUpTo(x, n)
  PROVE  \A id : Holds(x, id) <=> id = x.id
  BY DEF MessageUpTo, Holds

\* No job has a message with an id that was not given out.
LEMMA JobsBelow ==
  ASSUME NEW n \in Nat, NEW js, JobsTyped(js, n)
  PROVE  ~InJobs(js, n + 1)
  BY MessageNotNil DEF JobsTyped, MessageUpTo, InJobs, Holds

\* The parser's message grows.
LEMMA PoolGrows ==
  ASSUME NEW n, NEW m, NEW js, NEW run, NEW pan, NEW rel, Pool(n, m, js, run, pan, rel), m # NoMsg,
         NEW x, MessageUpTo(x, n), x.id = m.id
  PROVE  Pool(n, x, js, run, pan, rel)
<1>1. MessageUpTo(m, n)
  BY DEF Pool, PoolTyped
<1>2. PoolTyped(n, x, js, run, pan, rel) /\ JobsTyped(js, n) /\ JobsOnce(js)
  BY DEF Pool, PoolTyped
<1>3. \A id \in 1 .. n : OneOwner(id, x, js, run, pan, rel)
  BY <1>1, SameHolds DEF Pool, OneOwner, OneOf
<1> QED BY <1>2, <1>3 DEF Pool

\* A message is taken from the pool.
LEMMA PoolObtains ==
  ASSUME NEW n, NEW js, NEW run, NEW pan, NEW rel, Pool(n, NoMsg, js, run, pan, rel),
         NEW x, MessageUpTo(x, n + 1), x.id = n + 1
  PROVE  Pool(n + 1, x, js, run, pan, Append(rel, 0))
<1> DEFINE new == Append(rel, 0)
<1>1. n \in Nat /\ rel \in Seq(Nat) /\ Len(rel) = n /\ JobsTyped(js, n) /\ JobsOnce(js) /\ pan \subseteq 1 .. n
  BY DEF Pool, PoolTyped
<1>2. /\ new \in Seq(Nat) /\ Len(new) = n + 1 /\ (\A k \in 1 .. n : new[k] = rel[k]) /\ new[n + 1] = 0
  BY <1>1, AppendSeq
<1> HIDE DEF new
<1>3. PoolTyped(n + 1, x, js, run, pan, new)
  <2>1. pan \subseteq 1 .. n + 1 /\ n + 1 \in Nat
    BY <1>1
  <2>2. run = NoMsg \/ run = CloseJob \/ MessageUpTo(run, n + 1)
    BY <1>1 DEF Pool, PoolTyped, MessageUpTo
  <2> QED BY <1>2, <2>1, <2>2 DEF PoolTyped
<1>4. JobsTyped(js, n + 1)
  BY <1>1, JobsGrow
<1>5. ASSUME NEW id \in 1 .. n PROVE OneOwner(id, x, js, run, pan, new)
  <2>1. OneOwner(id, NoMsg, js, run, pan, rel) /\ new[id] = rel[id] /\ id # n + 1
    BY <1>1, <1>2 DEF Pool
  <2>2. ~Holds(x, id) /\ ~Holds(NoMsg, id)
    BY <2>1, NilHolds, IsHolder
  <2> QED BY <2>1, <2>2 DEF OneOwner, OneOf
<1>6. OneOwner(n + 1, x, js, run, pan, new)
  <2>1. Holds(x, n + 1) /\ ~InJobs(js, n + 1) /\ n + 1 \notin pan
    BY <1>1, JobsBelow, IsHolder
  <2>2. ~Holds(run, n + 1)
    <3>1. run = NoMsg \/ run = CloseJob \/ (run \in MessageType /\ run.id # n + 1)
      BY <1>1 DEF Pool, PoolTyped, MessageUpTo
    <3> QED BY <3>1, NilHolds DEF Holds
  <2>3. new[n + 1] \in {0, 1} /\ new[n + 1] # 1
    BY <1>2
  <2> QED BY <2>1, <2>2, <2>3 DEF OneOwner, OneOf
<1>7. \A id \in 1 .. n + 1 : id \in 1 .. n \/ id = n + 1
  BY <1>1
<1>8. \A id \in 1 .. n + 1 : OneOwner(id, x, js, run, pan, new)
  BY <1>5, <1>6, <1>7
<1>9. Pool(n + 1, x, js, run, pan, new)
  BY <1>1, <1>3, <1>4, <1>8 DEF Pool
<1> QED BY <1>9 DEF new

\* The parser's message becomes a job.
LEMMA PoolQueues ==
  ASSUME NEW n, NEW m, NEW js, NEW run, NEW pan, NEW rel, Pool(n, m, js, run, pan, rel), m # NoMsg,
         NEW x, MessageUpTo(x, n), x.id = m.id
  PROVE  Pool(n, NoMsg, Append(js, x), run, pan, rel)
<1>1. MessageUpTo(m, n) /\ n \in Nat /\ JobsTyped(js, n) /\ JobsOnce(js) /\ x.id \in 1 .. n
  BY DEF Pool, PoolTyped, MessageUpTo
<1>2. PoolTyped(n, NoMsg, Append(js, x), run, pan, rel)
  BY DEF Pool, PoolTyped
<1>3. /\ js \in Seq(MessageType \cup {CloseJob}) /\ x \in MessageType \cup {CloseJob}
      /\ JobsTyped(Append(js, x), n)
  BY <1>1, JobsAppend
<1>4. \A id : Holds(x, id) <=> Holds(m, id)
  BY <1>1, SameHolds
<1>5. JobsOnce(Append(js, x))
  <2>1. Holds(m, x.id)
    BY <1>1, IsHolder
  <2>2. ~InJobs(js, x.id)
    BY <1>1, <2>1 DEF Pool, OneOwner, OneOf
  <2> QED BY <1>1, <1>3, <2>2, AppendOnce
<1>6. ASSUME NEW id \in 1 .. n PROVE OneOwner(id, NoMsg, Append(js, x), run, pan, rel)
  <2>1. InJobs(Append(js, x), id) <=> InJobs(js, id) \/ Holds(m, id)
    BY <1>3, <1>4, AppendHolds
  <2>2. OneOwner(id, m, js, run, pan, rel) /\ ~Holds(NoMsg, id)
    BY NilHolds DEF Pool
  <2> QED BY <2>1, <2>2 DEF OneOwner, OneOf
<1> QED BY <1>2, <1>3, <1>5, <1>6 DEF Pool

\* A message is given back: the parser's or the runner's.
LEMMA GivenBack ==
  ASSUME NEW n \in Nat, NEW rel \in Seq(Nat), Len(rel) = n, NEW k \in 1 .. n
  PROVE  LET new == [rel EXCEPT ![k] = @ + 1] IN
         /\ new \in Seq(Nat) /\ Len(new) = n /\ new[k] = rel[k] + 1
         /\ \A id \in 1 .. n : id # k => new[id] = rel[id]
<1> DEFINE new == [rel EXCEPT ![k] = @ + 1]
<1>1. rel \in [1 .. n -> Nat]
  BY SeqFacts
<1>2. new \in [1 .. n -> Nat] /\ new[k] = rel[k] + 1 /\ \A id \in 1 .. n : id # k => new[id] = rel[id]
  BY <1>1
<1> HIDE DEF new
<1>3. new \in Seq(Nat) /\ Len(new) = n
  BY <1>2, FunctionSeq
<1> QED BY <1>2, <1>3 DEF new

LEMMA PoolReleases ==
  ASSUME NEW n, NEW m, NEW js, NEW run, NEW pan, NEW rel, Pool(n, m, js, run, pan, rel), m # NoMsg,
         NEW k, k = m.id
  PROVE  Pool(n, NoMsg, js, run, pan, [rel EXCEPT ![k] = @ + 1])
<1> DEFINE new == [rel EXCEPT ![k] = @ + 1]
<1>1. /\ MessageUpTo(m, n) /\ n \in Nat /\ rel \in Seq(Nat) /\ Len(rel) = n /\ k \in 1 .. n
      /\ JobsTyped(js, n) /\ JobsOnce(js)
  BY DEF Pool, PoolTyped, MessageUpTo
<1>2. /\ new \in Seq(Nat) /\ Len(new) = n /\ new[k] = rel[k] + 1
      /\ \A id \in 1 .. n : id # k => new[id] = rel[id]
  BY <1>1, GivenBack
<1> HIDE DEF new
<1>3. PoolTyped(n, NoMsg, js, run, pan, new)
  BY <1>2 DEF Pool, PoolTyped
<1>4. ASSUME NEW id \in 1 .. n PROVE OneOwner(id, NoMsg, js, run, pan, new)
  <2>1. OneOwner(id, m, js, run, pan, rel) /\ ~Holds(NoMsg, id)
    BY NilHolds DEF Pool
  <2>2. CASE id = k
    <3>1. Holds(m, id)
      BY <1>1, <2>2, IsHolder
    <3>2. rel[id] = 0
      BY <2>1, <3>1 DEF OneOwner, OneOf
    <3>3. new[id] = 1
      BY <1>2, <2>2, <3>2
    <3> QED BY <2>1, <3>1, <3>3 DEF OneOwner, OneOf
  <2>3. CASE id # k
    <3>1. ~Holds(m, id) /\ new[id] = rel[id]
      BY <1>1, <1>2, <2>3, IsHolder
    <3> QED BY <2>1, <3>1 DEF OneOwner, OneOf
  <2> QED BY <2>2, <2>3
<1>5. Pool(n, NoMsg, js, run, pan, new)
  BY <1>1, <1>3, <1>4 DEF Pool
<1> QED BY <1>5 DEF new

\* The clean-up becomes a job.
LEMMA PoolCloses ==
  ASSUME NEW n, NEW m, NEW js, NEW run, NEW pan, NEW rel, Pool(n, m, js, run, pan, rel)
  PROVE  Pool(n, m, Append(js, CloseJob), run, pan, rel)
<1>1. n \in Nat /\ JobsTyped(js, n) /\ JobsOnce(js) /\ CloseJob \notin MessageType
  BY MessageNotNil DEF Pool, PoolTyped
<1>2. /\ js \in Seq(MessageType \cup {CloseJob}) /\ CloseJob \in MessageType \cup {CloseJob}
      /\ JobsTyped(Append(js, CloseJob), n)
  BY <1>1, JobsAppend
<1>3. JobsOnce(Append(js, CloseJob))
  BY <1>1, <1>2, AppendOnce
<1>4. PoolTyped(n, m, Append(js, CloseJob), run, pan, rel)
  BY DEF Pool, PoolTyped
<1>5. ASSUME NEW id \in 1 .. n PROVE OneOwner(id, m, Append(js, CloseJob), run, pan, rel)
  <2>1. InJobs(Append(js, CloseJob), id) <=> InJobs(js, id)
    BY <1>2, AppendHolds, NilHolds
  <2>2. OneOwner(id, m, js, run, pan, rel)
    BY DEF Pool
  <2> QED BY <2>1, <2>2 DEF OneOwner, OneOf
<1> QED BY <1>2, <1>3, <1>4, <1>5 DEF Pool

\* The first job is started.
LEMMA PoolStarts ==
  ASSUME NEW n, NEW m, NEW js, NEW pan, NEW rel, Pool(n, m, js, NoMsg, pan, rel), js # <<>>
  PROVE  Pool(n, m, Tail(js), Head(js), pan, rel)
<1>1. n \in Nat /\ JobsTyped(js, n) /\ JobsOnce(js)
  BY DEF Pool, PoolTyped
<1>2. /\ js \in Seq(MessageType \cup {CloseJob}) /\ JobsTyped(Tail(js), n)
      /\ Head(js) = CloseJob \/ MessageUpTo(Head(js), n)
  BY <1>1, JobsTail
<1>3. JobsOnce(Tail(js)) /\ \A id : ~(InJobs(Tail(js), id) /\ Holds(Head(js), id))
  BY <1>1, <1>2, TailOnce
<1>4. PoolTyped(n, m, Tail(js), Head(js), pan, rel)
  BY <1>2 DEF Pool, PoolTyped
<1>5. ASSUME NEW id \in 1 .. n PROVE OneOwner(id, m, Tail(js), Head(js), pan, rel)
  <2>1. InJobs(js, id) <=> InJobs(Tail(js), id) \/ Holds(Head(js), id)
    BY <1>2, TailHolds
  <2>2. OneOwner(id, m, js, NoMsg, pan, rel) /\ ~Holds(NoMsg, id)
    BY NilHolds DEF Pool
  <2> QED BY <1>3, <2>1, <2>2 DEF OneOwner, OneOf
<1> QED BY <1>2, <1>3, <1>4, <1>5 DEF Pool

\* The handler reads or closes the body of its message.
LEMMA PoolReads ==
  ASSUME NEW n, NEW m, NEW js, NEW run, NEW pan, NEW rel, Pool(n, m, js, run, pan, rel),
         run # NoMsg, run # CloseJob, NEW x, MessageUpTo(x, n), x.id = run.id
  PROVE  Pool(n, m, js, x, pan, rel)
<1>1. MessageUpTo(run, n)
  BY DEF Pool, PoolTyped
<1>2. PoolTyped(n, m, js, x, pan, rel) /\ JobsTyped(js, n) /\ JobsOnce(js)
  BY DEF Pool, PoolTyped
<1>3. \A id \in 1 .. n : OneOwner(id, m, js, x, pan, rel)
  BY <1>1, SameHolds DEF Pool, OneOwner, OneOf
<1> QED BY <1>2, <1>3 DEF Pool

\* The handler has returned.
LEMMA PoolServed ==
  ASSUME NEW n, NEW m, NEW js, NEW run, NEW pan, NEW rel, Pool(n, m, js, run, pan, rel),
         run # NoMsg, run # CloseJob, NEW k, k = run.id
  PROVE  Pool(n, m, js, NoMsg, pan, [rel EXCEPT ![k] = @ + 1])
<1> DEFINE new == [rel EXCEPT ![k] = @ + 1]
<1>1. /\ MessageUpTo(run, n) /\ n \in Nat /\ rel \in Seq(Nat) /\ Len(rel) = n /\ k \in 1 .. n
      /\ JobsTyped(js, n) /\ JobsOnce(js)
  BY DEF Pool, PoolTyped, MessageUpTo
<1>2. /\ new \in Seq(Nat) /\ Len(new) = n /\ new[k] = rel[k] + 1
      /\ \A id \in 1 .. n : id # k => new[id] = rel[id]
  BY <1>1, GivenBack
<1> HIDE DEF new
<1>3. PoolTyped(n, m, js, NoMsg, pan, new)
  BY <1>2 DEF Pool, PoolTyped
<1>4. ASSUME NEW id \in 1 .. n PROVE OneOwner(id, m, js, NoMsg, pan, new)
  <2>1. OneOwner(id, m, js, run, pan, rel) /\ ~Holds(NoMsg, id)
    BY NilHolds DEF Pool
  <2>2. CASE id = k
    <3>1. Holds(run, id)
      BY <1>1, <2>2, IsHolder
    <3>2. rel[id] = 0
      BY <2>1, <3>1 DEF OneOwner, OneOf
    <3>3. new[id] = 1
      BY <1>2, <2>2, <3>2
    <3> QED BY <2>1, <3>1, <3>3 DEF OneOwner, OneOf
  <2>3. CASE id # k
    <3>1. ~Holds(run, id) /\ new[id] = rel[id]
      BY <1>1, <1>2, <2>3, IsHolder
    <3> QED BY <2>1, <3>1 DEF OneOwner, OneOf
  <2> QED BY <2>2, <2>3
<1>5. Pool(n, m, js, NoMsg, pan, new)
  BY <1>1, <1>3, <1>4 DEF Pool
<1> QED BY <1>5 DEF new

\* The handler has panicked.
LEMMA PoolPanics ==
  ASSUME NEW n, NEW m, NEW js, NEW run, NEW pan, NEW rel, Pool(n, m, js, run, pan, rel),
         run # NoMsg, run # CloseJob
  PROVE  Pool(n, m, js, NoMsg, pan \cup {run.id}, rel)
<1> DEFINE new == pan \cup {run.id}
<1>1. MessageUpTo(run, n) /\ run.id \in 1 .. n /\ JobsTyped(js, n) /\ JobsOnce(js)
  BY DEF Pool, PoolTyped, MessageUpTo
<1>2. PoolTyped(n, m, js, NoMsg, new, rel)
  BY <1>1 DEF Pool, PoolTyped
<1>3. ASSUME NEW id \in 1 .. n PROVE OneOwner(id, m, js, NoMsg, new, rel)
  <2>1. OneOwner(id, m, js, run, pan, rel) /\ ~Holds(NoMsg, id)
    BY NilHolds DEF Pool
  <2>2. id \in new <=> id \in pan \/ Holds(run, id)
    BY <1>1, IsHolder
  <2> HIDE DEF new
  <2> QED BY <2>1, <2>2 DEF OneOwner, OneOf
<1> QED BY <1>1, <1>2, <1>3 DEF Pool

\* The clean-up is done.
LEMMA PoolCleaned ==
  ASSUME NEW n, NEW m, NEW js, NEW pan, NEW rel, Pool(n, m, js, CloseJob, pan, rel)
  PROVE  Pool(n, m, js, NoMsg, pan, rel)
<1>1. PoolTyped(n, m, js, NoMsg, pan, rel) /\ JobsTyped(js, n) /\ JobsOnce(js)
  BY DEF Pool, PoolTyped
<1>2. \A id \in 1 .. n : OneOwner(id, m, js, NoMsg, pan, rel)
  BY NilHolds DEF Pool, OneOwner, OneOf
<1> QED BY <1>1, <1>2 DEF Pool

-----------------------------------------------------------------------------
(* The steps.                                                              *)

LEMMA PoolHasMsg ==
  ASSUME PoolOK
  PROVE  MsgOK
  BY DEF PoolOK, Pool, PoolTyped, MsgOK, Message

LEMMA MsgStepKeeps ==
  ASSUME PoolOK, MsgStep, UNCHANGED <<running, panicked>>
  PROVE  PoolOK'
<1>0. /\ made \in Nat /\ running' = running /\ panicked' = panicked
      /\ Pool(made, msg, jobs, running, panicked, released)
  BY DEF PoolOK, Pool, PoolTyped
<1>1. CASE UNCHANGED messages
  <2>1. msg' = msg /\ made' = made /\ released' = released /\ jobs' = jobs
    BY <1>1 DEF messages
  <2> QED BY <1>0, <2>1 DEF PoolOK
<1>2. ASSUME NEW m \in MessageType, Grown(m)
      PROVE  msg # NoMsg /\ MessageUpTo(m, made) /\ m.id = msg.id
  BY <1>0, <1>2 DEF Grown, MessageUpTo, Pool, PoolTyped
<1>3. CASE MsgWith
  <2>1. PICK m \in MessageType : Grown(m) /\ With(m)
    BY <1>3 DEF MsgWith
  <2>2. msg' = m /\ made' = made /\ released' = released /\ jobs' = jobs
    BY <2>1 DEF With
  <2>3. Pool(made, m, jobs, running, panicked, released)
    BY <1>0, <1>2, <2>1, PoolGrows
  <2> QED BY <1>0, <2>2, <2>3 DEF PoolOK
<1>4. CASE MsgNew
  <2>1. PICK m \in MessageType : Fresh(m) /\ Obtain(m)
    BY <1>4 DEF MsgNew
  <2>2. CASE msg # NoMsg
    <3>1. msg' = msg /\ made' = made /\ released' = released /\ jobs' = jobs
      BY <2>1, <2>2 DEF Obtain
    <3> QED BY <1>0, <3>1 DEF PoolOK
  <2>3. CASE msg = NoMsg
    <3>1. msg' = m /\ made' = made + 1 /\ released' = Append(released, 0) /\ jobs' = jobs
      BY <2>1, <2>3 DEF Obtain
    <3>2. MessageUpTo(m, made + 1) /\ m.id = made + 1
      BY <1>0, <2>1 DEF Fresh, MessageUpTo
    <3>3. Pool(made + 1, m, jobs, running, panicked, Append(released, 0))
      BY <1>0, <2>3, <3>2, PoolObtains
    <3> QED BY <1>0, <3>1, <3>3 DEF PoolOK
  <2> QED BY <2>2, <2>3
<1>5. CASE MsgDone
  <2>1. PICK m \in MessageType : Grown(m) /\ OnComplete(m)
    BY <1>5 DEF MsgDone
  <2>2. msg # NoMsg /\ MessageUpTo(m, made) /\ m.id = msg.id
    BY <1>2, <2>1
  <2>3. msg' = NoMsg /\ made' = made
    BY <2>1 DEF OnComplete
  <2>4. CASE releaseMsg(m) /\ UNCHANGED jobs
    <3>1. Pool(made, NoMsg, jobs, running, panicked, [released EXCEPT ![m.id] = @ + 1])
      BY <1>0, <2>2, PoolReleases
    <3> QED BY <1>0, <2>3, <2>4, <3>1 DEF PoolOK, releaseMsg
  <2>5. CASE jobs' = Append(jobs, m) /\ UNCHANGED released
    <3>1. Pool(made, NoMsg, Append(jobs, m), running, panicked, released)
      BY <1>0, <2>2, PoolQueues
    <3> QED BY <1>0, <2>3, <2>5, <3>1 DEF PoolOK
  <2> QED BY <2>1, <2>4, <2>5 DEF OnComplete
<1> QED BY <1>1, <1>3, <1>4, <1>5 DEF MsgStep

\* The parser's state.
LEMMA ParserFrame ==
  ASSUME ParserOK, UNCHANGED <<state, headerKey, word, statusCode, contentLength, chunkSize, pc, data, i, start, msg>>
  PROVE  ParserOK'
  BY DEF ParserOK, TokensOK, LengthsOK, IndexOK, BuildingOK

LEMMA DataTyped ==
  ASSUME CacheOK
  PROVE  /\ bytesCached \o inbox \in ByteSeq /\ Len(bytesCached \o inbox) = Len(bytesCached) + Len(inbox)
         /\ Len(bytesCached) \in Nat /\ Len(inbox) \in Nat
  BY ConcatBytes DEF CacheOK

LEMMA ParserCalled ==
  ASSUME ParserOK, CacheOK, Parse(inbox)
  PROVE  ParserOK'
<1>1. TokensOK' /\ LengthsOK' /\ BuildingOK'
  BY DEF Parse, ParserOK, TokensOK, LengthsOK, BuildingOK, tokens, framing, messages
<1>2. IndexOK'
  <2> DEFINE n == Len(bytesCached)
             d == bytesCached \o inbox
  <2>1. start' = 1 /\ i' = n + 1 /\ ((pc' = "fail" /\ data' = <<>>) \/ (pc' = "parse" /\ data' = d))
    BY DEF Parse
  <2>2. d \in ByteSeq /\ Len(d) = n + Len(inbox) /\ n \in Nat /\ Len(inbox) \in Nat
    BY DataTyped
  <2>3. <<>> \in ByteSeq
    BY EmptyBytes
  <2> HIDE DEF n, d
  <2>4. data' \in ByteSeq /\ i' \in Nat /\ start' \in Nat /\ start' >= 1
    BY <2>1, <2>2, <2>3
  <2>5. pc' = "parse" => start' <= i' /\ i' <= Len(data)' + 1
    BY <2>1, <2>2
  <2> QED BY <2>4, <2>5 DEF IndexOK
<1> QED BY <1>1, <1>2 DEF ParserOK

LEMMA ParserReset ==
  ASSUME ParserOK, pc' = "idle", data' = <<>>, i' = 1, start' = 1,
         UNCHANGED <<state, headerKey, word, statusCode, contentLength, chunkSize, msg>>
  PROVE  ParserOK'
<1>1. TokensOK' /\ LengthsOK' /\ BuildingOK'
  BY DEF ParserOK, TokensOK, LengthsOK, BuildingOK
<1>2. IndexOK'
  BY EmptyBytes DEF IndexOK
<1> QED BY <1>1, <1>2 DEF ParserOK

LEMMA ParserCleaned ==
  ASSUME ParserOK, state' = "Close",
         UNCHANGED <<headerKey, word, statusCode, contentLength, chunkSize, pc, data, i, start>>
  PROVE  ParserOK'
<1>1. TokensOK' /\ LengthsOK' /\ IndexOK'
  BY DEF ParserOK, TokensOK, LengthsOK, IndexOK
<1>2. BuildingOK'
  BY DEF BuildingOK, Building
<1> QED BY <1>1, <1>2 DEF ParserOK

\* What is cached.
LEMMA CacheFrame ==
  ASSUME CacheOK, UNCHANGED <<bytesCached, inbox, fed, input>>, pc' = "parse" => pc = "parse" /\ data' = data
  PROVE  CacheOK'
  BY DEF CacheOK

LEMMA CacheFetched ==
  ASSUME CacheOK, NEW n \in 1 .. ReadBufferSize, Fetch(n)
  PROVE  CacheOK'
<1> DEFINE bs == input.bytes
<1>1. bs \in ByteSeq /\ fed \in Nat /\ n \in Nat /\ n <= ReadBufferSize /\ input \in Inputs
  BY InputsAssumption, ReadsAssumption DEF CacheOK, ByteSeq
<1>2. /\ n <= Len(bs) - fed /\ inbox' = SubSeq(bs, fed + 1, fed + n) /\ fed' = fed + n
      /\ UNCHANGED <<bytesCached, pc, data, input>>
  BY DEF Fetch, parserVars
<1> HIDE DEF bs
<1>3. fed + n \in Nat /\ fed <= fed + n /\ fed + n <= Len(bs) /\ (fed + n) - fed = n
  BY <1>1, <1>2, BytesLen
<1>4. inbox' \in ByteSeq /\ Len(inbox') = n
  BY <1>1, <1>2, <1>3, PartBytes
<1> QED BY <1>1, <1>2, <1>3, <1>4 DEF CacheOK

LEMMA LimitFacts ==
  Limit \in Nat /\ ReadLimit \in Nat /\ ReadBufferSize \in Nat /\ ReadLimit <= Limit /\ ReadBufferSize <= Limit
  BY LimitsAssumption, ReadsAssumption DEF Limit

LEMMA CacheCalled ==
  ASSUME CacheOK, DataHandler
  PROVE  CacheOK'
<1> DEFINE n == Len(bytesCached)
           d == bytesCached \o inbox
           fails == state = "Close" \/ OverLimit(n, Len(inbox))
<1>1. /\ d \in ByteSeq /\ Len(d) = n + Len(inbox) /\ n \in Nat /\ Len(inbox) \in Nat
      /\ bytesCached \in ByteSeq /\ Len(inbox) <= ReadBufferSize
      /\ ReadLimit > 0 => n <= Limit
  BY DataTyped DEF CacheOK
<1>2. /\ pc' = IF fails THEN "fail" ELSE "parse"
      /\ data' = IF fails THEN <<>> ELSE d
      /\ bytesCached' = IF fails \/ n = 0 THEN bytesCached ELSE d
      /\ inbox' = <<>> /\ UNCHANGED <<input, fed>>
  BY DEF DataHandler, Parse
<1>3. ~fails /\ ReadLimit > 0 => Len(d) <= Limit
  BY <1>1, LimitFacts DEF OverLimit
<1> HIDE DEF fails, d, n
<1>4. inbox' \in ByteSeq /\ Len(inbox') <= ReadBufferSize /\ fed' \in Nat /\ input' \in Inputs
  BY <1>2, EmptyBytes, ReadsAssumption DEF CacheOK
<1>5. bytesCached' \in ByteSeq
  BY <1>1, <1>2
<1>6. ASSUME ReadLimit > 0 PROVE Len(bytesCached') <= Limit /\ (pc' = "parse" => Len(data') <= Limit)
  <2>1. CASE fails
    BY <1>1, <1>2, <1>6, <2>1 DEF n
  <2>2. CASE ~fails
    <3>1. bytesCached' = bytesCached \/ bytesCached' = d
      BY <1>2
    <3> QED BY <1>1, <1>2, <1>3, <1>6, <2>2, <3>1 DEF n
  <2> QED BY <2>1, <2>2
<1> QED BY <1>4, <1>5, <1>6 DEF CacheOK

LEMMA CacheKept ==
  ASSUME CacheOK, ParserOK, Exit, UNCHANGED <<inbox, fed, input>>
  PROVE  CacheOK'
<1> DEFINE m == start - 1
           n == Len(data)
<1>1. /\ data \in ByteSeq /\ m \in Nat /\ n \in Nat /\ m + 1 = start /\ m <= n /\ pc = "parse"
  BY BytesLen DEF Exit, ParserOK, IndexOK
<1>2. SubSeq(data, m + 1, n) \in ByteSeq /\ Len(SubSeq(data, m + 1, n)) = n - m
  <2>1. n <= Len(data)
    BY <1>1
  <2> HIDE DEF m, n
  <2> QED BY <1>1, <2>1, PartBytes
<1>3. bytesCached' \in ByteSeq /\ Len(bytesCached') <= n /\ pc' = "idle"
  BY <1>1, <1>2 DEF Exit
<1>4. ReadLimit > 0 => n <= Limit
  BY <1>1 DEF CacheOK
<1>5. ReadLimit > 0 => Len(bytesCached') <= Limit
  BY <1>1, <1>3, <1>4, LimitFacts, BytesLen
<1> QED BY <1>3, <1>5 DEF CacheOK

LEMMA CacheCleaned ==
  ASSUME CacheOK, bytesCached' = <<>>, pc # "parse", UNCHANGED <<pc, inbox, fed, input>>
  PROVE  CacheOK'
  BY EmptyBytes, LimitFacts DEF CacheOK

\* What the handler reads.
LEMMA ServedMessage ==
  ASSUME PoolOK, Serving
  PROVE  /\ MessageUpTo(running, made) /\ running \in MessageType /\ Exact(running.body)
         /\ running # NoMsg /\ running # CloseJob
  BY DEF PoolOK, Pool, PoolTyped, Serving, MessageUpTo

LEMMA ClosedExact == \A br : Exact(Body!Close(br)) /\ Body!Close(br).closed = TRUE
<1> SUFFICES ASSUME NEW old PROVE Exact(Body!Close(old)) /\ Body!Close(old).closed = TRUE
  OBVIOUS
<1> DEFINE br == Body!Close(old)
<1>1. br = [index |-> 0, left |-> 0, buffers |-> <<>>, closed |-> TRUE]
  BY DEF Body!Close
<1>2. br \in BodyFields /\ br.index = 0 /\ br.left = 0 /\ br.buffers = <<>> /\ br.closed = TRUE
  BY <1>1, EmptySeq DEF BodyFields
<1> HIDE DEF br
<1>3. Shape(br)
  BY <1>2, EmptySeq DEF Shape
<1>4. Contents(br) = <<>>
  BY <1>2, <1>3, ContentsEmpty
<1>5. Exact(br) /\ br.closed = TRUE
  BY <1>2, <1>3, <1>4, EmptyBytes DEF Exact, Bodies
<1> QED BY <1>5 DEF br

\* The body that the handler was called with, b, what it has read of it, g, and
\* what is left.
Reads(b, g, rest, isClosed, atEnd) ==
  /\ ~isClosed => g \o rest = b
  /\ Len(g) <= Len(b) /\ g = SubSeq(b, 1, Len(g))
  /\ atEnd => isClosed \/ g = b

LEMMA ReadingMeans ==
  ReadingOK <=> /\ handled \in Seq(ViewType) /\ got \in ByteSeq
                /\ Serving => /\ handled # <<>>
                              /\ Reads(handled[Len(handled)].body, got, Contents(running.body),
                                       running.body.closed, eof)
  BY DEF ReadingOK, Reads

LEMMA ReadingFrame ==
  ASSUME ReadingOK, UNCHANGED <<handled, got, eof, running>>
  PROVE  ReadingOK'
  BY DEF ReadingOK, Serving

LEMMA ReadingOver ==
  ASSUME ReadingOK, running' = NoMsg, UNCHANGED <<handled, got>>
  PROVE  ReadingOK'
  BY DEF ReadingOK, Serving

\* Nothing has been read of the body b.
LEMMA NothingRead ==
  ASSUME NEW b \in ByteSeq, NEW isClosed, NEW atEnd, atEnd = FALSE
  PROVE  Reads(b, <<>>, b, isClosed, atEnd)
<1>1. <<>> \o b = b /\ Len(<<>>) = 0 /\ 0 \in Nat /\ 0 <= Len(b)
  BY EmptyBytes, BytesLen
<1>2. SubSeq(b, 1, 0) \in ByteSeq /\ Len(SubSeq(b, 1, 0)) = 0
  BY <1>1, CutBytes
<1>3. SubSeq(b, 1, 0) = <<>>
  BY <1>2, BytesLen
<1>4. ~atEnd
  OBVIOUS
<1> QED BY <1>1, <1>3, <1>4 DEF Reads

LEMMA JoinThree ==
  ASSUME NEW g \in ByteSeq, NEW out \in ByteSeq, NEW rest \in ByteSeq
  PROVE  (g \o out) \o rest = g \o (out \o rest) /\ g \o out \in ByteSeq
<1>1. (g \o out) \o rest = g \o (out \o rest)
  BY JoinBytes
<1>2. g \o out \in ByteSeq
  BY ConcatBytes
<1> QED BY <1>1, <1>2

\* A read of the bytes out.
LEMMA MoreRead ==
  ASSUME NEW g \in ByteSeq, NEW out \in ByteSeq, NEW rest \in ByteSeq,
         NEW isClosed, NEW atEnd, atEnd => out = <<>>, out = <<>> => out \o rest = <<>>
  PROVE  g \o out \in ByteSeq /\ Reads(g \o (out \o rest), g \o out, rest, isClosed, atEnd)
<1>1. (g \o out) \o rest = g \o (out \o rest) /\ g \o out \in ByteSeq
  BY JoinThree
<1> DEFINE x == g \o out
           b == g \o (out \o rest)
<1>2. atEnd => x = b
  <2> SUFFICES ASSUME atEnd PROVE x = b
    OBVIOUS
  <2> QED OBVIOUS
<1>3. x \o rest = b /\ x \in ByteSeq
  BY <1>1
<1> HIDE DEF x, b
<1>4. Len(x) <= Len(b)
  BY <1>3, ConcatBytes
<1>5. SubSeq(b, 1, Len(x)) = x
  BY <1>3, StartBytes
<1>6. Reads(b, x, rest, isClosed, atEnd)
  BY <1>2, <1>3, <1>4, <1>5 DEF Reads
<1> QED BY <1>3, <1>6 DEF x, b

\* A read of a closed body.
LEMMA NoMoreRead ==
  ASSUME NEW b \in ByteSeq, NEW g \in ByteSeq, NEW rest, NEW old, NEW isClosed, NEW atEnd,
         NEW was, Reads(b, g, old, was, atEnd), NEW end, isClosed = TRUE
  PROVE  Reads(b, g, rest, isClosed, end)
  BY DEF Reads

\* What a handler is called with.
LEMMA ViewTyped ==
  ASSUME NEW m, m \in MessageType, Exact(m.body)
  PROVE  View(m) \in ViewType /\ View(m).body = Contents(m.body) /\ Contents(m.body) \in ByteSeq
<1>1. Contents(m.body) \in ByteSeq
  BY ContentsTyped DEF Exact, Bodies
<1> DEFINE b == Contents(m.body)
<1>2. View(m) = [name |-> m.name, proto |-> m.proto, headers |-> m.headers, body |-> b, trailers |-> m.trailers]
  BY DEF View
<1>3. m \in MessageOf(HeaderLists, BodyType, TrailerLists)
  BY MessageOfTypes
<1>4. m.name \in NameType /\ m.proto \in NameType /\ m.headers \in HeaderLists /\ m.trailers \in TrailerLists
  BY <1>3 DEF MessageOf
<1> HIDE DEF b
<1>5. ViewType = [name : NameType, proto : NameType, headers : HeaderLists, body : ByteSeq, trailers : TrailerLists]
  BY DEF ViewType, HeaderLists, TrailerLists, ByteSeq
<1>6. b \in ByteSeq
  BY <1>1 DEF b
<1> DEFINE B == ByteSeq
<1> HIDE DEF B
<1>7. View(m) \in [name : NameType, proto : NameType, headers : HeaderLists, body : B, trailers : TrailerLists]
      /\ View(m).body = b
  <2>1. b \in B
    BY <1>6 DEF B
  <2> QED BY <1>2, <1>4, <2>1
<1> QED BY <1>1, <1>5, <1>7 DEF b, B

LEMMA BodyOfView ==
  ASSUME ReadingOK, Serving
  PROVE  handled # <<>> /\ handled[Len(handled)].body \in ByteSeq
<1>1. handled \in Seq(ViewType) /\ handled # <<>>
  BY DEF ReadingOK
<1>2. Len(handled) \in 1 .. Len(handled)
  BY <1>1, SeqFacts
<1>3. handled[Len(handled)] \in ViewType
  BY <1>1, <1>2, SeqFacts
<1> QED BY <1>1, <1>3 DEF ViewType

\* A job is started.
LEMMA ReadingStarts ==
  ASSUME PoolOK, ReadingOK, StartJob
  PROVE  ReadingOK'
<1> DEFINE h == Head(jobs)
<1>1. /\ running' = h /\ got' = <<>> /\ eof' = FALSE /\ jobs # <<>>
      /\ handled' = IF h = CloseJob THEN handled ELSE Append(handled, View(h))
  BY DEF StartJob
<1>2. h = CloseJob \/ MessageUpTo(h, made)
  BY <1>1, JobsTail DEF PoolOK, Pool, PoolTyped
<1> HIDE DEF h
<1>3. handled \in Seq(ViewType) /\ got' \in ByteSeq
  BY <1>1, EmptyBytes DEF ReadingOK
<1>4. CASE h = CloseJob
  <2>1. ~Serving' /\ handled' = handled
    BY <1>1, <1>4 DEF Serving
  <2> QED BY <1>3, <2>1 DEF ReadingOK
<1>5. CASE h # CloseJob
  <2>1. MessageUpTo(h, made) /\ h \in MessageType /\ Exact(h.body)
    BY <1>2, <1>5 DEF MessageUpTo
  <2>2. View(h) \in ViewType /\ View(h).body = Contents(h.body) /\ Contents(h.body) \in ByteSeq
    BY <2>1, ViewTyped
  <2>3. /\ handled' \in Seq(ViewType) /\ handled' # <<>>
        /\ handled'[Len(handled')] = View(h)
    BY <1>1, <1>3, <1>5, <2>2, AppendSeq
  <2>4. Reads(Contents(h.body), <<>>, Contents(h.body), h.body.closed, eof')
    BY <1>1, <2>2, NothingRead
  <2>5. Reads(handled'[Len(handled')].body, got', Contents(running'.body), running'.body.closed, eof')
    BY <1>1, <2>2, <2>3, <2>4
  <2> QED BY <1>3, <2>3, <2>5 DEF ReadingOK, Reads
<1> QED BY <1>4, <1>5

\* The handler reads.
LEMMA ReadingReads ==
  ASSUME PoolOK, ReadingOK, NEW n \in ReadSizes, ReadBody(n)
  PROVE  ReadingOK' /\ PoolOK' /\ running' \in MessageType
<1> DEFINE br == running.body
           r == Body!Read(br, n)
           body == handled[Len(handled)].body
           new == [running EXCEPT !.body = r.reader]
<1>1. /\ Serving /\ got' = got \o r.out /\ running' = new /\ (eof' => r.out = <<>>)
      /\ UNCHANGED <<handled, made, msg, jobs, panicked, released>>
  <2>1. eof' = (r.out = <<>>) /\ Serving /\ got' = got \o r.out /\ running' = new
    BY DEF ReadBody
  <2>2. eof' => r.out = <<>>
    BY <2>1, Zenon
  <2>3. UNCHANGED <<handled, made, msg, jobs, panicked, released>>
    BY DEF ReadBody, parserVars, messages
  <2> QED BY <2>1, <2>2, <2>3
<1>2. /\ Serving /\ MessageUpTo(running, made) /\ Exact(br) /\ running # NoMsg /\ running # CloseJob
  BY <1>1, ServedMessage
<1>3. /\ handled \in Seq(ViewType) /\ got \in ByteSeq /\ handled # <<>> /\ body \in ByteSeq
      /\ Reads(body, got, Contents(br), br.closed, eof)
  BY <1>2, ReadingMeans, BodyOfView
<1>4. br.closed = TRUE \/ br.closed = FALSE
  BY <1>2 DEF Exact, Bodies, BodyFields
<1>5. n \in Nat \ {0}
  BY ReadsAssumption
<1>6. Exact(r.reader) /\ got' \in ByteSeq /\ Reads(body, got', Contents(r.reader), r.reader.closed, eof')
  <2>1. CASE br.closed = TRUE
    <3>1. r = [need |-> n, out |-> <<>>, reader |-> br]
      BY <2>1, Zenon DEF Body!Read
    <3>2. r.out = <<>> /\ r.reader = br
      BY <3>1
    <3> HIDE DEF r, br, body
    <3>3. got' = got
      BY <1>1, <1>3, <3>2, EmptyBytes
    <3>4. Reads(body, got, Contents(br), br.closed, eof')
      BY <1>3, <2>1, NoMoreRead
    <3> QED BY <1>2, <1>3, <3>2, <3>3, <3>4
  <2>2. CASE br.closed = FALSE
    <3>1. /\ Exact(r.reader) /\ r.reader.closed = FALSE
          /\ r.out \in ByteSeq /\ r.out \o Contents(r.reader) = Contents(br)
          /\ r.out = <<>> => Contents(br) = <<>>
      <4> HIDE DEF br
      <4> QED BY <1>2, <1>5, <2>2, ReadKeeps
    <3> HIDE DEF r, br, body
    <3>2. Contents(br) \in ByteSeq /\ Contents(r.reader) \in ByteSeq
      BY <1>2, <3>1, ContentsTyped DEF Exact, Bodies
    <3>3. got \o Contents(br) = body
      BY <1>3, <2>2 DEF Reads
    <3>4. got \o r.out \in ByteSeq /\ Reads(body, got \o r.out, Contents(r.reader), r.reader.closed, eof')
      <4>1. got \o (r.out \o Contents(r.reader)) = body
        BY <3>1, <3>3
      <4> QED BY <1>1, <1>3, <3>1, <3>2, <4>1, MoreRead
    <3> QED BY <1>1, <3>1, <3>4
  <2> QED BY <1>4, <2>1, <2>2
<1>7. MessageUpTo(new, made) /\ new.id = running.id /\ new.body = r.reader
  <2> HIDE DEF r
  <2> QED BY <1>2, <1>6, BodyReplaced
<1>8. ReadingOK'
  <2>1. handled' = handled /\ handled'[Len(handled')].body = body /\ running'.body = r.reader
    BY <1>1, <1>7
  <2>2. Reads(handled'[Len(handled')].body, got', Contents(running'.body), running'.body.closed, eof')
    BY <1>6, <2>1
  <2> HIDE DEF r, body
  <2> QED BY <1>3, <1>6, <2>1, <2>2 DEF ReadingOK, Reads
<1>9. PoolOK'
  <2> HIDE DEF new
  <2>1. Pool(made, msg, jobs, new, panicked, released)
    BY <1>2, <1>7, PoolReads DEF PoolOK
  <2> QED BY <1>1, <2>1 DEF PoolOK
<1>10. running' \in MessageType
  BY <1>1, <1>7 DEF MessageUpTo
<1> QED BY <1>8, <1>9, <1>10

\* The handler closes the body.
LEMMA ReadingCloses ==
  ASSUME PoolOK, ReadingOK, CloseBody
  PROVE  ReadingOK' /\ PoolOK' /\ running' \in MessageType
<1> DEFINE br == running.body
           c2 == Body!Close(br)
           body == handled[Len(handled)].body
           new == [running EXCEPT !.body = c2]
<1>1. /\ Serving /\ running' = new
      /\ UNCHANGED <<handled, got, eof, made, msg, jobs, panicked, released>>
  BY DEF CloseBody, parserVars, messages
<1>2. /\ MessageUpTo(running, made) /\ running # NoMsg /\ running # CloseJob
  BY <1>1, ServedMessage
<1>3. /\ handled \in Seq(ViewType) /\ got \in ByteSeq /\ handled # <<>> /\ body \in ByteSeq
      /\ Reads(body, got, Contents(br), br.closed, eof)
  BY <1>1, ReadingMeans, BodyOfView
<1>4. Exact(c2) /\ c2.closed = TRUE
  BY ClosedExact
<1> HIDE DEF c2
<1>5. MessageUpTo(new, made) /\ new.id = running.id /\ new.body = c2
  BY <1>2, <1>4, BodyReplaced
<1> HIDE DEF new
<1>6. Reads(body, got, Contents(c2), c2.closed, eof)
  <2> HIDE DEF body, br
  <2> QED BY <1>3, <1>4, NoMoreRead
<1>7. ReadingOK'
  <2>1. handled' = handled /\ handled'[Len(handled')].body = body /\ running'.body = c2 /\ got' = got /\ eof' = eof
    BY <1>1, <1>5
  <2>2. Reads(handled'[Len(handled')].body, got', Contents(running'.body), running'.body.closed, eof')
    BY <1>6, <2>1
  <2> HIDE DEF body
  <2> QED BY <1>3, <2>1, <2>2 DEF ReadingOK, Reads
<1>8. PoolOK'
  <2>1. Pool(made, msg, jobs, new, panicked, released)
    BY <1>2, <1>5, PoolReads DEF PoolOK
  <2> QED BY <1>1, <2>1 DEF PoolOK
<1>9. running' \in MessageType
  BY <1>1, <1>5 DEF MessageUpTo
<1> QED BY <1>7, <1>8, <1>9

LEMMA PoolFrame ==
  ASSUME PoolOK, UNCHANGED <<made, msg, jobs, running, panicked, released>>
  PROVE  PoolOK'
  BY DEF PoolOK

LEMMA InitHolds ==
  ASSUME Init
  PROVE  IInv
<1>1. ParserOK
  BY EmptyBytes, FirstOutside DEF Init, ParserInit, ParserOK, TokensOK, LengthsOK, IndexOK, BuildingOK, NameType
<1>2. CacheOK
  BY EmptyBytes, LimitFacts DEF Init, ParserInit, CacheOK
<1>3. PoolOK
  <2>1. made = 0 /\ msg = NoMsg /\ jobs = <<>> /\ running = NoMsg /\ panicked = {} /\ released = <<>>
    BY DEF Init, ParserInit
  <2>2. PoolTyped(0, NoMsg, <<>>, NoMsg, {}, <<>>)
    BY EmptySeq DEF PoolTyped
  <2>3. JobsTyped(<<>>, 0) /\ JobsOnce(<<>>)
    BY EmptySeq DEF JobsTyped, JobsOnce
  <2>4. Pool(0, NoMsg, <<>>, NoMsg, {}, <<>>)
    BY <2>2, <2>3 DEF Pool
  <2> QED BY <2>1, <2>4 DEF PoolOK
<1>4. ReadingOK
  BY EmptyBytes, EmptySeq DEF Init, ReadingOK, Serving
<1> QED BY <1>1, <1>2, <1>3, <1>4 DEF IInv

\* A step that the parser, the jobs and what is read take no part in.
LEMMA AllFrame ==
  ASSUME IInv, UNCHANGED <<state, headerKey, word, statusCode, contentLength, chunkSize, pc, data, i, start,
                           msg, made, released, jobs, bytesCached, inbox, fed, input,
                           running, panicked, handled, got, eof>>
  PROVE  IInv'
  BY ParserFrame, CacheFrame, PoolFrame, ReadingFrame DEF IInv

LEMMA FetchKeeps ==
  ASSUME IInv, NEW n \in 1 .. ReadBufferSize, Fetch(n)
  PROVE  IInv'
<1>1. UNCHANGED <<state, headerKey, word, statusCode, contentLength, chunkSize, pc, data, i, start, msg, made,
                  released, jobs, running, panicked, handled, got, eof>>
  BY DEF Fetch, parserVars, tokens, framing, messages, jobVars
<1>2. CacheOK'
  BY CacheFetched DEF IInv
<1> QED BY <1>1, <1>2, ParserFrame, PoolFrame, ReadingFrame DEF IInv

LEMMA DataHandlerKeeps ==
  ASSUME IInv, DataHandler
  PROVE  IInv'
<1>1. UNCHANGED <<msg, made, released, jobs, running, panicked, handled, got, eof>>
  BY DEF DataHandler, Parse, messages, jobVars
<1>2. ParserOK'
  BY ParserCalled DEF IInv, DataHandler
<1>3. CacheOK'
  BY CacheCalled DEF IInv
<1> QED BY <1>1, <1>2, <1>3, PoolFrame, ReadingFrame DEF IInv

LEMMA ParseStepKeeps ==
  ASSUME IInv, ParseStep
  PROVE  IInv'
<1>1. UNCHANGED <<inbox, fed, input, running, panicked, handled, got, eof>>
  BY DEF ParseStep, connVars, jobVars
<1>2. ReadingOK'
  BY <1>1, ReadingFrame DEF IInv
<1>3. CASE ParseByte
  <2>1. ParserOK' /\ MsgStep /\ pc = "parse" /\ UNCHANGED <<bytesCached, data>>
    BY <1>3, PoolHasMsg, ParseByteEffect DEF IInv, Effect
  <2>2. CacheOK'
    BY <1>1, <2>1, CacheFrame DEF IInv
  <2>3. PoolOK'
    BY <1>1, <2>1, MsgStepKeeps DEF IInv
  <2> QED BY <1>2, <2>1, <2>2, <2>3 DEF IInv
<1>4. CASE Exit
  <2>1. /\ pc' = "idle" /\ data' = <<>> /\ i' = 1 /\ start' = 1
        /\ UNCHANGED <<state, headerKey, word, statusCode, contentLength, chunkSize, msg, made, released, jobs>>
    BY <1>4 DEF Exit, tokens, framing, messages
  <2>2. ParserOK'
    BY <2>1, ParserReset DEF IInv
  <2>3. CacheOK'
    BY <1>1, <1>4, CacheKept DEF IInv
  <2>4. PoolOK'
    BY <1>1, <2>1, PoolFrame DEF IInv
  <2> QED BY <1>2, <2>2, <2>3, <2>4 DEF IInv
<1> QED BY <1>3, <1>4 DEF ParseStep

LEMMA ParseFailedKeeps ==
  ASSUME IInv, ParseFailed
  PROVE  IInv'
<1>1. /\ pc' = "idle" /\ data' = <<>> /\ i' = 1 /\ start' = 1
      /\ UNCHANGED <<state, headerKey, word, statusCode, contentLength, chunkSize, msg, made, released, jobs,
                     bytesCached, inbox, fed, input, running, panicked, handled, got, eof>>
  BY DEF ParseFailed, tokens, framing, messages, connVars
<1>2. ParserOK'
  BY <1>1, ParserReset DEF IInv
<1>3. CacheOK'
  BY <1>1, CacheFrame DEF IInv
<1> QED BY <1>1, <1>2, <1>3, PoolFrame, ReadingFrame DEF IInv

LEMMA OnCloseKeeps ==
  ASSUME IInv, OnClose
  PROVE  IInv'
<1>1. /\ jobs' = Append(jobs, CloseJob)
      /\ UNCHANGED <<state, headerKey, word, statusCode, contentLength, chunkSize, pc, data, i, start,
                     msg, made, released, bytesCached, inbox, fed, input, running, panicked, handled, got, eof>>
  BY DEF OnClose, tokens, framing, connVars
<1>2. PoolOK'
  <2>1. Pool(made, msg, Append(jobs, CloseJob), running, panicked, released)
    BY PoolCloses DEF IInv, PoolOK
  <2> QED BY <1>1, <2>1 DEF PoolOK
<1> QED BY <1>1, <1>2, ParserFrame, CacheFrame, ReadingFrame DEF IInv

LEMMA CloseAndCleanKeeps ==
  ASSUME IInv, CloseAndClean
  PROVE  IInv'
<1>1. /\ running = CloseJob /\ pc # "parse" /\ running' = NoMsg /\ state' = "Close" /\ bytesCached' = <<>>
      /\ msg' = NoMsg
      /\ IF msg # NoMsg THEN releaseMsg(msg) ELSE UNCHANGED released
      /\ UNCHANGED <<headerKey, word, statusCode, contentLength, chunkSize, pc, data, i, start,
                     made, jobs, inbox, fed, input, panicked, handled, got, eof>>
  BY DEF CloseAndClean, tokens, framing, connVars
<1>2. PoolOK'
  <2>1. Pool(made, msg, jobs, NoMsg, panicked, released)
    BY <1>1, PoolCleaned DEF IInv, PoolOK
  <2>2. CASE msg = NoMsg
    BY <1>1, <2>1, <2>2 DEF PoolOK
  <2>3. CASE msg # NoMsg
    <3>1. Pool(made, NoMsg, jobs, NoMsg, panicked, [released EXCEPT ![msg.id] = @ + 1])
      BY <2>1, <2>3, PoolReleases
    <3>2. released' = [released EXCEPT ![msg.id] = @ + 1]
      BY <1>1, <2>3 DEF releaseMsg
    <3> QED BY <1>1, <3>1, <3>2 DEF PoolOK
  <2> QED BY <2>2, <2>3
<1>3. ParserOK'
  BY <1>1, ParserCleaned DEF IInv
<1>4. CacheOK'
  BY <1>1, CacheCleaned DEF IInv
<1> QED BY <1>1, <1>2, <1>3, <1>4, ReadingOver DEF IInv

LEMMA StartJobKeeps ==
  ASSUME IInv, StartJob
  PROVE  IInv'
<1>1. /\ running = NoMsg /\ jobs # <<>> /\ running' = Head(jobs) /\ jobs' = Tail(jobs)
      /\ UNCHANGED <<state, headerKey, word, statusCode, contentLength, chunkSize, pc, data, i, start,
                     msg, made, released, bytesCached, inbox, fed, input, panicked>>
  BY DEF StartJob, tokens, framing, connVars
<1>2. PoolOK'
  <2>1. Pool(made, msg, Tail(jobs), Head(jobs), panicked, released)
    BY <1>1, PoolStarts DEF IInv, PoolOK
  <2> QED BY <1>1, <2>1 DEF PoolOK
<1>3. ReadingOK'
  BY ReadingStarts DEF IInv
<1> QED BY <1>1, <1>2, <1>3, ParserFrame, CacheFrame DEF IInv

LEMMA HandlerKeeps ==
  ASSUME IInv, CloseBody \/ \E n \in ReadSizes : ReadBody(n)
  PROVE  IInv'
<1>1. UNCHANGED <<state, headerKey, word, statusCode, contentLength, chunkSize, pc, data, i, start,
                  msg, bytesCached, inbox, fed, input>>
  BY DEF CloseBody, ReadBody, parserVars, tokens, framing, messages, connVars
<1>2. ReadingOK' /\ PoolOK'
  BY ReadingReads, ReadingCloses DEF IInv
<1> QED BY <1>1, <1>2, ParserFrame, CacheFrame DEF IInv

LEMMA ServeDoneKeeps ==
  ASSUME IInv, ServeDone
  PROVE  IInv'
<1>1. /\ Serving /\ running' = NoMsg /\ releaseMsg(running)
      /\ UNCHANGED <<state, headerKey, word, statusCode, contentLength, chunkSize, pc, data, i, start,
                     msg, made, jobs, bytesCached, inbox, fed, input, panicked, handled, got, eof>>
  BY DEF ServeDone, tokens, framing, connVars
<1>2. PoolOK'
  <2>1. Pool(made, msg, jobs, NoMsg, panicked, [released EXCEPT ![running.id] = @ + 1])
    BY <1>1, ServedMessage, PoolServed DEF IInv, PoolOK
  <2> QED BY <1>1, <2>1 DEF PoolOK, releaseMsg
<1> QED BY <1>1, <1>2, ParserFrame, CacheFrame, ReadingOver DEF IInv

LEMMA HandlerPanicsKeeps ==
  ASSUME IInv, HandlerPanics
  PROVE  IInv'
<1>1. /\ Serving /\ running' = NoMsg /\ panicked' = panicked \cup {running.id}
      /\ UNCHANGED <<state, headerKey, word, statusCode, contentLength, chunkSize, pc, data, i, start,
                     msg, made, jobs, released, bytesCached, inbox, fed, input, handled, got, eof>>
  BY DEF HandlerPanics, parserVars, tokens, framing, messages, connVars
<1>2. PoolOK'
  <2>1. Pool(made, msg, jobs, NoMsg, panicked \cup {running.id}, released)
    BY <1>1, ServedMessage, PoolPanics DEF IInv, PoolOK
  <2> QED BY <1>1, <2>1 DEF PoolOK
<1> QED BY <1>1, <1>2, ParserFrame, CacheFrame, ReadingOver DEF IInv

LEMMA OthersKeep ==
  ASSUME IInv, Close \/ Responding \/ UNCHANGED vars
  PROVE  IInv'
<1>1. UNCHANGED <<state, headerKey, word, statusCode, contentLength, chunkSize, pc, data, i, start,
                  msg, made, released, jobs, bytesCached, inbox, fed, input, running, panicked, handled, got, eof>>
  <2>1. CASE Close
    BY <2>1 DEF Close, tokens, framing, messages, connVars
  <2>2. CASE Responding
    BY <2>2 DEF Responding, Respond, parserVars, tokens, framing, messages, connVars
  <2>3. CASE UNCHANGED vars
    BY <2>3 DEF vars, parserVars, tokens, framing, messages, connVars, jobVars
  <2> QED BY <2>1, <2>2, <2>3
<1> QED BY <1>1, AllFrame

LEMMA NextKeeps ==
  ASSUME IInv, [Next]_vars
  PROVE  IInv'
  BY FetchKeeps, DataHandlerKeeps, ParseStepKeeps, ParseFailedKeeps, OnCloseKeeps, CloseAndCleanKeeps,
     StartJobKeeps, HandlerKeeps, ServeDoneKeeps, HandlerPanicsKeeps, OthersKeep, Zenon DEF Next

-----------------------------------------------------------------------------
(* Responses.                                                              *)

Items == ({"head"} \X Nat \X {"chunked", "length"} \X Int) \cup ({"size", "data"} \X Nat)
         \cup {<<"end">>, <<"last">>, <<"stale">>}
ItemSeq == Seq(Items)
Buffers == ItemSeq \cup {NoBuf}

\* A Response whose buffers are in B and that has sent an element of I.
ResOf(B, I) ==
  [contentLength : Nat \cup {None, Invalid}, te : BOOLEAN, trailers : BOOLEAN, http11 : BOOLEAN,
   statusCode : Nat, chunkChecked : BOOLEAN, chunked : BOOLEAN, headEncoded : BOOLEAN,
   hasBody : BOOLEAN, hijacked : BOOLEAN, buffer : B, bodyBuffer : B,
   bodyWritten : Nat, sent : I, accepted : Nat, flawed : BOOLEAN]
ResType == ResOf(Buffers, ItemSeq)

\* What was sent and what is cached, in the order in which a client will read it.
Stream(r) == (r.sent \o Content(r.buffer)) \o Content(r.bodyBuffer)
HeadItem(r) == <<"head", r.statusCode, IF r.chunked THEN "chunked" ELSE "length",
                 IF r.chunked THEN 0 ELSE IF r.contentLength # None THEN r.contentLength ELSE r.accepted>>
Units(s, n) == Len(s) = n /\ \A k \in 1 .. n : s[k] = <<"data", k>>

\* Complete chunks with the units 1 .. n.
ChunkRun(s, n) ==
  /\ InOrder(s, n)
  /\ s # <<>> => s[1][1] = "size" /\ s[Len(s)] = <<"end">>
  /\ \A p \in 1 .. Len(s) :
       /\ s[p][1] \in {"size", "data", "end"}
       /\ s[p][1] = "size" => LET q == p + s[p][2] + 1 IN
                              /\ q <= Len(s) /\ s[q] = <<"end">>
                              /\ \A j \in p + 1 .. q - 1 : s[j][1] = "data"
       /\ s[p][1] = "end" => p = Len(s) \/ s[p + 1][1] = "size"
BodyStream(s, chunk, n) == IF chunk THEN ChunkRun(s, n) ELSE Units(s, n)

\* A head and then the body.
Framed(r) == \E s \in ItemSeq : Stream(r) = <<HeadItem(r)>> \o s /\ BodyStream(s, r.chunked, r.accepted)

\* Not claimed to be exact: a hijacked or flawed response, or a body where the
\* handler declared none.
Lost(r) == \/ r.hijacked \/ r.flawed
           \/ r.contentLength = 0 /\ r.accepted > 0 /\ (r.chunkChecked \/ (~r.te /\ ~r.trailers))

Settled(r) ==
  /\ r.statusCode # 0 => r.contentLength # Invalid
  /\ r.chunked => r.chunkChecked /\ r.contentLength = None /\ Content(r.bodyBuffer) = <<>>
  /\ r.chunkChecked => r.statusCode # 0
  /\ ~r.chunkChecked /\ (r.accepted > 0 \/ r.headEncoded) =>
       ~r.te /\ ~r.trailers /\ r.contentLength \in Nat /\ r.statusCode # 0

\* Before and after the head is encoded.
Unsent(r) == /\ r.sent = <<>> /\ r.buffer = NoBuf /\ Units(Content(r.bodyBuffer), r.accepted)
             /\ r.chunked \/ r.contentLength > 0 => r.accepted = 0
Begun(r) == Framed(r) /\ r.statusCode # 0
Cached(r) == Content(r.bodyBuffer) # <<>> => r.buffer = NoBuf /\ r.contentLength > 0

Structured(r) == /\ Settled(r)
                 /\ ~r.headEncoded => Unsent(r)
                 /\ r.headEncoded => Begun(r) /\ Cached(r)
ResOK(r) == r \in ResType /\ (Lost(r) \/ Structured(r))

-----------------------------------------------------------------------------
(* What the operations change.                                             *)

\* q is r but for the settings of its head.
SameBody(r, q) == /\ q.sent = r.sent /\ q.buffer = r.buffer /\ q.bodyBuffer = r.bodyBuffer
                  /\ q.accepted = r.accepted /\ q.bodyWritten = r.bodyWritten
                  /\ q.headEncoded = r.headEncoded /\ q.flawed = r.flawed /\ q.hijacked = r.hijacked

\* q has the settings of r.
SameHead(r, q) == /\ q.contentLength = r.contentLength /\ q.te = r.te /\ q.trailers = r.trailers
                  /\ q.statusCode = r.statusCode /\ q.chunkChecked = r.chunkChecked
                  /\ q.chunked = r.chunked /\ q.hijacked = r.hijacked

LEMMA SendFields ==
  ASSUME NEW B, NEW I, NEW r \in ResOf(B, I), NEW items, r.sent \o items \in I
  PROVE  /\ Send(r, items) \in ResOf(B, I) /\ SameHead(r, Send(r, items))
         /\ Send(r, items).headEncoded = r.headEncoded /\ Send(r, items).flawed = r.flawed
         /\ Send(r, items).buffer = r.buffer /\ Send(r, items).bodyBuffer = r.bodyBuffer
         /\ Send(r, items).sent = r.sent \o items /\ Send(r, items).accepted = r.accepted
         /\ Send(r, items).bodyWritten = r.bodyWritten
BY DEF Send, ResOf, SameHead

LEMMA WriteHeaderFields ==
  ASSUME NEW B, NEW I, NEW r \in ResOf(B, I), NEW code \in Nat \ {0}, NEW q, q = WriteHeader(r, code)
  PROVE  /\ q \in ResOf(B, I) /\ SameBody(r, q)
         /\ q.te = r.te /\ q.trailers = r.trailers /\ q.chunkChecked = r.chunkChecked /\ q.chunked = r.chunked
         /\ r.statusCode # 0 => q.statusCode = r.statusCode /\ q.contentLength = r.contentLength
         /\ r.statusCode = 0 /\ ~r.hijacked => /\ q.statusCode = code
                                               /\ q.contentLength = IF r.contentLength = Invalid THEN None ELSE r.contentLength
<1>1. CASE r.hijacked \/ r.statusCode # 0
  <2> q = r BY <1>1 DEF WriteHeader
  <2> QED BY <1>1 DEF ResOf, SameBody
<1>2. CASE ~(r.hijacked \/ r.statusCode # 0)
  <2> DEFINE n == IF r.contentLength = Invalid THEN None ELSE r.contentLength
  <2>1. n \in Nat \cup {None, Invalid} BY DEF ResOf
  <2>2. q = [r EXCEPT !.statusCode = code, !.contentLength = n] BY <1>2 DEF WriteHeader
  <2> HIDE DEF n
  <2>3. q \in ResOf(B, I) /\ SameBody(r, q) BY <2>1, <2>2 DEF ResOf, SameBody
  <2>4. q.te = r.te /\ q.trailers = r.trailers /\ q.chunkChecked = r.chunkChecked /\ q.chunked = r.chunked
    BY <2>1, <2>2 DEF ResOf
  <2>5. q.statusCode = code /\ q.contentLength = n BY <2>1, <2>2 DEF ResOf
  <2> QED BY <1>2, <2>3, <2>4, <2>5 DEF n
<1> QED BY <1>1, <1>2

LEMMA checkChunkedFields ==
  ASSUME NEW B, NEW I, NEW r \in ResOf(B, I), NEW q, q = checkChunked(r)
  PROVE  /\ q \in ResOf(B, I) /\ SameBody(r, q)
         /\ q.te = r.te /\ q.trailers = r.trailers /\ q.chunkChecked /\ q.statusCode = r.statusCode
         /\ r.chunkChecked => q.chunked = r.chunked /\ q.contentLength = r.contentLength
         /\ ~r.chunkChecked => /\ q.contentLength = IF q.chunked THEN None ELSE r.contentLength
                               /\ q.chunked => r.te \/ r.trailers \/ r.contentLength = None
                               /\ r.te \/ r.trailers => q.chunked
<1>1. CASE r.chunkChecked
  <2> q = r BY <1>1 DEF checkChunked
  <2> QED BY <1>1 DEF ResOf, SameBody
<1>2. CASE ~r.chunkChecked
  <2> DEFINE z == \/ r.te \/ r.trailers
                  \/ r.http11 /\ r.contentLength = None /\ r.statusCode \notin {204, 304}
             n == IF z THEN None ELSE r.contentLength
  <2>1. n \in Nat \cup {None, Invalid} BY DEF ResOf
  <2>2. q = [r EXCEPT !.chunkChecked = TRUE, !.chunked = z, !.contentLength = n] BY <1>2 DEF checkChunked
  <2>3. z \in BOOLEAN BY DEF ResOf
  <2>4. z => r.te \/ r.trailers \/ r.contentLength = None OBVIOUS
  <2>5. r.te \/ r.trailers => z OBVIOUS
  <2>6. n = IF z THEN None ELSE r.contentLength OBVIOUS
  <2> HIDE DEF n, z
  <2>7. q \in ResOf(B, I) /\ SameBody(r, q) BY <2>1, <2>2, <2>3 DEF ResOf, SameBody
  <2>8. q.te = r.te /\ q.trailers = r.trailers /\ q.chunkChecked /\ q.statusCode = r.statusCode
    BY <2>1, <2>2, <2>3 DEF ResOf
  <2>9. q.chunked = z /\ q.contentLength = n BY <2>1, <2>2, <2>3 DEF ResOf
  <2> QED BY <1>2, <2>4, <2>5, <2>6, <2>7, <2>8, <2>9
<1> QED BY <1>1, <1>2 DEF ResOf

LEMMA NilBuffer == NoBuf \notin ItemSeq /\ Content(NoBuf) = <<>> /\ \A b \in ItemSeq : Content(b) = b
<1>1. <<"nil">> \notin Items BY DEF Items
<1>2. NoBuf \notin ItemSeq
  <2> SUFFICES ASSUME NoBuf \in Seq(Items) PROVE FALSE BY DEF ItemSeq
  <2>1. Len(NoBuf) = 1 /\ NoBuf[1] = <<"nil">> BY DEF NoBuf
  <2>2. NoBuf[1] \in Items BY <2>1
  <2> QED BY <1>1, <2>1, <2>2
<1> QED BY <1>2 DEF Content

LEMMA ContentTyped == \A b \in Buffers : Content(b) \in ItemSeq
BY NilBuffer DEF Buffers, ItemSeq, Content

LEMMA eoncodeHeadFields ==
  ASSUME NEW r \in ResType, NEW q, q = eoncodeHead(r)
  PROVE  /\ q \in ResType /\ SameHead(r, q) /\ q.headEncoded
         /\ q.sent = r.sent /\ q.bodyBuffer = r.bodyBuffer /\ q.accepted = r.accepted
         /\ q.bodyWritten = r.bodyWritten /\ q.flawed = r.flawed
         /\ r.headEncoded => q = r
         /\ ~r.headEncoded => \E x \in Items :
              /\ q.buffer = <<x>>
              /\ x = <<"head", r.statusCode, IF r.chunked THEN "chunked" ELSE "length",
                       IF r.chunked THEN 0
                       ELSE IF r.contentLength # None THEN r.contentLength ELSE Len(Content(r.bodyBuffer))>>
<1>1. CASE r.headEncoded
  <2> q = r BY <1>1 DEF eoncodeHead
  <2> QED BY <1>1 DEF ResType, ResOf, SameHead
<1>2. CASE ~r.headEncoded
  <2> DEFINE n == IF r.contentLength # None THEN r.contentLength ELSE Len(Content(r.bodyBuffer))
             m == IF r.chunked THEN 0 ELSE n
             k == IF r.chunked THEN "chunked" ELSE "length"
             x == <<"head", r.statusCode, k, m>>
  <2>1. Len(Content(r.bodyBuffer)) \in Nat
    BY ContentTyped DEF ResType, ResOf, ItemSeq
  <2>2. m \in Int
    BY <2>1 DEF ResType, ResOf, None, Invalid
  <2>3. q = [r EXCEPT !.headEncoded = TRUE, !.buffer = <<x>>] BY <1>2 DEF eoncodeHead
  <2>4. k \in {"chunked", "length"} /\ r.statusCode \in Nat BY DEF ResType, ResOf
  <2>5. /\ k = (IF r.chunked THEN "chunked" ELSE "length")
        /\ m = (IF r.chunked THEN 0
                       ELSE IF r.contentLength # None THEN r.contentLength ELSE Len(Content(r.bodyBuffer)))
    OBVIOUS
  <2>6. x = <<"head", r.statusCode, k, m>> OBVIOUS
  <2> HIDE DEF n, m, k, x
  <2>7. x \in Items BY <2>2, <2>4, <2>6 DEF Items
  <2>8. <<x>> \in Buffers BY <2>7 DEF Buffers, ItemSeq
  <2>9. q \in ResOf(Buffers, ItemSeq) /\ SameHead(r, q) /\ q.headEncoded /\ q.buffer = <<x>>
    BY <2>3, <2>8 DEF ResType, ResOf, SameHead
  <2>10. /\ q.sent = r.sent /\ q.bodyBuffer = r.bodyBuffer /\ q.accepted = r.accepted
         /\ q.bodyWritten = r.bodyWritten /\ q.flawed = r.flawed
    BY <2>3, <2>8 DEF ResType, ResOf
  <2>11. x = <<"head", r.statusCode, IF r.chunked THEN "chunked" ELSE "length",
                       IF r.chunked THEN 0
                       ELSE IF r.contentLength # None THEN r.contentLength ELSE Len(Content(r.bodyBuffer))>>
    BY <2>5, <2>6
  <2> QED BY <1>2, <2>7, <2>9, <2>10, <2>11 DEF ResType
<1> QED BY <1>1, <1>2

-----------------------------------------------------------------------------
(* Units and chunks.                                                       *)

LEMMA ItemFacts ==
  /\ \A s \in ItemSeq : Len(s) \in Nat /\ (s = <<>> <=> Len(s) = 0) /\ \A p \in 1 .. Len(s) : s[p] \in Items
  /\ <<>> \in ItemSeq /\ Len(<<>>) = 0
  /\ \A x \in Items : x[1] \in {"size", "data"} => x[2] \in Nat
<1>1. \A x \in Items : x[1] \in {"size", "data"} => x[2] \in Nat
  BY DEF Items
<1> QED BY <1>1 DEF ItemSeq

LEMMA ConcatItems ==
  \A s, t \in ItemSeq : /\ s \o t \in ItemSeq /\ Len(s \o t) = Len(s) + Len(t)
                        /\ Len(s) \in Nat /\ Len(t) \in Nat
                        /\ \A p \in 1 .. Len(s) : (s \o t)[p] = s[p]
                        /\ \A p \in 1 .. Len(t) : (s \o t)[Len(s) + p] = t[p]
  BY ConcatSeq, SeqFacts DEF ItemSeq

LEMMA JoinItems ==
  \A s, t, u \in ItemSeq : (s \o t) \o u = s \o (t \o u)
<1> SUFFICES ASSUME NEW s \in Seq(Items), NEW t \in Seq(Items), NEW u \in Seq(Items)
             PROVE  (s \o t) \o u = s \o (t \o u)
  BY DEF ItemSeq
<1> QED BY ConcatAssociative

LEMMA EmptyItems == \A s \in ItemSeq : s \o <<>> = s /\ <<>> \o s = s
  BY EmptySeq, ConcatEmptySeq DEF ItemSeq

LEMMA DataItems ==
  ASSUME NEW r, r.accepted \in Nat, NEW n \in Nat
  PROVE  /\ Data(r, n) \in ItemSeq /\ Len(Data(r, n)) = n
         /\ \A k \in 1 .. n : Data(r, n)[k] = <<"data", r.accepted + k>>
<1>1. \A k \in 1 .. n : <<"data", r.accepted + k>> \in Items
  BY DEF Items
<1>2. Data(r, n) \in [1 .. n -> Items] /\ \A k \in 1 .. n : Data(r, n)[k] = <<"data", r.accepted + k>>
  BY <1>1 DEF Data
<1> QED BY <1>2, FunctionSeq DEF ItemSeq

LEMMA UnitsExtend ==
  ASSUME NEW s \in ItemSeq, NEW a \in Nat, NEW n \in Nat, Units(s, a),
         NEW d \in ItemSeq, Len(d) = n, \A k \in 1 .. n : d[k] = <<"data", a + k>>
  PROVE  Units(s \o d, a + n)
<1> DEFINE u == s \o d
<1>1. Len(s) = a /\ \A k \in 1 .. a : s[k] = <<"data", k>> BY DEF Units
<1>0. /\ u \in ItemSeq /\ Len(u) = Len(s) + Len(d)
      /\ \A p \in 1 .. Len(s) : u[p] = s[p]
      /\ \A p \in 1 .. Len(d) : u[Len(s) + p] = d[p]
  BY ConcatItems
<1> HIDE DEF u
<1>2. /\ u \in ItemSeq /\ Len(u) = a + n
      /\ \A p \in 1 .. a : u[p] = s[p]
      /\ \A p \in 1 .. n : u[a + p] = d[p]
  BY <1>0, <1>1
<1>3. ASSUME NEW k \in 1 .. (a + n) PROVE u[k] = <<"data", k>>
  <2>1. CASE k <= a BY <1>1, <1>2, <2>1
  <2>2. CASE k > a
    <3>1. k - a \in 1 .. n /\ a + (k - a) = k BY <2>2
    <3>2. u[a + (k - a)] = d[k - a] /\ d[k - a] = <<"data", a + (k - a)>> BY <1>2, <3>1
    <3> QED BY <3>1, <3>2
  <2>3. k <= a \/ k > a OBVIOUS
  <2> QED BY <2>1, <2>2, <2>3, Zenon
<1> QED BY <1>2, <1>3 DEF Units, u

LEMMA UnitsInOrder ==
  ASSUME NEW s \in ItemSeq, NEW n \in Nat, Units(s, n)
  PROVE  InOrder(s, n)
<1>1. UnitsOf(s) = 1 .. n BY DEF UnitsOf, Units
<1>2. \A k \in 1 .. n : s[k][2] = k BY DEF Units
<1> QED BY <1>1, <1>2 DEF InOrder

\* f is a chunk with the units after the first a ones.
ChunkOf(f, a, n) == /\ Len(f) = n + 2 /\ f[1] = <<"size", n>> /\ f[n + 2] = <<"end">>
                    /\ \A k \in 1 .. n : f[k + 1] = <<"data", a + k>>

LEMMA ChunkMade ==
  ASSUME NEW r, r.accepted \in Nat, NEW n \in Nat
  PROVE  /\ << <<"size", n>> >> \in ItemSeq /\ Data(r, n) \o << <<"end">> >> \in ItemSeq
         /\ << <<"size", n>> >> \o (Data(r, n) \o << <<"end">> >>) \in ItemSeq
         /\ ChunkOf(<< <<"size", n>> >> \o (Data(r, n) \o << <<"end">> >>), r.accepted, n)
<1> DEFINE h == << <<"size", n>> >>
           e == << <<"end">> >>
           d == Data(r, n)
<1>1. h \in ItemSeq /\ Len(h) = 1 /\ h[1] = <<"size", n>> BY DEF ItemSeq, Items
<1>2. e \in ItemSeq /\ Len(e) = 1 /\ e[1] = <<"end">> BY DEF ItemSeq, Items
<1>3. d \in ItemSeq /\ Len(d) = n /\ \A k \in 1 .. n : d[k] = <<"data", r.accepted + k>> BY DataItems
<1> HIDE DEF h, e, d
<1> DEFINE u == d \o e
           v == h \o u
<1>u. /\ u \in ItemSeq /\ Len(u) = Len(d) + Len(e)
      /\ \A p \in 1 .. Len(d) : u[p] = d[p]
      /\ \A p \in 1 .. Len(e) : u[Len(d) + p] = e[p]
  BY <1>2, <1>3, ConcatItems
<1> HIDE DEF u
<1>4. u \in ItemSeq /\ Len(u) = n + 1 /\ \A p \in 1 .. n : u[p] = d[p]
  BY <1>2, <1>3, <1>u
<1>5. u[n + 1] = <<"end">> BY <1>2, <1>3, <1>u
<1>v. /\ v \in ItemSeq /\ Len(v) = Len(h) + Len(u)
      /\ \A p \in 1 .. Len(h) : v[p] = h[p]
      /\ \A p \in 1 .. Len(u) : v[Len(h) + p] = u[p]
  BY <1>1, <1>4, ConcatItems
<1> HIDE DEF v
<1>6. /\ v \in ItemSeq /\ Len(v) = 1 + (n + 1)
      /\ \A p \in 1 .. 1 : v[p] = h[p]
      /\ \A p \in 1 .. (n + 1) : v[1 + p] = u[p]
  BY <1>1, <1>4, <1>v
<1>7. Len(v) = n + 2 /\ v[1] = <<"size", n>> BY <1>1, <1>6
<1>8. v[n + 2] = <<"end">>
  <2>1. 1 + (n + 1) = n + 2 /\ n + 1 \in 1 .. (n + 1) OBVIOUS
  <2> QED BY <1>5, <1>6, <2>1
<1>9. ASSUME NEW k \in 1 .. n PROVE v[k + 1] = <<"data", r.accepted + k>>
  <2>1. k + 1 = 1 + k /\ k \in 1 .. (n + 1) OBVIOUS
  <2> QED BY <1>3, <1>4, <1>6, <2>1
<1>10. ChunkOf(v, r.accepted, n) BY <1>7, <1>8, <1>9 DEF ChunkOf
<1> QED BY <1>1, <1>4, <1>6, <1>10 DEF h, e, d, u, v

\* Where the items of s, of length L, and of such a chunk behind it are in t.
Placed(t, s, L, a, n) ==
  /\ t \in ItemSeq /\ L \in Nat /\ Len(t) = L + n + 2
  /\ \A p \in 1 .. L : t[p] = s[p]
  /\ t[L + 1] = <<"size", n>> /\ t[L + n + 2] = <<"end">>
  /\ \A p \in (L + 2) .. (L + n + 1) : t[p] = <<"data", a + (p - (L + 1))>>

LEMMA ChunkPlaced ==
  ASSUME NEW s \in ItemSeq, NEW a \in Nat, NEW n \in Nat, NEW f \in ItemSeq, ChunkOf(f, a, n)
  PROVE  Placed(s \o f, s, Len(s), a, n)
<1> DEFINE t == s \o f
           L == Len(s)
<1>z. /\ t \in ItemSeq /\ Len(t) = Len(s) + Len(f) /\ \A p \in 1 .. Len(s) : t[p] = s[p]
      /\ \A p \in 1 .. Len(f) : t[Len(s) + p] = f[p]
  BY ConcatItems, Zenon
<1> HIDE DEF t
<1>1. L \in Nat /\ Len(f) = n + 2 BY ItemFacts DEF ChunkOf
<1>0. /\ t \in ItemSeq /\ Len(t) = L + (n + 2) /\ \A p \in 1 .. L : t[p] = s[p]
      /\ \A p \in 1 .. (n + 2) : t[L + p] = f[p]
  BY <1>1, <1>z
<1>2. t \in ItemSeq /\ Len(t) = L + n + 2 /\ \A p \in 1 .. L : t[p] = s[p] BY <1>0, <1>1
<1>3. \A p \in 1 .. (n + 2) : t[L + p] = f[p] BY <1>0
<1>4. t[L + 1] = <<"size", n>> BY <1>3 DEF ChunkOf
<1>5. t[L + n + 2] = <<"end">>
  <2>1. L + (n + 2) = L + n + 2 /\ n + 2 \in 1 .. (n + 2) BY <1>1
  <2> QED BY <1>3, <2>1 DEF ChunkOf
<1>6. ASSUME NEW p \in (L + 2) .. (L + n + 1) PROVE t[p] = <<"data", a + (p - (L + 1))>>
  <2>1. p - (L + 1) \in 1 .. n /\ p - L \in 1 .. (n + 2) /\ L + (p - L) = p /\ (p - (L + 1)) + 1 = p - L BY <1>1
  <2>2. t[p] = f[p - L] BY <1>3, <2>1
  <2> QED BY <2>1, <2>2 DEF ChunkOf
<1>7. Placed(t, s, L, a, n) BY <1>1, <1>2, <1>4, <1>5, <1>6 DEF Placed
<1> QED BY <1>7 DEF t

LEMMA ChunkUnits ==
  ASSUME NEW s \in ItemSeq, NEW a \in Nat, NEW n \in Nat, NEW f \in ItemSeq, ChunkOf(f, a, n), InOrder(s, a)
  PROVE  InOrder(s \o f, a + n)
<1> DEFINE L == Len(s)
           t == s \o f
<1>0. Placed(t, s, L, a, n) BY ChunkPlaced
<1> HIDE DEF t, L
<1>1. /\ t \in ItemSeq /\ L \in Nat /\ Len(t) = L + n + 2
      /\ \A p \in 1 .. L : t[p] = s[p]
      /\ t[L + 1] = <<"size", n>> /\ t[L + n + 2] = <<"end">>
      /\ \A p \in (L + 2) .. (L + n + 1) : t[p] = <<"data", a + (p - (L + 1))>>
  BY <1>0 DEF Placed
<1>2. UnitsOf(s) = {p \in 1 .. L : s[p][1] = "data"} BY DEF UnitsOf, L
<1>3. UnitsOf(t) = {p \in 1 .. Len(t) : t[p][1] = "data"} BY DEF UnitsOf
<1> HIDE DEF L, t
<1>4. \A p \in UnitsOf(s) : p \in UnitsOf(t) /\ p \in 1 .. L /\ t[p][2] = s[p][2]
  BY <1>1, <1>2, <1>3
<1>5. \A p \in (L + 2) .. (L + n + 1) : p \in UnitsOf(t) /\ t[p][2] = a + (p - (L + 1))
  BY <1>1, <1>3
<1>6. ASSUME NEW p \in UnitsOf(t), p \notin UnitsOf(s) PROVE p \in (L + 2) .. (L + n + 1)
  <2>1. p \in 1 .. (L + n + 2) /\ t[p][1] = "data" BY <1>1, <1>3
  <2>2. ~(p \in 1 .. L) BY <1>1, <1>2, <1>6, <2>1
  <2>3. p # L + 1 BY <1>1, <2>1
  <2>4. p # L + n + 2 BY <1>1, <2>1
  <2> QED BY <1>1, <2>1, <2>2, <2>3, <2>4
<1>7. {s[p][2] : p \in UnitsOf(s)} = 1 .. a /\ \A p, q \in UnitsOf(s) : p < q => s[p][2] < s[q][2]
  BY DEF InOrder
<1>8. \A p \in UnitsOf(s) : s[p][2] \in 1 .. a BY <1>7
<1>9. ASSUME NEW v \in 1 .. (a + n) PROVE \E p \in UnitsOf(t) : t[p][2] = v
  <2>1. CASE v <= a
    <3>1. v \in 1 .. a BY <2>1
    <3>2. PICK p \in UnitsOf(s) : s[p][2] = v BY <1>7, <3>1
    <3> QED BY <1>4, <3>2
  <2>2. CASE v > a
    <3>1. (L + 1) + (v - a) \in (L + 2) .. (L + n + 1) /\ a + (((L + 1) + (v - a)) - (L + 1)) = v BY <1>1, <2>2
    <3> QED BY <1>5, <3>1
  <2>3. v <= a \/ v > a OBVIOUS
  <2> QED BY <2>1, <2>2, <2>3, Zenon
<1>10. ASSUME NEW p \in UnitsOf(t) PROVE t[p][2] \in 1 .. (a + n)
  <2>1. CASE p \in UnitsOf(s) BY <1>4, <1>8, <2>1
  <2>2. CASE p \notin UnitsOf(s) BY <1>1, <1>5, <1>6, <2>2
  <2> QED BY <2>1, <2>2
<1>11. ASSUME NEW p \in UnitsOf(t), NEW q \in UnitsOf(t), p < q PROVE t[p][2] < t[q][2]
  <2>0. p \in Int /\ q \in Int BY <1>1, <1>3
  <2>1. CASE q \in UnitsOf(s)
    <3>1. q \in 1 .. L BY <1>4, <2>1
    <3>2. p \in UnitsOf(s) BY <1>1, <1>6, <1>11, <3>1, <2>0
    <3> QED BY <1>4, <1>7, <1>11, <2>1, <3>2
  <2>2. CASE q \notin UnitsOf(s) /\ p \in UnitsOf(s)
    <3>1. t[q][2] = a + (q - (L + 1)) /\ q \in (L + 2) .. (L + n + 1) BY <1>5, <1>6, <2>2
    <3>2. t[p][2] \in 1 .. a BY <1>4, <1>8, <2>2
    <3> QED BY <1>1, <3>1, <3>2
  <2>3. CASE q \notin UnitsOf(s) /\ p \notin UnitsOf(s)
    <3>1. t[q][2] = a + (q - (L + 1)) /\ t[p][2] = a + (p - (L + 1)) BY <1>5, <1>6, <2>3
    <3> QED BY <1>1, <1>11, <2>0, <3>1
  <2> QED BY <2>1, <2>2, <2>3
<1>12. {t[p][2] : p \in UnitsOf(t)} = 1 .. (a + n)
  BY <1>9, <1>10
<1> QED BY <1>11, <1>12 DEF InOrder, t

LEMMA ChunkExtends ==
  ASSUME NEW s \in ItemSeq, NEW a \in Nat, NEW n \in Nat, NEW f \in ItemSeq, ChunkOf(f, a, n), ChunkRun(s, a)
  PROVE  ChunkRun(s \o f, a + n)
<1> DEFINE L == Len(s)
           t == s \o f
<1>0. Placed(t, s, L, a, n) BY ChunkPlaced
<1> HIDE DEF t, L
<1>1. /\ t \in ItemSeq /\ L \in Nat /\ Len(t) = L + n + 2
      /\ \A p \in 1 .. L : t[p] = s[p]
      /\ t[L + 1] = <<"size", n>> /\ t[L + n + 2] = <<"end">>
      /\ \A p \in (L + 2) .. (L + n + 1) : t[p] = <<"data", a + (p - (L + 1))>>
  BY <1>0 DEF Placed
<1>2. InOrder(t, a + n) BY ChunkUnits DEF ChunkRun, t
<1>3. L > 0 => s[1][1] = "size" BY ItemFacts DEF ChunkRun, L
<1> DEFINE At1(p) == t[p][1] \in {"size", "data", "end"}
           At2(p) == t[p][1] = "size" =>
                       LET q == p + t[p][2] + 1 IN
                       /\ q <= Len(t) /\ t[q] = <<"end">>
                       /\ \A j \in p + 1 .. q - 1 : t[j][1] = "data"
           At3(p) == t[p][1] = "end" => p = Len(t) \/ t[p + 1][1] = "size"
<1>4. ASSUME NEW p \in 1 .. L PROVE At1(p) /\ At2(p) /\ At3(p)
  <2>1. t[p] = s[p] /\ s[p] \in Items BY <1>1, ItemFacts DEF L
  <2>2. At1(p) BY <2>1 DEF ChunkRun, L
  <2>3. ASSUME t[p][1] = "size"
        PROVE  LET q == p + t[p][2] + 1 IN
               /\ q <= Len(t) /\ t[q] = <<"end">>
               /\ \A j \in p + 1 .. q - 1 : t[j][1] = "data"
    <3> DEFINE m == s[p][2]
               q == p + m + 1
    <3>1. m \in Nat BY <2>1, <2>3, ItemFacts
    <3>2. q <= L /\ s[q] = <<"end">> /\ \A j \in p + 1 .. q - 1 : s[j][1] = "data"
      BY <2>1, <2>3 DEF ChunkRun, L
    <3>3. t[p][2] = m BY <2>1
    <3> HIDE DEF m, L, t
    <3>4. q <= Len(t) /\ t[q] = s[q] BY <1>1, <3>1, <3>2
    <3>5. \A j \in p + 1 .. q - 1 : t[j] = s[j] BY <1>1, <3>1, <3>2
    <3> QED BY <3>2, <3>3, <3>4, <3>5
  <2>4. ASSUME t[p][1] = "end" PROVE p = Len(t) \/ t[p + 1][1] = "size"
    <3>1. p = L \/ s[p + 1][1] = "size" BY <2>1, <2>4 DEF ChunkRun, L
    <3>2. CASE p = L BY <1>1, <3>2
    <3>3. CASE p # L BY <1>1, <3>1, <3>3
    <3> QED BY <3>2, <3>3
  <2> QED BY <2>2, <2>3, <2>4
<1>5. At1(L + 1) /\ At2(L + 1) /\ At3(L + 1)
  <2> HIDE DEF L, t
  <2>1. (L + 1) + n + 1 = L + n + 2 BY <1>1
  <2>2. \A j \in (L + 1) + 1 .. (L + n + 2) - 1 : t[j][1] = "data" BY <1>1
  <2> QED BY <1>1, <2>1, <2>2
<1>6. ASSUME NEW p \in (L + 2) .. (L + n + 1) PROVE At1(p) /\ At2(p) /\ At3(p)
  <2> HIDE DEF L, t
  <2> t[p][1] = "data" BY <1>1
  <2> QED OBVIOUS
<1>7. At1(L + n + 2) /\ At2(L + n + 2) /\ At3(L + n + 2)
  <2> HIDE DEF L, t
  <2> QED BY <1>1
<1>8. \A p \in 1 .. Len(t) : At1(p) /\ At2(p) /\ At3(p)
  <2> HIDE DEF L, t, At1, At2, At3
  <2> TAKE p \in 1 .. Len(t)
  <2>1. p \in 1 .. L \/ p = L + 1 \/ p \in (L + 2) .. (L + n + 1) \/ p = L + n + 2 BY <1>1
  <2> QED BY <1>4, <1>5, <1>6, <1>7, <2>1
<1>9. t[1][1] = "size"
  <2> HIDE DEF L, t
  <2>1. CASE L = 0 BY <1>1, <2>1
  <2>2. CASE L # 0 BY <1>1, <1>3, <2>2, ItemFacts
  <2> QED BY <2>1, <2>2
<1>10. t[Len(t)] = <<"end">>
  <2> HIDE DEF L, t
  <2> QED BY <1>1
<1> HIDE DEF L, t
<1>11. ChunkRun(t, a + n) BY <1>2, <1>8, <1>9, <1>10 DEF ChunkRun
<1> QED BY <1>11 DEF t

LEMMA LastChunk ==
  ASSUME NEW s \in ItemSeq, NEW n \in Nat, ChunkRun(s, n)
  PROVE  /\ << <<"last">> >> \in ItemSeq /\ s \o << <<"last">> >> \in ItemSeq
         /\ InOrder(s \o << <<"last">> >>, n) /\ ChunksOk(s \o << <<"last">> >>)
<1> DEFINE e == << <<"last">> >>
           t == s \o e
           L == Len(s)
<1>1. e \in ItemSeq /\ Len(e) = 1 /\ e[1] = <<"last">> BY DEF ItemSeq, Items
<1> HIDE DEF e
<1>2. /\ t \in ItemSeq /\ Len(t) = Len(s) + Len(e) /\ \A p \in 1 .. Len(s) : t[p] = s[p]
      /\ \A p \in 1 .. Len(e) : t[Len(s) + p] = e[p]
  BY <1>1, ConcatItems
<1>3. L \in Nat BY ItemFacts
<1> HIDE DEF t, L
<1>4. Len(t) = L + 1 /\ (\A p \in 1 .. L : t[p] = s[p]) /\ t[L + 1] = <<"last">>
  BY <1>1, <1>2, <1>3 DEF L
<1>5. /\ InOrder(s, n)
      /\ L > 0 => s[1][1] = "size"
      /\ \A p \in 1 .. L : s[p][1] \in {"size", "data", "end"}
  BY ItemFacts DEF ChunkRun, L
<1>6. UnitsOf(t) = UnitsOf(s) /\ \A p \in UnitsOf(s) : t[p] = s[p]
  <2>1. UnitsOf(s) = {p \in 1 .. L : s[p][1] = "data"} BY DEF UnitsOf, L
  <2>2. UnitsOf(t) = {p \in 1 .. (L + 1) : t[p][1] = "data"} BY <1>4 DEF UnitsOf
  <2> QED BY <1>3, <1>4, <2>1, <2>2
<1>7. InOrder(t, n)
  <2>1. {t[p][2] : p \in UnitsOf(t)} = {s[p][2] : p \in UnitsOf(s)} BY <1>6
  <2>2. \A p, q \in UnitsOf(t) : p < q => t[p][2] < t[q][2] BY <1>5, <1>6 DEF InOrder
  <2> QED BY <1>5, <2>1, <2>2 DEF InOrder
<1> DEFINE starts(p) == p <= Len(t) /\ t[p][1] \in {"size", "last"}
           At1(p) == t[p][1] = "size" => LET q == p + t[p][2] + 1 IN
                                         /\ q <= Len(t) /\ t[q] = <<"end">>
                                         /\ \A j \in p + 1 .. q - 1 : t[j][1] = "data"
           At2(p) == t[p][1] = "end" => starts(p + 1)
           At3(p) == t[p][1] = "last" => p = Len(t)
<1>8. ASSUME NEW p \in 1 .. L PROVE At1(p) /\ At2(p) /\ At3(p)
  <2>1. t[p] = s[p] /\ s[p] \in Items BY <1>4, ItemFacts DEF L
  <2>2. ASSUME t[p][1] = "size"
        PROVE  LET q == p + t[p][2] + 1 IN
               /\ q <= Len(t) /\ t[q] = <<"end">>
               /\ \A j \in p + 1 .. q - 1 : t[j][1] = "data"
    <3> DEFINE m == s[p][2]
               q == p + m + 1
    <3>1. m \in Nat BY <2>1, <2>2, ItemFacts
    <3>2. q <= L /\ s[q] = <<"end">> /\ \A j \in p + 1 .. q - 1 : s[j][1] = "data"
      BY <2>1, <2>2 DEF ChunkRun, L
    <3>3. t[p][2] = m BY <2>1
    <3> HIDE DEF m
    <3>4. q <= Len(t) /\ t[q] = s[q] BY <1>3, <1>4, <3>1, <3>2
    <3>5. \A j \in p + 1 .. q - 1 : t[j] = s[j] BY <1>3, <1>4, <3>1, <3>2
    <3> QED BY <3>2, <3>3, <3>4, <3>5
  <2>3. ASSUME t[p][1] = "end" PROVE starts(p + 1)
    <3>1. p = L \/ s[p + 1][1] = "size" BY <2>1, <2>3 DEF ChunkRun, L
    <3>2. CASE p = L BY <1>3, <1>4, <3>2
    <3>3. CASE p # L BY <1>3, <1>4, <3>1, <3>3
    <3> QED BY <3>2, <3>3
  <2>4. At3(p) BY <1>5, <2>1
  <2> QED BY <2>2, <2>3, <2>4
<1>9. At1(L + 1) /\ At2(L + 1) /\ At3(L + 1) BY <1>3, <1>4
<1>10. starts(1)
  <2>1. CASE L = 0 BY <1>3, <1>4, <2>1
  <2>2. CASE L # 0 BY <1>3, <1>4, <1>5, <2>2
  <2> QED BY <2>1, <2>2
<1>11. t[Len(t)] = <<"last">> BY <1>3, <1>4
<1>12. \A p \in 1 .. Len(t) : At1(p) /\ At2(p) /\ At3(p)
  <2> HIDE DEF At1, At2, At3
  <2> TAKE p \in 1 .. Len(t)
  <2>1. p \in 1 .. L \/ p = L + 1 BY <1>3, <1>4
  <2> QED BY <1>8, <1>9, <2>1
<1>13. ChunksOk(t) BY <1>10, <1>11, <1>12 DEF ChunksOk
<1> QED BY <1>1, <1>2, <1>7, <1>13 DEF t, e

LEMMA EmptyRun == ChunkRun(<<>>, 0) /\ Units(<<>>, 0)
<1>1. Len(<<>>) = 0 /\ UnitsOf(<<>>) = {} BY DEF UnitsOf
<1> QED BY <1>1 DEF ChunkRun, InOrder, Units

LEMMA HeadOfStream ==
  ASSUME NEW x \in Items, NEW s \in ItemSeq
  PROVE  /\ <<x>> \in ItemSeq /\ <<x>> \o s \in ItemSeq /\ <<x>> \o s # <<>>
         /\ (<<x>> \o s)[1] = x /\ Tail(<<x>> \o s) = s
BY DEF ItemSeq

-----------------------------------------------------------------------------
(* The settings of the head.                                               *)

LEMMA ResFields ==
  ASSUME NEW r \in ResType
  PROVE  /\ r.contentLength \in Nat \cup {None, Invalid} /\ r.statusCode \in Nat
         /\ r.buffer \in Buffers /\ r.bodyBuffer \in Buffers /\ r.sent \in ItemSeq
         /\ r.accepted \in Nat /\ r.bodyWritten \in Nat
         /\ Content(r.buffer) \in ItemSeq /\ Content(r.bodyBuffer) \in ItemSeq
<1>1. /\ r.contentLength \in Nat \cup {None, Invalid} /\ r.statusCode \in Nat
      /\ r.buffer \in Buffers /\ r.bodyBuffer \in Buffers /\ r.sent \in ItemSeq
      /\ r.accepted \in Nat /\ r.bodyWritten \in Nat
  BY DEF ResType, ResOf
<1> QED BY <1>1, ContentTyped

LEMMA ResFlags ==
  ASSUME NEW r \in ResType
  PROVE  /\ r.te \in BOOLEAN /\ r.trailers \in BOOLEAN /\ r.chunkChecked \in BOOLEAN /\ r.chunked \in BOOLEAN
         /\ r.headEncoded \in BOOLEAN /\ r.hijacked \in BOOLEAN /\ r.flawed \in BOOLEAN
BY DEF ResType, ResOf

\* Two Responses with the same settings and the same body are framed alike.
LEMMA SameFraming ==
  ASSUME NEW r, NEW q, q.sent = r.sent, q.buffer = r.buffer, q.bodyBuffer = r.bodyBuffer,
         q.accepted = r.accepted, q.statusCode = r.statusCode, q.chunked = r.chunked,
         q.contentLength = r.contentLength, Framed(r)
  PROVE  Framed(q)
BY DEF Framed, Stream, HeadItem

LEMMA WriteHeaderKeeps ==
  ASSUME NEW r, ResOK(r), ~r.hijacked, NEW code \in Nat \ {0}, NEW q, q = WriteHeader(r, code)
  PROVE  ResOK(q) /\ q.statusCode # 0 /\ ~q.hijacked
<1>0. CASE r.statusCode # 0 BY <1>0 DEF WriteHeader
<1>1. CASE r.statusCode = 0
  <2>1. r \in ResOf(Buffers, ItemSeq) /\ (Lost(r) \/ Structured(r)) BY DEF ResOK, ResType
  <2>2. /\ q \in ResOf(Buffers, ItemSeq) /\ SameBody(r, q)
        /\ q.te = r.te /\ q.trailers = r.trailers /\ q.chunkChecked = r.chunkChecked /\ q.chunked = r.chunked
        /\ q.statusCode = code
        /\ q.contentLength = IF r.contentLength = Invalid THEN None ELSE r.contentLength
    BY <1>1, <2>1, WriteHeaderFields
  <2>3. q.bodyBuffer = r.bodyBuffer /\ q.sent = r.sent /\ q.buffer = r.buffer /\ q.accepted = r.accepted
    BY <2>2 DEF SameBody
  <2>4. q.headEncoded = r.headEncoded /\ q.flawed = r.flawed /\ q.hijacked = r.hijacked BY <2>2 DEF SameBody
  <2>5. CASE Lost(r)
    <3>1. r.contentLength = 0 => q.contentLength = 0 BY <2>2 DEF Invalid
    <3>2. Lost(q) BY <2>2, <2>3, <2>4, <2>5, <3>1 DEF Lost
    <3> QED BY <2>2, <2>4, <3>2 DEF ResOK, ResType
  <2>6. CASE Structured(r)
    <3>1. ~r.chunkChecked /\ ~r.headEncoded /\ ~(r.accepted > 0) /\ ~r.chunked
      BY <1>1, <2>6 DEF Structured, Settled
    <3>2. r.accepted = 0 BY <3>1, ResFields DEF ResOK
    <3>3. q.contentLength # Invalid /\ (q.contentLength > 0 => r.contentLength > 0) BY <2>2 DEF None, Invalid
    <3>4. Settled(q) BY <2>2, <2>3, <2>4, <3>1, <3>3 DEF Settled
    <3>5. Unsent(r) BY <2>6, <3>1 DEF Structured
    <3>6. Unsent(q) BY <2>3, <3>2, <3>5 DEF Unsent
    <3>7. Structured(q) BY <2>4, <3>1, <3>4, <3>6 DEF Structured
    <3> QED BY <2>2, <2>4, <3>7 DEF ResOK, ResType
  <2> QED BY <2>1, <2>5, <2>6
<1> QED BY <1>0, <1>1

\* The head can be encoded.
Prepared(r) == ResOK(r) /\ ~r.hijacked /\ r.statusCode # 0 /\ r.chunkChecked

LEMMA checkChunkedKeeps ==
  ASSUME NEW r, ResOK(r), ~r.hijacked, r.statusCode # 0, NEW q, q = checkChunked(r)
  PROVE  Prepared(q)
<1>0. CASE r.chunkChecked BY <1>0 DEF checkChunked, Prepared
<1>1. CASE ~r.chunkChecked
  <2>1. r \in ResOf(Buffers, ItemSeq) /\ (Lost(r) \/ Structured(r)) BY DEF ResOK, ResType
  <2>2. /\ q \in ResOf(Buffers, ItemSeq) /\ SameBody(r, q)
        /\ q.te = r.te /\ q.trailers = r.trailers /\ q.chunkChecked /\ q.statusCode = r.statusCode
        /\ q.contentLength = IF q.chunked THEN None ELSE r.contentLength
        /\ q.chunked => r.te \/ r.trailers \/ r.contentLength = None
    BY <1>1, <2>1, checkChunkedFields
  <2>3. q.bodyBuffer = r.bodyBuffer /\ q.sent = r.sent /\ q.buffer = r.buffer /\ q.accepted = r.accepted
    BY <2>2 DEF SameBody
  <2>4. q.headEncoded = r.headEncoded /\ q.flawed = r.flawed /\ q.hijacked = r.hijacked BY <2>2 DEF SameBody
  <2>5. CASE Lost(r)
    <3>1. r.contentLength = 0 /\ ~r.te /\ ~r.trailers => q.contentLength = 0 BY <2>2 DEF None
    <3>2. Lost(q) BY <1>1, <2>2, <2>3, <2>4, <2>5, <3>1 DEF Lost
    <3> QED BY <2>2, <2>4, <3>2 DEF ResOK, ResType, Prepared
  <2>6. CASE Structured(r)
    <3>0. Settled(r) /\ ~r.chunked BY <1>1, <2>6 DEF Structured, Settled
    <3>1. CASE r.accepted > 0 \/ r.headEncoded
      <4>1. ~r.te /\ ~r.trailers /\ r.contentLength \in Nat BY <1>1, <3>0, <3>1 DEF Settled
      <4>2. r.contentLength # None BY <4>1 DEF None
      <4>3. ~q.chunked BY <2>2, <4>1, <4>2
      <4>4. q.contentLength = r.contentLength BY <2>2, <4>3
      <4>5. q.contentLength # Invalid BY <4>1, <4>4 DEF Invalid
      <4>6. Settled(q) BY <2>2, <4>3, <4>5 DEF Settled
      <4>7. q.chunked = r.chunked BY <2>2, <3>0, <4>3, ResFlags DEF ResOK, ResType
      <4>8. r.headEncoded => Framed(q) /\ q.statusCode # 0 /\ Cached(q)
        <5>1. ASSUME r.headEncoded PROVE Framed(r) /\ Cached(r) BY <2>6, <5>1 DEF Structured, Begun
        <5>2. ASSUME Cached(r) PROVE Cached(q) BY <2>3, <4>4, <5>2 DEF Cached
        <5> QED BY <2>2, <2>3, <4>4, <4>7, <5>1, <5>2, SameFraming
      <4>9. ~r.headEncoded => Unsent(q)
        <5>1. ASSUME Unsent(r) PROVE Unsent(q) BY <2>3, <4>3, <4>4, <5>1 DEF Unsent
        <5> QED BY <2>6, <5>1 DEF Structured
      <4>10. Structured(q) BY <2>4, <4>6, <4>8, <4>9 DEF Structured, Begun
      <4> QED BY <2>2, <2>4, <4>10 DEF ResOK, ResType, Prepared
    <3>2. CASE ~(r.accepted > 0 \/ r.headEncoded)
      <4>1. r.accepted = 0 /\ ~r.headEncoded BY <3>2, ResFields DEF ResOK
      <4>2. Unsent(r) BY <2>6, <4>1 DEF Structured
      <4>3. Unsent(q) BY <2>3, <4>1, <4>2 DEF Unsent
      <4>4. Content(q.bodyBuffer) = <<>> 
        BY <2>3, <4>1, <4>2, ResFields, ItemFacts DEF Unsent, Units, ResOK
      <4>5. r.contentLength # Invalid BY <3>0 DEF Settled
      <4>6. q.contentLength # Invalid BY <2>2, <4>5 DEF None, Invalid
      <4>7. Settled(q) BY <2>2, <4>4, <4>6 DEF Settled
      <4>8. Structured(q) BY <2>4, <4>1, <4>3, <4>7 DEF Structured
      <4> QED BY <2>2, <2>4, <4>8 DEF ResOK, ResType, Prepared
    <3> QED BY <3>1, <3>2
  <2> QED BY <2>1, <2>5, <2>6
<1> QED BY <1>0, <1>1

-----------------------------------------------------------------------------
(* The head, and what is appended to it.                                   *)

\* x is what eoncodeHead puts before a body that is in z so far.
HeadFor(x, r, z) ==
  /\ x \in Items
  /\ x = <<"head", r.statusCode, IF r.chunked THEN "chunked" ELSE "length",
           IF r.chunked THEN 0 ELSE IF r.contentLength # None THEN r.contentLength ELSE Len(Content(z))>>

LEMMA eoncodeHeadMade ==
  ASSUME NEW r \in ResType, ~r.headEncoded
  PROVE  \E x \in Items : eoncodeHead(r).buffer = <<x>> /\ HeadFor(x, r, r.bodyBuffer)
BY eoncodeHeadFields DEF HeadFor

LEMMA HeadEncoded ==
  ASSUME NEW r \in ResType, Structured(r), r.statusCode # 0,
         r.chunkChecked \/ (~r.te /\ ~r.trailers /\ r.contentLength # None),
         NEW q, q = eoncodeHead(r)
  PROVE  /\ q \in ResType /\ Settled(q) /\ Begun(q) /\ q.headEncoded /\ SameHead(r, q)
         /\ q.sent = r.sent /\ q.bodyBuffer = r.bodyBuffer /\ q.accepted = r.accepted
         /\ q.bodyWritten = r.bodyWritten /\ q.flawed = r.flawed
         /\ ~r.headEncoded => q.buffer \in ItemSeq /\ r.sent = <<>>
         /\ r.headEncoded => q = r
<1>1. /\ q \in ResType /\ SameHead(r, q) /\ q.headEncoded
      /\ q.sent = r.sent /\ q.bodyBuffer = r.bodyBuffer /\ q.accepted = r.accepted
      /\ q.bodyWritten = r.bodyWritten /\ q.flawed = r.flawed
      /\ r.headEncoded => q = r
  BY eoncodeHeadFields
<1>2. CASE r.headEncoded BY <1>1, <1>2 DEF Structured
<1>3. CASE ~r.headEncoded
  <2>1. PICK x \in Items : q.buffer = <<x>> /\ HeadFor(x, r, r.bodyBuffer) BY <1>3, eoncodeHeadMade
  <2>2. Settled(r) /\ Unsent(r) BY <1>3 DEF Structured
  <2> DEFINE z == Content(r.bodyBuffer)
  <2>3. z \in ItemSeq /\ r.accepted \in Nat BY ResFields
  <2>4. Units(z, r.accepted) /\ r.sent = <<>> /\ (r.chunked => r.accepted = 0) BY <2>2 DEF Unsent
  <2>5. Len(z) = r.accepted BY <2>4 DEF Units
  <2>6. x = HeadItem(q)
    <3>1. q.statusCode = r.statusCode /\ q.contentLength = r.contentLength /\ q.chunked = r.chunked
      BY <1>1 DEF SameHead
    <3>2. q.accepted = Len(Content(r.bodyBuffer)) BY <1>1, <2>5
    <3> QED BY <2>1, <3>1, <3>2 DEF HeadFor, HeadItem
  <2>7. <<x>> \in ItemSeq /\ <<x>> # NoBuf BY <2>1, HeadOfStream, EmptyItems, NilBuffer, ItemFacts
  <2>8. Stream(q) = <<x>> \o z
    <3>1. Content(q.buffer) = <<x>> BY <2>1, <2>7, NilBuffer
    <3>2. Stream(q) = (<<>> \o <<x>>) \o z BY <1>1, <2>4, <3>1 DEF Stream
    <3> QED BY <2>7, <3>2, EmptyItems
  <2>9. BodyStream(z, q.chunked, q.accepted)
    <3>1. q.chunked = r.chunked /\ q.accepted = r.accepted BY <1>1 DEF SameHead
    <3>2. CASE r.chunked
      <4>1. z = <<>> /\ r.accepted = 0 BY <2>2, <2>4, <3>2 DEF Settled
      <4> QED BY <3>1, <3>2, <4>1, EmptyRun DEF BodyStream
    <3>3. CASE ~r.chunked BY <2>4, <3>1, <3>3 DEF BodyStream
    <3> QED BY <3>2, <3>3
  <2> HIDE DEF z
  <2>10. Framed(q) BY <2>3, <2>6, <2>8, <2>9 DEF Framed
  <2>11. q.statusCode # 0 BY <1>1 DEF SameHead
  <2>12. Settled(q)
    <3>1. /\ q.contentLength = r.contentLength /\ q.te = r.te /\ q.trailers = r.trailers
          /\ q.statusCode = r.statusCode /\ q.chunkChecked = r.chunkChecked /\ q.chunked = r.chunked
      BY <1>1 DEF SameHead
    <3>2. r.contentLength # Invalid BY <2>2 DEF Settled
    <3>3. r.contentLength # None => r.contentLength \in Nat BY <3>2, ResFields
    <3> QED BY <1>1, <2>2, <3>1, <3>2, <3>3 DEF Settled
  <2> QED BY <1>1, <1>3, <2>1, <2>4, <2>7, <2>10, <2>11, <2>12 DEF Begun
<1> QED BY <1>2, <1>3

\* What is appended to a body: units, or a chunk.
NextPart(d, chunk, a, n) == IF chunk THEN ChunkOf(d, a, n)
                            ELSE Len(d) = n /\ \A k \in 1 .. n : d[k] = <<"data", a + k>>

LEMMA BodyExtends ==
  ASSUME NEW s \in ItemSeq, NEW d \in ItemSeq, NEW a \in Nat, NEW n \in Nat, NEW z,
         BodyStream(s, z, a), NextPart(d, z, a, n)
  PROVE  BodyStream(s \o d, z, a + n)
BY UnitsExtend, ChunkExtends DEF BodyStream, NextPart

LEMMA FramedExtends ==
  ASSUME NEW r, NEW q, Framed(r), r.accepted \in Nat, NEW n \in Nat, NEW d \in ItemSeq,
         NextPart(d, r.chunked, r.accepted, n),
         q.statusCode = r.statusCode, q.contentLength = r.contentLength, q.chunked = r.chunked,
         r.chunked \/ r.contentLength # None,
         q.accepted = r.accepted + n, Stream(q) = Stream(r) \o d, HeadItem(r) \in Items
  PROVE  Framed(q)
<1>1. PICK s \in ItemSeq : Stream(r) = <<HeadItem(r)>> \o s /\ BodyStream(s, r.chunked, r.accepted)
  BY DEF Framed
<1>2. HeadItem(q) = HeadItem(r) BY DEF HeadItem
<1>3. BodyStream(s \o d, q.chunked, q.accepted) BY <1>1, BodyExtends
<1>4. <<HeadItem(r)>> \in ItemSeq BY HeadOfStream, ItemFacts
<1> DEFINE h == <<HeadItem(r)>>
<1> HIDE DEF h
<1>5. (h \o s) \o d = h \o (s \o d) BY <1>4, JoinItems DEF h
<1>6. Stream(q) = <<HeadItem(q)>> \o (s \o d) BY <1>1, <1>2, <1>5 DEF h
<1>7. s \o d \in ItemSeq BY <1>1, ConcatItems
<1> QED BY <1>3, <1>6, <1>7 DEF Framed

LEMMA HeadItemTyped ==
  ASSUME NEW r \in ResType
  PROVE  HeadItem(r) \in Items
<1>1. r.contentLength \in Nat \cup {None, Invalid} /\ r.statusCode \in Nat /\ r.accepted \in Nat BY ResFields
<1> DEFINE m == IF r.chunked THEN 0 ELSE IF r.contentLength # None THEN r.contentLength ELSE r.accepted
           k == IF r.chunked THEN "chunked" ELSE "length"
<1>2. m \in Int /\ k \in {"chunked", "length"} BY <1>1 DEF None, Invalid
<1>3. HeadItem(r) = <<"head", r.statusCode, k, m>> BY DEF HeadItem
<1> HIDE DEF m, k
<1> QED BY <1>1, <1>2, <1>3 DEF Items

-----------------------------------------------------------------------------
(* writeChunk.                                                             *)

\* q is r with other buffers b and z, with s sent and a units taken, flawed if f.
Changed(r, q, b, z, s, a, f) ==
  /\ SameHead(r, q) /\ q.headEncoded = r.headEncoded
  /\ q.buffer = b /\ q.bodyBuffer = z /\ q.sent = s /\ q.accepted = a /\ q.flawed = f

LEMMA ChunkCached ==
  ASSUME NEW B, NEW I, NEW h \in ResOf(B, I), NEW n \in Nat, NEW b \in B, NEW f \in BOOLEAN,
         NEW q, q = [[h EXCEPT !.accepted = @ + n] EXCEPT !.flawed = f, !.buffer = b]
  PROVE  q \in ResOf(B, I) /\ Changed(h, q, b, h.bodyBuffer, h.sent, h.accepted + n, f)
<1> DEFINE m == h.accepted + n
<1>m. m \in Nat BY DEF ResOf
<1>0. q = [[h EXCEPT !.accepted = m] EXCEPT !.flawed = f, !.buffer = b] OBVIOUS
<1> HIDE DEF m
<1>1. q \in ResOf(B, I) BY <1>0, <1>m DEF ResOf
<1>2. SameHead(h, q) /\ q.headEncoded = h.headEncoded /\ q.flawed = f BY <1>0, <1>m DEF ResOf, SameHead
<1>3. q.buffer = b /\ q.bodyBuffer = h.bodyBuffer /\ q.sent = h.sent /\ q.accepted = m BY <1>0, <1>m DEF ResOf
<1> QED BY <1>1, <1>2, <1>3 DEF Changed, m

LEMMA ChunkAppended ==
  ASSUME NEW B, NEW I, NEW h \in ResOf(B, I), NEW n \in Nat, NEW b \in B,
         NEW q, q = [[h EXCEPT !.accepted = @ + n] EXCEPT !.buffer = b]
  PROVE  q \in ResOf(B, I) /\ Changed(h, q, b, h.bodyBuffer, h.sent, h.accepted + n, h.flawed)
<1> DEFINE m == h.accepted + n
<1>m. m \in Nat BY DEF ResOf
<1>0. q = [[h EXCEPT !.accepted = m] EXCEPT !.buffer = b] OBVIOUS
<1> HIDE DEF m
<1>1. q \in ResOf(B, I) BY <1>0, <1>m DEF ResOf
<1>2. SameHead(h, q) /\ q.headEncoded = h.headEncoded /\ q.flawed = h.flawed BY <1>0, <1>m DEF ResOf, SameHead
<1>3. q.buffer = b /\ q.bodyBuffer = h.bodyBuffer /\ q.sent = h.sent /\ q.accepted = m BY <1>0, <1>m DEF ResOf
<1> QED BY <1>1, <1>2, <1>3 DEF Changed, m

LEMMA ChunkSent ==
  ASSUME NEW B, NEW I, NEW h \in ResOf(B, I), NEW n \in Nat, NEW b \in B, NEW x, h.sent \o x \in I,
         NEW q, q = [Send([h EXCEPT !.accepted = @ + n], x) EXCEPT !.buffer = b]
  PROVE  q \in ResOf(B, I) /\ Changed(h, q, b, h.bodyBuffer, h.sent \o x, h.accepted + n, h.flawed)
<1> DEFINE s == h.sent \o x
           m == h.accepted + n
<1>0. q = [[[h EXCEPT !.accepted = m] EXCEPT !.sent = s] EXCEPT !.buffer = b] BY DEF Send, ResOf
<1>s. s \in I /\ m \in Nat BY DEF ResOf
<1> HIDE DEF s, m
<1>1. q \in ResOf(B, I) BY <1>0, <1>s DEF ResOf
<1>2. SameHead(h, q) /\ q.headEncoded = h.headEncoded /\ q.flawed = h.flawed BY <1>0, <1>s DEF ResOf, SameHead
<1>3. q.buffer = b /\ q.bodyBuffer = h.bodyBuffer /\ q.sent = s /\ q.accepted = m
  BY <1>0, <1>s DEF ResOf
<1> QED BY <1>1, <1>2, <1>3 DEF Changed, s, m

LEMMA ChunkSplit ==
  ASSUME NEW B, NEW I, NEW h \in ResOf(B, I), NEW n \in Nat, NEW x, h.sent \o x \in I,
         NEW w, w = [Send([h EXCEPT !.accepted = @ + n], x) EXCEPT !.flawed = TRUE]
  PROVE  w \in ResOf(B, I) /\ w.flawed = TRUE
<1> DEFINE s == h.sent \o x
           m == h.accepted + n
<1>1. w = [[[h EXCEPT !.accepted = m] EXCEPT !.sent = s] EXCEPT !.flawed = TRUE] BY DEF Send, ResOf
<1>2. s \in I /\ m \in Nat BY DEF ResOf
<1> HIDE DEF s, m
<1> QED BY <1>1, <1>2 DEF ResOf

LEMMA BufferReplaced ==
  ASSUME NEW B, NEW I, NEW w \in ResOf(B, I), NEW b \in B, NEW q, q = [w EXCEPT !.buffer = b]
  PROVE  /\ q \in ResOf(B, I) /\ q.flawed = w.flawed
         /\ Changed(w, q, b, w.bodyBuffer, w.sent, w.accepted, w.flawed)
BY DEF ResOf, Changed, SameHead

\* What writeChunk may make of h, with the chunk F that ends with D.
Written(q, h, n, D, F) ==
  \/ h.buffer # NoBuf /\ q = [[h EXCEPT !.accepted = @ + n] EXCEPT !.buffer = h.buffer \o F]
  \/ q = [[h EXCEPT !.accepted = @ + n] EXCEPT
            !.flawed = TRUE, !.buffer = [k \in 1 .. Len(F) + Len(Content(h.buffer)) |-> <<"stale">>] \o F]
  \/ /\ h.buffer # NoBuf
     /\ \E w : /\ w = [Send([h EXCEPT !.accepted = @ + n], h.buffer \o << <<"size", n>> >>) EXCEPT !.flawed = TRUE]
               /\ q = [w EXCEPT !.buffer = D] \/ q = [Send(w, D) EXCEPT !.buffer = NoBuf]
  \/ h.buffer = NoBuf /\ q = [[h EXCEPT !.accepted = @ + n] EXCEPT !.buffer = F]
  \/ h.buffer = NoBuf /\ q = [Send([h EXCEPT !.accepted = @ + n], F) EXCEPT !.buffer = NoBuf]

LEMMA writeChunkCases ==
  ASSUME NEW r \in ResType, NEW n \in Nat, NEW q, q = writeChunk(r, n),
         NEW h, h = eoncodeHead(r), h \in ResType,
         NEW D, D = Data(r, n) \o << <<"end">> >>, NEW F, F = << <<"size", n>> >> \o D
  PROVE  Written(q, h, n, D, F)
<1> DEFINE taken == [h EXCEPT !.accepted = @ + n]
           w == [Send(taken, h.buffer \o << <<"size", n>> >>) EXCEPT !.flawed = TRUE]
           total == Len(F) + Len(Content(h.buffer))
           keep(v, items) == IF Len(items) < maxPacketSize THEN [v EXCEPT !.buffer = items]
                             ELSE [Send(v, items) EXCEPT !.buffer = NoBuf]
<1>1. q = IF total < maxPacketSize
          THEN IF h.buffer # NoBuf THEN [taken EXCEPT !.buffer = @ \o F]
               ELSE [taken EXCEPT !.flawed = TRUE, !.buffer = [k \in 1 .. total |-> <<"stale">>] \o F]
          ELSE IF h.buffer # NoBuf THEN keep(w, D) ELSE keep(taken, F)
  BY Zenon DEF writeChunk
<1>2. taken.buffer = h.buffer BY DEF ResType, ResOf
<1>3. [taken EXCEPT !.buffer = @ \o F] = [taken EXCEPT !.buffer = h.buffer \o F] BY <1>2, Zenon
<1>4. keep(w, D) = [w EXCEPT !.buffer = D] \/ keep(w, D) = [Send(w, D) EXCEPT !.buffer = NoBuf] BY Zenon
<1>5. keep(taken, F) = [taken EXCEPT !.buffer = F] \/ keep(taken, F) = [Send(taken, F) EXCEPT !.buffer = NoBuf]
  BY Zenon
<1>6. CASE total < maxPacketSize /\ h.buffer # NoBuf BY <1>1, <1>3, <1>6, Zenon DEF Written
<1>7. CASE total < maxPacketSize /\ h.buffer = NoBuf BY <1>1, <1>7, Zenon DEF Written
<1>8. CASE ~(total < maxPacketSize) /\ h.buffer # NoBuf
  <2>1. q = keep(w, D) BY <1>1, <1>8, Zenon
  <2> QED BY <1>4, <1>8, <2>1, Zenon DEF Written
<1>9. CASE ~(total < maxPacketSize) /\ h.buffer = NoBuf
  <2>1. q = keep(taken, F) BY <1>1, <1>9, Zenon
  <2> QED BY <1>5, <1>9, <2>1, Zenon DEF Written
<1> QED BY <1>6, <1>7, <1>8, <1>9, Zenon

\* A Response that is lost stays so.
LEMMA LostStays ==
  ASSUME NEW r \in ResType, NEW q \in ResType, SameHead(r, q), r.flawed => q.flawed, q.accepted >= r.accepted,
         Lost(r)
  PROVE  Lost(q)
<1>1. r.accepted \in Nat /\ q.accepted \in Nat BY ResFields
<1>2. r.accepted > 0 => q.accepted > 0 BY <1>1
<1> QED BY <1>2 DEF Lost, SameHead

\* What one operation appends to the stream.
LEMMA StreamGrows ==
  ASSUME NEW s \in ItemSeq, NEW b \in ItemSeq, NEW d \in ItemSeq
  PROVE  /\ ((s \o b) \o <<>>) \o d = (s \o (b \o d)) \o <<>>
         /\ ((s \o <<>>) \o <<>>) \o d = (s \o d) \o <<>>
         /\ ((s \o <<>>) \o <<>>) \o d = ((s \o d) \o <<>>) \o <<>>
<1>1. s \o b \in ItemSeq /\ b \o d \in ItemSeq /\ s \o d \in ItemSeq /\ s \o (b \o d) \in ItemSeq
  BY ConcatItems
<1>2. (s \o b) \o d = s \o (b \o d) BY JoinItems
<1>3. /\ s \o <<>> = s /\ (s \o b) \o <<>> = s \o b /\ (s \o d) \o <<>> = s \o d
      /\ (s \o (b \o d)) \o <<>> = s \o (b \o d)
  BY <1>1, EmptyItems
<1> QED BY <1>2, <1>3, Zenon

LEMMA ChunkStructured ==
  ASSUME NEW r \in ResType, Structured(r), r.statusCode # 0, r.chunkChecked, r.chunked, NEW n \in Nat,
         NEW h, h = eoncodeHead(r), NEW F \in ItemSeq, ChunkOf(F, r.accepted, n),
         NEW q \in ResType, SameHead(r, q), q.headEncoded, q.bodyBuffer = r.bodyBuffer,
         q.accepted = r.accepted + n, Content(r.bodyBuffer) = <<>> => Stream(q) = Stream(h) \o F
  PROVE  Structured(q)
<1>1. /\ h \in ResType /\ Settled(h) /\ Begun(h) /\ h.headEncoded /\ SameHead(r, h)
      /\ h.sent = r.sent /\ h.bodyBuffer = r.bodyBuffer /\ h.accepted = r.accepted
  BY HeadEncoded
<1>2. /\ r.contentLength = None /\ Content(r.bodyBuffer) = <<>> BY DEF Structured, Settled
<1>3. Framed(h) /\ h.accepted \in Nat /\ HeadItem(h) \in Items BY <1>1, ResFields, HeadItemTyped DEF Begun
<1>4. /\ q.statusCode = r.statusCode /\ q.contentLength = r.contentLength /\ q.chunked = r.chunked
      /\ h.statusCode = r.statusCode /\ h.contentLength = r.contentLength /\ h.chunked = r.chunked
      /\ q.chunkChecked = r.chunkChecked
  BY <1>1 DEF SameHead
<1>5. NextPart(F, h.chunked, h.accepted, n) BY <1>1, <1>4 DEF NextPart
<1>6. Stream(q) = Stream(h) \o F BY <1>2
<1>7. Framed(q)
  <2>1. q.statusCode = h.statusCode /\ q.contentLength = h.contentLength /\ q.chunked = h.chunked BY <1>4
  <2>2. q.accepted = h.accepted + n /\ h.chunked BY <1>1, <1>4
  <2> QED BY <1>3, <1>5, <1>6, <2>1, <2>2, FramedExtends
<1>8. Content(q.bodyBuffer) = <<>> BY <1>2
<1>9. q.chunkChecked /\ q.statusCode # 0 /\ q.contentLength = None BY <1>2, <1>4
<1>10. Settled(q) BY <1>8, <1>9 DEF Settled, None, Invalid
<1> QED BY <1>7, <1>8, <1>9, <1>10 DEF Structured, Begun, Cached

LEMMA writeChunkKeeps ==
  ASSUME NEW r, Prepared(r), r.chunked, NEW n \in Nat, NEW q, q = writeChunk(r, n)
  PROVE  ResOK(q)
<1> DEFINE h == eoncodeHead(r)
           D == Data(r, n) \o << <<"end">> >>
           Z == << <<"size", n>> >>
           F == Z \o D
<1>1. r \in ResType /\ r.statusCode # 0 /\ r.chunkChecked /\ (Lost(r) \/ Structured(r)) BY DEF Prepared, ResOK
<1>2. /\ h \in ResType /\ SameHead(r, h) /\ h.headEncoded /\ h.accepted = r.accepted /\ h.flawed = r.flawed
      /\ h.sent = r.sent /\ h.bodyBuffer = r.bodyBuffer
  BY <1>1, eoncodeHeadFields
<1>3. /\ h.buffer \in Buffers /\ h.sent \in ItemSeq /\ h.accepted \in Nat /\ r.accepted \in Nat
      /\ Content(h.buffer) \in ItemSeq
  BY <1>1, <1>2, ResFields
<1>4. D \in ItemSeq /\ F \in ItemSeq /\ ChunkOf(F, r.accepted, n) /\ Z \in ItemSeq BY <1>3, ChunkMade
<1>5. D = Data(r, n) \o << <<"end">> >> /\ F = << <<"size", n>> >> \o D OBVIOUS
<1>6. h = eoncodeHead(r) OBVIOUS
<1> HIDE DEF h, D, F, Z
<1>7. h \in ResOf(Buffers, ItemSeq) BY <1>2 DEF ResType
<1>8. \A x : Changed(h, q, x, h.bodyBuffer, q.sent, h.accepted + n, h.flawed) => SameHead(r, q) /\ q.headEncoded
                 /\ q.bodyBuffer = r.bodyBuffer /\ q.accepted = r.accepted + n /\ q.flawed = r.flawed /\ q.buffer = x
  BY <1>2 DEF Changed, SameHead
<1>9. ASSUME q \in ResType, SameHead(r, q), q.headEncoded, q.bodyBuffer = r.bodyBuffer,
             q.accepted = r.accepted + n, q.flawed = r.flawed,
             Content(r.bodyBuffer) = <<>> => Stream(q) = Stream(h) \o F
      PROVE  ResOK(q)
  <2>1. CASE Lost(r)
    <3>1. q.accepted >= r.accepted BY <1>3, <1>9
    <3> QED BY <1>1, <1>9, <2>1, <3>1, LostStays DEF ResOK
  <2>2. CASE Structured(r) BY <1>1, <1>4, <1>6, <1>9, <2>2, ChunkStructured DEF ResOK
  <2> QED BY <1>1, <2>1, <2>2
<1>10. ASSUME q \in ResType, q.flawed PROVE ResOK(q) BY <1>10 DEF ResOK, Lost
<1>11. CASE h.buffer # NoBuf /\ q = [[h EXCEPT !.accepted = @ + n] EXCEPT !.buffer = h.buffer \o F]
  <2> DEFINE b == h.buffer \o F
  <2>1. h.buffer \in ItemSeq BY <1>3, <1>11 DEF Buffers
  <2>2. b \in ItemSeq BY <1>4, <2>1, ConcatItems
  <2>3. b \in Buffers /\ Content(b) = b /\ Content(h.buffer) = h.buffer BY <2>1, <2>2, NilBuffer DEF Buffers
  <2>4. q = [[h EXCEPT !.accepted = @ + n] EXCEPT !.buffer = b] BY <1>11
  <2>5. b = h.buffer \o F OBVIOUS
  <2> HIDE DEF b
  <2>6. q \in ResType /\ Changed(h, q, b, h.bodyBuffer, h.sent, h.accepted + n, h.flawed)
    BY <1>7, <2>3, <2>4, ChunkAppended DEF ResType
  <2>7. q.sent = h.sent /\ q.buffer = b /\ q.bodyBuffer = h.bodyBuffer BY <2>6 DEF Changed
  <2>8. ASSUME Content(r.bodyBuffer) = <<>> PROVE Stream(q) = Stream(h) \o F
    <3>1. Stream(q) = (h.sent \o (h.buffer \o F)) \o <<>> BY <1>2, <2>3, <2>5, <2>7, <2>8 DEF Stream
    <3>2. Stream(h) = (h.sent \o h.buffer) \o <<>> BY <1>2, <2>3, <2>8 DEF Stream
    <3>3. ((h.sent \o h.buffer) \o <<>>) \o F = (h.sent \o (h.buffer \o F)) \o <<>>
      <4>1. h.sent \in ItemSeq /\ F \in ItemSeq BY <1>3, <1>4
      <4> QED BY <2>1, <4>1, StreamGrows, Zenon
    <3> QED BY <3>1, <3>2, <3>3, Zenon
  <2> QED BY <1>8, <1>9, <2>6, <2>7, <2>8
<1>12. CASE q = [[h EXCEPT !.accepted = @ + n] EXCEPT
            !.flawed = TRUE, !.buffer = [k \in 1 .. Len(F) + Len(Content(h.buffer)) |-> <<"stale">>] \o F]
  <2> DEFINE m == Len(F) + Len(Content(h.buffer))
             p == [k \in 1 .. m |-> <<"stale">>]
             b == p \o F
  <2>1. m \in Nat BY <1>3, <1>4, ItemFacts
  <2>2. p \in [1 .. m -> Items] BY DEF Items
  <2>3. p \in ItemSeq BY <2>1, <2>2, FunctionSeq DEF ItemSeq
  <2>4. b \in Buffers BY <1>4, <2>3, ConcatItems DEF Buffers
  <2>5. q = [[h EXCEPT !.accepted = @ + n] EXCEPT !.flawed = TRUE, !.buffer = b] BY <1>12
  <2> HIDE DEF b
  <2>6. q \in ResType /\ Changed(h, q, b, h.bodyBuffer, h.sent, h.accepted + n, TRUE)
    BY <1>7, <2>4, <2>5, ChunkCached DEF ResType
  <2> QED BY <1>10, <2>6 DEF Changed
<1>13. CASE /\ h.buffer # NoBuf
            /\ \E w : /\ w = [Send([h EXCEPT !.accepted = @ + n], h.buffer \o << <<"size", n>> >>) EXCEPT !.flawed = TRUE]
                      /\ q = [w EXCEPT !.buffer = D] \/ q = [Send(w, D) EXCEPT !.buffer = NoBuf]
  <2>1. PICK w : /\ w = [Send([h EXCEPT !.accepted = @ + n], h.buffer \o Z) EXCEPT !.flawed = TRUE]
                 /\ q = [w EXCEPT !.buffer = D] \/ q = [Send(w, D) EXCEPT !.buffer = NoBuf]
    BY <1>13 DEF Z
  <2> DEFINE x == h.buffer \o Z
  <2>2. x \in ItemSeq BY <1>3, <1>4, <1>13, ConcatItems DEF Buffers
  <2>3. w = [Send([h EXCEPT !.accepted = @ + n], x) EXCEPT !.flawed = TRUE] BY <2>1
  <2> HIDE DEF x
  <2>4. h.sent \o x \in ItemSeq BY <1>3, <2>2, ConcatItems
  <2>5. PICK b \in Buffers : q = [w EXCEPT !.buffer = b] \/ q = [Send(w, D) EXCEPT !.buffer = b]
    BY <1>4, <2>1 DEF Buffers
  <2>6. w \in ResOf(Buffers, ItemSeq) BY <1>7, <2>3, <2>4, ChunkSplit
  <2>7. w.flawed = TRUE /\ w.sent \in ItemSeq
    <3>1. w.flawed = TRUE BY <1>7, <2>3, <2>4, ChunkSplit
    <3>2. w.sent \in ItemSeq BY <2>6 DEF ResOf
    <3> QED BY <3>1, <3>2
  <2>9. w.sent \o D \in ItemSeq BY <1>4, <2>7, ConcatItems
  <2>10. Send(w, D) \in ResOf(Buffers, ItemSeq) /\ Send(w, D).flawed = w.flawed BY <2>6, <2>9, SendFields
  <2>8. q \in ResOf(Buffers, ItemSeq) /\ q.flawed = TRUE BY <2>5, <2>6, <2>7, <2>10, BufferReplaced
  <2> QED BY <1>10, <2>8 DEF ResType
<1>14. CASE h.buffer = NoBuf /\ q = [[h EXCEPT !.accepted = @ + n] EXCEPT !.buffer = F]
  <2>1. F \in Buffers /\ Content(F) = F /\ Content(h.buffer) = <<>> BY <1>4, <1>14, NilBuffer DEF Buffers
  <2>2. q \in ResType /\ Changed(h, q, F, h.bodyBuffer, h.sent, h.accepted + n, h.flawed)
    BY <1>7, <1>14, <2>1, ChunkAppended DEF ResType
  <2>3. q.sent = h.sent /\ q.buffer = F /\ q.bodyBuffer = h.bodyBuffer BY <2>2 DEF Changed
  <2>4. ASSUME Content(r.bodyBuffer) = <<>> PROVE Stream(q) = Stream(h) \o F
    <3>1. Stream(q) = (h.sent \o F) \o <<>> BY <1>2, <2>1, <2>3, <2>4 DEF Stream
    <3>2. Stream(h) = (h.sent \o <<>>) \o <<>> BY <1>2, <2>1, <2>4 DEF Stream
    <3>3. ((h.sent \o <<>>) \o <<>>) \o F = (h.sent \o F) \o <<>> BY <1>3, <1>4, StreamGrows, Zenon
    <3> QED BY <3>1, <3>2, <3>3, Zenon
  <2> QED BY <1>8, <1>9, <2>2, <2>3, <2>4
<1>15. CASE h.buffer = NoBuf /\ q = [Send([h EXCEPT !.accepted = @ + n], F) EXCEPT !.buffer = NoBuf]
  <2>1. NoBuf \in Buffers /\ Content(NoBuf) = <<>> BY NilBuffer DEF Buffers
  <2>2. h.sent \o F \in ItemSeq BY <1>3, <1>4, ConcatItems
  <2>3. q \in ResType /\ Changed(h, q, NoBuf, h.bodyBuffer, h.sent \o F, h.accepted + n, h.flawed)
    BY <1>7, <1>15, <2>1, <2>2, ChunkSent DEF ResType
  <2>4. q.sent = h.sent \o F /\ q.buffer = NoBuf /\ q.bodyBuffer = h.bodyBuffer BY <2>3 DEF Changed
  <2>5. ASSUME Content(r.bodyBuffer) = <<>> PROVE Stream(q) = Stream(h) \o F
    <3>1. Stream(q) = ((h.sent \o F) \o <<>>) \o <<>> BY <1>2, <2>1, <2>4, <2>5 DEF Stream
    <3>2. Stream(h) = (h.sent \o <<>>) \o <<>> BY <1>2, <1>15, <2>1, <2>5 DEF Stream
    <3>3. ((h.sent \o <<>>) \o <<>>) \o F = ((h.sent \o F) \o <<>>) \o <<>> BY <1>3, <1>4, StreamGrows, Zenon
    <3> QED BY <3>1, <3>2, <3>3, Zenon
  <2> QED BY <1>8, <1>9, <2>3, <2>4, <2>5
<1>16. Written(q, h, n, D, F) BY <1>1, <1>2, <1>5, <1>6, writeChunkCases
<1> QED BY <1>11, <1>12, <1>13, <1>14, <1>15, <1>16, Zenon DEF Written

-----------------------------------------------------------------------------
(* writeBody.                                                              *)

LEMMA BodyBufferReplaced ==
  ASSUME NEW B, NEW I, NEW r \in ResOf(B, I), NEW b \in B, NEW q, q = [r EXCEPT !.bodyBuffer = b]
  PROVE  q \in ResOf(B, I) /\ Changed(r, q, r.buffer, b, r.sent, r.accepted, r.flawed)
BY DEF ResOf, Changed, SameHead

LEMMA BothReplaced ==
  ASSUME NEW B, NEW I, NEW r \in ResOf(B, I), NEW b \in B, NEW z \in B,
         NEW q, q = [r EXCEPT !.bodyBuffer = z, !.buffer = b]
  PROVE  q \in ResOf(B, I) /\ Changed(r, q, b, z, r.sent, r.accepted, r.flawed)
BY DEF ResOf, Changed, SameHead

LEMMA SendChanged ==
  ASSUME NEW r \in ResType, NEW x \in ItemSeq
  PROVE  /\ Send(r, x) \in ResType /\ r.sent \o x \in ItemSeq
         /\ Changed(r, Send(r, x), r.buffer, r.bodyBuffer, r.sent \o x, r.accepted, r.flawed)
<1>1. r \in ResOf(Buffers, ItemSeq) /\ r.sent \in ItemSeq BY ResFields DEF ResType
<1>2. r.sent \o x \in ItemSeq BY <1>1, ConcatItems
<1>3. Send(r, x) \in ResOf(Buffers, ItemSeq) /\ SameHead(r, Send(r, x)) BY <1>1, <1>2, SendFields
<1>4. Send(r, x).headEncoded = r.headEncoded /\ Send(r, x).flawed = r.flawed BY <1>1, <1>2, SendFields
<1>5. Send(r, x).buffer = r.buffer /\ Send(r, x).bodyBuffer = r.bodyBuffer BY <1>1, <1>2, SendFields
<1>6. Send(r, x).accepted = r.accepted BY <1>1, <1>2, SendFields
<1>7. Send(r, x).sent = r.sent \o x BY <1>1 DEF Send, ResOf
<1> QED BY <1>2, <1>3, <1>4, <1>5, <1>6, <1>7 DEF Changed, ResType

\* q is r but for what is sent and for bodyBuffer, which is s and then z.
Shifted(r, q, s, z) == Changed(r, q, r.buffer, q.bodyBuffer, s, r.accepted, r.flawed) /\ Content(q.bodyBuffer) = z

LEMMA CacheChanges ==
  ASSUME NEW r \in ResType, NEW b \in ItemSeq, NEW d \in ItemSeq, NEW q, q = Cache(r, b, d)
  PROVE  /\ q \in ResType
         /\ \/ r.contentLength > 0 /\ Shifted(r, q, r.sent \o (b \o d), <<>>)
            \/ Shifted(r, q, r.sent, b \o d)
<1> DEFINE x == b \o d
<1>1. x \in ItemSeq BY ConcatItems
<1>2. x = b \o d OBVIOUS
<1>3. q = IF r.contentLength > 0 /\ Len(x) >= maxPacketSize
          THEN [Send(r, x) EXCEPT !.bodyBuffer = <<>>] ELSE [r EXCEPT !.bodyBuffer = x]
  BY Zenon DEF Cache
<1> HIDE DEF x
<1>4. CASE r.contentLength > 0 /\ Len(x) >= maxPacketSize
  <2> DEFINE w == Send(r, x)
  <2>1. w \in ResType /\ Changed(r, w, r.buffer, r.bodyBuffer, r.sent \o x, r.accepted, r.flawed)
    BY <1>1, SendChanged
  <2>2. q = [w EXCEPT !.bodyBuffer = <<>>] BY <1>3, <1>4
  <2> HIDE DEF w
  <2>3. <<>> \in Buffers /\ Content(<<>>) = <<>> BY ItemFacts, NilBuffer DEF Buffers
  <2>4. q \in ResType /\ Changed(w, q, w.buffer, <<>>, w.sent, w.accepted, w.flawed)
    BY <2>1, <2>2, <2>3, BodyBufferReplaced DEF ResType
  <2>5. Changed(r, q, r.buffer, q.bodyBuffer, r.sent \o x, r.accepted, r.flawed) /\ q.bodyBuffer = <<>>
    BY <2>1, <2>4 DEF Changed, SameHead
  <2> QED BY <1>2, <1>4, <2>3, <2>4, <2>5 DEF Shifted
<1>5. CASE ~(r.contentLength > 0 /\ Len(x) >= maxPacketSize)
  <2>1. q = [r EXCEPT !.bodyBuffer = x] BY <1>3, <1>5
  <2>2. x \in Buffers /\ Content(x) = x BY <1>1, NilBuffer DEF Buffers
  <2>3. q \in ResType /\ Changed(r, q, r.buffer, x, r.sent, r.accepted, r.flawed)
    BY <2>1, <2>2, BodyBufferReplaced DEF ResType
  <2>4. q.bodyBuffer = x BY <2>3 DEF Changed
  <2> QED BY <1>2, <2>2, <2>3, <2>4 DEF Shifted
<1> QED BY <1>4, <1>5

\* What a has and then d is what q has, in sent and in bodyBuffer.
Put(a, q, d) ==
  /\ Changed(a, q, a.buffer, q.bodyBuffer, q.sent, a.accepted, a.flawed)
  /\ q.sent \o Content(q.bodyBuffer) = (a.sent \o Content(a.bodyBuffer)) \o d
  /\ ~(a.contentLength > 0) => q.sent = a.sent /\ Content(q.bodyBuffer) = Content(a.bodyBuffer) \o d

LEMMA PutJoins ==
  ASSUME NEW s \in ItemSeq, NEW z \in ItemSeq, NEW d \in ItemSeq
  PROVE  /\ (s \o (z \o d)) \o <<>> = (s \o z) \o d
         /\ s \o (z \o d) = (s \o z) \o d
         /\ ((s \o z) \o (<<>> \o d)) \o <<>> = (s \o z) \o d
         /\ (s \o z) \o (<<>> \o d) = (s \o z) \o d
         /\ (s \o d) \o <<>> = (s \o <<>>) \o d
<1>1. s \o z \in ItemSeq /\ z \o d \in ItemSeq /\ s \o d \in ItemSeq /\ (s \o z) \o d \in ItemSeq
  BY ConcatItems
<1>2. (s \o z) \o d = s \o (z \o d) BY JoinItems
<1>3. s \o <<>> = s /\ <<>> \o d = d /\ ((s \o z) \o d) \o <<>> = (s \o z) \o d /\ (s \o d) \o <<>> = s \o d
  BY <1>1, EmptyItems
<1> QED BY <1>2, <1>3, Zenon

LEMMA CachePuts ==
  ASSUME NEW a \in ResType, NEW d \in ItemSeq, NEW q, q = Cache(a, Content(a.bodyBuffer), d)
  PROVE  q \in ResType /\ Put(a, q, d)
<1> DEFINE z == Content(a.bodyBuffer)
<1>1. z \in ItemSeq /\ a.sent \in ItemSeq BY ResFields
<1>2. q = Cache(a, z, d) /\ z = Content(a.bodyBuffer) OBVIOUS
<1> HIDE DEF z
<1>3. /\ q \in ResType
      /\ \/ a.contentLength > 0 /\ Shifted(a, q, a.sent \o (z \o d), <<>>)
         \/ Shifted(a, q, a.sent, z \o d)
  BY <1>1, <1>2, CacheChanges
<1>4. (a.sent \o (z \o d)) \o <<>> = (a.sent \o z) \o d /\ a.sent \o (z \o d) = (a.sent \o z) \o d
  BY <1>1, PutJoins
<1>5. CASE a.contentLength > 0 /\ Shifted(a, q, a.sent \o (z \o d), <<>>)
  <2>1. q.sent = a.sent \o (z \o d) /\ Content(q.bodyBuffer) = <<>> BY <1>5 DEF Shifted, Changed
  <2>2. q.sent \o Content(q.bodyBuffer) = (a.sent \o z) \o d BY <1>4, <2>1, Zenon
  <2>3. Changed(a, q, a.buffer, q.bodyBuffer, q.sent, a.accepted, a.flawed) BY <1>5, <2>1 DEF Shifted
  <2> QED BY <1>2, <1>3, <1>5, <2>2, <2>3 DEF Put
<1>6. CASE Shifted(a, q, a.sent, z \o d)
  <2>1. q.sent = a.sent /\ Content(q.bodyBuffer) = z \o d BY <1>6 DEF Shifted, Changed
  <2>2. q.sent \o Content(q.bodyBuffer) = (a.sent \o z) \o d BY <1>4, <2>1, Zenon
  <2>3. Changed(a, q, a.buffer, q.bodyBuffer, q.sent, a.accepted, a.flawed) BY <1>6, <2>1 DEF Shifted
  <2> QED BY <1>2, <1>3, <2>1, <2>2, <2>3 DEF Put
<1> QED BY <1>3, <1>5, <1>6

LEMMA SendPuts ==
  ASSUME NEW a \in ResType, a.contentLength > 0, a.bodyBuffer = NoBuf, NEW d \in ItemSeq, NEW q, q = Send(a, d)
  PROVE  q \in ResType /\ Put(a, q, d)
<1>1. a.sent \in ItemSeq BY ResFields
<1>2. q \in ResType /\ Changed(a, q, a.buffer, a.bodyBuffer, a.sent \o d, a.accepted, a.flawed) BY SendChanged
<1>3. q.sent = a.sent \o d /\ q.bodyBuffer = NoBuf BY <1>2 DEF Changed
<1>4. Content(NoBuf) = <<>> BY NilBuffer
<1>5. (a.sent \o d) \o <<>> = (a.sent \o <<>>) \o d BY <1>1, PutJoins
<1>6. q.sent \o Content(q.bodyBuffer) = (a.sent \o Content(a.bodyBuffer)) \o d BY <1>3, <1>4, <1>5, Zenon
<1>7. Changed(a, q, a.buffer, q.bodyBuffer, q.sent, a.accepted, a.flawed) BY <1>2, <1>3
<1> QED BY <1>2, <1>6, <1>7 DEF Put

LEMMA SendBothPuts ==
  ASSUME NEW a \in ResType, a.contentLength > 0, a.bodyBuffer # NoBuf, NEW d \in ItemSeq,
         NEW q, q = [Send(a, a.bodyBuffer \o d) EXCEPT !.bodyBuffer = NoBuf]
  PROVE  q \in ResType /\ Put(a, q, d)
<1> DEFINE b == a.bodyBuffer
           x == b \o d
           w == Send(a, x)
<1>1. a.sent \in ItemSeq /\ b \in ItemSeq BY ResFields DEF Buffers
<1>2. x \in ItemSeq /\ Content(b) = b /\ Content(NoBuf) = <<>> /\ NoBuf \in Buffers
  BY <1>1, ConcatItems, NilBuffer DEF Buffers
<1>3. q = [w EXCEPT !.bodyBuffer = NoBuf] /\ x = b \o d OBVIOUS
<1> HIDE DEF x
<1>4. w \in ResType /\ Changed(a, w, a.buffer, a.bodyBuffer, a.sent \o x, a.accepted, a.flawed)
  BY <1>2, SendChanged
<1> HIDE DEF w
<1>5. q \in ResType /\ Changed(w, q, w.buffer, NoBuf, w.sent, w.accepted, w.flawed)
  BY <1>2, <1>3, <1>4, BodyBufferReplaced DEF ResType
<1>6. q.sent = a.sent \o x /\ q.bodyBuffer = NoBuf BY <1>4, <1>5 DEF Changed
<1>7. Changed(a, q, a.buffer, q.bodyBuffer, q.sent, a.accepted, a.flawed) BY <1>4, <1>5 DEF Changed, SameHead
<1>8. (a.sent \o (b \o d)) \o <<>> = (a.sent \o b) \o d BY <1>1, PutJoins
<1> HIDE DEF b
<1>9. q.sent \o Content(q.bodyBuffer) = (a.sent \o Content(b)) \o d BY <1>2, <1>3, <1>6, <1>8, Zenon
<1> QED BY <1>5, <1>7, <1>9 DEF Put, b

LEMMA SendThenCachePuts ==
  ASSUME NEW a \in ResType, a.contentLength > 0, a.bodyBuffer # NoBuf, NEW d \in ItemSeq,
         NEW q, q = Cache(Send(a, a.bodyBuffer), <<>>, d)
  PROVE  q \in ResType /\ Put(a, q, d)
<1> DEFINE b == a.bodyBuffer
           w == Send(a, b)
<1>1. a.sent \in ItemSeq /\ b \in ItemSeq BY ResFields DEF Buffers
<1>2. Content(b) = b /\ <<>> \in ItemSeq BY <1>1, NilBuffer, ItemFacts
<1>3. q = Cache(w, <<>>, d) OBVIOUS
<1>4. w \in ResType /\ Changed(a, w, a.buffer, a.bodyBuffer, a.sent \o b, a.accepted, a.flawed)
  BY <1>1, SendChanged
<1> HIDE DEF w
<1>5. /\ q \in ResType
      /\ \/ w.contentLength > 0 /\ Shifted(w, q, w.sent \o (<<>> \o d), <<>>)
         \/ Shifted(w, q, w.sent, <<>> \o d)
  BY <1>2, <1>3, <1>4, CacheChanges
<1>6. w.sent = a.sent \o b BY <1>4 DEF Changed
<1>7. ((a.sent \o b) \o (<<>> \o d)) \o <<>> = (a.sent \o b) \o d /\ (a.sent \o b) \o (<<>> \o d) = (a.sent \o b) \o d
  BY <1>1, PutJoins
<1>8. Changed(a, q, a.buffer, q.bodyBuffer, q.sent, a.accepted, a.flawed)
  BY <1>4, <1>5 DEF Shifted, Changed, SameHead
<1>9. \/ q.sent = w.sent \o (<<>> \o d) /\ Content(q.bodyBuffer) = <<>>
      \/ q.sent = w.sent /\ Content(q.bodyBuffer) = <<>> \o d
  BY <1>5 DEF Shifted, Changed
<1> HIDE DEF b
<1>10. q.sent \o Content(q.bodyBuffer) = (a.sent \o Content(b)) \o d BY <1>2, <1>6, <1>7, <1>9, Zenon
<1> QED BY <1>5, <1>8, <1>10 DEF Put, b

\* TakeHead encodes the head if a length was declared, and leaves no buffer.
LEMMA TakeHeadChanges ==
  ASSUME NEW r \in ResType, NEW n \in Nat, NEW q, q = TakeHead(r, n)
  PROVE  /\ q \in ResType /\ SameHead(r, q) /\ q.accepted = r.accepted /\ q.flawed = r.flawed
         /\ ~(r.contentLength > 0) => q = r
         /\ r.contentLength > 0 => q.headEncoded /\ q.buffer = NoBuf
         /\ r.contentLength > 0 /\ Structured(r) /\ r.statusCode # 0 /\ r.chunkChecked =>
              Stream(q) = Stream(eoncodeHead(r))
<1>0. r.contentLength \in Int BY ResFields DEF None, Invalid
<1>1. CASE ~(r.contentLength > 0)
  <2>1. r.contentLength <= 0 BY <1>0, <1>1
  <2>2. q = r BY <2>1 DEF TakeHead
  <2> QED BY <1>1, <2>2 DEF SameHead
<1>2. CASE r.contentLength > 0
  <2> DEFINE h == eoncodeHead(r)
  <2>0. ~(r.contentLength <= 0) BY <1>0, <1>2
  <2>1. q = IF h.buffer = NoBuf THEN h
            ELSE IF Len(h.buffer) + n < maxPacketSize THEN [h EXCEPT !.bodyBuffer = h.buffer, !.buffer = NoBuf]
            ELSE [Send(h, h.buffer) EXCEPT !.buffer = NoBuf]
    BY <2>0, Zenon DEF TakeHead
  <2>2. /\ h \in ResType /\ SameHead(r, h) /\ h.headEncoded /\ h.accepted = r.accepted /\ h.flawed = r.flawed
        /\ h.sent = r.sent /\ h.bodyBuffer = r.bodyBuffer
        /\ r.headEncoded => h = r
    BY eoncodeHeadFields
  <2>3. h.sent \in ItemSeq /\ h.buffer \in Buffers /\ h.bodyBuffer \in Buffers BY <2>2, ResFields
  <2>4. ASSUME Structured(r), h.buffer # NoBuf PROVE Content(h.bodyBuffer) = <<>>
    <3>1. CASE r.headEncoded BY <2>2, <2>4, <3>1 DEF Structured, Cached
    <3>2. CASE ~r.headEncoded
      <4>1. Units(Content(r.bodyBuffer), r.accepted) /\ r.accepted = 0 BY <1>2, <2>4, <3>2 DEF Structured, Unsent
      <4> QED BY <2>2, <4>1, ResFields, ItemFacts DEF Units
    <3> QED BY <3>1, <3>2
  <2> DEFINE S == Stream(h)
  <2>5. S = Stream(eoncodeHead(r)) OBVIOUS
  <2> HIDE DEF h, S
  <2>6. CASE h.buffer = NoBuf
    <3>1. q = h BY <2>1, <2>6
    <3> QED BY <1>2, <2>2, <2>5, <2>6, <3>1 DEF S
  <2>7. CASE h.buffer # NoBuf
    <3>1. h.buffer \in ItemSeq /\ Content(h.buffer) = h.buffer BY <2>3, <2>7, NilBuffer DEF Buffers
    <3>2. NoBuf \in Buffers /\ Content(NoBuf) = <<>> BY NilBuffer DEF Buffers
    <3>3. ASSUME Structured(r) PROVE S = h.sent \o h.buffer
      <4>1. S = (h.sent \o h.buffer) \o <<>> BY <2>4, <2>7, <3>1, <3>3 DEF S, Stream
      <4>2. h.sent \o h.buffer \in ItemSeq BY <2>3, <3>1, ConcatItems
      <4> QED BY <4>1, <4>2, EmptyItems
    <3>4. CASE q = [h EXCEPT !.bodyBuffer = h.buffer, !.buffer = NoBuf]
      <4>0. q \in ResType /\ Changed(h, q, NoBuf, h.buffer, h.sent, h.accepted, h.flawed)
        <5>1. h \in ResOf(Buffers, ItemSeq) BY <2>2 DEF ResType
        <5> QED BY <2>3, <3>2, <3>4, <5>1, BothReplaced DEF ResType
      <4>1. q \in ResType /\ SameHead(h, q) BY <4>0 DEF Changed
      <4>2. /\ q.headEncoded = h.headEncoded /\ q.accepted = h.accepted /\ q.flawed = h.flawed
        BY <4>0 DEF Changed
      <4>3. q.sent = h.sent /\ q.buffer = NoBuf /\ q.bodyBuffer = h.buffer
        BY <4>0 DEF Changed
      <4>4. Stream(q) = h.sent \o h.buffer
        <5>1. Stream(q) = (h.sent \o <<>>) \o h.buffer BY <3>1, <3>2, <4>3 DEF Stream
        <5> QED BY <2>3, <5>1, EmptyItems
      <4>5. SameHead(r, q) /\ q.accepted = r.accepted /\ q.flawed = r.flawed BY <2>2, <4>1, <4>2 DEF SameHead
      <4> QED BY <1>2, <2>2, <2>5, <3>3, <4>1, <4>2, <4>3, <4>4, <4>5
    <3>5. CASE q = [Send(h, h.buffer) EXCEPT !.buffer = NoBuf]
      <4> DEFINE w == Send(h, h.buffer)
      <4>0. w \in ResType /\ Changed(h, w, h.buffer, h.bodyBuffer, h.sent \o h.buffer, h.accepted, h.flawed)
        BY <2>2, <3>1, SendChanged
      <4>w. q = [w EXCEPT !.buffer = NoBuf] BY <3>5
      <4> HIDE DEF w
      <4>z. q \in ResType /\ Changed(w, q, NoBuf, w.bodyBuffer, w.sent, w.accepted, w.flawed)
        <5>1. w \in ResOf(Buffers, ItemSeq) BY <4>0 DEF ResType
        <5> QED BY <3>2, <4>w, <5>1, BufferReplaced DEF ResType
      <4>1. q \in ResType /\ SameHead(w, q) BY <4>z DEF Changed
      <4>2. /\ q.headEncoded = w.headEncoded /\ q.accepted = w.accepted /\ q.flawed = w.flawed
        BY <4>z DEF Changed
      <4>3. q.sent = w.sent /\ q.buffer = NoBuf /\ q.bodyBuffer = w.bodyBuffer
        BY <4>z DEF Changed
      <4>4. /\ SameHead(r, q) /\ q.accepted = r.accepted /\ q.flawed = r.flawed /\ q.headEncoded
            /\ q.sent = h.sent \o h.buffer /\ q.bodyBuffer = h.bodyBuffer
        BY <2>2, <4>0, <4>1, <4>2, <4>3 DEF Changed, SameHead
      <4>5. ASSUME Structured(r) PROVE Stream(q) = h.sent \o h.buffer
        <5>1. Content(h.bodyBuffer) = <<>> BY <2>4, <2>7, <4>5
        <5>2. Stream(q) = ((h.sent \o h.buffer) \o <<>>) \o <<>> BY <3>2, <4>3, <4>4, <5>1 DEF Stream
        <5>3. h.sent \o h.buffer \in ItemSeq BY <2>3, <3>1, ConcatItems
        <5> QED BY <5>2, <5>3, EmptyItems
      <4> QED BY <1>2, <2>5, <3>3, <4>1, <4>3, <4>4, <4>5
    <3> QED BY <2>1, <2>7, <3>4, <3>5
  <2> QED BY <2>6, <2>7
<1> QED BY <1>1, <1>2

\* a is w with n more units taken, flawed if f.
Taken(w, a, n, f) == Changed(w, a, w.buffer, w.bodyBuffer, w.sent, w.accepted + n, w.flawed \/ f)

LEMMA writeBodyPuts ==
  ASSUME NEW r \in ResType, NEW n \in Nat, NEW q, q = writeBody(r, n)
  PROVE  /\ q \in ResType
         /\ \E a \in ResType :
              /\ Taken(TakeHead(r, n), a, n, r.headEncoded /\ r.contentLength = None)
              /\ Put(a, q, Data(r, n))
<1> DEFINE w == TakeHead(r, n)
           f == w.flawed \/ (r.headEncoded /\ r.contentLength = None)
           a == [w EXCEPT !.bodyWritten = @ + n, !.accepted = @ + n,
                          !.flawed = @ \/ (r.headEncoded /\ r.contentLength = None)]
           d == Data(r, n)
           b == a.bodyBuffer
           big == r.contentLength > 0 /\ n >= maxPacketSize
<1>1. q = CASE b = NoBuf /\ big -> Send(a, d)
            [] b = NoBuf /\ ~big -> Cache(a, <<>>, d)
            [] b # NoBuf /\ r.contentLength > 0 /\ Len(b) + n > maxPacketSize ->
                 IF big THEN [Send(a, b \o d) EXCEPT !.bodyBuffer = NoBuf] ELSE Cache(Send(a, b), <<>>, d)
            [] OTHER -> Cache(a, b, d)
  BY Zenon DEF writeBody
<1>2. w \in ResType /\ SameHead(r, w) BY TakeHeadChanges
<1>3. f \in BOOLEAN OBVIOUS
<1>4. a = [w EXCEPT !.bodyWritten = @ + n, !.accepted = @ + n, !.flawed = f]
  BY <1>2 DEF ResType, ResOf
<1>5. d \in ItemSeq BY DataItems, ResFields
<1>6. r.contentLength \in Int BY ResFields DEF None, Invalid
<1> HIDE DEF f, a, d, w
<1>7. a \in ResType /\ Changed(w, a, w.buffer, w.bodyBuffer, w.sent, w.accepted + n, f)
  <2> DEFINE v == w.bodyWritten + n
             m == w.accepted + n
  <2>1. v \in Nat /\ m \in Nat BY <1>2, ResFields
  <2>2. a = [w EXCEPT !.bodyWritten = v, !.accepted = m, !.flawed = f] BY <1>4
  <2> HIDE DEF v, m
  <2>3. a \in ResType BY <1>2, <1>3, <2>1, <2>2 DEF ResType, ResOf
  <2>4. SameHead(w, a) /\ a.headEncoded = w.headEncoded /\ a.flawed = f
    BY <1>2, <1>3, <2>1, <2>2 DEF ResType, ResOf, SameHead
  <2>5. a.buffer = w.buffer /\ a.bodyBuffer = w.bodyBuffer /\ a.sent = w.sent /\ a.accepted = m
    BY <1>2, <1>3, <2>1, <2>2 DEF ResType, ResOf
  <2> QED BY <2>3, <2>4, <2>5 DEF Changed, m
<1>8. a.contentLength = r.contentLength BY <1>2, <1>7 DEF Changed, SameHead
<1>9. q \in ResType /\ Put(a, q, d)
  <2>1. CASE b = NoBuf /\ big
    <3>1. q = Send(a, d) BY <1>1, <2>1, Zenon
    <3> QED BY <1>5, <1>7, <1>8, <2>1, <3>1, SendPuts
  <2>2. CASE b = NoBuf /\ ~big
    <3>1. q = Cache(a, <<>>, d) BY <1>1, <2>2, Zenon
    <3>2. Content(a.bodyBuffer) = <<>> BY <2>2, NilBuffer
    <3> QED BY <1>5, <1>7, <3>1, <3>2, CachePuts
  <2>3. CASE b # NoBuf /\ r.contentLength > 0 /\ Len(b) + n > maxPacketSize
    <3>1. q = IF big THEN [Send(a, b \o d) EXCEPT !.bodyBuffer = NoBuf] ELSE Cache(Send(a, b), <<>>, d)
      BY <1>1, <2>3, Zenon
    <3>2. a.contentLength > 0 BY <1>8, <2>3
    <3>3. CASE big
      <4>1. q = [Send(a, b \o d) EXCEPT !.bodyBuffer = NoBuf] BY <3>1, <3>3, Zenon
      <4> QED BY <1>5, <1>7, <2>3, <3>2, <4>1, SendBothPuts
    <3>4. CASE ~big
      <4>1. q = Cache(Send(a, b), <<>>, d) BY <3>1, <3>4, Zenon
      <4> QED BY <1>5, <1>7, <2>3, <3>2, <4>1, SendThenCachePuts
    <3> QED BY <3>3, <3>4
  <2>4. CASE b # NoBuf /\ ~(r.contentLength > 0 /\ Len(b) + n > maxPacketSize)
    <3>1. q = Cache(a, b, d) BY <1>1, <2>4, Zenon
    <3>2. Content(a.bodyBuffer) = b BY <2>4 DEF Content
    <3> QED BY <1>5, <1>7, <3>1, <3>2, CachePuts
  <2> QED BY <2>1, <2>2, <2>3, <2>4
<1> QED BY <1>7, <1>9 DEF f, d, w, Taken

LEMMA writeBodyKeeps ==
  ASSUME NEW r, Prepared(r), ~r.chunked, NEW n \in Nat \ {0}, NEW q, q = writeBody(r, n)
  PROVE  ResOK(q)
<1> DEFINE d == Data(r, n)
           w == TakeHead(r, n)
           h == eoncodeHead(r)
<1>1. r \in ResType /\ r.statusCode # 0 /\ r.chunkChecked /\ (Lost(r) \/ Structured(r)) BY DEF Prepared, ResOK
<1>2. /\ r.accepted \in Nat /\ r.contentLength \in Nat \cup {None, Invalid} /\ r.sent \in ItemSeq
      /\ Content(r.bodyBuffer) \in ItemSeq
  BY <1>1, ResFields
<1>3. d \in ItemSeq /\ Len(d) = n /\ \A k \in 1 .. n : d[k] = <<"data", r.accepted + k>> BY <1>2, DataItems
<1>4. q \in ResType BY <1>1, writeBodyPuts
<1>5. PICK a \in ResType : Taken(w, a, n, r.headEncoded /\ r.contentLength = None) /\ Put(a, q, d)
  BY <1>1, writeBodyPuts
<1>6. /\ w \in ResType /\ SameHead(r, w) /\ w.accepted = r.accepted /\ w.flawed = r.flawed
      /\ ~(r.contentLength > 0) => w = r
      /\ r.contentLength > 0 => w.headEncoded /\ w.buffer = NoBuf
      /\ r.contentLength > 0 /\ Structured(r) => Stream(w) = Stream(h)
  BY <1>1, TakeHeadChanges
<1> HIDE DEF d, w, h
<1>7. /\ SameHead(w, a) /\ a.headEncoded = w.headEncoded /\ a.buffer = w.buffer /\ a.bodyBuffer = w.bodyBuffer
      /\ a.sent = w.sent /\ a.accepted = w.accepted + n
      /\ a.flawed = (w.flawed \/ (r.headEncoded /\ r.contentLength = None))
  BY <1>5 DEF Taken, Changed
<1>8. /\ SameHead(a, q) /\ q.headEncoded = a.headEncoded /\ q.buffer = a.buffer
      /\ q.accepted = a.accepted /\ q.flawed = a.flawed
  BY <1>5 DEF Put, Changed
<1>9. SameHead(r, q) /\ q.accepted = r.accepted + n /\ q.headEncoded = w.headEncoded /\ q.buffer = w.buffer
  BY <1>6, <1>7, <1>8 DEF SameHead
<1>10. /\ q.contentLength = r.contentLength /\ q.statusCode = r.statusCode
       /\ q.chunkChecked = r.chunkChecked /\ q.chunked = r.chunked /\ a.contentLength = r.contentLength
  BY <1>6, <1>7, <1>9 DEF SameHead
<1>11. CASE Lost(r)
  <2>1. q.accepted >= r.accepted BY <1>2, <1>9
  <2>2. r.flawed => q.flawed BY <1>6, <1>7, <1>8
  <2> QED BY <1>1, <1>4, <1>9, <1>11, <2>1, <2>2, LostStays DEF ResOK
<1>12. CASE Structured(r)
  <2>1. Settled(r) /\ r.contentLength # Invalid BY <1>1, <1>12 DEF Structured, Settled
  <2>2. Settled(q) BY <1>1, <1>10, <2>1 DEF Settled
  <2>3. CASE r.contentLength > 0
    <3>1. Stream(w) = Stream(h) /\ q.headEncoded /\ q.buffer = NoBuf BY <1>6, <1>9, <1>12, <2>3
    <3>2. /\ h \in ResType /\ Begun(h) /\ SameHead(r, h) /\ h.accepted = r.accepted
      BY <1>1, <1>12, HeadEncoded DEF h
    <3>3. Stream(q) = Stream(h) \o d
      <4>1. Content(NoBuf) = <<>> BY NilBuffer
      <4>2. Stream(q) = (q.sent \o <<>>) \o Content(q.bodyBuffer) BY <3>1, <4>1 DEF Stream
      <4>3. Stream(w) = (a.sent \o <<>>) \o Content(a.bodyBuffer) BY <1>6, <1>7, <2>3, <4>1 DEF Stream
      <4>4. q.sent \o <<>> = q.sent /\ a.sent \o <<>> = a.sent BY <1>4, <1>5, ResFields, EmptyItems
      <4>5. q.sent \o Content(q.bodyBuffer) = (a.sent \o Content(a.bodyBuffer)) \o d BY <1>5 DEF Put
      <4> QED BY <3>1, <4>2, <4>3, <4>4, <4>5, Zenon
    <3>4. q.statusCode = h.statusCode /\ q.contentLength = h.contentLength /\ q.chunked = h.chunked
      BY <1>10, <3>2 DEF SameHead
    <3>5. NextPart(d, h.chunked, h.accepted, n) BY <1>3, <1>10, <3>2, <3>4 DEF NextPart
    <3>6. Framed(h) /\ h.accepted \in Nat /\ HeadItem(h) \in Items BY <3>2, ResFields, HeadItemTyped DEF Begun
    <3>7. h.contentLength # None /\ q.accepted = h.accepted + n BY <1>9, <1>10, <2>3, <3>2, <3>4 DEF None
    <3>8. Framed(q) BY <1>3, <3>3, <3>4, <3>5, <3>6, <3>7, FramedExtends
    <3>9. Cached(q) /\ Begun(q) BY <1>1, <1>10, <2>3, <3>1, <3>8 DEF Cached, Begun
    <3> QED BY <1>4, <2>2, <3>1, <3>9 DEF ResOK, Structured
  <2>4. CASE r.contentLength = 0
    <3>1. q.accepted > 0 BY <1>2, <1>9
    <3> QED BY <1>1, <1>4, <1>10, <2>4, <3>1 DEF ResOK, Lost
  <2>5. CASE r.contentLength = None /\ r.headEncoded
    <3>1. q.flawed BY <1>7, <1>8, <2>5
    <3> QED BY <1>4, <3>1 DEF ResOK, Lost
  <2>6. CASE r.contentLength = None /\ ~r.headEncoded
    <3>1. ~(r.contentLength > 0) /\ w = r BY <1>6, <2>6 DEF None
    <3>2. q.sent = a.sent /\ Content(q.bodyBuffer) = Content(a.bodyBuffer) \o d BY <1>5, <1>10, <3>1 DEF Put
    <3>3. Unsent(r) BY <1>12, <2>6 DEF Structured
    <3>4. q.sent = <<>> /\ q.buffer = NoBuf /\ Content(q.bodyBuffer) = Content(r.bodyBuffer) \o d
      BY <1>7, <1>9, <3>1, <3>2, <3>3 DEF Unsent
    <3>5. Units(Content(r.bodyBuffer) \o d, r.accepted + n) BY <1>2, <1>3, <3>3, UnitsExtend DEF Unsent
    <3>6. Unsent(q) BY <1>9, <1>10, <3>1, <3>4, <3>5 DEF Unsent
    <3>7. ~q.headEncoded BY <1>9, <2>6, <3>1
    <3> QED BY <1>4, <2>2, <3>6, <3>7 DEF ResOK, Structured
  <2>7. r.contentLength > 0 \/ r.contentLength = 0 \/ r.contentLength = None BY <1>2, <2>1
  <2> QED BY <2>3, <2>4, <2>5, <2>6, <2>7
<1> QED BY <1>1, <1>11, <1>12

-----------------------------------------------------------------------------
(* The operations of a handler.                                            *)

LEMMA HasBodyKeeps ==
  ASSUME NEW r, ResOK(r), NEW q, q = [r EXCEPT !.hasBody = TRUE]
  PROVE  ResOK(q) /\ Changed(r, q, r.buffer, r.bodyBuffer, r.sent, r.accepted, r.flawed)
<1>1. r \in ResType /\ (Lost(r) \/ Structured(r)) BY DEF ResOK
<1>2. q \in ResType /\ SameHead(r, q) BY <1>1 DEF ResType, ResOf, SameHead
<1>3. q.headEncoded = r.headEncoded /\ q.flawed = r.flawed BY <1>1 DEF ResType, ResOf
<1>4. q.buffer = r.buffer /\ q.bodyBuffer = r.bodyBuffer /\ q.sent = r.sent /\ q.accepted = r.accepted
  BY <1>1 DEF ResType, ResOf
<1>5. /\ q.contentLength = r.contentLength /\ q.te = r.te /\ q.trailers = r.trailers
      /\ q.statusCode = r.statusCode /\ q.chunkChecked = r.chunkChecked
      /\ q.chunked = r.chunked /\ q.hijacked = r.hijacked
  BY <1>2 DEF SameHead
<1>6. Changed(r, q, r.buffer, r.bodyBuffer, r.sent, r.accepted, r.flawed) BY <1>2, <1>3, <1>4 DEF Changed
<1>7. CASE Lost(r) BY <1>2, <1>3, <1>4, <1>5, <1>6, <1>7 DEF Lost, ResOK
<1>8. CASE Structured(r)
  <2>1. Settled(q) BY <1>3, <1>4, <1>5, <1>8 DEF Structured, Settled
  <2>2. ASSUME ~r.headEncoded PROVE Unsent(q) BY <1>4, <1>5, <1>8, <2>2 DEF Structured, Unsent
  <2>3. ASSUME r.headEncoded PROVE Begun(q) /\ Cached(q)
    <3>1. Framed(r) /\ r.statusCode # 0 /\ Cached(r) BY <1>8, <2>3 DEF Structured, Begun
    <3>2. Framed(q) BY <1>4, <1>5, <3>1, SameFraming
    <3> QED BY <1>4, <1>5, <3>1, <3>2 DEF Begun, Cached
  <2>4. Structured(q) BY <1>3, <2>1, <2>2, <2>3 DEF Structured
  <2> QED BY <1>2, <1>6, <2>4 DEF ResOK
<1> QED BY <1>1, <1>7, <1>8

LEMMA WriteKeeps ==
  ASSUME NEW r, ResOK(r), ~r.hijacked, NEW n \in Nat \ {0}
  PROVE  ResOK(Write(r, n))
<1> DEFINE v == WriteHeader(r, 200)
           z == checkChunked(v)
           w == [z EXCEPT !.hasBody = TRUE]
<1>1. ResOK(v) /\ v.statusCode # 0 /\ ~v.hijacked BY WriteHeaderKeeps
<1>2. Prepared(z) BY <1>1, checkChunkedKeeps
<1>3. Prepared(w) BY <1>2, HasBodyKeeps DEF Prepared, Changed, SameHead
<1>4. Write(r, n) = IF w.chunked THEN writeChunk(w, n)
                    ELSE IF w.contentLength > 0 /\ w.bodyWritten + n > w.contentLength THEN w
                    ELSE writeBody(w, n)
  BY Zenon DEF Write
<1> HIDE DEF w
<1>5. CASE w.chunked BY <1>3, <1>4, <1>5, writeChunkKeeps
<1>6. CASE ~w.chunked /\ w.contentLength > 0 /\ w.bodyWritten + n > w.contentLength
  BY <1>3, <1>4, <1>6 DEF Prepared
<1>7. CASE ~w.chunked /\ ~(w.contentLength > 0 /\ w.bodyWritten + n > w.contentLength)
  BY <1>3, <1>4, <1>7, writeBodyKeeps
<1> QED BY <1>5, <1>6, <1>7

LEMMA HijackKeeps ==
  ASSUME NEW r, ResOK(r)
  PROVE  ResOK(Hijack(r))
<1>1. Hijack(r) \in ResType /\ Hijack(r).hijacked = TRUE BY DEF ResOK, ResType, ResOf, Hijack
<1> QED BY <1>1 DEF ResOK, Lost

\* The same stream with the same settings.
LEMMA SameStream ==
  ASSUME NEW r, NEW q, Stream(q) = Stream(r), q.accepted = r.accepted, q.statusCode = r.statusCode,
         q.chunked = r.chunked, q.contentLength = r.contentLength, Framed(r)
  PROVE  Framed(q)
BY DEF Framed, HeadItem

\* What was cached is sent.
LEMMA AllSent ==
  ASSUME NEW h \in ResType, NEW b \in Buffers, NEW z \in Buffers, NEW x \in ItemSeq,
         NEW q, q = [Send(h, x) EXCEPT !.buffer = b, !.bodyBuffer = z]
  PROVE  q \in ResType /\ Changed(h, q, b, z, h.sent \o x, h.accepted, h.flawed)
<1> DEFINE w == Send(h, x)
<1>1. w \in ResType /\ Changed(h, w, h.buffer, h.bodyBuffer, h.sent \o x, h.accepted, h.flawed) BY SendChanged
<1>2. q = [w EXCEPT !.buffer = b, !.bodyBuffer = z] OBVIOUS
<1> HIDE DEF w
<1>3. q \in ResType /\ SameHead(w, q) BY <1>1, <1>2 DEF ResType, ResOf, SameHead
<1>4. q.headEncoded = w.headEncoded /\ q.flawed = w.flawed BY <1>1, <1>2 DEF ResType, ResOf
<1>5. q.sent = w.sent /\ q.accepted = w.accepted /\ q.buffer = b /\ q.bodyBuffer = z
  BY <1>1, <1>2 DEF ResType, ResOf
<1> QED BY <1>1, <1>3, <1>4, <1>5 DEF Changed, SameHead

LEMMA SendJoins ==
  ASSUME NEW s \in ItemSeq, NEW b \in ItemSeq, NEW z \in ItemSeq
  PROVE  /\ s \o (b \o z) = (s \o b) \o z
         /\ ((s \o (b \o z)) \o <<>>) \o <<>> = (s \o b) \o z
         /\ ((s \o (b \o z)) \o <<>>) \o <<>> = ((s \o b) \o <<>>) \o z
         /\ s \o (b \o z) = ((s \o b) \o <<>>) \o z
<1>1. s \o b \in ItemSeq /\ b \o z \in ItemSeq /\ s \o (b \o z) \in ItemSeq BY ConcatItems
<1>2. (s \o b) \o z = s \o (b \o z) BY JoinItems
<1>3. (s \o (b \o z)) \o <<>> = s \o (b \o z) /\ (s \o b) \o <<>> = s \o b BY <1>1, EmptyItems
<1> QED BY <1>2, <1>3, Zenon

LEMMA FlushKeeps ==
  ASSUME NEW r, ResOK(r), ~r.hijacked
  PROVE  ResOK(Flush(r))
<1> DEFINE v == WriteHeader(r, 200)
           p == checkChunked(v)
           h == eoncodeHead(p)
           emptied(b) == IF b = NoBuf THEN NoBuf ELSE <<>>
           x == Content(h.buffer) \o Content(h.bodyBuffer)
           q == [Send(h, x) EXCEPT !.buffer = emptied(@), !.bodyBuffer = emptied(@)]
<1>1. ResOK(v) /\ v.statusCode # 0 /\ ~v.hijacked BY WriteHeaderKeeps
<1>2. Prepared(p) BY <1>1, checkChunkedKeeps
<1>3. Flush(r) = q BY Zenon DEF Flush
<1>4. p \in ResType /\ p.statusCode # 0 /\ p.chunkChecked /\ (Lost(p) \/ Structured(p)) BY <1>2 DEF Prepared, ResOK
<1>5. /\ h \in ResType /\ SameHead(p, h) /\ h.headEncoded /\ h.accepted = p.accepted /\ h.flawed = p.flawed
  BY <1>4, eoncodeHeadFields
<1>6. h = eoncodeHead(p) OBVIOUS
<1> HIDE DEF p, h
<1>7. h.sent \in ItemSeq /\ Content(h.buffer) \in ItemSeq /\ Content(h.bodyBuffer) \in ItemSeq /\ h.accepted \in Nat
  BY <1>5, ResFields
<1>8. x \in ItemSeq BY <1>7, ConcatItems
<1>9. /\ emptied(h.buffer) \in Buffers /\ emptied(h.bodyBuffer) \in Buffers
      /\ Content(emptied(h.buffer)) = <<>> /\ Content(emptied(h.bodyBuffer)) = <<>>
  BY NilBuffer, ItemFacts DEF Buffers
<1>10. q = [Send(h, x) EXCEPT !.buffer = emptied(h.buffer), !.bodyBuffer = emptied(h.bodyBuffer)]
  <2>1. Send(h, x).buffer = h.buffer /\ Send(h, x).bodyBuffer = h.bodyBuffer
    BY <1>5, <1>8, SendChanged DEF Changed
  <2> QED BY <2>1, Zenon
<1>11. x = Content(h.buffer) \o Content(h.bodyBuffer) OBVIOUS
<1> DEFINE b == emptied(h.buffer)
           z == emptied(h.bodyBuffer)
<1> HIDE DEF q, x, emptied, b, z
<1>12. q = [Send(h, x) EXCEPT !.buffer = b, !.bodyBuffer = z] BY <1>10 DEF b, z
<1>13. b \in Buffers /\ z \in Buffers /\ Content(b) = <<>> /\ Content(z) = <<>> BY <1>9 DEF b, z
<1>14. q \in ResType /\ Changed(h, q, b, z, h.sent \o x, h.accepted, h.flawed)
  BY <1>5, <1>8, <1>12, <1>13, AllSent
<1>15. /\ q.headEncoded = h.headEncoded /\ q.flawed = h.flawed /\ q.accepted = h.accepted
       /\ q.sent = h.sent \o x /\ q.buffer = b /\ q.bodyBuffer = z /\ SameHead(h, q)
  BY <1>14 DEF Changed
<1>16. CASE Lost(p)
  <2>1. SameHead(p, q) /\ (p.flawed => q.flawed) /\ q.accepted = p.accepted BY <1>5, <1>15 DEF SameHead
  <2>2. q.accepted >= p.accepted BY <1>7, <1>15, <2>1
  <2> QED BY <1>3, <1>4, <1>14, <1>16, <2>1, <2>2, LostStays DEF ResOK
<1>17. CASE Structured(p)
  <2>1. Settled(h) /\ Framed(h) /\ h.statusCode # 0 BY <1>4, <1>6, <1>17, HeadEncoded DEF Begun
  <2>2. /\ q.contentLength = h.contentLength /\ q.te = h.te /\ q.trailers = h.trailers
        /\ q.statusCode = h.statusCode /\ q.chunkChecked = h.chunkChecked /\ q.chunked = h.chunked
    BY <1>15 DEF SameHead
  <2>3. Stream(q) = Stream(h)
    <3>1. Stream(q) = ((h.sent \o (Content(h.buffer) \o Content(h.bodyBuffer))) \o <<>>) \o <<>>
      BY <1>11, <1>13, <1>15 DEF Stream
    <3>2. Stream(h) = (h.sent \o Content(h.buffer)) \o Content(h.bodyBuffer) BY DEF Stream
    <3>3. ((h.sent \o (Content(h.buffer) \o Content(h.bodyBuffer))) \o <<>>) \o <<>>
            = (h.sent \o Content(h.buffer)) \o Content(h.bodyBuffer)
      BY <1>7, SendJoins, Zenon
    <3> QED BY <3>1, <3>2, <3>3, Zenon
  <2>4. Framed(q) BY <1>15, <2>1, <2>2, <2>3, SameStream
  <2>5. Content(q.bodyBuffer) = <<>> BY <1>13, <1>15
  <2>6. Settled(q) BY <1>15, <2>1, <2>2, <2>5 DEF Settled
  <2>7. Begun(q) /\ Cached(q) BY <2>1, <2>2, <2>4, <2>5 DEF Begun, Cached
  <2>8. q.headEncoded BY <1>5, <1>15
  <2> QED BY <1>3, <1>14, <2>6, <2>7, <2>8 DEF ResOK, Structured
<1> QED BY <1>4, <1>16, <1>17

LEMMA ReadFromKeeps ==
  ASSUME NEW r, ResOK(r), ~r.hijacked, ~ReadFromPanics(r), NEW n \in Nat \ {0}
  PROVE  ResOK(ReadFrom(r, n))
<1> DEFINE v == [r EXCEPT !.hasBody = TRUE]
           h == eoncodeHead(v)
           d == Data(r, n)
           x == h.buffer \o d
           flaw == r.statusCode = 0 \/ r.contentLength = None \/ r.te \/ r.trailers
           f == h.flawed \/ flaw
           m == h.accepted + n
           q == [Send(h, x) EXCEPT !.buffer = NoBuf, !.accepted = @ + n,
                   !.flawed = @ \/ r.statusCode = 0 \/ r.contentLength = None \/ r.te \/ r.trailers]
<1>1. ReadFrom(r, n) = q BY Zenon DEF ReadFrom
<1>2. ResOK(v) /\ Changed(r, v, r.buffer, r.bodyBuffer, r.sent, r.accepted, r.flawed) BY HasBodyKeeps
<1>3. v \in ResType /\ (Lost(v) \/ Structured(v)) BY <1>2 DEF ResOK
<1>4. /\ v.headEncoded = r.headEncoded /\ v.buffer = r.buffer /\ v.accepted = r.accepted /\ v.flawed = r.flawed
      /\ v.statusCode = r.statusCode /\ v.contentLength = r.contentLength
      /\ v.te = r.te /\ v.trailers = r.trailers
  BY <1>2 DEF Changed, SameHead
<1> HIDE DEF v
<1>5. /\ h \in ResType /\ SameHead(v, h) /\ h.headEncoded /\ h.accepted = v.accepted /\ h.flawed = v.flawed
      /\ h.bodyBuffer = v.bodyBuffer /\ (v.headEncoded => h = v)
  BY <1>3, eoncodeHeadFields
<1>m. ~v.headEncoded => \E y \in Items : h.buffer = <<y>> BY <1>3, eoncodeHeadMade
<1>6. h = eoncodeHead(v) OBVIOUS
<1>7. h.buffer \in ItemSeq
  <2>1. CASE v.headEncoded
    <3>1. h.buffer # NoBuf BY <1>4, <1>5, <2>1 DEF ReadFromPanics
    <3>2. h.buffer \in Buffers BY <1>5, ResFields
    <3> QED BY <3>1, <3>2 DEF Buffers
  <2>2. CASE ~v.headEncoded
    <3>1. PICK y \in Items : h.buffer = <<y>> BY <1>m, <2>2
    <3>2. <<>> \in ItemSeq BY ItemFacts
    <3>3. <<y>> \in ItemSeq BY <3>2, HeadOfStream
    <3> QED BY <3>1, <3>3
  <2> QED BY <2>1, <2>2
<1>8. /\ r.accepted \in Nat /\ h.accepted \in Nat /\ h.sent \in ItemSeq /\ h.bodyBuffer \in Buffers
  BY <1>5, ResFields DEF ResOK
<1>9. d \in ItemSeq /\ Len(d) = n /\ \A k \in 1 .. n : d[k] = <<"data", r.accepted + k>> BY <1>8, DataItems
<1>10. x = h.buffer \o d OBVIOUS
<1> HIDE DEF h, d
<1>11. x \in ItemSeq BY <1>7, <1>9, ConcatItems
<1>12. m \in Nat /\ f \in BOOLEAN /\ flaw \in BOOLEAN BY <1>8
<1> HIDE DEF x
<1> DEFINE w == Send(h, x)
<1>13. w \in ResType /\ Changed(h, w, h.buffer, h.bodyBuffer, h.sent \o x, h.accepted, h.flawed)
  BY <1>5, <1>11, SendChanged
<1>14. w.accepted = h.accepted /\ w.flawed = h.flawed BY <1>13 DEF Changed
<1>15. q = [w EXCEPT !.buffer = NoBuf, !.accepted = m, !.flawed = f]
  <2>1. f = (h.flawed \/ r.statusCode = 0 \/ r.contentLength = None \/ r.te \/ r.trailers) OBVIOUS
  <2>2. m = h.accepted + n OBVIOUS
  <2> HIDE DEF m, f, w, flaw
  <2> QED BY <1>14, <2>1, <2>2 DEF w
<1>16. f = (h.flawed \/ flaw) /\ m = h.accepted + n /\ (flaw <=> r.statusCode = 0 \/ r.contentLength = None \/ r.te \/ r.trailers)
  BY <1>12
<1> HIDE DEF q, w, m, f, flaw
<1>17. NoBuf \in Buffers /\ Content(NoBuf) = <<>> BY NilBuffer DEF Buffers
<1>18. q \in ResType /\ SameHead(w, q) BY <1>12, <1>13, <1>15, <1>17 DEF ResType, ResOf, SameHead
<1>19. q.headEncoded = w.headEncoded /\ q.flawed = f BY <1>12, <1>13, <1>15, <1>17 DEF ResType, ResOf
<1>20. q.buffer = NoBuf /\ q.bodyBuffer = w.bodyBuffer /\ q.sent = w.sent /\ q.accepted = m
  BY <1>12, <1>13, <1>15, <1>17 DEF ResType, ResOf
<1>21. /\ SameHead(h, q) /\ q.headEncoded /\ q.bodyBuffer = h.bodyBuffer /\ q.sent = h.sent \o x
  BY <1>5, <1>13, <1>18, <1>19, <1>20 DEF Changed, SameHead
<1>22. /\ q.contentLength = r.contentLength /\ q.te = r.te /\ q.trailers = r.trailers
       /\ q.statusCode = r.statusCode /\ q.chunked = h.chunked /\ q.chunkChecked = h.chunkChecked
       /\ h.contentLength = r.contentLength /\ h.statusCode = r.statusCode
  BY <1>4, <1>5, <1>21 DEF SameHead
<1>23. q.accepted = v.accepted + n BY <1>5, <1>16, <1>20
<1>24. CASE Lost(v)
  <2>1. SameHead(v, q) BY <1>5, <1>21 DEF SameHead
  <2>2. v.flawed => q.flawed BY <1>5, <1>16, <1>19
  <2>3. q.accepted >= v.accepted BY <1>4, <1>8, <1>23
  <2> QED BY <1>1, <1>3, <1>18, <1>24, <2>1, <2>2, <2>3, LostStays DEF ResOK
<1>25. CASE flaw
  <2>1. q.flawed BY <1>16, <1>19, <1>25
  <2> QED BY <1>1, <1>18, <2>1 DEF ResOK, Lost
<1>26. CASE Structured(v) /\ ~flaw
  <2>1. v.statusCode # 0 /\ v.contentLength # None /\ ~v.te /\ ~v.trailers BY <1>4, <1>16, <1>26
  <2>2. Settled(h) /\ Framed(h) /\ h.statusCode # 0 BY <1>3, <1>6, <1>26, <2>1, HeadEncoded DEF Begun
  <2>3. r.contentLength \in Nat
    <3>1. r.contentLength # Invalid BY <1>22, <2>2 DEF Settled
    <3>2. r.contentLength # None BY <1>4, <2>1
    <3> QED BY <3>1, <3>2, ResFields DEF ResOK
  <2>4. CASE r.contentLength = 0
    <3>1. q.accepted > 0 BY <1>4, <1>8, <1>23
    <3>2. ~q.te /\ ~q.trailers BY <1>4, <1>22, <2>1
    <3> QED BY <1>1, <1>18, <1>22, <2>4, <3>1, <3>2 DEF ResOK, Lost
  <2>5. CASE r.contentLength > 0
    <3>1. ~h.chunked BY <1>22, <2>2, <2>5 DEF Settled, None
    <3>2. Content(h.bodyBuffer) = <<>>
      <4>1. CASE v.headEncoded
        <5>1. h.buffer # NoBuf BY <1>7, NilBuffer
        <5> QED BY <1>5, <1>26, <4>1, <5>1 DEF Structured, Cached
      <4>2. CASE ~v.headEncoded
        <5>1. Units(Content(v.bodyBuffer), v.accepted) /\ v.accepted = 0
          BY <1>4, <1>26, <2>5, <4>2 DEF Structured, Unsent
        <5> QED BY <1>3, <1>5, <5>1, ResFields, ItemFacts DEF Units
      <4> QED BY <4>1, <4>2
    <3>3. Stream(q) = Stream(h) \o d
      <4>1. Content(h.buffer) = h.buffer BY <1>7, NilBuffer
      <4>2. Stream(q) = ((h.sent \o (h.buffer \o d)) \o <<>>) \o <<>>
        BY <1>10, <1>17, <1>20, <1>21, <3>2 DEF Stream
      <4>3. Stream(h) = (h.sent \o h.buffer) \o <<>> BY <3>2, <4>1 DEF Stream
      <4>4. ((h.sent \o (h.buffer \o d)) \o <<>>) \o <<>> = ((h.sent \o h.buffer) \o <<>>) \o d
        BY <1>7, <1>8, <1>9, SendJoins, Zenon
      <4> QED BY <4>2, <4>3, <4>4, Zenon
    <3>4. NextPart(d, h.chunked, h.accepted, n) BY <1>4, <1>5, <1>9, <3>1 DEF NextPart
    <3>5. HeadItem(h) \in Items BY <1>5, HeadItemTyped
    <3>6. /\ q.statusCode = h.statusCode /\ q.contentLength = h.contentLength /\ q.chunked = h.chunked
          /\ h.contentLength # None /\ q.accepted = h.accepted + n
      BY <1>5, <1>22, <1>23, <2>5 DEF None
    <3>7. Framed(q) BY <1>8, <1>9, <2>2, <3>3, <3>4, <3>5, <3>6, FramedExtends
    <3>8. Cached(q) /\ Begun(q) BY <1>21, <1>22, <2>2, <3>2, <3>7 DEF Cached, Begun
    <3>9. Settled(q)
      <4>1. q.contentLength # Invalid /\ q.contentLength \in Nat BY <1>22, <2>3 DEF Invalid
      <4>2. ~q.te /\ ~q.trailers /\ q.statusCode # 0 /\ ~q.chunked BY <1>4, <1>22, <2>1, <3>1
      <4> QED BY <4>1, <4>2 DEF Settled
    <3> QED BY <1>1, <1>18, <1>21, <3>8, <3>9 DEF ResOK, Structured
  <2> QED BY <2>3, <2>4, <2>5
<1> QED BY <1>3, <1>24, <1>25, <1>26

-----------------------------------------------------------------------------
(* What a client reads of a finished response.                             *)

Readable(r) == r.flawed \/ ~AsDeclared(r) \/ ReadsAs(r)

LEMMA FinishedReads ==
  ASSUME NEW r, ResOK(r), ~r.hijacked
  PROVE  Readable(Finished(r))
<1> DEFINE v == WriteHeader(r, 200)
           p == checkChunked(v)
           h == eoncodeHead(p)
           e == << <<"last">> >>
           q == flush(h)
<1>1. ResOK(v) /\ v.statusCode # 0 /\ ~v.hijacked BY WriteHeaderKeeps
<1>2. Prepared(p) BY <1>1, checkChunkedKeeps
<1>3. Finished(r) = q BY Zenon DEF Finished
<1>4. p \in ResType /\ p.statusCode # 0 /\ p.chunkChecked /\ ~p.hijacked /\ (Lost(p) \/ Structured(p))
  BY <1>2 DEF Prepared, ResOK
<1>5. /\ h \in ResType /\ SameHead(p, h) /\ h.headEncoded /\ h.accepted = p.accepted /\ h.flawed = p.flawed
  BY <1>4, eoncodeHeadFields
<1>6. h = eoncodeHead(p) OBVIOUS
<1> HIDE DEF p, h
<1>7. h.sent \in ItemSeq /\ Content(h.buffer) \in ItemSeq /\ Content(h.bodyBuffer) \in ItemSeq /\ h.accepted \in Nat
  BY <1>5, ResFields
<1>8. e \in ItemSeq BY DEF ItemSeq, Items
<1>9. NoBuf \in Buffers BY DEF Buffers
<1> DEFINE x == IF h.chunked THEN Content(h.buffer) \o e ELSE Content(h.buffer) \o Content(h.bodyBuffer)
           z == IF h.chunked THEN h.bodyBuffer ELSE NoBuf
<1>10. x \in ItemSeq /\ z \in Buffers BY <1>5, <1>7, <1>8, <1>9, ConcatItems, ResFields
<1>11. /\ h.chunked => x = Content(h.buffer) \o e
       /\ ~h.chunked => x = Content(h.buffer) \o Content(h.bodyBuffer)
  OBVIOUS
<1>12. q.sent = h.sent \o x /\ q.accepted = h.accepted /\ q.flawed = h.flawed /\ q.contentLength = h.contentLength
  <2>0. /\ h.chunked => q = [Send(h, x) EXCEPT !.buffer = NoBuf]
        /\ ~h.chunked => q = [Send(h, x) EXCEPT !.buffer = NoBuf, !.bodyBuffer = NoBuf]
    BY Zenon DEF flush
  <2> DEFINE w == Send(h, x)
  <2> HIDE DEF q, x
  <2>1. w \in ResType /\ Changed(h, w, h.buffer, h.bodyBuffer, h.sent \o x, h.accepted, h.flawed)
    BY <1>5, <1>10, SendChanged
  <2> HIDE DEF w
  <2>2. q = [w EXCEPT !.buffer = NoBuf] \/ q = [w EXCEPT !.buffer = NoBuf, !.bodyBuffer = NoBuf]
    BY <2>0, Zenon DEF w
  <2>3. q.sent = w.sent /\ q.accepted = w.accepted /\ q.flawed = w.flawed /\ q.contentLength = w.contentLength
    BY <2>1, <2>2 DEF ResType, ResOf
  <2> QED BY <2>1, <2>3 DEF Changed, SameHead
<1> HIDE DEF x, z, q, e
<1>13. CASE Lost(p)
  <2>1. CASE p.flawed BY <1>3, <1>5, <1>12, <2>1 DEF Readable
  <2>2. CASE p.contentLength = 0 /\ p.accepted > 0
    <3>1. q.contentLength = 0 /\ q.accepted > 0 BY <1>5, <1>12, <2>2 DEF SameHead
    <3>2. ~AsDeclared(q) BY <1>7, <1>12, <3>1 DEF AsDeclared, None
    <3> QED BY <1>3, <3>2 DEF Readable
  <2> QED BY <1>4, <1>13, <2>1, <2>2 DEF Lost
<1>14. CASE Structured(p) /\ AsDeclared(q)
  <2>1. Settled(h) /\ Framed(h) /\ h.statusCode # 0 BY <1>4, <1>6, <1>14, HeadEncoded DEF Begun
  <2>2. PICK s \in ItemSeq : Stream(h) = <<HeadItem(h)>> \o s /\ BodyStream(s, h.chunked, h.accepted)
    BY <2>1 DEF Framed
  <2> DEFINE y == HeadItem(h)
  <2>3. y \in Items BY <1>5, HeadItemTyped
  <2>4. Stream(h) = (h.sent \o Content(h.buffer)) \o Content(h.bodyBuffer) BY DEF Stream
  <2>5. CASE h.chunked
    <3>1. y[1] = "head" /\ y[2] = h.statusCode /\ y[3] = "chunked" BY <2>5 DEF HeadItem
    <3>2. Content(h.bodyBuffer) = <<>> BY <2>1, <2>5 DEF Settled
    <3>3. ChunkRun(s, h.accepted) BY <2>2, <2>5 DEF BodyStream
    <3>4. s \o e \in ItemSeq /\ InOrder(s \o e, h.accepted) /\ ChunksOk(s \o e) BY <1>7, <3>3, LastChunk DEF e
    <3> HIDE DEF y
    <3>5. q.sent = <<y>> \o (s \o e)
      <4>1. q.sent = h.sent \o (Content(h.buffer) \o e) BY <1>11, <1>12, <2>5
      <4>2. h.sent \o (Content(h.buffer) \o e) = ((h.sent \o Content(h.buffer)) \o <<>>) \o e
        <5>1. h.sent \in ItemSeq /\ Content(h.buffer) \in ItemSeq BY <1>7
        <5> QED BY <1>8, <5>1, SendJoins, Zenon
      <4>3. q.sent = (<<y>> \o s) \o e BY <2>2, <2>4, <3>2, <4>1, <4>2, Zenon DEF y
      <4>4. <<y>> \in ItemSeq BY <2>3, HeadOfStream, ItemFacts
      <4>5. (<<y>> \o s) \o e = <<y>> \o (s \o e) BY <1>8, <4>4, JoinItems DEF e
      <4> QED BY <4>3, <4>5, Zenon
    <3>6. q.sent # <<>> /\ q.sent[1] = y /\ Tail(q.sent) = s \o e BY <2>3, <3>4, <3>5, HeadOfStream
    <3> DEFINE t == Tail(q.sent)
    <3>7. InOrder(t, q.accepted) /\ ChunksOk(t) BY <1>12, <3>4, <3>6
    <3> HIDE DEF t
    <3>8. ReadsAs(q) BY <2>1, <3>1, <3>6, <3>7 DEF ReadsAs, t
    <3> QED BY <1>3, <3>8 DEF Readable
  <2>6. CASE ~h.chunked
    <3>1. y[1] = "head" /\ y[2] = h.statusCode /\ y[3] = "length" BY <2>6 DEF HeadItem
    <3>2. y[4] = IF h.contentLength # None THEN h.contentLength ELSE h.accepted BY <2>6 DEF HeadItem
    <3>3. y[4] = h.accepted BY <1>12, <1>14, <3>2 DEF AsDeclared
    <3>4. Units(s, h.accepted) BY <2>2, <2>6 DEF BodyStream
    <3>5. InOrder(s, h.accepted) /\ Len(s) = h.accepted BY <1>7, <3>4, UnitsInOrder DEF Units
    <3>6. q.sent = <<y>> \o s
      <4>1. q.sent = h.sent \o (Content(h.buffer) \o Content(h.bodyBuffer)) BY <1>11, <1>12, <2>6
      <4>2. h.sent \o (Content(h.buffer) \o Content(h.bodyBuffer))
              = (h.sent \o Content(h.buffer)) \o Content(h.bodyBuffer)
        BY <1>7, SendJoins, Zenon
      <4> QED BY <2>2, <2>4, <4>1, <4>2, Zenon
    <3> HIDE DEF y
    <3>7. q.sent # <<>> /\ q.sent[1] = y /\ Tail(q.sent) = s BY <2>3, <3>6, HeadOfStream
    <3> DEFINE t == Tail(q.sent)
    <3>8. InOrder(t, q.accepted) /\ Len(t) = q.accepted /\ y[4] = q.accepted BY <1>12, <3>3, <3>5, <3>7
    <3> HIDE DEF t
    <3>9. ReadsAs(q) BY <2>1, <3>1, <3>7, <3>8 DEF ReadsAs, t
    <3> QED BY <1>3, <3>9 DEF Readable
  <2> QED BY <2>5, <2>6
<1> QED BY <1>3, <1>4, <1>13, <1>14 DEF Readable

-----------------------------------------------------------------------------
(* The order of the jobs and of the answers.                               *)

\* The jobs js follow n messages that handlers were called with, in the order
\* in which they were taken from the pool; the clean-up of a close is the last.
Queued(js, n, z) ==
  \A k \in 1 .. Len(js) : IF js[k] = CloseJob THEN k = Len(js) /\ z = "notified" ELSE js[k].id = n + k
\* All messages on an open connection are served, wait, or are under construction.
Counted(n, m, js, hs) == n = Len(hs) + Len(js) + (IF m = NoMsg THEN 0 ELSE 1)
Newest(run, hs) == /\ run.id = Len(hs) /\ run.headers = hs[Len(hs)].headers
                   /\ run.proto = hs[Len(hs)].proto

ClosingOK == /\ closing \in {"no", "closed", "notified"}
             /\ closed => closing # "no"
             /\ ~closed => closing = "no"
QueueOK == /\ Queued(jobs, Len(handled), closing)
           /\ running = CloseJob => closing = "notified"
           /\ msg # NoMsg => msg.id = made
           /\ ~closed => Counted(made, msg, jobs, handled)
NewestOK == Serving => Newest(running, handled)
OrderOK == ClosingOK /\ QueueOK /\ NewestOK

\* The responses rs answer messages of hs in their order, and only the last one
\* may answer a request for the close.
AnswerType == [id : Nat, res : {Finished(r) : r \in ResType}]
Answers(rs, hs) ==
  /\ rs \in Seq(AnswerType)
  /\ \A a \in 1 .. Len(rs) : rs[a].id \in 1 .. Len(hs) /\ Readable(rs[a].res)
  /\ \A a, b \in 1 .. Len(rs) : a < b => rs[a].id < rs[b].id /\ ~CloseAfter(hs[rs[a].id])
AllKept(rs, hs) == \A a \in 1 .. Len(rs) : ~CloseAfter(hs[rs[a].id])
AllEarlier(rs, hs) == \A a \in 1 .. Len(rs) : rs[a].id < Len(hs)
AnswersOK == /\ ResOK(res)
             /\ Answers(responses, handled)
             /\ ~closed => AllKept(responses, handled)
             /\ Serving => AllEarlier(responses, handled)

AInv == OrderOK /\ AnswersOK

LEMMA NewResponseOK ==
  ASSUME NEW h \in HeadType, NEW b \in BOOLEAN
  PROVE  ResOK(NewResponse(h, b))
<1> DEFINE r == NewResponse(h, b)
<1>1. h.contentLength \in Nat \cup {None, Invalid} /\ h.te \in BOOLEAN /\ h.trailers \in BOOLEAN
  BY DEF HeadType
<1>2. ASSUME NEW B, NEW I, NoBuf \in B, <<>> \in I
      PROVE  /\ r \in ResOf(B, I) /\ r.sent = <<>> /\ r.buffer = NoBuf /\ r.bodyBuffer = NoBuf
             /\ r.accepted = 0 /\ r.statusCode = 0 /\ r.headEncoded = FALSE
             /\ r.chunked = FALSE /\ r.chunkChecked = FALSE
  <2> DEFINE N == NoBuf
  <2> HIDE DEF N
  <2>1. N \in B /\ N = NoBuf
    BY <1>2 DEF N
  <2>2. r = [contentLength |-> h.contentLength, te |-> h.te, trailers |-> h.trailers, http11 |-> b,
             statusCode |-> 0, chunkChecked |-> FALSE, chunked |-> FALSE, headEncoded |-> FALSE,
             hasBody |-> FALSE, hijacked |-> FALSE, buffer |-> N, bodyBuffer |-> N,
             bodyWritten |-> 0, sent |-> <<>>, accepted |-> 0, flawed |-> FALSE]
    BY DEF NewResponse, N
  <2> HIDE DEF r
  <2> QED BY <1>1, <1>2, <2>1, <2>2 DEF ResOf
<1>3. NoBuf \in Buffers /\ <<>> \in ItemSeq
  BY DEF Buffers, ItemSeq
<1> HIDE DEF r
<1>4. /\ r \in ResType /\ r.sent = <<>> /\ r.buffer = NoBuf /\ r.bodyBuffer = NoBuf
      /\ r.accepted = 0 /\ r.statusCode = 0 /\ r.headEncoded = FALSE
      /\ r.chunked = FALSE /\ r.chunkChecked = FALSE
  BY <1>2, <1>3 DEF ResType
<1>5. Content(r.bodyBuffer) = <<>>
  BY <1>4, NilBuffer
<1>6. Settled(r)
  BY <1>4, <1>5 DEF Settled
<1>7. Unsent(r)
  BY <1>4, <1>5, EmptyRun DEF Unsent
<1>8. ResOK(r)
  BY <1>4, <1>6, <1>7 DEF ResOK, Structured
<1> QED BY <1>8 DEF r

LEMMA NoHeadTyped == NoHead \in HeadType
  BY DEF NoHead, HeadType, None

LEMMA ServedTyped ==
  ASSUME IInv
  PROVE  /\ handled \in Seq(ViewType) /\ Len(handled) \in Nat /\ Len(jobs) \in Nat /\ made \in Nat
         /\ jobs \in Seq(MessageType \cup {CloseJob})
         /\ \A k \in 1 .. Len(jobs) : jobs[k] = CloseJob \/ jobs[k] \in MessageType
         /\ running = NoMsg \/ running = CloseJob \/ running \in MessageType
         /\ msg = NoMsg \/ msg \in MessageType
  BY SeqFacts DEF IInv, PoolOK, Pool, PoolTyped, JobsTyped, MessageUpTo, ReadingOK

-----------------------------------------------------------------------------
(* The order of the jobs.                                                  *)

LEMMA OrderFrame ==
  ASSUME OrderOK, UNCHANGED <<made, msg, jobs, running, handled, closed, closing>>
  PROVE  OrderOK'
  BY DEF OrderOK, ClosingOK, QueueOK, NewestOK, Serving

\* The connection is closed; the job of OnClose is pushed later.
LEMMA OrderCloses ==
  ASSUME OrderOK, SetClosed, UNCHANGED <<made, msg, jobs, handled>>,
         running' = running \/ (running' = NoMsg /\ running # CloseJob)
  PROVE  OrderOK' /\ closed' = TRUE
<1>1. closed' = TRUE /\ closing' = IF closed THEN closing ELSE "closed"
  BY DEF SetClosed
<1>2. ClosingOK'
  BY <1>1 DEF OrderOK, ClosingOK
<1>3. closing = "notified" => closing' = "notified"
  BY <1>1 DEF OrderOK, ClosingOK
<1>4. Queued(jobs, Len(handled), closing')
  BY <1>3 DEF OrderOK, QueueOK, Queued
<1>5. running' = CloseJob => closing' = "notified"
  BY <1>3, NilAssumption DEF OrderOK, QueueOK
<1>6. QueueOK'
  BY <1>1, <1>4, <1>5 DEF OrderOK, QueueOK
<1>7. NewestOK'
  BY DEF OrderOK, NewestOK, Serving
<1> QED BY <1>1, <1>2, <1>6, <1>7 DEF OrderOK

\* The handler returns or panics.
LEMMA OrderServed ==
  ASSUME OrderOK, Serving, running' = NoMsg, UNCHANGED <<made, msg, jobs, handled, closed, closing>>
  PROVE  OrderOK'
<1>1. ~Serving' /\ running' # CloseJob
  BY NilAssumption DEF Serving
<1> QED BY <1>1 DEF OrderOK, ClosingOK, QueueOK, NewestOK

\* The clean-up is over, on a closed connection.
LEMMA OrderCleaned ==
  ASSUME OrderOK, running = CloseJob, running' = NoMsg, msg' = NoMsg,
         UNCHANGED <<made, jobs, handled, closed, closing>>
  PROVE  OrderOK'
<1>1. ~Serving' /\ running' # CloseJob /\ closed
  BY NilAssumption DEF Serving, OrderOK, QueueOK, ClosingOK
<1> QED BY <1>1 DEF OrderOK, ClosingOK, QueueOK, NewestOK

LEMMA OrderNotified ==
  ASSUME IInv, OrderOK, OnClose
  PROVE  OrderOK'
<1>1. /\ closing = "closed" /\ closing' = "notified" /\ jobs' = Append(jobs, CloseJob)
      /\ UNCHANGED <<made, msg, running, handled, closed>>
  BY DEF OnClose
<1>2. closed
  BY <1>1 DEF OrderOK, ClosingOK
<1> DEFINE js == Append(jobs, CloseJob)
<1>3. /\ Len(jobs) \in Nat /\ Len(js) = Len(jobs) + 1 /\ js[Len(jobs) + 1] = CloseJob
      /\ \A k \in 1 .. Len(jobs) : js[k] = jobs[k]
  BY ServedTyped, AppendSeq
<1>4. Queued(jobs, Len(handled), closing)
  BY DEF OrderOK, QueueOK
<1> HIDE DEF js
<1>5. Queued(js, Len(handled), "notified")
  <2> SUFFICES ASSUME NEW k \in 1 .. Len(js)
               PROVE  IF js[k] = CloseJob THEN k = Len(js) ELSE js[k].id = Len(handled) + k
    BY DEF Queued
  <2>1. CASE k = Len(jobs) + 1
    BY <1>3, <2>1
  <2>2. CASE k # Len(jobs) + 1
    <3>1. k \in 1 .. Len(jobs) /\ js[k] = jobs[k]
      BY <1>3, <2>2
    <3>2. js[k] # CloseJob
      BY <1>1, <1>4, <3>1 DEF Queued
    <3> QED BY <1>4, <3>1, <3>2 DEF Queued
  <2> QED BY <2>1, <2>2
<1>6. Queued(jobs', Len(handled'), closing')
  BY <1>1, <1>5 DEF js
<1>7. ClosingOK' /\ NewestOK'
  BY <1>1, <1>2 DEF OrderOK, ClosingOK, NewestOK, Serving
<1>8. QueueOK'
  BY <1>1, <1>2, <1>6 DEF OrderOK, QueueOK
<1> QED BY <1>7, <1>8 DEF OrderOK

\* The parser builds messages and hands them over.
LEMMA OrderParsed ==
  ASSUME IInv, OrderOK, MsgStep, UNCHANGED <<running, handled, closed, closing>>
  PROVE  OrderOK'
<1>0. /\ made \in Nat /\ Len(handled) \in Nat /\ Len(jobs) \in Nat
      /\ jobs \in Seq(MessageType \cup {CloseJob}) /\ (msg = NoMsg \/ msg \in MessageType)
  BY ServedTyped
<1>1. ClosingOK' /\ NewestOK'
  BY DEF OrderOK, ClosingOK, NewestOK, Serving
<1> SUFFICES QueueOK'
  BY <1>1 DEF OrderOK
<1>2. /\ Queued(jobs, Len(handled), closing) /\ (running = CloseJob => closing = "notified")
      /\ msg # NoMsg => msg.id = made
      /\ ~closed => Counted(made, msg, jobs, handled)
  BY DEF OrderOK, QueueOK
<1>3. ASSUME jobs' = jobs, msg' # NoMsg => msg'.id = made', ~closed => Counted(made', msg', jobs, handled)
      PROVE  QueueOK'
  BY <1>2, <1>3 DEF QueueOK
<1>4. CASE UNCHANGED messages
  <2>1. msg' = msg /\ made' = made /\ jobs' = jobs
    BY <1>4 DEF messages
  <2> QED BY <1>2, <1>3, <2>1
<1>5. CASE MsgWith
  <2>1. PICK m \in MessageType : Grown(m) /\ With(m)
    BY <1>5 DEF MsgWith
  <2>2. msg' = m /\ made' = made /\ jobs' = jobs /\ msg # NoMsg /\ m.id = msg.id /\ m # NoMsg
    BY <2>1, MessageNotNil DEF With, Grown
  <2>3. ~closed => Counted(made', msg', jobs, handled)
    BY <1>2, <2>2 DEF Counted
  <2> QED BY <1>2, <1>3, <2>2, <2>3
<1>6. CASE MsgNew
  <2>1. PICK m \in MessageType : Fresh(m) /\ Obtain(m)
    BY <1>6 DEF MsgNew
  <2>2. CASE msg # NoMsg
    <3>1. msg' = msg /\ made' = made /\ jobs' = jobs
      BY <2>1, <2>2 DEF Obtain
    <3> QED BY <1>2, <1>3, <3>1
  <2>3. CASE msg = NoMsg
    <3>1. msg' = m /\ made' = made + 1 /\ jobs' = jobs /\ m.id = made + 1 /\ m # NoMsg
      BY <2>1, <2>3, MessageNotNil DEF Obtain, Fresh
    <3>2. ~closed => Counted(made', msg', jobs, handled)
      BY <1>0, <1>2, <2>3, <3>1 DEF Counted
    <3> QED BY <1>3, <3>1, <3>2
  <2> QED BY <2>2, <2>3
<1>7. CASE MsgDone
  <2>1. PICK m \in MessageType : Grown(m) /\ OnComplete(m)
    BY <1>7 DEF MsgDone
  <2>2. msg # NoMsg /\ m.id = made /\ m # CloseJob /\ msg' = NoMsg /\ made' = made
    BY <1>2, <2>1, MessageNotNil DEF Grown, OnComplete
  <2>3. CASE closed /\ UNCHANGED jobs
    BY <1>3, <2>2, <2>3
  <2>4. CASE ~closed /\ jobs' = Append(jobs, m)
    <3> DEFINE js == Append(jobs, m)
    <3>1. /\ Len(js) = Len(jobs) + 1 /\ js[Len(jobs) + 1] = m
          /\ \A k \in 1 .. Len(jobs) : js[k] = jobs[k]
      BY <1>0, AppendSeq
    <3>2. made = Len(handled) + Len(jobs) + 1
      BY <1>2, <2>2, <2>4 DEF Counted
    <3>3. closing = "no"
      BY <2>4 DEF OrderOK, ClosingOK
    <3> HIDE DEF js
    <3>4. Queued(js, Len(handled), closing)
      <4> SUFFICES ASSUME NEW k \in 1 .. Len(js)
                   PROVE  js[k] # CloseJob /\ js[k].id = Len(handled) + k
        BY DEF Queued
      <4>1. CASE k = Len(jobs) + 1
        BY <1>0, <2>2, <3>1, <3>2, <4>1
      <4>2. CASE k # Len(jobs) + 1
        <5>1. k \in 1 .. Len(jobs) /\ js[k] = jobs[k]
          BY <1>0, <3>1, <4>2
        <5>2. js[k] # CloseJob
          BY <1>2, <3>3, <5>1 DEF Queued
        <5> QED BY <1>2, <5>1, <5>2 DEF Queued
      <4> QED BY <4>1, <4>2
    <3>5. Counted(made, NoMsg, js, handled)
      BY <1>0, <3>1, <3>2 DEF Counted
    <3>6. jobs' = js
      BY <2>4 DEF js
    <3> QED BY <1>2, <2>2, <3>4, <3>5, <3>6 DEF QueueOK
  <2> QED BY <2>1, <2>3, <2>4 DEF OnComplete
<1> QED BY <1>4, <1>5, <1>6, <1>7 DEF MsgStep

\* The next job is started.
LEMMA QueueStarts ==
  ASSUME IInv, NEW n \in Nat, NEW z, Queued(jobs, n, z), jobs # <<>>
  PROVE  /\ Head(jobs) = CloseJob => Queued(Tail(jobs), n, z) /\ z = "notified"
         /\ Head(jobs) # CloseJob => /\ Head(jobs) \in MessageType /\ Head(jobs).id = n + 1
                                     /\ Queued(Tail(jobs), n + 1, z)
         /\ Len(jobs) = Len(Tail(jobs)) + 1 /\ Len(Tail(jobs)) \in Nat
<1> DEFINE js == Tail(jobs)
           h  == Head(jobs)
<1>1. /\ Len(jobs) \in Nat /\ Len(jobs) # 0 /\ h = jobs[1] /\ Len(js) = Len(jobs) - 1
      /\ \A k \in 1 .. Len(jobs) - 1 : js[k] = jobs[k + 1]
      /\ h = CloseJob \/ h \in MessageType
  BY ServedTyped, SeqFacts, TailSeq
<1> HIDE DEF js, h
<1>2. 1 \in 1 .. Len(jobs) /\ Len(js) \in Nat /\ Len(jobs) = Len(js) + 1
  BY <1>1
<1>3. ASSUME NEW k \in 1 .. Len(js)
      PROVE  k \in Nat /\ k + 1 \in 1 .. Len(jobs) /\ js[k] = jobs[k + 1]
  BY <1>1
<1>4. CASE h = CloseJob
  <2>1. Len(jobs) = 1 /\ z = "notified"
    BY <1>1, <1>2, <1>4 DEF Queued
  <2>2. Queued(js, n, z)
    BY <1>1, <2>1 DEF Queued
  <2> QED BY <1>2, <1>4, <2>1, <2>2 DEF js, h
<1>5. CASE h # CloseJob
  <2>1. h \in MessageType /\ h.id = n + 1
    BY <1>1, <1>2, <1>5 DEF Queued
  <2>2. Queued(js, n + 1, z)
    <3> SUFFICES ASSUME NEW k \in 1 .. Len(js)
                 PROVE  IF js[k] = CloseJob THEN k = Len(js) /\ z = "notified" ELSE js[k].id = (n + 1) + k
      BY DEF Queued
    <3>1. IF js[k] = CloseJob THEN k + 1 = Len(jobs) /\ z = "notified" ELSE js[k].id = n + (k + 1)
      BY <1>3 DEF Queued
    <3>2. k \in Nat /\ n + (k + 1) = (n + 1) + k /\ (k + 1 = Len(jobs) => k = Len(js))
      BY <1>2, <1>3
    <3> QED BY <3>1, <3>2
  <2> QED BY <1>2, <1>5, <2>1, <2>2 DEF js, h
<1> QED BY <1>4, <1>5

LEMMA ViewFields == \A m : View(m).headers = m.headers /\ View(m).proto = m.proto
  BY DEF View

LEMMA OrderStarts ==
  ASSUME IInv, OrderOK, StartJob
  PROVE  OrderOK'
<1> DEFINE h == Head(jobs)
           v == View(h)
           js == Tail(jobs)
<1>1. /\ running = NoMsg /\ jobs # <<>> /\ running' = h /\ jobs' = js
      /\ handled' = IF h = CloseJob THEN handled ELSE Append(handled, v)
      /\ UNCHANGED <<made, msg, closed, closing>>
  BY DEF StartJob
<1>2. /\ Len(handled) \in Nat /\ handled \in Seq(ViewType) /\ made \in Nat
  BY ServedTyped
<1>3. /\ h = CloseJob => Queued(js, Len(handled), closing) /\ closing = "notified"
      /\ h # CloseJob => /\ h \in MessageType /\ h.id = Len(handled) + 1
                         /\ Queued(js, Len(handled) + 1, closing)
      /\ Len(jobs) = Len(js) + 1 /\ Len(js) \in Nat
  BY <1>1, <1>2, QueueStarts DEF OrderOK, QueueOK
<1>4. h # CloseJob => v \in ViewType
  BY <1>1, JobsTail, ViewTyped DEF IInv, PoolOK, Pool, PoolTyped, MessageUpTo
<1>5. v.headers = h.headers /\ v.proto = h.proto
  BY ViewFields
<1> HIDE DEF h, v, js
<1>6. ClosingOK' /\ (msg' # NoMsg => msg'.id = made')
  BY <1>1 DEF OrderOK, ClosingOK, QueueOK
<1>7. CASE h = CloseJob
  <2>1. handled' = handled /\ running' = CloseJob /\ ~Serving' /\ closed
    BY <1>1, <1>3, <1>7 DEF Serving, OrderOK, ClosingOK
  <2>2. QueueOK' /\ NewestOK'
    BY <1>1, <1>3, <1>6, <1>7, <2>1 DEF QueueOK, NewestOK
  <2> QED BY <1>6, <2>2 DEF OrderOK
<1>8. CASE h # CloseJob
  <2>1. /\ Len(handled') = Len(handled) + 1 /\ handled'[Len(handled) + 1] = v
    BY <1>1, <1>2, <1>4, <1>8, AppendSeq
  <2>2. Newest(h, handled')
    BY <1>3, <1>5, <1>8, <2>1 DEF Newest
  <2>3. ~closed => Counted(made, msg, js, handled')
    <3>1. ~closed => Counted(made, msg, jobs, handled)
      BY DEF OrderOK, QueueOK
    <3> QED BY <1>2, <1>3, <2>1, <3>1 DEF Counted
  <2>4. QueueOK'
    BY <1>1, <1>3, <1>6, <1>8, <2>1, <2>3 DEF QueueOK
  <2>5. NewestOK'
    BY <1>1, <2>2 DEF NewestOK
  <2> QED BY <1>6, <2>4, <2>5 DEF OrderOK
<1> QED BY <1>7, <1>8

\* The handler reads or closes the body of its message.
LEMMA BodyReplacedOnly ==
  ASSUME NEW m \in MessageType, NEW b
  PROVE  LET q == [m EXCEPT !.body = b] IN
         /\ q.id = m.id /\ q.headers = m.headers /\ q.proto = m.proto
  BY MessageOfTypes DEF MessageOf

LEMMA OrderReads ==
  ASSUME IInv, OrderOK, CloseBody \/ \E n \in ReadSizes : ReadBody(n)
  PROVE  OrderOK' /\ Serving /\ UNCHANGED <<handled, closed, res, responses>>
<1>1. /\ Serving /\ (\E b : running' = [running EXCEPT !.body = b])
      /\ UNCHANGED <<made, msg, jobs, handled, closed, closing, res, responses>>
  BY DEF CloseBody, ReadBody, parserVars, messages, answers
<1>2. running \in MessageType
  BY ServedMessage, <1>1 DEF IInv
<1>3. running'.id = running.id /\ running'.headers = running.headers /\ running'.proto = running.proto
  BY <1>1, <1>2, BodyReplacedOnly
<1>4. running' # CloseJob
  BY ReadingReads, ReadingCloses, MessageNotNil DEF IInv
<1> QED BY <1>1, <1>3, <1>4 DEF OrderOK, ClosingOK, QueueOK, NewestOK, Newest

-----------------------------------------------------------------------------
(* The answers.                                                            *)

LEMMA AnswersFrame ==
  ASSUME AnswersOK, UNCHANGED <<res, responses, handled>>,
         ~closed' => ~closed, Serving' => Serving
  PROVE  AnswersOK'
  BY DEF AnswersOK

LEMMA SameCloseAfter ==
  ASSUME NEW m, NEW v, m.headers = v.headers, m.proto = v.proto
  PROVE  CloseAfter(m) <=> CloseAfter(v)
  BY Zenon DEF CloseAfter

LEMMA RespondKeeps ==
  ASSUME AnswersOK, Responding
  PROVE  AnswersOK'
<1>1. /\ ~res.hijacked /\ ResOK(res)
      /\ UNCHANGED <<responses, handled, closed, running>>
  BY DEF AnswersOK, Responding, Respond, parserVars
<1>2. \/ \E code \in {200, 204} : res' = WriteHeader(res, code)
      \/ \E n \in WriteSizes : res' = Write(res, n)
      \/ \E n \in WriteSizes : ~ReadFromPanics(res) /\ res' = ReadFrom(res, n)
      \/ res' = Flush(res) \/ res' = Hijack(res)
  BY DEF Responding, Respond
<1>3. ResOK(res')
  <2>1. ASSUME NEW code \in {200, 204}, res' = WriteHeader(res, code) PROVE ResOK(res')
    <3>1. code \in Nat \ {0}
      OBVIOUS
    <3> QED BY <1>1, <2>1, <3>1, WriteHeaderKeeps
  <2>2. ASSUME NEW n \in WriteSizes, res' = Write(res, n) PROVE ResOK(res')
    <3>1. n \in Nat \ {0}
      BY HandlersAssumption
    <3> QED BY <1>1, <2>2, <3>1, WriteKeeps
  <2>3. ASSUME NEW n \in WriteSizes, ~ReadFromPanics(res), res' = ReadFrom(res, n) PROVE ResOK(res')
    <3>1. n \in Nat \ {0}
      BY HandlersAssumption
    <3> QED BY <1>1, <2>3, <3>1, ReadFromKeeps
  <2>4. res' = Flush(res) \/ res' = Hijack(res) => ResOK(res')
    BY <1>1, FlushKeeps, HijackKeeps
  <2> QED BY <1>2, <2>1, <2>2, <2>3, <2>4, Zenon
<1> QED BY <1>1, <1>3 DEF AnswersOK, Serving

\* One more message is handled: the answers stay where they are.
LEMMA AnswersStart ==
  ASSUME NEW rs, NEW hs \in Seq(ViewType), Answers(rs, hs), NEW v \in ViewType
  PROVE  /\ Answers(rs, Append(hs, v)) /\ AllEarlier(rs, Append(hs, v))
         /\ AllKept(rs, hs) => AllKept(rs, Append(hs, v))
<1> DEFINE t == Append(hs, v)
<1>1. /\ Len(hs) \in Nat /\ Len(t) = Len(hs) + 1 /\ \A k \in 1 .. Len(hs) : t[k] = hs[k]
  BY SeqFacts, AppendSeq
<1> HIDE DEF t
<1>2. ASSUME NEW a \in 1 .. Len(rs)
      PROVE  /\ rs[a].id \in 1 .. Len(t) /\ rs[a].id < Len(t)
             /\ t[rs[a].id] = hs[rs[a].id]
  BY <1>1 DEF Answers
<1>3. Answers(rs, t)
  BY <1>2 DEF Answers
<1>4. AllEarlier(rs, t) /\ (AllKept(rs, hs) => AllKept(rs, t))
  BY <1>2 DEF AllEarlier, AllKept
<1> QED BY <1>3, <1>4 DEF t

LEMMA StartJobAnswers ==
  ASSUME IInv, AnswersOK, StartJob
  PROVE  AnswersOK'
<1> DEFINE h == Head(jobs)
           v == View(h)
<1>1. /\ jobs # <<>> /\ running' = h
      /\ handled' = IF h = CloseJob THEN handled ELSE Append(handled, v)
      /\ UNCHANGED <<closed, responses>>
  BY DEF StartJob
<1>2. h # CloseJob => v \in ViewType
  BY <1>1, JobsTail, ViewTyped DEF IInv, PoolOK, Pool, PoolTyped, MessageUpTo
<1>3. ResOK(res')
  <2>1. PICK x \in IF ops > 0 THEN Heads ELSE {NoHead} :
          res' = NewResponse(x, h # CloseJob /\ h.proto # "HTTP/1.0")
    BY DEF StartJob
  <2>2. x \in HeadType
    BY HandlersAssumption, NoHeadTyped
  <2>3. (h # CloseJob /\ h.proto # "HTTP/1.0") \in BOOLEAN
    OBVIOUS
  <2> QED BY <2>1, <2>2, <2>3, NewResponseOK
<1> HIDE DEF h, v
<1>4. CASE h = CloseJob
  <2>1. ~Serving' /\ handled' = handled
    BY <1>1, <1>4 DEF Serving
  <2> QED BY <1>1, <1>3, <2>1 DEF AnswersOK
<1>5. CASE h # CloseJob
  <2>1. handled \in Seq(ViewType) /\ v \in ViewType /\ handled' = Append(handled, v)
    BY <1>1, <1>2, <1>5, ServedTyped
  <2>2. /\ Answers(responses, Append(handled, v)) /\ AllEarlier(responses, Append(handled, v))
        /\ AllKept(responses, handled) => AllKept(responses, Append(handled, v))
    BY <2>1, AnswersStart DEF AnswersOK
  <2> QED BY <1>1, <1>3, <2>1, <2>2 DEF AnswersOK
<1> QED BY <1>4, <1>5

\* The answer of the newest message is appended.
LEMMA AnswersAppend ==
  ASSUME NEW rs, NEW hs, Len(hs) \in Nat \ {0}, Answers(rs, hs), AllKept(rs, hs), AllEarlier(rs, hs),
         NEW x \in AnswerType, x.id = Len(hs), Readable(x.res)
  PROVE  /\ Answers(Append(rs, x), hs)
         /\ ~CloseAfter(hs[Len(hs)]) => AllKept(Append(rs, x), hs)
<1> DEFINE t == Append(rs, x)
<1>1. rs \in Seq(AnswerType) /\ Len(rs) \in Nat
  BY SeqFacts DEF Answers
<1>2. /\ t \in Seq(AnswerType) /\ Len(t) = Len(rs) + 1 /\ t[Len(rs) + 1] = x
      /\ \A k \in 1 .. Len(rs) : t[k] = rs[k]
  BY <1>1, AppendSeq
<1> HIDE DEF t
<1>3. ASSUME NEW a \in 1 .. Len(t)
      PROVE  (a \in 1 .. Len(rs) /\ t[a] = rs[a]) \/ (a = Len(t) /\ t[a] = x)
  BY <1>1, <1>2
<1>4. \A a \in 1 .. Len(t) : t[a].id \in 1 .. Len(hs) /\ Readable(t[a].res)
  BY <1>3 DEF Answers
<1>5. ASSUME NEW a \in 1 .. Len(t), NEW b \in 1 .. Len(t), a < b
      PROVE  t[a].id < t[b].id /\ ~CloseAfter(hs[t[a].id])
  <2>1. a \in 1 .. Len(rs) /\ t[a] = rs[a]
    BY <1>1, <1>2, <1>5
  <2>2. ~CloseAfter(hs[t[a].id])
    BY <2>1 DEF AllKept
  <2>3. t[a].id < t[b].id
    BY <1>3, <1>5, <2>1 DEF Answers, AllEarlier
  <2> QED BY <2>2, <2>3
<1>6. Answers(t, hs)
  BY <1>2, <1>4, <1>5 DEF Answers
<1>7. ~CloseAfter(hs[Len(hs)]) => AllKept(t, hs)
  BY <1>3 DEF AllKept
<1> QED BY <1>6, <1>7 DEF t

LEMMA AnsweredOK ==
  ASSUME IInv, AInv, Serving, ~res.hijacked
  PROVE  Answered \in AnswerType /\ Answered.id = Len(handled) /\ Readable(Answered.res)
<1> DEFINE f == Finished(res)
<1>1. Answered = [id |-> running.id, res |-> f]
  BY DEF Answered
<1>2. Readable(f) /\ res \in ResType
  BY FinishedReads DEF AInv, AnswersOK, ResOK
<1>3. f \in {Finished(r) : r \in ResType}
  BY <1>2
<1>4. running.id = Len(handled) /\ Len(handled) \in Nat
  BY ServedTyped DEF AInv, OrderOK, NewestOK, Newest
<1> HIDE DEF f
<1> QED BY <1>1, <1>2, <1>3, <1>4 DEF AnswerType

LEMMA ServeDoneAnswers ==
  ASSUME IInv, AInv, ServeDone
  PROVE  AInv'
<1>1. /\ Serving /\ running' = NoMsg /\ ~Serving'
      /\ UNCHANGED <<made, msg, jobs, handled, res>>
  BY NilAssumption DEF ServeDone, Serving
<1>2. CASE UNCHANGED <<closed, closing, responses>>
  BY <1>1, <1>2, OrderServed, AnswersFrame DEF AInv
<1>3. CASE /\ ~closed /\ ~res.hijacked /\ responses' = Append(responses, Answered)
           /\ IF CloseAfter(running) THEN SetClosed ELSE UNCHANGED <<closed, closing>>
  <2> DEFINE x == Answered
             rs == Append(responses, Answered)
  <2>1. x \in AnswerType /\ x.id = Len(handled) /\ Readable(x.res)
    BY <1>1, <1>3, AnsweredOK
  <2>2. /\ Len(handled) \in Nat \ {0} /\ Answers(responses, handled) /\ AllKept(responses, handled)
        /\ AllEarlier(responses, handled)
    BY <1>1, <1>3, ServedTyped, BodyOfView, SeqFacts DEF AInv, AnswersOK, IInv
  <2>3. Answers(rs, handled) /\ (~CloseAfter(handled[Len(handled)]) => AllKept(rs, handled))
    <3> HIDE DEF x
    <3>1. /\ Answers(Append(responses, x), handled)
          /\ ~CloseAfter(handled[Len(handled)]) => AllKept(Append(responses, x), handled)
      BY <2>1, <2>2, AnswersAppend
    <3> QED BY <3>1 DEF x
  <2>4. CloseAfter(running) <=> CloseAfter(handled[Len(handled)])
    BY <1>1, SameCloseAfter DEF AInv, OrderOK, NewestOK, Newest
  <2> HIDE DEF rs
  <2>5. responses' = rs
    BY <1>3 DEF rs
  <2>6. OrderOK' /\ (~closed' => ~CloseAfter(running))
    <3>1. CASE CloseAfter(running) /\ SetClosed
      BY <1>1, <3>1, OrderCloses DEF AInv, Serving
    <3>2. CASE ~CloseAfter(running) /\ UNCHANGED <<closed, closing>>
      BY <1>1, <3>2, OrderServed DEF AInv
    <3> QED BY <1>3, <3>1, <3>2
  <2>7. ResOK(res') /\ handled' = handled
    BY <1>1 DEF AInv, AnswersOK
  <2>8. AnswersOK'
    BY <1>1, <2>3, <2>4, <2>5, <2>6, <2>7 DEF AnswersOK
  <2> QED BY <2>6, <2>8 DEF AInv
<1> QED BY <1>2, <1>3 DEF ServeDone, flushResponse

-----------------------------------------------------------------------------
(* Every step keeps the order.                                             *)

LEMMA OrderInit ==
  ASSUME Init
  PROVE  AInv
<1>1. /\ made = 0 /\ msg = NoMsg /\ jobs = <<>> /\ closed = FALSE /\ closing = "no"
      /\ running = NoMsg /\ handled = <<>> /\ responses = <<>> /\ res = NewResponse(NoHead, TRUE)
  BY DEF Init, ParserInit
<1>2. ~Serving /\ running # CloseJob
  BY <1>1, NilAssumption DEF Serving
<1>3. OrderOK
  BY <1>1, <1>2, EmptySeq DEF OrderOK, ClosingOK, QueueOK, NewestOK, Queued, Counted
<1>4. ResOK(res)
  BY <1>1, NoHeadTyped, NewResponseOK
<1>5. Answers(responses, handled) /\ AllKept(responses, handled)
  BY <1>1, EmptySeq DEF Answers, AllKept
<1> QED BY <1>2, <1>3, <1>4, <1>5 DEF AInv, AnswersOK

LEMMA PollerOrder ==
  ASSUME IInv, AInv, (\E n \in 1 .. ReadBufferSize : Fetch(n)) \/ DataHandler \/ UNCHANGED vars
  PROVE  AInv'
<1>1. UNCHANGED <<made, msg, jobs, running, handled, closed, closing, res, responses>>
  <2>1. CASE \E n \in 1 .. ReadBufferSize : Fetch(n)
    BY <2>1 DEF Fetch, parserVars, messages, jobVars, answers
  <2>2. CASE DataHandler
    BY <2>2 DEF DataHandler, Parse, messages, jobVars, answers
  <2>3. CASE UNCHANGED vars
    BY <2>3 DEF vars, parserVars, messages, jobVars, answers
  <2> QED BY <2>1, <2>2, <2>3
<1> QED BY <1>1, OrderFrame, AnswersFrame DEF AInv, Serving

LEMMA ParseStepOrder ==
  ASSUME IInv, AInv, ParseStep
  PROVE  AInv'
<1>1. UNCHANGED <<running, handled, closing, res, responses>>
  BY DEF ParseStep, jobVars, answers
<1>2. MsgStep /\ closed' = closed
  <2>1. CASE ParseByte
    BY <2>1, PoolHasMsg, ParseByteEffect DEF IInv, Effect
  <2>2. CASE Exit
    BY <2>2 DEF Exit, MsgStep
  <2> QED BY <2>1, <2>2 DEF ParseStep
<1>3. OrderOK'
  BY <1>1, <1>2, OrderParsed DEF AInv
<1>4. AnswersOK'
  BY <1>1, <1>2, AnswersFrame DEF AInv, Serving
<1> QED BY <1>3, <1>4 DEF AInv

LEMMA CloseOrder ==
  ASSUME AInv, ParseFailed \/ Close
  PROVE  AInv'
<1>1. SetClosed /\ UNCHANGED <<made, msg, jobs, running, handled, res, responses>>
  BY DEF ParseFailed, Close, messages, answers
<1>2. OrderOK' /\ closed' = TRUE
  BY <1>1, OrderCloses DEF AInv
<1>3. AnswersOK'
  BY <1>1, <1>2, AnswersFrame DEF AInv, Serving
<1> QED BY <1>2, <1>3 DEF AInv

LEMMA OnCloseOrder ==
  ASSUME IInv, AInv, OnClose
  PROVE  AInv'
<1>1. UNCHANGED <<running, handled, closed, res, responses>>
  BY DEF OnClose, answers
<1>2. AnswersOK'
  BY <1>1, AnswersFrame DEF AInv, Serving
<1> QED BY <1>2, OrderNotified DEF AInv

LEMMA CleanOrder ==
  ASSUME IInv, AInv, CloseAndClean
  PROVE  AInv'
<1>1. /\ running = CloseJob /\ running' = NoMsg /\ msg' = NoMsg
      /\ UNCHANGED <<made, jobs, handled, closed, closing, res, responses>>
  BY DEF CloseAndClean, answers
<1>2. AnswersOK'
  BY <1>1, AnswersFrame DEF AInv, Serving
<1> QED BY <1>1, <1>2, OrderCleaned DEF AInv

LEMMA HandlerOrder ==
  ASSUME IInv, AInv, CloseBody \/ (\E n \in ReadSizes : ReadBody(n)) \/ Responding \/ HandlerPanics
  PROVE  AInv'
<1>1. CASE CloseBody \/ \E n \in ReadSizes : ReadBody(n)
  <2>1. OrderOK' /\ Serving /\ UNCHANGED <<handled, closed, res, responses>>
    BY <1>1, OrderReads DEF AInv
  <2>2. AnswersOK'
    BY <2>1, AnswersFrame DEF AInv
  <2> QED BY <2>1, <2>2 DEF AInv
<1>2. CASE Responding
  <2>1. UNCHANGED <<made, msg, jobs, running, handled, closed, closing>>
    BY <1>2 DEF Responding, Respond, parserVars, messages
  <2> QED BY <1>2, <2>1, OrderFrame, RespondKeeps DEF AInv
<1>3. CASE HandlerPanics
  <2>1. /\ Serving /\ running' = NoMsg
        /\ UNCHANGED <<made, msg, jobs, handled, closed, closing, res, responses>>
    BY <1>3 DEF HandlerPanics, parserVars, messages, answers
  <2>2. OrderOK'
    BY <2>1, OrderServed DEF AInv
  <2>3. AnswersOK'
    BY <2>1, AnswersFrame DEF AInv
  <2> QED BY <2>2, <2>3 DEF AInv
<1> QED BY <1>1, <1>2, <1>3

LEMMA NextOrder ==
  ASSUME IInv, AInv, [Next]_vars
  PROVE  AInv'
<1>1. StartJob => AInv'
  BY OrderStarts, StartJobAnswers DEF AInv
<1> QED BY <1>1, PollerOrder, ParseStepOrder, CloseOrder, OnCloseOrder, CleanOrder, HandlerOrder,
           ServeDoneAnswers, Zenon DEF Next

-----------------------------------------------------------------------------
(* The theorems.                                                           *)

\* The inductive invariant holds: the parser's indices and its message fit its
\* state, what it caches is bounded, every pooled message has one owner, and the
\* handler has read a prefix of the body (nbhttp/parser.go, Parse;
\* nbhttp/processor.go; nbhttp/body.go).
THEOREM InductiveInvariant == Spec => []IInv
<1>1. Init => IInv
  BY InitHolds
<1>2. IInv /\ [Next]_vars => IInv'
  BY NextKeeps
<1> QED BY <1>1, <1>2, PTL DEF Spec

JobsOf(id) == {k \in 1 .. Len(jobs) : jobs[k] # CloseJob /\ jobs[k].id = id}

LEMMA JobsCounted ==
  ASSUME PoolOK, NEW id
  PROVE  Cardinality(JobsOf(id)) = IF InJobs(jobs, id) THEN 1 ELSE 0
<1>1. /\ JobsOnce(jobs) /\ \A k \in 1 .. Len(jobs) : jobs[k] = CloseJob \/ jobs[k] \in MessageType
      /\ CloseJob \notin MessageType
  BY MessageNotNil DEF PoolOK, Pool, JobsTyped, MessageUpTo
<1>2. \A k \in 1 .. Len(jobs) : k \in JobsOf(id) <=> Holds(jobs[k], id)
  BY <1>1 DEF JobsOf, Holds
<1>3. CASE ~InJobs(jobs, id)
  <2>1. JobsOf(id) = {}
    BY <1>2, <1>3 DEF InJobs, JobsOf
  <2>2. Cardinality(JobsOf(id)) = 0
    BY <2>1, FS_EmptySet
  <2> QED BY <1>3, <2>2
<1>4. CASE InJobs(jobs, id)
  <2>1. PICK k \in 1 .. Len(jobs) : Holds(jobs[k], id)
    BY <1>4 DEF InJobs
  <2>2. ASSUME NEW a \in JobsOf(id) PROVE a = k
    <3>1. a \in 1 .. Len(jobs) /\ Holds(jobs[a], id)
      BY <1>2 DEF JobsOf
    <3> QED BY <1>1, <2>1, <3>1 DEF JobsOnce, Holds
  <2>3. JobsOf(id) = {k}
    BY <1>2, <2>1, <2>2
  <2>4. Cardinality(JobsOf(id)) = 1
    BY <2>3, FS_Singleton
  <2> QED BY <1>4, <2>4
<1> QED BY <1>3, <1>4

LEMMA OwnersAreOne ==
  ASSUME PoolOK, NEW id \in 1 .. made
  PROVE  Owners(id) = 1
<1>1. OneOwner(id, msg, jobs, running, panicked, released)
  BY DEF PoolOK, Pool
<1>2. (msg # NoMsg /\ msg.id = id) <=> Holds(msg, id)
  BY MessageNotNil DEF PoolOK, Pool, PoolTyped, MessageUpTo, Holds
<1>3. (Serving /\ running.id = id) <=> Holds(running, id)
  BY MessageNotNil DEF PoolOK, Pool, PoolTyped, MessageUpTo, Holds, Serving
<1>4. Cardinality(JobsOf(id)) = IF InJobs(jobs, id) THEN 1 ELSE 0
  BY JobsCounted
<1> DEFINE a == IF Holds(msg, id) THEN 1 ELSE 0
           b == IF InJobs(jobs, id) THEN 1 ELSE 0
           p == IF Holds(running, id) THEN 1 ELSE 0
           d == IF id \in panicked THEN 1 ELSE 0
<1>5. Owners(id) = a + b + p + d + released[id]
  BY <1>2, <1>3, <1>4 DEF Owners, JobsOf
<1>6. released[id] = 0 \/ released[id] = 1
  BY <1>1 DEF OneOwner
<1>7. a + b + p + d + released[id] = 1
  BY <1>1, <1>6 DEF OneOwner, OneOf
<1> QED BY <1>5, <1>7

\* A pooled request or response has exactly one owner, and is given back to the
\* pool at most once, however parsing, handlers, panics and the clean-up of a
\* close interleave (nbhttp/processor.go, OnComplete, flushResponse and Clean;
\* nbhttp/parser.go, CloseAndClean).
THEOREM OneOwnerEach == Spec => []ReleasedOnce
<1>1. IInv => ReleasedOnce
  BY OwnersAreOne DEF IInv, ReleasedOnce
<1> QED BY <1>1, InductiveInvariant, PTL

\* What Parse keeps between two reads never exceeds the larger of ReadLimit and
\* one read, whatever the peer sends (nbhttp/parser.go, Parse and its Exit).
THEOREM CacheIsBounded == Spec => []CachedBounded
<1>1. IInv => CachedBounded
  BY DEF IInv, CacheOK, CachedBounded, Limit
<1> QED BY <1>1, InductiveInvariant, PTL

\* A handler reads the body in order and without a gap, for every way the bytes
\* are spread over the buffers and for every size it reads with, and sees io.EOF
\* only behind the last byte or after its own Close (nbhttp/body.go, append,
\* Read and Close).
THEOREM BodyReadInOrder == Spec => []BodyInOrder
<1>1. ASSUME IInv PROVE BodyInOrder
  <2> SUFFICES ASSUME Serving
               PROVE  LET body == handled[Len(handled)].body IN
                      /\ got = SubSeq(body, 1, Len(got))
                      /\ running.body.left = Len(Contents(running.body))
                      /\ ~running.body.closed => got \o Contents(running.body) = body
                      /\ eof => running.body.closed \/ got = body
    BY DEF BodyInOrder
  <2>1. running.body.left = Len(Contents(running.body))
    BY <1>1, ServedMessage DEF IInv, Exact
  <2> QED BY <1>1, <2>1 DEF IInv, ReadingOK
<1> QED BY <1>1, InductiveInvariant, PTL

\* Pipelined requests are answered in their order, each at most once and none
\* after a request for the close, and a client reads each response as it was
\* written, whichever calls handlers make on it and wherever maxPacketSize cuts
\* what they write (nbhttp/processor.go, flushResponse; nbhttp/response.go).
THEOREM AnsweredInOrder == Spec => []ResponsesExact
<1>1. Init => AInv
  BY OrderInit
<1>2. IInv /\ AInv /\ [Next]_vars => AInv'
  BY NextOrder
<1>3. AInv => ResponsesExact
  BY DEF AInv, AnswersOK, Answers, Readable, ResponsesExact
<1> QED BY <1>1, <1>2, <1>3, InductiveInvariant, PTL DEF Spec
=============================================================================
