--------------------------- MODULE WebSocketProofs ----------------------------
(***************************************************************************)
(* Proofs about WebSocket and WsSend.                                      *)
(***************************************************************************)
EXTENDS WebSocket, DataLemmas, SequenceTheorems, FiniteSetTheorems

-----------------------------------------------------------------------------
(* Writing: the inductive invariant.                                       *)

FrameOps == {"cont", "text", "binary"} \cup Control
FrameSet == [msg : Nat, op : FrameOps, rsv1 : BOOLEAN, fin : BOOLEAN]
Buffer == [frame : FrameSet, ok : BOOLEAN]

SendTypeOK ==
  /\ async \in BOOLEAN /\ netOpen \in BOOLEAN /\ delayed \in BOOLEAN /\ closed \in BOOLEAN
  /\ sendQueue \in Seq(Nat)
  /\ writer \in [at : {"off", "write", "next"}, i : Nat, pbuf : Nat]
  /\ buffers \in Seq(Buffer)
  /\ freed \in Seq(Nat) /\ Len(freed) = Len(buffers)
  /\ sent \in Seq(Nat)

\* How many entries of the queue the goroutine has taken.
Taken == IF writer.at = "write" THEN writer.i + 1 ELSE writer.i

\* The queue and its goroutine: what was taken is at the front, an empty queue
\* has no goroutine, and a queue whose goroutine failed stays behind.
QueueInv ==
  /\ ~async => sendQueue = <<>> /\ writer.at = "off"
  /\ SendQueueSize = 0 \/ Len(sendQueue) <= SendQueueSize
  /\ writer.at = "write" <=> writer.pbuf # NoBuf
  /\ writer.at # "off" => sendQueue # <<>> /\ Taken <= Len(sendQueue)
  /\ closed => ~Writable /\ Queued = {}
  /\ ~closed /\ writer.at # "off" =>
       \A k \in 1 .. Len(sendQueue) : sendQueue[k] = NoBuf <=> k <= Taken
  /\ ~closed /\ Writable /\ writer.at = "off" => sendQueue = <<>>

\* A buffer that is written, in hand or queued was accepted; freed is what is
\* neither in hand nor queued.
IdsInv ==
  /\ SentIds \cup InHand \cup Queued \subseteq AcceptedIds
  /\ \A id \in 1 .. Len(buffers) : freed[id] = IF id \in InHand \cup Queued THEN 0 ELSE 1

\* Nothing is lost before the goroutine fails or the connection is closed, and
\* nothing is written behind what was lost.
CompleteInv ==
  /\ ~closed /\ (Writable \/ writer.at # "off" \/ sendQueue = <<>>) =>
       AcceptedIds \subseteq SentIds \cup InHand \cup Queued
  /\ \A id \in AcceptedIds, s \in SentIds : id < s => id \in SentIds

\* The buffers of a message follow each other, up to the one that was refused.
MessageInv ==
  \A id \in 1 .. Len(buffers) :
    /\ buffers[id].frame.op = "cont" =>
         /\ id > 1 /\ buffers[id - 1].ok /\ ~buffers[id - 1].frame.fin
         /\ buffers[id - 1].frame.msg = buffers[id].frame.msg
    /\ buffers[id].ok /\ ~buffers[id].frame.fin =>
         /\ id < Len(buffers) /\ buffers[id + 1].frame.op = "cont"
         /\ buffers[id + 1].frame.msg = buffers[id].frame.msg

SendInv == SendTypeOK /\ QueueInv /\ IdsInv /\ OldestFirst /\ CompleteInv /\ MessageInv

-----------------------------------------------------------------------------
(* What writeFrame is given, and how much of it is accepted.               *)

LEMMA FramesProps ==
  ASSUME SendTypeOK, NEW t \in FrameOps, NEW n \in Nat, NEW z \in BOOLEAN
  PROVE  /\ Frames(t, n, z) \in Seq(FrameSet) /\ Len(Frames(t, n, z)) \in Nat \ {0}
         /\ \A k \in 1 .. Len(Frames(t, n, z)) :
              /\ Frames(t, n, z)[k].msg = Len(buffers) + 1
              /\ Frames(t, n, z)[k].op = IF k = 1 THEN t ELSE "cont"
              /\ Frames(t, n, z)[k].fin = (k = Len(Frames(t, n, z)))
<1> DEFINE count == IF n = 0 THEN 1 ELSE (n + MaxFrame - 1) \div MaxFrame
           f == [k \in 1 .. count |->
                   [msg |-> Len(buffers) + 1, op |-> IF k = 1 THEN t ELSE "cont",
                    rsv1 |-> z /\ k = 1, fin |-> k = count]]
<1>1. count \in Nat \ {0}
  <2>1. \A a \in Nat, b \in Nat \ {0} : a >= b => (a \div b) \in Nat /\ (a \div b) >= 1
    BY Z3
  <2>2. n # 0 => n + MaxFrame - 1 \in Nat /\ n + MaxFrame - 1 >= MaxFrame
    BY SendAssumption
  <2>3. MaxFrame \in Nat \ {0}
    BY SendAssumption
  <2>4. n # 0 => ((n + MaxFrame - 1) \div MaxFrame) \in Nat /\ ((n + MaxFrame - 1) \div MaxFrame) >= 1
    BY <2>1, <2>2, <2>3
  <2> QED BY <2>4
<1>2. Frames(t, n, z) = f
  BY Zenon DEF Frames
<1> HIDE DEF count
<1>3. Len(buffers) \in Nat
  BY SeqFacts DEF SendTypeOK
<1>4. ASSUME NEW k \in 1 .. count PROVE f[k] \in FrameSet
  <2>1. (z /\ k = 1) \in BOOLEAN /\ (k = count) \in BOOLEAN
    BY Zenon
  <2>2. (IF k = 1 THEN t ELSE "cont") \in FrameOps
    BY DEF FrameOps
  <2> QED BY <1>3, <2>1, <2>2 DEF FrameSet
<1>5. f \in [1 .. count -> FrameSet]
  BY <1>4
<1>6. f \in Seq(FrameSet) /\ Len(f) = count
  <2> HIDE DEF f
  <2> QED BY <1>1, <1>5, FunctionSeq
<1>7. ASSUME NEW k \in 1 .. count
      PROVE  f[k].msg = Len(buffers) + 1 /\ f[k].op = (IF k = 1 THEN t ELSE "cont")
             /\ f[k].fin = (k = count)
  BY Zenon
<1> HIDE DEF f
<1> QED BY <1>1, <1>2, <1>6, <1>7

LEMMA AcceptedProps ==
  ASSUME SendTypeOK, QueueInv, NEW fs \in Seq(FrameSet)
  PROVE  /\ Accepted(fs) \in 0 .. Len(fs)
         /\ async => SendQueueSize = 0 \/ Len(sendQueue) + Accepted(fs) <= SendQueueSize
         /\ ~async /\ Accepted(fs) > 0 => Writable
<1>1. Len(fs) \in Nat /\ Len(sendQueue) \in Nat
  BY SeqFacts DEF SendTypeOK
<1>2. CASE ~async
  BY <1>1, <1>2 DEF Accepted
<1>3. CASE async
  BY <1>1, <1>3, SendAssumption DEF Accepted, QueueInv, SendTypeOK
<1> QED BY <1>2, <1>3 DEF SendTypeOK

-----------------------------------------------------------------------------
(* The state behind writeFrame, which accepted a frames and made m buffers *)
(* for them.                                                               *)

Made(fs, a) == IF a < Len(fs) THEN a + 1 ELSE a

BuffersMade(fs, a, m) ==
  /\ buffers' \in Seq(Buffer) /\ Len(buffers') = Len(buffers) + m
  /\ \A id \in 1 .. Len(buffers) : buffers'[id] = buffers[id]
  /\ \A k \in 1 .. m : buffers'[Len(buffers) + k].frame = fs[k] /\ buffers'[Len(buffers) + k].ok = (k <= a)
  /\ freed' \in Seq(Nat) /\ Len(freed') = Len(freed) + m
  /\ \A id \in 1 .. Len(freed) : freed'[id] = freed[id]
  /\ \A k \in 1 .. m : freed'[Len(freed) + k] = IF async /\ k <= a THEN 0 ELSE 1

\* On a connection without a queue,
SentAtOnce(a) ==
  /\ sendQueue' = sendQueue /\ writer' = writer
  /\ sent' \in Seq(Nat) /\ Len(sent') = Len(sent) + a
  /\ \A k \in 1 .. Len(sent) : sent'[k] = sent[k]
  /\ \A k \in 1 .. a : sent'[Len(sent) + k] = Len(buffers) + k

\* on one whose queue was empty,
QueueStarted(a) ==
  /\ sent' = sent /\ writer' = [at |-> "write", i |-> 0, pbuf |-> Len(buffers) + 1]
  /\ sendQueue' \in Seq(Nat) /\ Len(sendQueue') = a
  /\ sendQueue'[1] = NoBuf
  /\ \A k \in 2 .. a : sendQueue'[k] = Len(buffers) + k

\* and on one with a goroutine.
QueueGrown(a) ==
  /\ sent' = sent /\ writer' = writer
  /\ sendQueue' \in Seq(Nat) /\ Len(sendQueue') = Len(sendQueue) + a
  /\ \A k \in 1 .. Len(sendQueue) : sendQueue'[k] = sendQueue[k]
  /\ \A k \in 1 .. a : sendQueue'[Len(sendQueue) + k] = Len(buffers) + k

LEMMA WriteFrameEffect ==
  ASSUME SendInv, NEW fs \in Seq(FrameSet), writeFrame(fs)
  PROVE  /\ BuffersMade(fs, Accepted(fs), Made(fs, Accepted(fs)))
         /\ ~async => SentAtOnce(Accepted(fs))
         /\ async /\ sendQueue = <<>> /\ Accepted(fs) > 0 => QueueStarted(Accepted(fs))
         /\ async /\ ~(sendQueue = <<>> /\ Accepted(fs) > 0) => QueueGrown(Accepted(fs))
<1> DEFINE a == Accepted(fs)
           m == Made(fs, a)
           ids == [k \in 1 .. a |-> Len(buffers) + k]
           bs == [k \in 1 .. m |-> [frame |-> fs[k], ok |-> k <= a]]
           gs == [k \in 1 .. m |-> IF async /\ k <= a THEN 0 ELSE 1]
           heads == async /\ sendQueue = <<>> /\ a > 0
<1>1. a \in 0 .. Len(fs) /\ Len(fs) \in Nat
  BY AcceptedProps, SeqFacts DEF SendInv
<1>2. m \in 0 .. Len(fs)
  BY <1>1 DEF Made
<1>3. Len(buffers) \in Nat /\ Len(freed) \in Nat /\ Len(sent) \in Nat /\ Len(sendQueue) \in Nat
  BY SeqFacts DEF SendInv, SendTypeOK
<1>4. /\ buffers' = buffers \o bs
      /\ freed' = freed \o gs
      /\ sent' = IF async THEN sent ELSE sent \o ids
      /\ sendQueue' = IF ~async THEN sendQueue
                      ELSE IF heads THEN <<NoBuf>> \o Tail(ids) ELSE sendQueue \o ids
      /\ writer' = IF heads THEN [at |-> "write", i |-> 0, pbuf |-> ids[1]] ELSE writer
  BY Zenon DEF writeFrame, Made
<1>5. ids \in Seq(Nat) /\ Len(ids) = a /\ \A k \in 1 .. a : ids[k] = Len(buffers) + k
  <2>1. ids \in [1 .. a -> Nat]
    BY <1>1, <1>3
  <2>2. \A k \in 1 .. a : ids[k] = Len(buffers) + k
    OBVIOUS
  <2>3. a \in Nat
    BY <1>1
  <2> HIDE DEF ids, a
  <2> QED BY <2>1, <2>2, <2>3, FunctionSeq
<1>6. bs \in Seq(Buffer) /\ Len(bs) = m /\ \A k \in 1 .. m : bs[k].frame = fs[k] /\ bs[k].ok = (k <= a)
  <2>1. ASSUME NEW k \in 1 .. m PROVE [frame |-> fs[k], ok |-> k <= a] \in Buffer
    <3>1. k \in 1 .. Len(fs)
      BY <1>1, <1>2
    <3>2. fs[k] \in FrameSet
      BY <3>1, ElementOfSeq
    <3> HIDE DEF a
    <3>3. (k <= a) \in BOOLEAN
      OBVIOUS
    <3> QED BY <3>2, <3>3 DEF Buffer
  <2> HIDE DEF a, m
  <2>2. bs \in [1 .. m -> Buffer]
    BY <2>1
  <2>3. m \in Nat
    BY <1>1, <1>2
  <2>4. \A k \in 1 .. m : bs[k].frame = fs[k] /\ bs[k].ok = (k <= a)
    BY Zenon
  <2> HIDE DEF bs
  <2> QED BY <2>2, <2>3, <2>4, FunctionSeq
<1>7. gs \in Seq(Nat) /\ Len(gs) = m /\ \A k \in 1 .. m : gs[k] = IF async /\ k <= a THEN 0 ELSE 1
  <2> HIDE DEF a, m
  <2>1. gs \in [1 .. m -> Nat]
    OBVIOUS
  <2>2. m \in Nat
    BY <1>1, <1>2
  <2>3. \A k \in 1 .. m : gs[k] = IF async /\ k <= a THEN 0 ELSE 1
    OBVIOUS
  <2> HIDE DEF gs
  <2> QED BY <2>1, <2>2, <2>3, FunctionSeq
<1> HIDE DEF ids, bs, gs, a, m
<1>8. BuffersMade(fs, a, m)
  <2>1. buffers \in Seq(Buffer) /\ freed \in Seq(Nat)
    BY DEF SendInv, SendTypeOK
  <2>2. /\ buffers' \in Seq(Buffer) /\ Len(buffers') = Len(buffers) + m
        /\ \A id \in 1 .. Len(buffers) : buffers'[id] = buffers[id]
        /\ \A k \in 1 .. m : buffers'[Len(buffers) + k] = bs[k]
    <3>1. /\ buffers \o bs \in Seq(Buffer) /\ Len(buffers \o bs) = Len(buffers) + Len(bs)
          /\ \A i \in 1 .. Len(buffers) : (buffers \o bs)[i] = buffers[i]
          /\ \A i \in 1 .. Len(bs) : (buffers \o bs)[Len(buffers) + i] = bs[i]
      <4>1. bs \in Seq(Buffer)
        BY <1>6
      <4> QED BY <2>1, <4>1, ConcatSeq
    <3> QED BY <1>4, <1>6, <3>1, Zenon
  <2>3. /\ freed' \in Seq(Nat) /\ Len(freed') = Len(freed) + m
        /\ \A id \in 1 .. Len(freed) : freed'[id] = freed[id]
        /\ \A k \in 1 .. m : freed'[Len(freed) + k] = gs[k]
    <3>1. /\ freed \o gs \in Seq(Nat) /\ Len(freed \o gs) = Len(freed) + Len(gs)
          /\ \A i \in 1 .. Len(freed) : (freed \o gs)[i] = freed[i]
          /\ \A i \in 1 .. Len(gs) : (freed \o gs)[Len(freed) + i] = gs[i]
      <4>1. gs \in Seq(Nat)
        BY <1>7
      <4> QED BY <2>1, <4>1, ConcatSeq
    <3> QED BY <1>4, <1>7, <3>1, Zenon
  <2> QED BY <1>6, <1>7, <2>2, <2>3, Zenon DEF BuffersMade
<1>9. ASSUME ~async PROVE SentAtOnce(a)
  <2>1. sent \in Seq(Nat) /\ sent' = sent \o ids /\ sendQueue' = sendQueue /\ writer' = writer
    BY <1>4, <1>9 DEF SendInv, SendTypeOK
  <2>2. /\ sent \o ids \in Seq(Nat) /\ Len(sent \o ids) = Len(sent) + Len(ids)
        /\ \A i \in 1 .. Len(sent) : (sent \o ids)[i] = sent[i]
        /\ \A i \in 1 .. Len(ids) : (sent \o ids)[Len(sent) + i] = ids[i]
    <3>1. ids \in Seq(Nat)
      BY <1>5
    <3> QED BY <2>1, <3>1, ConcatSeq
  <2> QED BY <1>5, <2>1, <2>2, Zenon DEF SentAtOnce
<1>10. ASSUME async, sendQueue = <<>>, a > 0 PROVE QueueStarted(a)
  <2>1. sent' = sent /\ sendQueue' = <<NoBuf>> \o Tail(ids)
        /\ writer' = [at |-> "write", i |-> 0, pbuf |-> ids[1]]
    BY <1>4, <1>10
  <2>2. ids # <<>> /\ ids[1] = Len(buffers) + 1
    BY <1>1, <1>5, <1>10, SeqFacts
  <2>3. Tail(ids) \in Seq(Nat) /\ Len(Tail(ids)) = a - 1
        /\ \A k \in 1 .. a - 1 : Tail(ids)[k] = ids[k + 1]
    BY <1>5, <2>2, HeadTailProperties
  <2>4. <<NoBuf>> \in Seq(Nat) /\ Len(<<NoBuf>>) = 1 /\ <<NoBuf>>[1] = NoBuf
    BY DEF NoBuf
  <2>5. /\ sendQueue' \in Seq(Nat) /\ Len(sendQueue') = 1 + (a - 1) /\ sendQueue'[1] = NoBuf
        /\ \A k \in 1 .. a - 1 : sendQueue'[1 + k] = Tail(ids)[k]
    BY <2>1, <2>3, <2>4, ConcatSeq
  <2>6. ASSUME NEW k \in 2 .. a PROVE sendQueue'[k] = Len(buffers) + k
    <3>1. k - 1 \in 1 .. a - 1 /\ 1 + (k - 1) = k /\ k \in 1 .. a
      BY <1>1
    <3> QED BY <1>5, <2>3, <2>5, <3>1
  <2> QED BY <1>1, <2>1, <2>2, <2>5, <2>6 DEF QueueStarted
<1>11. ASSUME async, ~(sendQueue = <<>> /\ a > 0) PROVE QueueGrown(a)
  <2>1. sendQueue \in Seq(Nat) /\ sent' = sent /\ sendQueue' = sendQueue \o ids /\ writer' = writer
    BY <1>4, <1>11 DEF SendInv, SendTypeOK
  <2>2. /\ sendQueue \o ids \in Seq(Nat) /\ Len(sendQueue \o ids) = Len(sendQueue) + Len(ids)
        /\ \A i \in 1 .. Len(sendQueue) : (sendQueue \o ids)[i] = sendQueue[i]
        /\ \A i \in 1 .. Len(ids) : (sendQueue \o ids)[Len(sendQueue) + i] = ids[i]
    <3>1. ids \in Seq(Nat)
      BY <1>5
    <3> QED BY <2>1, <3>1, ConcatSeq
  <2> QED BY <1>5, <2>1, <2>2, Zenon DEF QueueGrown
<1> QED BY <1>8, <1>9, <1>10, <1>11 DEF a, m

LEMMA WriteFrameKeeps ==
  ASSUME SendInv, ~closed, NEW fs \in Seq(FrameSet), Len(fs) \in Nat \ {0},
         \A k \in 1 .. Len(fs) : /\ fs[k].msg = Len(buffers) + 1
                                 /\ fs[k].op = "cont" <=> k # 1
                                 /\ fs[k].fin <=> k = Len(fs),
         writeFrame(fs), async' = async, closed' = closed,
         netOpen' \in BOOLEAN, delayed' \in BOOLEAN, Writable' => Writable
  PROVE  SendInv'
<1> DEFINE a == Accepted(fs)
           m == Made(fs, a)
           N == Len(buffers)
           New == N + 1 .. N + a
<1>1. /\ a \in 0 .. Len(fs)
      /\ async => SendQueueSize = 0 \/ Len(sendQueue) + a <= SendQueueSize
      /\ ~async /\ a > 0 => Writable
  BY AcceptedProps DEF SendInv
<1>2. m \in Nat /\ m >= a /\ m <= a + 1 /\ m <= Len(fs) /\ (m = a => a = Len(fs))
  BY <1>1 DEF Made
<1>3. /\ N \in Nat /\ Len(freed) = N /\ Len(sent) \in Nat /\ Len(sendQueue) \in Nat
      /\ DOMAIN sent = 1 .. Len(sent) /\ DOMAIN sendQueue = 1 .. Len(sendQueue)
      /\ sendQueue = <<>> <=> Len(sendQueue) = 0
  BY SeqFacts DEF SendInv, SendTypeOK
<1>4. /\ BuffersMade(fs, a, m)
      /\ ~async => SentAtOnce(a)
      /\ async /\ sendQueue = <<>> /\ a > 0 => QueueStarted(a)
      /\ async /\ ~(sendQueue = <<>> /\ a > 0) => QueueGrown(a)
  BY WriteFrameEffect
<1> HIDE DEF a, m
<1>5. SendTypeOK'
  <2>1. buffers' \in Seq(Buffer) /\ freed' \in Seq(Nat) /\ Len(freed') = Len(buffers')
    BY <1>3, <1>4 DEF BuffersMade
  <2>2. sendQueue' \in Seq(Nat) /\ sent' \in Seq(Nat)
    BY <1>4 DEF SentAtOnce, QueueStarted, QueueGrown, SendInv, SendTypeOK
  <2>3. writer' \in [at : {"off", "write", "next"}, i : Nat, pbuf : Nat]
    BY <1>3, <1>4 DEF SentAtOnce, QueueStarted, QueueGrown, SendInv, SendTypeOK
  <2> QED BY <2>1, <2>2, <2>3 DEF SendTypeOK, SendInv
<1>6. /\ DOMAIN sent' = 1 .. Len(sent') /\ DOMAIN sendQueue' = 1 .. Len(sendQueue')
      /\ Len(sent') \in Nat /\ Len(sendQueue') \in Nat
      /\ sendQueue' = <<>> <=> Len(sendQueue') = 0
  BY <1>5, SeqFacts DEF SendTypeOK
<1>7. AcceptedIds' = AcceptedIds \cup New
  <2>1. \A id \in 1 .. N : buffers'[id] = buffers[id]
    BY <1>4 DEF BuffersMade
  <2>2. \A k \in 1 .. m : buffers'[N + k].ok <=> k <= a
    BY <1>4, Zenon DEF BuffersMade
  <2>3. Len(buffers') = N + m
    BY <1>4 DEF BuffersMade
  <2>4. ASSUME NEW id \in N + 1 .. N + m PROVE buffers'[id].ok <=> id <= N + a
    <3>1. id - N \in 1 .. m /\ N + (id - N) = id
      BY <1>2, <1>3
    <3>2. buffers'[N + (id - N)].ok <=> (id - N) <= a
      BY <2>2, <3>1
    <3> QED BY <1>1, <1>3, <3>1, <3>2
  <2>5. 1 .. N + m = (1 .. N) \cup (N + 1 .. N + m) /\ New \subseteq N + 1 .. N + m
    BY <1>1, <1>2, <1>3
  <2> HIDE DEF N
  <2>6. ASSUME NEW id \in 1 .. N + m
        PROVE  buffers'[id].ok <=> (id \in 1 .. N /\ buffers[id].ok) \/ id \in New
    BY <1>1, <1>2, <1>3, <2>1, <2>4
  <2> QED BY <1>1, <1>2, <1>3, <2>3, <2>5, <2>6 DEF AcceptedIds, N
<1>8. /\ AcceptedIds \subseteq 1 .. N
      /\ SentIds \cup InHand \cup Queued \subseteq 1 .. N
  BY DEF AcceptedIds, SendInv, IdsInv
<1>9. MessageInv'
  <2>1. /\ Len(buffers') = N + m
        /\ \A id \in 1 .. N : buffers'[id] = buffers[id]
        /\ \A k \in 1 .. m : buffers'[N + k].frame = fs[k] /\ (buffers'[N + k].ok <=> k <= a)
    BY <1>4, Zenon DEF BuffersMade
  <2>2. ASSUME NEW k \in 1 .. m
        PROVE  /\ buffers'[N + k].frame.msg = N + 1
               /\ buffers'[N + k].frame.op = "cont" <=> k # 1
               /\ buffers'[N + k].frame.fin <=> k = Len(fs)
    <3>1. k \in 1 .. Len(fs)
      BY <1>2
    <3>2. buffers'[N + k].frame = fs[k]
      BY <2>1
    <3>3. /\ fs[k].msg = Len(buffers) + 1
          /\ fs[k].op = "cont" <=> k # 1
          /\ fs[k].fin <=> k = Len(fs)
      BY <3>1
    <3> QED BY <3>2, <3>3, Zenon
  <2> HIDE DEF N
  <2> DEFINE Follows(id) ==
        /\ buffers'[id].frame.op = "cont" =>
             /\ id > 1 /\ buffers'[id - 1].ok /\ ~buffers'[id - 1].frame.fin
             /\ buffers'[id - 1].frame.msg = buffers'[id].frame.msg
        /\ buffers'[id].ok /\ ~buffers'[id].frame.fin =>
             /\ id < N + m /\ buffers'[id + 1].frame.op = "cont"
             /\ buffers'[id + 1].frame.msg = buffers'[id].frame.msg
  <2>3. ASSUME NEW id \in 1 .. N PROVE Follows(id)
    <3>1. /\ buffers[id].frame.op = "cont" =>
               /\ id > 1 /\ buffers[id - 1].ok /\ ~buffers[id - 1].frame.fin
               /\ buffers[id - 1].frame.msg = buffers[id].frame.msg
          /\ buffers[id].ok /\ ~buffers[id].frame.fin =>
               /\ id < N /\ buffers[id + 1].frame.op = "cont"
               /\ buffers[id + 1].frame.msg = buffers[id].frame.msg
      BY DEF SendInv, MessageInv, N
    <3>2. buffers'[id] = buffers[id]
      BY <2>1
    <3>3. id > 1 => buffers'[id - 1] = buffers[id - 1]
      BY <1>3, <2>1
    <3>4. id < N => buffers'[id + 1] = buffers[id + 1] /\ id < N + m
      BY <1>2, <1>3, <2>1
    <3> QED BY <3>1, <3>2, <3>3, <3>4
  <2>4. ASSUME NEW k \in 1 .. m PROVE Follows(N + k)
    <3>1. ASSUME buffers'[N + k].frame.op = "cont"
          PROVE  /\ N + k > 1 /\ buffers'[(N + k) - 1].ok /\ ~buffers'[(N + k) - 1].frame.fin
                 /\ buffers'[(N + k) - 1].frame.msg = buffers'[N + k].frame.msg
      <4>0. k # 1
        BY <2>2, <3>1
      <4>1. k - 1 \in 1 .. m /\ N + (k - 1) = (N + k) - 1 /\ k - 1 <= a /\ k - 1 # Len(fs) /\ N + k > 1
        BY <1>1, <1>2, <1>3, <4>0
      <4> QED BY <2>1, <2>2, <4>1
    <3>2. ASSUME buffers'[N + k].ok, ~buffers'[N + k].frame.fin
          PROVE  /\ N + k < N + m /\ buffers'[(N + k) + 1].frame.op = "cont"
                 /\ buffers'[(N + k) + 1].frame.msg = buffers'[N + k].frame.msg
      <4>1. k <= a /\ k # Len(fs)
        <5>1. (buffers'[N + k].ok <=> k <= a) /\ (buffers'[N + k].frame.fin <=> k = Len(fs))
          BY <2>1, <2>2, Zenon
        <5> QED BY <3>2, <5>1, Zenon
      <4>2. k < m
        <5>1. CASE k = a
          BY <1>1, <1>2, <4>1, <5>1
        <5>2. CASE k < a
          BY <1>1, <1>2, <5>2
        <5> QED BY <1>1, <4>1, <5>1, <5>2
      <4>3. k + 1 \in 1 .. m /\ N + (k + 1) = (N + k) + 1 /\ N + k < N + m /\ k + 1 # 1
        BY <1>2, <1>3, <4>2
      <4> QED BY <2>2, <4>3
    <3>3. buffers'[N + k].frame.op = "cont" =>
            /\ N + k > 1 /\ buffers'[(N + k) - 1].ok /\ ~buffers'[(N + k) - 1].frame.fin
            /\ buffers'[(N + k) - 1].frame.msg = buffers'[N + k].frame.msg
      BY <3>1, Zenon
    <3>4. buffers'[N + k].ok /\ ~buffers'[N + k].frame.fin =>
            /\ N + k < N + m /\ buffers'[(N + k) + 1].frame.op = "cont"
            /\ buffers'[(N + k) + 1].frame.msg = buffers'[N + k].frame.msg
      BY <3>2, Zenon
    <3> QED BY <3>3, <3>4, Zenon
  <2>5. ASSUME NEW id \in 1 .. N + m, id \notin 1 .. N PROVE \E k \in 1 .. m : id = N + k
    <3>1. id - N \in 1 .. m /\ id = N + (id - N)
      BY <1>2, <1>3, <2>5
    <3> QED BY <3>1
  <2>6. ASSUME NEW id \in 1 .. N + m PROVE Follows(id)
    <3> HIDE DEF Follows
    <3>1. CASE id \in 1 .. N
      BY <2>3, <3>1
    <3>2. CASE id \notin 1 .. N
      <4>1. PICK k \in 1 .. m : id = N + k
        BY <2>5, <3>2
      <4>2. Follows(N + k)
        BY <2>4
      <4> QED BY <4>1, <4>2
    <3> QED BY <3>1, <3>2
  <2>7. Len(buffers') = N + m
    BY <2>1
  <2> HIDE DEF New
  <2> QED BY <2>6, <2>7 DEF MessageInv
<1>10. ASSUME ~async
       PROVE  /\ SentIds' = SentIds \cup New /\ InHand' = {} /\ Queued' = {}
              /\ InHand = {} /\ Queued = {} /\ Len(sendQueue') = 0 /\ writer' = writer
              /\ \A k, l \in DOMAIN sent' : k < l => sent'[k] < sent'[l]
  <2>1. SentAtOnce(a) /\ sendQueue = <<>> /\ writer.at = "off" /\ writer.pbuf = NoBuf
    BY <1>4, <1>10 DEF SendInv, QueueInv
  <2>2. InHand' = {} /\ Queued' = {} /\ InHand = {} /\ Queued = {} /\ Len(sendQueue') = 0
    BY <1>3, <2>1 DEF InHand, Queued, SentAtOnce
  <2>3. /\ Len(sent') = Len(sent) + a
        /\ \A k \in 1 .. Len(sent) : sent'[k] = sent[k]
        /\ \A k \in 1 .. a : sent'[Len(sent) + k] = N + k
    BY <2>1 DEF SentAtOnce
  <2>4. ASSUME NEW k \in 1 .. Len(sent'), k \notin 1 .. Len(sent)
        PROVE  sent'[k] = N + (k - Len(sent)) /\ k - Len(sent) \in 1 .. a
    <3>1. k - Len(sent) \in 1 .. a /\ Len(sent) + (k - Len(sent)) = k
      BY <1>1, <1>3, <2>3, <2>4
    <3>2. sent'[Len(sent) + (k - Len(sent))] = N + (k - Len(sent))
      BY <2>3, <3>1
    <3> QED BY <3>1, <3>2
  <2>5. SentIds' \subseteq SentIds \cup New
    <3> SUFFICES ASSUME NEW k \in 1 .. Len(sent') PROVE sent'[k] \in SentIds \cup New
      BY <1>6 DEF SentIds
    <3>1. CASE k \in 1 .. Len(sent)
      BY <1>3, <2>3, <3>1 DEF SentIds
    <3>2. CASE k \notin 1 .. Len(sent)
      BY <1>1, <1>3, <2>4, <3>2
    <3> QED BY <3>1, <3>2
  <2>6. SentIds \subseteq SentIds'
    <3> SUFFICES ASSUME NEW k \in 1 .. Len(sent) PROVE sent[k] \in SentIds'
      BY <1>3 DEF SentIds
    <3>1. k \in DOMAIN sent' /\ sent'[k] = sent[k]
      BY <1>1, <1>3, <1>6, <2>3
    <3> QED BY <3>1, Zenon DEF SentIds
  <2>7. New \subseteq SentIds'
    <3> SUFFICES ASSUME NEW id \in New PROVE id \in SentIds'
      OBVIOUS
    <3>1. id - N \in 1 .. a /\ N + (id - N) = id
      BY <1>1, <1>3
    <3>2. sent'[Len(sent) + (id - N)] = N + (id - N)
      BY <2>3, <3>1
    <3>4. sent'[Len(sent) + (id - N)] = id
      BY <3>1, <3>2
    <3>3. Len(sent) + (id - N) \in DOMAIN sent'
      BY <1>1, <1>3, <1>6, <2>3, <3>1
    <3> QED BY <3>1, <3>3, <3>4 DEF SentIds
  <2>8. ASSUME NEW k \in DOMAIN sent', NEW l \in DOMAIN sent', k < l PROVE sent'[k] < sent'[l]
    <3>0. k \in 1 .. Len(sent') /\ l \in 1 .. Len(sent')
      BY <1>6
    <3>1. CASE l \in 1 .. Len(sent)
      <4>1. k \in 1 .. Len(sent)
        BY <1>3, <2>8, <3>0, <3>1
      <4>2. sent[k] < sent[l]
        BY <1>3, <2>8, <3>1, <4>1 DEF SendInv, OldestFirst
      <4> QED BY <2>3, <3>1, <4>1, <4>2
    <3>2. CASE l \notin 1 .. Len(sent) /\ k \in 1 .. Len(sent)
      <4>1. sent[k] \in 1 .. N
        BY <1>3, <1>8, <3>2 DEF SentIds
      <4> QED BY <1>1, <1>3, <2>3, <2>4, <3>0, <3>2, <4>1
    <3>3. CASE l \notin 1 .. Len(sent) /\ k \notin 1 .. Len(sent)
      <4>1. sent'[k] = N + (k - Len(sent)) /\ sent'[l] = N + (l - Len(sent))
        BY <2>4, <3>0, <3>3
      <4> QED BY <1>3, <2>8, <3>0, <4>1
    <3> QED BY <3>1, <3>2, <3>3
  <2> QED BY <2>1, <2>2, <2>5, <2>6, <2>7, <2>8 DEF SentAtOnce
<1>11. ASSUME async, sendQueue = <<>>, a > 0
       PROVE  /\ SentIds' = SentIds /\ InHand = {} /\ Queued = {}
              /\ InHand' = {N + 1} /\ Queued' = N + 2 .. N + a
              /\ Len(sendQueue') = a /\ writer.at = "off" /\ sent' = sent
              /\ writer' = [at |-> "write", i |-> 0, pbuf |-> N + 1]
              /\ \A k \in 1 .. a : sendQueue'[k] = IF k = 1 THEN NoBuf ELSE N + k
  <2>1. QueueStarted(a) /\ writer.at = "off" /\ writer.pbuf = NoBuf
    BY <1>4, <1>11 DEF SendInv, QueueInv, SendTypeOK
  <2>2. InHand = {} /\ Queued = {}
    BY <1>3, <1>11, <2>1 DEF InHand, Queued
  <2>3. InHand' = {N + 1}
    BY <1>3, <2>1 DEF QueueStarted, InHand, NoBuf
  <2>4. \A k \in 1 .. a : sendQueue'[k] = IF k = 1 THEN NoBuf ELSE N + k
    BY <1>1, <2>1 DEF QueueStarted
  <2>5. Len(sendQueue') = a
    BY <2>1 DEF QueueStarted
  <2>6. Queued' \subseteq N + 2 .. N + a
    BY <1>1, <1>3, <1>6, <2>4, <2>5 DEF Queued
  <2>7. N + 2 .. N + a \subseteq Queued'
    <3> SUFFICES ASSUME NEW id \in N + 2 .. N + a PROVE id \in Queued'
      OBVIOUS
    <3>1. id - N \in 2 .. a /\ N + (id - N) = id /\ id # 0
      BY <1>1, <1>3
    <3>2. id - N \in DOMAIN sendQueue' /\ sendQueue'[id - N] = id
      BY <1>1, <1>6, <2>4, <2>5, <3>1
    <3> QED BY <3>1, <3>2, Zenon DEF Queued, NoBuf
  <2>8. sent' = sent /\ writer' = [at |-> "write", i |-> 0, pbuf |-> N + 1]
    BY <2>1 DEF QueueStarted
  <2>9. SentIds' = SentIds
    BY <2>8 DEF SentIds
  <2> HIDE DEF N
  <2> QED BY <2>1, <2>2, <2>3, <2>4, <2>5, <2>6, <2>7, <2>8, <2>9
<1>12. ASSUME async, ~(sendQueue = <<>> /\ a > 0)
       PROVE  /\ SentIds' = SentIds /\ InHand' = InHand /\ Queued' = Queued \cup New
              /\ Len(sendQueue') = Len(sendQueue) + a /\ writer' = writer /\ sent' = sent
              /\ \A k \in 1 .. Len(sendQueue) : sendQueue'[k] = sendQueue[k]
              /\ \A k \in 1 .. Len(sendQueue') : k \notin 1 .. Len(sendQueue) =>
                   sendQueue'[k] = N + (k - Len(sendQueue)) /\ sendQueue'[k] \in New
  <2>1. QueueGrown(a)
    BY <1>4, <1>12
  <2>2. /\ Len(sendQueue') = Len(sendQueue) + a
        /\ \A k \in 1 .. Len(sendQueue) : sendQueue'[k] = sendQueue[k]
        /\ \A k \in 1 .. a : sendQueue'[Len(sendQueue) + k] = N + k
    BY <2>1 DEF QueueGrown
  <2>3. ASSUME NEW k \in 1 .. Len(sendQueue'), k \notin 1 .. Len(sendQueue)
        PROVE  sendQueue'[k] = N + (k - Len(sendQueue)) /\ sendQueue'[k] \in New
    <3>1. k - Len(sendQueue) \in 1 .. a /\ Len(sendQueue) + (k - Len(sendQueue)) = k
      BY <1>1, <1>3, <2>2, <2>3
    <3>2. sendQueue'[Len(sendQueue) + (k - Len(sendQueue))] = N + (k - Len(sendQueue))
      BY <2>2, <3>1
    <3> QED BY <1>1, <1>3, <3>1, <3>2
  <2>4. Queued' \subseteq Queued \cup New
    BY <1>3, <1>6, <2>2, <2>3 DEF Queued
  <2>5. Queued \subseteq Queued'
    <3> SUFFICES ASSUME NEW k \in 1 .. Len(sendQueue), sendQueue[k] # NoBuf PROVE sendQueue[k] \in Queued'
      BY <1>3 DEF Queued
    <3>1. k \in DOMAIN sendQueue' /\ sendQueue'[k] = sendQueue[k]
      BY <1>1, <1>3, <1>6, <2>2
    <3> QED BY <3>1, Zenon DEF Queued
  <2>6. New \subseteq Queued'
    <3> SUFFICES ASSUME NEW id \in New PROVE id \in Queued'
      OBVIOUS
    <3>1. id - N \in 1 .. a /\ N + (id - N) = id /\ id # 0
      BY <1>1, <1>3
    <3>2. sendQueue'[Len(sendQueue) + (id - N)] = N + (id - N)
      BY <2>2, <3>1
    <3>4. sendQueue'[Len(sendQueue) + (id - N)] = id
      BY <3>1, <3>2
    <3>3. Len(sendQueue) + (id - N) \in DOMAIN sendQueue'
      BY <1>1, <1>3, <1>6, <2>2, <3>1
    <3> QED BY <3>1, <3>3, <3>4 DEF Queued, NoBuf
  <2>7. sent' = sent /\ writer' = writer
    BY <2>1 DEF QueueGrown
  <2> QED BY <2>2, <2>3, <2>4, <2>5, <2>6, <2>7 DEF SentIds, InHand
<1>13. /\ SentIds' = IF async THEN SentIds ELSE SentIds \cup New
       /\ InHand' \cup Queued' = IF async THEN InHand \cup Queued \cup New ELSE InHand \cup Queued
  <2>1. CASE async /\ sendQueue = <<>> /\ a > 0
    <3>1. {N + 1} \cup (N + 2 .. N + a) = New
      BY <1>1, <1>3, <2>1
    <3> QED BY <1>11, <2>1, <3>1
  <2>2. CASE ~async
    BY <1>10, <2>2
  <2>3. CASE async /\ ~(sendQueue = <<>> /\ a > 0)
    BY <1>12, <2>3
  <2> QED BY <2>1, <2>2, <2>3
<1>14. IdsInv'
  <2>1. SentIds' \cup InHand' \cup Queued' \subseteq AcceptedIds'
    BY <1>7, <1>13 DEF SendInv, IdsInv
  <2>2. /\ Len(buffers') = N + m
        /\ \A id \in 1 .. N : freed'[id] = freed[id]
        /\ \A k \in 1 .. m : freed'[N + k] = IF async /\ k <= a THEN 0 ELSE 1
    BY <1>3, <1>4 DEF BuffersMade
  <2>3. ASSUME NEW id \in 1 .. N PROVE freed'[id] = IF id \in InHand' \cup Queued' THEN 0 ELSE 1
    <3>1. id \notin New
      BY <1>3
    <3> QED BY <1>13, <2>2, <3>1 DEF SendInv, IdsInv
  <2>4. ASSUME NEW id \in 1 .. N + m, id \notin 1 .. N
        PROVE  freed'[id] = IF id \in InHand' \cup Queued' THEN 0 ELSE 1
    <3>1. id - N \in 1 .. m /\ N + (id - N) = id
      BY <1>2, <1>3, <2>4
    <3>2. freed'[N + (id - N)] = IF async /\ (id - N) <= a THEN 0 ELSE 1
      BY <2>2, <3>1
    <3>3. id \in New <=> (id - N) <= a
      BY <1>1, <1>3, <3>1
    <3>4. id \notin InHand \cup Queued
      BY <1>8, <2>4
    <3> HIDE DEF New
    <3> QED BY <1>13, <3>1, <3>2, <3>3, <3>4
  <2> HIDE DEF N
  <2> QED BY <2>1, <2>2, <2>3, <2>4 DEF IdsInv
<1>15. CompleteInv'
  <2>1. ASSUME ~closed', Writable' \/ writer'.at # "off" \/ sendQueue' = <<>>
        PROVE  AcceptedIds' \subseteq SentIds' \cup InHand' \cup Queued'
    <3>1. Writable \/ writer.at # "off" \/ sendQueue = <<>>
      <4>1. CASE async /\ ~(sendQueue = <<>> /\ a > 0)
        BY <1>1, <1>3, <1>6, <1>12, <2>1, <4>1
      <4>2. CASE ~async
        BY <4>2 DEF SendInv, QueueInv
      <4>3. CASE async /\ sendQueue = <<>> /\ a > 0
        BY <4>3
      <4> QED BY <4>1, <4>2, <4>3
    <3>2. AcceptedIds \subseteq SentIds \cup InHand \cup Queued
      BY <3>1 DEF SendInv, CompleteInv
    <3> QED BY <1>7, <1>13, <3>2
  <2>2. ASSUME NEW id \in AcceptedIds', NEW s \in SentIds', id < s PROVE id \in SentIds'
    <3>1. CASE async \/ a = 0
      <4>1. SentIds' = SentIds
        BY <1>3, <1>13, <3>1
      <4>2. id \in AcceptedIds
        BY <1>1, <1>3, <1>7, <1>8, <2>2, <4>1
      <4> QED BY <2>2, <4>1, <4>2 DEF SendInv, CompleteInv
    <3>2. CASE ~async /\ a > 0
      <4>1. Writable
        BY <1>1, <3>2
      <4>2. AcceptedIds \subseteq SentIds \cup InHand \cup Queued
        BY <4>1 DEF SendInv, CompleteInv
      <4>3. AcceptedIds \subseteq SentIds
        BY <1>10, <3>2, <4>2
      <4> QED BY <1>7, <1>10, <2>2, <3>2, <4>3
    <3> QED BY <1>1, <3>1, <3>2
  <2> QED BY <2>1, <2>2 DEF CompleteInv
<1>16. QueueInv'
  <2>1. CASE ~async
    <3>1. sendQueue' = <<>> /\ writer' = writer /\ writer.at = "off" /\ Len(sendQueue') = 0
      BY <1>6, <1>10, <2>1 DEF SendInv, QueueInv
    <3>2. Queued' = {}
      BY <1>10, <2>1
    <3> QED BY <2>1, <3>1, <3>2, SendAssumption DEF SendInv, QueueInv, Taken
  <2>2. CASE async /\ sendQueue = <<>> /\ a > 0
    <3>0. Len(sendQueue') = a /\ writer' = [at |-> "write", i |-> 0, pbuf |-> N + 1]
          /\ \A k \in 1 .. a : sendQueue'[k] = IF k = 1 THEN NoBuf ELSE N + k
      BY <1>11, <2>2, Zenon
    <3>1. Len(sendQueue') = a /\ sendQueue' # <<>> /\ writer' = [at |-> "write", i |-> 0, pbuf |-> N + 1]
          /\ \A k \in 1 .. a : sendQueue'[k] = IF k = 1 THEN NoBuf ELSE N + k
      BY <1>1, <1>6, <2>2, <3>0
    <3>2. Taken' = 1 /\ writer'.at = "write" /\ writer'.pbuf # NoBuf
      BY <1>3, <3>1 DEF Taken, NoBuf
    <3>3. SendQueueSize = 0 \/ Len(sendQueue') <= SendQueueSize
      BY <1>1, <1>3, <2>2, <3>1
    <3>4. \A k \in 1 .. Len(sendQueue') : sendQueue'[k] = NoBuf <=> k <= Taken'
      BY <1>1, <1>3, <3>1, <3>2 DEF NoBuf
    <3>5. Taken' <= Len(sendQueue')
      BY <1>1, <2>2, <3>1, <3>2
    <3> QED BY <2>2, <3>1, <3>2, <3>3, <3>4, <3>5 DEF QueueInv
  <2>3. CASE async /\ ~(sendQueue = <<>> /\ a > 0)
    <3>1. /\ Len(sendQueue') = Len(sendQueue) + a /\ writer' = writer
          /\ \A k \in 1 .. Len(sendQueue) : sendQueue'[k] = sendQueue[k]
          /\ \A k \in 1 .. Len(sendQueue') : k \notin 1 .. Len(sendQueue) => sendQueue'[k] \in New
      BY <1>12, <2>3
    <3>2. Taken' = Taken /\ writer.i \in Nat /\ Taken \in Nat
      BY <3>1 DEF Taken, SendInv, SendTypeOK
    <3>3. SendQueueSize = 0 \/ Len(sendQueue') <= SendQueueSize
      BY <1>1, <2>3, <3>1
    <3>4. writer.at # "off" => sendQueue' # <<>> /\ Taken <= Len(sendQueue')
      BY <1>1, <1>3, <1>6, <3>1, <3>2 DEF SendInv, QueueInv
    <3>5. ASSUME writer.at # "off"
          PROVE  \A k \in 1 .. Len(sendQueue') : sendQueue'[k] = NoBuf <=> k <= Taken
      <4> SUFFICES ASSUME NEW k \in 1 .. Len(sendQueue') PROVE sendQueue'[k] = NoBuf <=> k <= Taken
        OBVIOUS
      <4>1. CASE k \in 1 .. Len(sendQueue)
        BY <3>1, <3>5, <4>1 DEF SendInv, QueueInv
      <4>2. CASE k \notin 1 .. Len(sendQueue)
        <5>1. sendQueue'[k] # NoBuf
          BY <1>1, <1>3, <3>1, <4>2 DEF NoBuf
        <5>2. Taken <= Len(sendQueue)
          BY <3>5 DEF SendInv, QueueInv
        <5> QED BY <1>3, <3>2, <4>2, <5>1, <5>2
      <4> QED BY <4>1, <4>2
    <3>6. ASSUME Writable', writer.at = "off" PROVE sendQueue' = <<>>
      <4>1. sendQueue = <<>>
        BY <3>6 DEF SendInv, QueueInv
      <4> QED BY <1>1, <1>3, <1>6, <2>3, <3>1, <4>1
    <3>7. writer.at = "write" <=> writer.pbuf # NoBuf
      BY DEF SendInv, QueueInv
    <3> QED BY <2>3, <3>1, <3>2, <3>3, <3>4, <3>5, <3>6, <3>7 DEF QueueInv
  <2> QED BY <2>1, <2>2, <2>3
<1>17. OldestFirst'
  <2>1. CASE ~async
    <3>1. \A k, l \in DOMAIN sendQueue' : k # k
      BY <1>6, <1>10, <2>1
    <3> QED BY <1>10, <2>1, <3>1 DEF OldestFirst
  <2>2. CASE async /\ sendQueue = <<>> /\ a > 0
    <3>1. \A k, l \in DOMAIN sent' : k < l => sent'[k] < sent'[l]
      BY <1>11, <2>2 DEF SendInv, OldestFirst
    <3>2. \A id \in SentIds', i \in InHand' \cup Queued' : id < i
      BY <1>1, <1>3, <1>8, <1>11, <2>2
    <3>3. \A i \in InHand', q \in Queued' : i < q
      BY <1>1, <1>3, <1>11, <2>2
    <3>4. \A k, l \in DOMAIN sendQueue' :
            k < l /\ sendQueue'[k] # NoBuf /\ sendQueue'[l] # NoBuf => sendQueue'[k] < sendQueue'[l]
      <4>1. DOMAIN sendQueue' = 1 .. a /\ \A k \in 1 .. a : sendQueue'[k] = IF k = 1 THEN NoBuf ELSE N + k
        BY <1>6, <1>11, <2>2
      <4> QED BY <1>1, <1>3, <4>1
    <3> QED BY <3>1, <3>2, <3>3, <3>4 DEF OldestFirst
  <2>3. CASE async /\ ~(sendQueue = <<>> /\ a > 0)
    <3>0. /\ SentIds' = SentIds /\ InHand' = InHand /\ Queued' = Queued \cup New /\ sent' = sent
          /\ \A k \in 1 .. Len(sendQueue) : sendQueue'[k] = sendQueue[k]
          /\ \A k \in 1 .. Len(sendQueue') : k \notin 1 .. Len(sendQueue) =>
                   sendQueue'[k] = N + (k - Len(sendQueue)) /\ sendQueue'[k] \in New
      BY <1>12, <2>3
    <3>1. \A k, l \in DOMAIN sent' : k < l => sent'[k] < sent'[l]
      BY <3>0 DEF SendInv, OldestFirst
    <3>2. \A id \in SentIds', i \in InHand' \cup Queued' : id < i
      <4>1. \A id \in SentIds, i \in New : id < i
        BY <1>1, <1>3, <1>8
      <4> QED BY <3>0, <4>1 DEF SendInv, OldestFirst
    <3>3. \A i \in InHand', q \in Queued' : i < q
      <4>1. \A id \in InHand, i \in New : id < i
        BY <1>1, <1>3, <1>8
      <4> QED BY <3>0, <4>1 DEF SendInv, OldestFirst
    <3>4. ASSUME NEW k \in DOMAIN sendQueue', NEW l \in DOMAIN sendQueue', k < l,
                 sendQueue'[k] # NoBuf, sendQueue'[l] # NoBuf
          PROVE  sendQueue'[k] < sendQueue'[l]
      <4>0. k \in 1 .. Len(sendQueue') /\ l \in 1 .. Len(sendQueue')
        BY <1>6
      <4>1. CASE l \in 1 .. Len(sendQueue)
        <5>1. k \in 1 .. Len(sendQueue)
          BY <1>3, <3>4, <4>0, <4>1
        <5>2. sendQueue[k] # NoBuf /\ sendQueue[l] # NoBuf
          BY <3>0, <3>4, <4>1, <5>1
        <5>3. sendQueue[k] < sendQueue[l]
          BY <1>3, <3>4, <4>1, <5>1, <5>2 DEF SendInv, OldestFirst
        <5> QED BY <3>0, <4>1, <5>1, <5>3
      <4>2. CASE l \notin 1 .. Len(sendQueue) /\ k \in 1 .. Len(sendQueue)
        <5>1. sendQueue[k] \in Queued /\ sendQueue'[k] = sendQueue[k]
          BY <1>3, <3>0, <3>4, <4>2 DEF Queued
        <5>2. sendQueue'[l] \in New
          BY <3>0, <4>0, <4>2
        <5> QED BY <1>1, <1>3, <1>8, <5>1, <5>2
      <4>3. CASE l \notin 1 .. Len(sendQueue) /\ k \notin 1 .. Len(sendQueue)
        <5>1. sendQueue'[k] = N + (k - Len(sendQueue)) /\ sendQueue'[l] = N + (l - Len(sendQueue))
          BY <3>0, <4>0, <4>3
        <5> QED BY <1>3, <3>4, <4>0, <5>1
      <4> QED BY <4>1, <4>2, <4>3
    <3> QED BY <3>1, <3>2, <3>3, <3>4 DEF OldestFirst
  <2> QED BY <2>1, <2>2, <2>3
<1> QED BY <1>5, <1>9, <1>14, <1>15, <1>16, <1>17 DEF SendInv

LEMMA SendUnchanged ==
  ASSUME SendInv, UNCHANGED sendVars, async' = async, closed' = closed,
         netOpen' \in BOOLEAN, delayed' \in BOOLEAN, Writable' => Writable
  PROVE  SendInv'
<1>1. /\ SentIds' = SentIds /\ InHand' = InHand /\ Queued' = Queued /\ AcceptedIds' = AcceptedIds
      /\ Taken' = Taken
  BY DEF sendVars, SentIds, InHand, Queued, AcceptedIds, Taken
<1>2. SendTypeOK'
  BY DEF SendInv, SendTypeOK, sendVars
<1>3. QueueInv'
  BY <1>1 DEF SendInv, QueueInv, sendVars
<1>4. IdsInv'
  BY <1>1 DEF SendInv, IdsInv, sendVars
<1>5. CompleteInv'
  BY <1>1 DEF SendInv, CompleteInv, sendVars
<1>6. OldestFirst'
  BY <1>1 DEF SendInv, OldestFirst, sendVars
<1>7. MessageInv'
  BY DEF SendInv, MessageInv, sendVars
<1> QED BY <1>2, <1>3, <1>4, <1>5, <1>6, <1>7 DEF SendInv

LEMMA WriteMessageKeeps ==
  ASSUME SendInv, NEW t \in FrameOps \ {"cont"}, NEW n \in Nat, NEW z \in BOOLEAN,
         WriteMessage(t, n, z), async' = async, closed' = closed,
         netOpen' \in BOOLEAN, delayed' \in BOOLEAN, Writable' => Writable
  PROVE  SendInv'
<1>1. CASE closed \/ (t \in Control /\ n > MaxControl)
  <2>1. UNCHANGED sendVars
    BY <1>1 DEF WriteMessage
  <2> QED BY <2>1, SendUnchanged
<1>2. CASE ~(closed \/ (t \in Control /\ n > MaxControl))
  <2> DEFINE fs == Frames(t, n, z)
  <2>1. writeFrame(fs) /\ ~closed
    BY <1>2 DEF WriteMessage
  <2>2. /\ fs \in Seq(FrameSet) /\ Len(fs) \in Nat \ {0}
        /\ \A k \in 1 .. Len(fs) : /\ fs[k].msg = Len(buffers) + 1
                                   /\ fs[k].op = IF k = 1 THEN t ELSE "cont"
                                   /\ fs[k].fin = (k = Len(fs))
    BY FramesProps DEF SendInv
  <2> HIDE DEF fs
  <2>3. \A k \in 1 .. Len(fs) : /\ fs[k].msg = Len(buffers) + 1
                                /\ fs[k].op = "cont" <=> k # 1
                                /\ fs[k].fin <=> k = Len(fs)
    BY <2>2, Zenon
  <2> QED BY <2>1, <2>2, <2>3, WriteFrameKeeps
<1> QED BY <1>1, <1>2

LEMMA CleanQueueKeeps ==
  ASSUME SendInv, ~closed, CleanQueue, async' = async, closed' = TRUE, netOpen' = FALSE,
         delayed' = delayed
  PROVE  SendInv'
<1>1. /\ writer' = writer /\ buffers' = buffers /\ sent' = sent
      /\ sendQueue' = [k \in DOMAIN sendQueue |-> NoBuf]
      /\ freed' = [id \in DOMAIN freed |->
                     IF \E k \in DOMAIN sendQueue : sendQueue[k] = id THEN freed[id] + 1 ELSE freed[id]]
  BY DEF CleanQueue
<1>2. /\ Len(sendQueue) \in Nat /\ DOMAIN sendQueue = 1 .. Len(sendQueue)
      /\ Len(freed) \in Nat /\ DOMAIN freed = 1 .. Len(freed) /\ Len(freed) = Len(buffers)
  BY SeqFacts DEF SendInv, SendTypeOK
<1>3. sendQueue' \in Seq(Nat) /\ Len(sendQueue') = Len(sendQueue) /\ DOMAIN sendQueue' = DOMAIN sendQueue
  <2>1. sendQueue' \in [1 .. Len(sendQueue) -> Nat]
    BY <1>1, <1>2 DEF NoBuf
  <2> QED BY <1>1, <1>2, <2>1, FunctionSeq
<1>4. freed' \in Seq(Nat) /\ Len(freed') = Len(freed)
  <2>1. \A id \in 1 .. Len(freed) : freed[id] \in Nat
    BY SeqFacts DEF SendInv, SendTypeOK
  <2>2. freed' \in [1 .. Len(freed) -> Nat]
    BY <1>1, <1>2, <2>1
  <2> QED BY <1>2, <2>2, FunctionSeq
<1>5. Queued' = {} /\ InHand' = InHand /\ SentIds' = SentIds /\ AcceptedIds' = AcceptedIds /\ Taken' = Taken
  BY <1>1, <1>3 DEF Queued, InHand, SentIds, AcceptedIds, Taken
<1>6. SendTypeOK'
  BY <1>1, <1>2, <1>3, <1>4 DEF SendInv, SendTypeOK
<1>7. QueueInv'
  <2>1. sendQueue = <<>> <=> sendQueue' = <<>>
    BY <1>2, <1>3, SeqFacts DEF SendInv, SendTypeOK
  <2> QED BY <1>1, <1>3, <1>5, <2>1 DEF SendInv, QueueInv, Writable
<1>8. IdsInv'
  <2>1. ASSUME NEW id \in 1 .. Len(buffers)
        PROVE  freed'[id] = IF id \in InHand THEN 0 ELSE 1
    <3>1. (\E k \in DOMAIN sendQueue : sendQueue[k] = id) <=> id \in Queued
      BY DEF Queued, NoBuf
    <3>2. id \in Queued => id \notin InHand
      <4>1. id \in Queued /\ id \in InHand => id < id
        BY DEF SendInv, OldestFirst
      <4> QED BY <4>1
    <3>3. freed[id] = IF id \in InHand \cup Queued THEN 0 ELSE 1
      BY DEF SendInv, IdsInv
    <3> QED BY <1>1, <1>2, <3>1, <3>2, <3>3
  <2> QED BY <1>1, <1>5, <2>1 DEF SendInv, IdsInv
<1>9. CompleteInv'
  BY <1>5 DEF SendInv, CompleteInv
<1>10. OldestFirst'
  BY <1>1, <1>3, <1>5 DEF SendInv, OldestFirst
<1>11. MessageInv'
  BY <1>1 DEF SendInv, MessageInv
<1> QED BY <1>6, <1>7, <1>8, <1>9, <1>10, <1>11 DEF SendInv

LEMMA WriterWriteStep ==
  ASSUME SendInv, WriterWrite PROVE SendInv'
<1> DEFINE p == writer.pbuf
<1>1. /\ writer.at = "write" /\ freed' = [freed EXCEPT ![p] = @ + 1]
      /\ async' = async /\ closed' = closed /\ sendQueue' = sendQueue /\ buffers' = buffers
  BY DEF WriterWrite, Free
<1>2. /\ p # NoBuf /\ InHand = {p} /\ p \in AcceptedIds /\ p \in 1 .. Len(buffers) /\ async
      /\ sendQueue # <<>> /\ Taken <= Len(sendQueue)
  <2>1. p # NoBuf /\ async /\ sendQueue # <<>> /\ Taken <= Len(sendQueue)
    BY <1>1 DEF SendInv, QueueInv, SendTypeOK
  <2>2. InHand = {p}
    BY <2>1 DEF InHand
  <2> QED BY <2>1, <2>2 DEF SendInv, IdsInv, AcceptedIds
<1>3. /\ writer \in [at : {"off", "write", "next"}, i : Nat, pbuf : Nat] /\ p \in Nat
      /\ Len(freed) = Len(buffers) /\ freed \in Seq(Nat)
      /\ Len(freed) \in Nat /\ freed \in [1 .. Len(freed) -> Nat]
  BY SeqFacts DEF SendInv, SendTypeOK
<1>4. /\ freed' \in Seq(Nat) /\ Len(freed') = Len(freed)
      /\ \A id \in 1 .. Len(buffers) : freed'[id] = IF id = p THEN freed[id] + 1 ELSE freed[id]
  <2>1. freed' \in [1 .. Len(freed) -> Nat]
    BY <1>1, <1>2, <1>3
  <2>2. freed' \in Seq(Nat) /\ Len(freed') = Len(freed)
    BY <1>3, <2>1, FunctionSeq
  <2> QED BY <1>1, <1>2, <1>3, <2>2
<1>5. Queued' = Queued /\ AcceptedIds' = AcceptedIds /\ p \notin Queued
  <2>1. \A q \in Queued : p < q
    BY <1>2 DEF SendInv, OldestFirst
  <2>2. p \notin Queued
    BY <1>3, <2>1
  <2> QED BY <1>1, <2>2 DEF Queued, AcceptedIds
<1>6. \A id \in 1 .. Len(buffers) : freed'[id] = IF id \in Queued THEN 0 ELSE 1
  <2>1. \A id \in 1 .. Len(buffers) : freed[id] = IF id \in {p} \cup Queued THEN 0 ELSE 1
    BY <1>2 DEF SendInv, IdsInv
  <2> QED BY <1>4, <1>5, <2>1
<1>7. MessageInv'
  BY <1>1 DEF SendInv, MessageInv
<1>8. CASE Writable
  <2>1. /\ sent' = Append(sent, p) /\ netOpen' = netOpen /\ delayed' = delayed /\ (Writable' <=> Writable)
        /\ writer' = [writer EXCEPT !.at = "next", !.i = @ + 1, !.pbuf = NoBuf]
    BY <1>8 DEF WriterWrite, closeVars, Writable
  <2>2. writer' = [at |-> "next", i |-> writer.i + 1, pbuf |-> NoBuf]
    BY <1>3, <2>1
  <2>3. /\ sent \in Seq(Nat) /\ Len(sent) \in Nat /\ DOMAIN sent = 1 .. Len(sent)
    BY SeqFacts DEF SendInv, SendTypeOK
  <2>4. /\ sent' \in Seq(Nat) /\ Len(sent') = Len(sent) + 1 /\ DOMAIN sent' = 1 .. Len(sent) + 1
        /\ \A k \in 1 .. Len(sent) : sent'[k] = sent[k]
        /\ sent'[Len(sent) + 1] = p
    BY <1>3, <2>1, <2>3, AppendProperties, SeqFacts
  <2>5. SentIds' = SentIds \cup {p}
    <3>1. SentIds' \subseteq SentIds \cup {p}
      <4> SUFFICES ASSUME NEW k \in 1 .. Len(sent) + 1 PROVE sent'[k] \in SentIds \cup {p}
        BY <2>4 DEF SentIds
      <4>1. CASE k \in 1 .. Len(sent)
        BY <2>3, <2>4, <4>1 DEF SentIds
      <4>2. CASE k = Len(sent) + 1
        BY <2>4, <4>2
      <4> QED BY <2>3, <4>1, <4>2
    <3>2. SentIds \subseteq SentIds'
      <4> SUFFICES ASSUME NEW k \in 1 .. Len(sent) PROVE sent[k] \in SentIds'
        BY <2>3 DEF SentIds
      <4>1. k \in DOMAIN sent' /\ sent'[k] = sent[k]
        BY <2>3, <2>4
      <4> QED BY <4>1, Zenon DEF SentIds
    <3>3. p \in SentIds'
      <4>1. Len(sent) + 1 \in DOMAIN sent'
        BY <2>3, <2>4
      <4> QED BY <2>4, <4>1, Zenon DEF SentIds
    <3> QED BY <3>1, <3>2, <3>3
  <2>6. InHand' = {} /\ Taken' = Taken
    BY <1>1, <1>3, <2>2 DEF InHand, Taken
  <2>7. ~closed
    BY <1>8 DEF SendInv, QueueInv
  <2>8. SendTypeOK'
    BY <1>1, <1>3, <1>4, <2>1, <2>2, <2>4 DEF SendInv, SendTypeOK, NoBuf
  <2>9. QueueInv'
    <3>1. \A k \in 1 .. Len(sendQueue) : sendQueue[k] = NoBuf <=> k <= Taken
      BY <1>1, <2>7 DEF SendInv, QueueInv
    <3> QED BY <1>1, <1>2, <1>5, <2>1, <2>2, <2>6, <2>7, <3>1 DEF SendInv, QueueInv
  <2>10. IdsInv'
    BY <1>1, <1>2, <1>5, <1>6, <2>5, <2>6 DEF SendInv, IdsInv
  <2>11. CompleteInv'
    <3>1. AcceptedIds \subseteq SentIds \cup {p} \cup Queued
      BY <1>2, <1>8, <2>7 DEF SendInv, CompleteInv
    <3>2. ASSUME NEW id \in AcceptedIds, NEW s \in SentIds', id < s PROVE id \in SentIds'
      <4>1. CASE s \in SentIds
        BY <2>5, <3>2, <4>1 DEF SendInv, CompleteInv
      <4>2. CASE s = p
        <5>1. id \notin Queued
          <6>1. id \in Queued => p < id
            BY <1>2 DEF SendInv, OldestFirst
          <6>2. id \in Nat
            BY SeqFacts DEF AcceptedIds
          <6> QED BY <1>3, <3>2, <4>2, <6>1, <6>2
        <5> QED BY <2>5, <3>1, <5>1
      <4> QED BY <2>5, <4>1, <4>2
    <3> QED BY <1>5, <2>5, <2>6, <3>1, <3>2 DEF CompleteInv
  <2>12. OldestFirst'
    <3>1. ASSUME NEW k \in DOMAIN sent', NEW l \in DOMAIN sent', k < l PROVE sent'[k] < sent'[l]
      <4>1. k \in 1 .. Len(sent) /\ l \in 1 .. Len(sent) + 1
        BY <2>3, <2>4, <3>1
      <4>2. CASE l \in 1 .. Len(sent)
        BY <2>3, <2>4, <3>1, <4>1, <4>2 DEF SendInv, OldestFirst
      <4>3. CASE l = Len(sent) + 1
        <5>1. sent[k] < p
          BY <1>2, <2>3, <4>1 DEF SendInv, OldestFirst, SentIds
        <5> QED BY <2>4, <4>1, <4>3, <5>1
      <4> QED BY <2>3, <4>1, <4>2, <4>3
    <3>2. \A id \in SentIds \cup {p}, i \in Queued : id < i
      BY <1>2 DEF SendInv, OldestFirst
    <3> QED BY <1>1, <1>5, <2>5, <2>6, <3>1, <3>2 DEF SendInv, OldestFirst
  <2> QED BY <1>7, <2>8, <2>9, <2>10, <2>11, <2>12 DEF SendInv
<1>9. CASE ~Writable
  <2>1. writer' = NoWriter /\ delayed' = TRUE /\ netOpen' = netOpen /\ sent' = sent /\ (Writable' <=> Writable)
    BY <1>2, <1>9 DEF WriterWrite, Close, Writable
  <2>2. writer' = [at |-> "off", i |-> 0, pbuf |-> NoBuf]
    BY <2>1 DEF NoWriter
  <2>3. InHand' = {} /\ SentIds' = SentIds
    BY <2>1, <2>2 DEF InHand, SentIds
  <2>4. SendTypeOK'
    BY <1>1, <1>4, <2>1, <2>2 DEF SendInv, SendTypeOK, NoBuf
  <2>5. QueueInv'
    BY <1>1, <1>2, <1>5, <1>9, <2>1, <2>2 DEF SendInv, QueueInv
  <2>6. IdsInv'
    BY <1>1, <1>5, <1>6, <2>3 DEF SendInv, IdsInv
  <2>7. CompleteInv'
    BY <1>1, <1>2, <1>5, <1>9, <2>1, <2>2, <2>3 DEF SendInv, CompleteInv
  <2>8. OldestFirst'
    BY <1>1, <1>5, <2>1, <2>3 DEF SendInv, OldestFirst
  <2> QED BY <1>7, <2>4, <2>5, <2>6, <2>7, <2>8 DEF SendInv
<1> QED BY <1>8, <1>9

LEMMA WriterNextStep ==
  ASSUME SendInv, WriterNext PROVE SendInv'
<1>1. /\ writer.at = "next" /\ async' = async /\ netOpen' = netOpen /\ delayed' = delayed /\ (Writable' <=> Writable)
      /\ closed' = closed /\ buffers' = buffers /\ freed' = freed /\ sent' = sent
  BY DEF WriterNext, closeVars, Writable
<1>2. writer \in [at : {"off", "write", "next"}, i : Nat, pbuf : Nat] /\ writer.pbuf = NoBuf
  BY <1>1 DEF SendInv, SendTypeOK, QueueInv
<1>3. InHand = {} /\ SentIds' = SentIds /\ AcceptedIds' = AcceptedIds /\ Taken = writer.i
  BY <1>1, <1>2 DEF InHand, SentIds, AcceptedIds, Taken
<1>4. /\ Len(sendQueue) \in Nat /\ DOMAIN sendQueue = 1 .. Len(sendQueue) /\ sendQueue \in Seq(Nat)
      /\ sendQueue \in [1 .. Len(sendQueue) -> Nat] /\ sendQueue # <<>> /\ async
      /\ SendQueueSize = 0 \/ Len(sendQueue) <= SendQueueSize
  BY <1>1, SeqFacts DEF SendInv, SendTypeOK, QueueInv
<1>5. MessageInv'
  BY <1>1 DEF SendInv, MessageInv
<1>6. CASE closed
  <2>1. writer' = [at |-> "off", i |-> 0, pbuf |-> NoBuf] /\ sendQueue' = sendQueue
    BY <1>6 DEF WriterNext, NoWriter
  <2>2. InHand' = {} /\ Queued' = Queued
    BY <2>1 DEF InHand, Queued
  <2>3. SendTypeOK'
    BY <1>1, <2>1 DEF SendInv, SendTypeOK, NoBuf
  <2>4. QueueInv'
    BY <1>1, <1>6, <2>1, <2>2 DEF SendInv, QueueInv
  <2>5. IdsInv'
    BY <1>1, <1>3, <2>2 DEF SendInv, IdsInv
  <2>6. CompleteInv'
    BY <1>1, <1>3, <1>6 DEF SendInv, CompleteInv
  <2>7. OldestFirst'
    BY <1>1, <1>3, <2>1, <2>2 DEF SendInv, OldestFirst
  <2> QED BY <1>5, <2>3, <2>4, <2>5, <2>6, <2>7 DEF SendInv
<1>7. CASE ~closed /\ Len(sendQueue) <= writer.i
  <2>1. writer' = [at |-> "off", i |-> 0, pbuf |-> NoBuf] /\ sendQueue' = <<>>
    BY <1>7 DEF WriterNext, NoWriter
  <2>2. Queued = {}
    <3>1. \A k \in 1 .. Len(sendQueue) : sendQueue[k] = NoBuf <=> k <= writer.i
      BY <1>1, <1>3, <1>7 DEF SendInv, QueueInv
    <3>2. \A k \in 1 .. Len(sendQueue) : sendQueue[k] = NoBuf
      BY <1>2, <1>4, <1>7, <3>1
    <3> QED BY <1>4, <3>2 DEF Queued
  <2>3. InHand' = {} /\ Queued' = {} /\ Len(sendQueue') = 0 /\ DOMAIN sendQueue' = {} /\ sendQueue' \in Seq(Nat)
    <3>1. Len(<<>>) = 0 /\ DOMAIN <<>> = {} /\ <<>> \in Seq(Nat)
      BY EmptySeq
    <3>2. InHand' = {}
      BY <2>1 DEF InHand
    <3>3. Queued' = {}
      BY <2>1, <3>1 DEF Queued
    <3> QED BY <2>1, <3>1, <3>2, <3>3
  <2>4. SendTypeOK'
    BY <1>1, <2>1, <2>3 DEF SendInv, SendTypeOK, NoBuf
  <2>5. QueueInv'
    BY <1>1, <2>1, <2>3, SendAssumption DEF SendInv, QueueInv
  <2>6. IdsInv'
    BY <1>1, <1>3, <2>2, <2>3 DEF SendInv, IdsInv
  <2>7. CompleteInv'
    BY <1>1, <1>3, <2>2, <2>3 DEF SendInv, CompleteInv
  <2>8. OldestFirst'
    BY <1>1, <1>3, <2>1, <2>3 DEF SendInv, OldestFirst
  <2> QED BY <1>5, <2>4, <2>5, <2>6, <2>7, <2>8 DEF SendInv
<1>8. CASE ~closed /\ ~(Len(sendQueue) <= writer.i)
  <2> DEFINE k == writer.i + 1
             q == sendQueue[k]
  <2>1. \A j \in 1 .. Len(sendQueue) : sendQueue[j] = NoBuf <=> j <= writer.i
    BY <1>1, <1>3, <1>8 DEF SendInv, QueueInv
  <2>2. k \in 1 .. Len(sendQueue)
    BY <1>2, <1>4, <1>8
  <2>3. q # NoBuf /\ q \in Nat
    BY <1>2, <1>4, <2>1, <2>2
  <2>4. /\ writer' = [writer EXCEPT !.at = "write", !.pbuf = q]
        /\ sendQueue' = [sendQueue EXCEPT ![k] = NoBuf]
    BY <1>8, <2>3 DEF WriterNext
  <2>5. writer' = [at |-> "write", i |-> writer.i, pbuf |-> q]
    BY <1>2, <2>4
  <2>6. /\ sendQueue' \in Seq(Nat) /\ Len(sendQueue') = Len(sendQueue) /\ DOMAIN sendQueue' = 1 .. Len(sendQueue)
        /\ \A j \in 1 .. Len(sendQueue) : sendQueue'[j] = IF j = k THEN NoBuf ELSE sendQueue[j]
    <3>1. sendQueue' \in [1 .. Len(sendQueue) -> Nat]
      BY <1>4, <2>4 DEF NoBuf
    <3>2. sendQueue' \in Seq(Nat) /\ Len(sendQueue') = Len(sendQueue)
      BY <1>4, <3>1, FunctionSeq
    <3>3. \A j \in 1 .. Len(sendQueue) : sendQueue'[j] = IF j = k THEN NoBuf ELSE sendQueue[j]
      BY <1>4, <2>4
    <3> QED BY <3>1, <3>2, <3>3
  <2>7. InHand' = {q} /\ Taken' = writer.i + 1 /\ q \in Queued
    <3>1. InHand' = {q}
      BY <2>3, <2>5 DEF InHand
    <3>2. Taken' = writer.i + 1
      BY <2>5 DEF Taken
    <3>3. q \in Queued
      BY <1>4, <2>2, <2>3 DEF Queued
    <3> QED BY <3>1, <3>2, <3>3
  <2>8. \A j \in 1 .. Len(sendQueue) : j # k /\ sendQueue[j] # NoBuf => q < sendQueue[j]
    <3> SUFFICES ASSUME NEW j \in 1 .. Len(sendQueue), j # k, sendQueue[j] # NoBuf PROVE q < sendQueue[j]
      OBVIOUS
    <3>1. k < j
      BY <1>2, <1>4, <2>1, <2>2
    <3> QED BY <1>4, <2>2, <2>3, <3>1 DEF SendInv, OldestFirst
  <2>9. Queued' = Queued \ {q}
    <3> HIDE DEF k, q
    <3>1. Queued' \subseteq Queued \ {q}
      <4> SUFFICES ASSUME NEW j \in 1 .. Len(sendQueue), sendQueue'[j] # NoBuf
                   PROVE  sendQueue'[j] \in Queued \ {q}
        BY <2>6 DEF Queued
      <4>1. j # k /\ sendQueue'[j] = sendQueue[j]
        BY <2>6
      <4>2. sendQueue[j] \in Queued
        BY <1>4, <4>1 DEF Queued
      <4>3. q < sendQueue[j] /\ sendQueue[j] \in Nat
        BY <1>4, <2>8, <4>1
      <4> QED BY <2>3, <4>1, <4>2, <4>3
    <3>2. Queued \ {q} \subseteq Queued'
      <4> SUFFICES ASSUME NEW j \in 1 .. Len(sendQueue), sendQueue[j] # NoBuf, sendQueue[j] # q
                   PROVE  sendQueue[j] \in Queued'
        BY <1>4 DEF Queued
      <4>1. sendQueue'[j] = sendQueue[j] /\ j \in DOMAIN sendQueue'
        BY <2>6 DEF q
      <4> QED BY <4>1 DEF Queued
    <3> QED BY <3>1, <3>2
  <2>10. InHand' \cup Queued' = InHand \cup Queued
    <3> HIDE DEF k, q
    <3> QED BY <1>3, <2>7, <2>9
  <2> HIDE DEF q
  <2>11. SendTypeOK'
    BY <1>1, <1>2, <2>3, <2>5, <2>6 DEF SendInv, SendTypeOK
  <2>12. QueueInv'
    <3>1. Len(sendQueue') # 0 /\ sendQueue' # <<>>
      BY <1>4, <2>2, <2>6, SeqFacts
    <3>2. \A j \in 1 .. Len(sendQueue') : sendQueue'[j] = NoBuf <=> j <= Taken'
      BY <1>2, <1>4, <2>1, <2>6, <2>7
    <3>3. Taken' <= Len(sendQueue')
      BY <2>2, <2>6, <2>7
    <3>4. SendQueueSize = 0 \/ Len(sendQueue') <= SendQueueSize
      BY <1>4, <2>6
    <3>5. writer'.at = "write" /\ writer'.pbuf # NoBuf
      BY <2>3, <2>5
    <3> QED BY <1>1, <1>4, <1>8, <3>1, <3>2, <3>3, <3>4, <3>5 DEF QueueInv
  <2>13. IdsInv'
    BY <1>1, <1>3, <2>10 DEF SendInv, IdsInv
  <2>14. CompleteInv'
    BY <1>1, <1>3, <1>8, <2>10 DEF SendInv, CompleteInv
  <2>15. OldestFirst'
    <3>1. \A id \in SentIds', i \in InHand' \cup Queued' : id < i
      BY <1>3, <2>10 DEF SendInv, OldestFirst
    <3>2. \A i \in InHand', p \in Queued' : i < p
      <4> SUFFICES ASSUME NEW j \in 1 .. Len(sendQueue), sendQueue'[j] # NoBuf PROVE q < sendQueue'[j]
        BY <2>6, <2>7 DEF Queued
      <4> HIDE DEF k
      <4> QED BY <2>6, <2>8
    <3>3. \A i, j \in DOMAIN sendQueue' :
            i < j /\ sendQueue'[i] # NoBuf /\ sendQueue'[j] # NoBuf => sendQueue'[i] < sendQueue'[j]
      <4> HIDE DEF k
      <4> QED BY <1>4, <2>6 DEF SendInv, OldestFirst
    <3> QED BY <1>1, <3>1, <3>2, <3>3 DEF SendInv, OldestFirst
  <2> QED BY <1>5, <2>11, <2>12, <2>13, <2>14, <2>15 DEF SendInv
<1> QED BY <1>6, <1>7, <1>8

-----------------------------------------------------------------------------
(* What the invariant says of the writers.                                 *)

LEMMA OwnedFollows ==
  ASSUME SendInv PROVE SendBuffersOwned
<1> SUFFICES ASSUME NEW id \in 1 .. Len(buffers)
             PROVE  Cardinality({k \in DOMAIN sendQueue : sendQueue[k] = id})
                    + (IF writer.pbuf = id THEN 1 ELSE 0) + freed[id] = 1
  BY DEF SendBuffersOwned
<1> DEFINE K == {k \in DOMAIN sendQueue : sendQueue[k] = id}
<1>1. freed[id] = IF id \in InHand \cup Queued THEN 0 ELSE 1
  BY DEF SendInv, IdsInv
<1>2. id # NoBuf /\ (writer.pbuf = id <=> id \in InHand)
  BY DEF NoBuf, InHand
<1>3. CASE id \in Queued
  <2>1. PICK k \in DOMAIN sendQueue : sendQueue[k] = id
    BY <1>3 DEF Queued
  <2>2. DOMAIN sendQueue \subseteq Nat
    BY SeqFacts DEF SendInv, SendTypeOK
  <2>3. ASSUME NEW l \in DOMAIN sendQueue, sendQueue[l] = id PROVE l = k
    <3>1. ~(l < k) /\ ~(k < l)
      BY <1>2, <2>1, <2>3 DEF SendInv, OldestFirst
    <3> QED BY <2>2, <3>1
  <2>4. K = {k}
    BY <2>1, <2>3
  <2>5. Cardinality(K) = 1
    BY <2>4, FS_Singleton
  <2>6. id \notin InHand
    <3>1. id \in InHand => id < id
      BY <1>3 DEF SendInv, OldestFirst
    <3> QED BY <3>1
  <2> QED BY <1>1, <1>2, <1>3, <2>5, <2>6
<1>4. CASE id \notin Queued
  <2>1. K = {}
    BY <1>2, <1>4 DEF Queued
  <2>2. Cardinality(K) = 0
    BY <2>1, FS_EmptySet
  <2> HIDE DEF K
  <2>3. Cardinality(K) + (IF writer.pbuf = id THEN 1 ELSE 0) + freed[id] = 1
    BY <1>1, <1>2, <1>4, <2>2
  <2> QED BY <2>3 DEF K
<1> QED BY <1>3, <1>4

LEMMA OrderFollows ==
  ASSUME SendInv PROVE SendOrder
<1>1. SentIds \subseteq AcceptedIds /\ OldestFirst
  BY DEF SendInv, IdsInv
<1>2. \A id \in AcceptedIds, s \in SentIds : id < s => id \in SentIds
  BY DEF SendInv, CompleteInv
<1>3. ~closed /\ (Writable \/ writer.at # "off") => SentIds \cup InHand \cup Queued = AcceptedIds
  BY DEF SendInv, CompleteInv, IdsInv
<1>4. ~closed /\ Writable /\ Queued # {} => writer.at # "off"
  <2>1. sendQueue = <<>> => Queued = {}
    BY SeqFacts DEF Queued, SendInv, SendTypeOK
  <2> QED BY <2>1 DEF SendInv, QueueInv
<1>5. ASSUME NEW k \in 1 .. Len(sent) - 1
      PROVE  LET a == buffers[sent[k]].frame   b == buffers[sent[k + 1]].frame IN
             IF a.fin THEN b.op # "cont"
             ELSE \/ b.op = "cont" /\ b.msg = a.msg
                  \/ \E id \in 1 .. Len(buffers) : buffers[id].frame.msg = a.msg /\ ~buffers[id].ok
  <2> DEFINE x == sent[k]
             y == sent[k + 1]
  <2>1. Len(sent) \in Nat /\ DOMAIN sent = 1 .. Len(sent) /\ Len(buffers) \in Nat
    BY SeqFacts DEF SendInv, SendTypeOK
  <2>2. k \in DOMAIN sent /\ k + 1 \in DOMAIN sent /\ k < k + 1
    BY <2>1
  <2>3. x \in SentIds /\ y \in SentIds
    BY <2>2 DEF SentIds
  <2>4. x < y
    BY <2>2 DEF SendInv, OldestFirst
  <2> HIDE DEF x, y
  <2>5. x \in AcceptedIds /\ y \in AcceptedIds /\ x \in 1 .. Len(buffers) /\ y \in 1 .. Len(buffers)
    BY <1>1, <2>3 DEF AcceptedIds
  <2>6. ASSUME NEW id \in AcceptedIds, x < id PROVE y <= id
    <3> SUFFICES ASSUME id < y PROVE FALSE
      BY <2>1, <2>5 DEF AcceptedIds
    <3>1. id \in SentIds
      BY <1>2, <2>3
    <3>2. PICK j \in DOMAIN sent : sent[j] = id
      BY <3>1 DEF SentIds
    <3>3. id \in Nat /\ x \in Nat /\ y \in Nat
      BY <2>1, <2>5 DEF AcceptedIds
    <3>4. j # k /\ j # k + 1
      BY <2>6, <3>2, <3>3 DEF x, y
    <3>5. ~(j < k)
      <4>1. j < k => sent[j] < sent[k]
        BY <2>2 DEF SendInv, OldestFirst
      <4> QED BY <2>6, <3>2, <3>3, <4>1 DEF x
    <3>6. ~(k + 1 < j)
      <4>1. k + 1 < j => sent[k + 1] < sent[j]
        BY <2>2 DEF SendInv, OldestFirst
      <4> QED BY <3>2, <3>3, <4>1 DEF y
    <3> QED BY <2>1, <2>2, <3>2, <3>4, <3>5, <3>6
  <2>7. CASE buffers[x].frame.fin
    <3> SUFFICES ASSUME buffers[y].frame.op = "cont" PROVE FALSE
      BY <2>7 DEF x, y
    <3>1. y > 1 /\ buffers[y - 1].ok /\ ~buffers[y - 1].frame.fin
      BY <2>5 DEF SendInv, MessageInv
    <3>2. y - 1 \in AcceptedIds
      BY <2>1, <2>5, <3>1 DEF AcceptedIds
    <3>3. x = y - 1
      BY <2>1, <2>4, <2>5, <2>6, <3>2
    <3> QED BY <2>7, <3>1, <3>3
  <2>8. CASE ~buffers[x].frame.fin
    <3>1. /\ buffers[x].ok /\ x < Len(buffers) /\ buffers[x + 1].frame.op = "cont"
          /\ buffers[x + 1].frame.msg = buffers[x].frame.msg
      BY <2>5, <2>8 DEF SendInv, MessageInv, AcceptedIds
    <3>2. x + 1 \in 1 .. Len(buffers)
      BY <2>1, <2>5, <3>1
    <3>3. CASE buffers[x + 1].ok
      <4>1. x + 1 \in AcceptedIds
        BY <3>2, <3>3 DEF AcceptedIds
      <4>2. y = x + 1
        BY <2>1, <2>4, <2>5, <2>6, <4>1
      <4> QED BY <2>8, <3>1, <4>2 DEF x, y
    <3>4. CASE ~buffers[x + 1].ok
      BY <2>8, <3>1, <3>2, <3>4 DEF x, y
    <3> QED BY <3>3, <3>4
  <2> QED BY <2>7, <2>8
<1> QED BY <1>1, <1>2, <1>3, <1>4, <1>5, Zenon DEF SendOrder

-----------------------------------------------------------------------------
(* The reader, the runner and the callbacks: the inductive invariant.      *)

DataOps == {"cont", "text", "binary"}
Unit == (1 .. Len(input.frames)) \X Nat
UnitSeq == Seq(Unit)
FrameJobs == [kind : {"frame"}, op : DataOps, fin : BOOLEAN, body : UnitSeq]
MessageJobs == [kind : {"message"}, op : DataOps, body : UnitSeq, utf8 : BOOLEAN]
ProtocolJobs == [kind : {"protocol"}, op : Control, n : Nat, code : Nat, utf8 : BOOLEAN]
HandlerJob == FrameJobs \cup MessageJobs \cup ProtocolJobs
Job == {CleanJob} \cup HandlerJob
Event == {<<"open">>, <<"close">>} \cup ({"message"} \X DataOps \X UnitSeq) \cup ({"frame"} \X FrameJobs)

WsTypeOK ==
  /\ mode \in Modes /\ input \in Inputs
  /\ phase \in {"check", "respond", "open", "done", "failed"}
  /\ sends \in Nat /\ fed \in 0 .. Len(Stream)
  /\ inbox \in UnitSeq /\ bytesCached \in UnitSeq /\ message \in UnitSeq
  /\ pc \in {"idle", "frame", "handoff", "calling", "fail", "toobig", "drop", "lost", "gone"}
  /\ out \in Seq(HandlerJob) /\ jobs \in Seq(Job)
  /\ msgType \in DataOps /\ compress \in BOOLEAN /\ expectingFragments \in BOOLEAN
  /\ notified \in BOOLEAN /\ session \in {"nil", "pending", "set"}
  /\ events \in Seq(Event)

\* A read is no longer than it may be, and a read of a closed Conn is not kept.
CacheInv == Len(inbox) <= ReadSize /\ WsCachedBounded

\* Nothing is parsed or handled before the upgrade is so far, or when it failed.
Quiet == phase \notin {"open", "done"} \/ (Blocking /\ phase = "open")
QuietInv ==
  Quiet => /\ pc \in {"idle", "gone"} /\ inbox = Nil /\ out = Nil
           /\ \A k \in DOMAIN jobs : jobs[k] = CleanJob

\* A callback that the reader is about to make is one.
CallInv ==
  pc = "calling" => ByReader /\ out # Nil /\ Callback(Head(out)) \in Event \ {<<"open">>, <<"close">>}

\* Behind the close handler there is nothing but a late open handler and, when the
\* reader runs the handlers, one callback, which is still to come while the reader
\* is about to make it; the open handler is the first where Upgrade and the
\* handlers share a goroutine.
Together == mode \in {"poller", "loop", "parser"}
EventInv ==
  /\ \A k \in DOMAIN events : Ended(k) =>
       /\ closed
       /\ \A j \in k + 1 .. Len(events) : ~Ended(j) /\ (~ByReader \/ pc = "calling" => events[j] = <<"open">>)
       /\ \A i, j \in k + 1 .. Len(events) : events[i] # <<"open">> /\ events[j] # <<"open">> => i = j
  /\ Together /\ phase # "done" /\ ~(mode = "parser" /\ phase = "failed") => events = <<>>
  /\ Together /\ phase = "done" =>
       /\ events # <<>> /\ events[1] = <<"open">>
       /\ \A k \in 2 .. Len(events) : events[k] # <<"open">>

IInv == SendInv /\ WsTypeOK /\ CacheInv /\ QuietInv /\ CallInv /\ EventInv

-----------------------------------------------------------------------------
(* Lemmas about the reader's data.                                         *)

LEMMA FramesTyped ==
  ASSUME input \in Inputs
  PROVE  /\ input.frames \in Seq(WireFrame) /\ Len(input.frames) \in Nat
         /\ \A k \in 1 .. Len(input.frames) : input.frames[k] \in WireFrame
  BY InputAssumption, SeqFacts

LEMMA UnitsTyped ==
  ASSUME input \in Inputs, NEW k \in 1 .. Len(input.frames)
  PROVE  Units(k) \in UnitSeq
<1> DEFINE n == HeadLen(input.frames[k]) + input.frames[k].len
<1>1. n \in Nat
  <2>1. input.frames[k].len \in Nat
    BY FramesTyped DEF WireFrame
  <2> QED BY <2>1 DEF HeadLen
<1>2. Units(k) = [j \in 1 .. n |-> <<k, j>>]
  BY Zenon DEF Units
<1> HIDE DEF n
<1>3. Units(k) \in [1 .. n -> Unit]
  BY <1>1, <1>2 DEF Unit
<1> QED BY <1>1, <1>3, FunctionSeq DEF UnitSeq

\* The units of the input are units.
LEMMA StreamTyped ==
  ASSUME input \in Inputs
  PROVE  Stream \in UnitSeq /\ Len(Stream) \in Nat
<1> DEFINE N == Len(input.frames)
           step == [n \in 0 .. N - 1 |-> [t \in UnitSeq |-> t \o Units(n + 1)]]
           F(g) == [k \in 0 .. N |-> IF k = 0 THEN <<>> ELSE g[k - 1] \o Units(k)]
<1>1. N \in Nat
  BY FramesTyped
<1>2. <<>> \in UnitSeq
  BY EmptySeq DEF UnitSeq
<1>3. \A n \in 0 .. N - 1 : \A t \in UnitSeq : step[n][t] = t \o Units(n + 1) /\ step[n][t] \in UnitSeq
  <2> TAKE n \in 0 .. N - 1
  <2> TAKE t \in UnitSeq
  <2>1. step[n][t] = t \o Units(n + 1)
    OBVIOUS
  <2>2. n + 1 \in 1 .. Len(input.frames)
    BY <1>1
  <2>3. Units(n + 1) \in UnitSeq
    BY <2>2, UnitsTyped
  <2>4. t \o Units(n + 1) \in UnitSeq
    BY <2>3, ConcatSeq DEF UnitSeq
  <2> QED BY <2>1, <2>4
<1> HIDE DEF step, N
<1>4. PICK g : /\ g \in [0 .. N -> UnitSeq]
               /\ g[0] = <<>> /\ \A n \in 0 .. N - 1 : g[n + 1] = step[n][g[n]]
  <2>1. step \in Steps(N, UnitSeq)
    BY <1>3 DEF step, Steps
  <2> HIDE DEF UnitSeq
  <2>2. \E g : DefinedBy(g, N, UnitSeq, <<>>, step)
    BY <1>1, <1>2, <2>1, RecursionExists, Zenon
  <2> QED BY <2>2, Zenon DEF DefinedBy
<1>5. g = F(g)
  <2>1. ASSUME NEW k \in 0 .. N PROVE g[k] = IF k = 0 THEN <<>> ELSE g[k - 1] \o Units(k)
    <3>1. CASE k = 0
      BY <1>4, <3>1
    <3>2. CASE k # 0
      <4>1. k - 1 \in 0 .. N - 1 /\ (k - 1) + 1 = k /\ k - 1 \in 0 .. N
        BY <1>1, <3>2
      <4>2. g[k] = step[k - 1][g[k - 1]] /\ g[k - 1] \in UnitSeq
        BY <1>4, <4>1
      <4>3. g[k] = g[k - 1] \o Units((k - 1) + 1)
        BY <1>3, <4>1, <4>2
      <4> QED BY <3>2, <4>1, <4>3
    <3> QED BY <3>1, <3>2
  <2> QED BY <1>4, <2>1
<1>6. StreamTo = F(StreamTo)
  <2>1. StreamTo = CHOOSE h : h = F(h)
    BY Zenon DEF StreamTo, N
  <2> HIDE DEF F
  <2> QED BY <1>5, <2>1, Zenon
<1>7. \A k \in 0 .. N : StreamTo[k] = IF k = 0 THEN <<>> ELSE StreamTo[k - 1] \o Units(k)
  BY <1>6
<1> DEFINE S == {k \in Nat : k <= N => StreamTo[k] \in UnitSeq}
<1>8. N \in S
  <2>1. 0 \in S
    BY <1>1, <1>2, <1>7
  <2>2. ASSUME NEW k \in Nat, k \in S PROVE k + 1 \in S
    <3> SUFFICES ASSUME k + 1 <= N PROVE StreamTo[k + 1] \in UnitSeq
      OBVIOUS
    <3>1. StreamTo[k] \in UnitSeq /\ k + 1 \in 0 .. N /\ k + 1 # 0 /\ (k + 1) - 1 = k
          /\ k + 1 \in 1 .. N
      BY <1>1, <2>2
    <3>2. StreamTo[k + 1] = StreamTo[(k + 1) - 1] \o Units(k + 1)
      BY <1>7, <3>1
    <3>3. Units(k + 1) \in UnitSeq
      BY <3>1, UnitsTyped DEF N
    <3>4. StreamTo[k] \o Units(k + 1) \in UnitSeq
      BY <3>1, <3>3, ConcatSeq DEF UnitSeq
    <3> QED BY <3>1, <3>2, <3>4
  <2> HIDE DEF S
  <2> QED BY <1>1, <2>1, <2>2, SetInduction
<1>9. Stream \in UnitSeq
  BY <1>1, <1>8 DEF Stream, N
<1> QED BY <1>9, SeqFacts DEF UnitSeq

\* The input and the mode never change, and what is made of them.
LEMMA SameInput ==
  ASSUME input' = input, mode' = mode
  PROVE  /\ Unit' = Unit /\ UnitSeq' = UnitSeq /\ FrameJobs' = FrameJobs /\ MessageJobs' = MessageJobs
         /\ HandlerJob' = HandlerJob /\ Job' = Job /\ Event' = Event /\ Stream' = Stream
         /\ (Blocking' <=> Blocking) /\ (Together' <=> Together) /\ (ByReader' <=> ByReader)
<1>1. Unit' = Unit
  BY DEF Unit
<1>2. UnitSeq' = UnitSeq
  BY <1>1 DEF UnitSeq
<1>3. FrameJobs' = FrameJobs /\ MessageJobs' = MessageJobs
  BY <1>2 DEF FrameJobs, MessageJobs
<1>4. HandlerJob' = HandlerJob /\ Job' = Job /\ Event' = Event
  BY <1>2, <1>3 DEF HandlerJob, Job, Event
<1>5. Stream' = Stream
  BY DEF Stream, StreamTo, Units, HeadLen
<1>6. (Blocking' <=> Blocking) /\ (Together' <=> Together) /\ (ByReader' <=> ByReader)
  BY DEF Blocking, Together, ByReader
<1> QED BY <1>1, <1>2, <1>3, <1>4, <1>5, <1>6

\* What nextFrame finds lies in the cached bytes, and is not too long.
LEMMA NextFrameFound ==
  ASSUME WsTypeOK
  PROVE  /\ nextFrame.is \in {"more", "toobig", "fail", "frame"}
         /\ nextFrame.is = "frame" =>
              /\ nextFrame.frame \in WireFrame /\ nextFrame.total \in 1 .. Len(bytesCached)
              /\ nextFrame.body \in UnitSeq
              /\ ~isMessageTooLarge(Len(message) + Len(nextFrame.body))
<1>1. CASE bytesCached = Nil
  <2>1. nextFrame = [is |-> "more"]
    BY <1>1 DEF nextFrame
  <2> QED BY <2>1
<1>2. CASE bytesCached # Nil
  <2> DEFINE f == input.frames[bytesCached[1][1]]
             l == Len(bytesCached)
             bodyLen == IF f.ext /\ l < 2 THEN 0 - 1 ELSE f.len
             total == HeadLen(f) + bodyLen
             body == SubSeq(bytesCached, HeadLen(f) + 1, total)
             found == [is |-> "frame", frame |-> f, total |-> total, body |-> body]
  <2>1. bytesCached \in Seq(Unit) /\ l \in Nat /\ l > 0 /\ bytesCached[1] \in Unit
    BY <1>2, SeqFacts DEF WsTypeOK, UnitSeq, Nil
  <2>2. f \in WireFrame
    <3>1. bytesCached[1][1] \in 1 .. Len(input.frames)
      BY <2>1 DEF Unit
    <3> QED BY <3>1, FramesTyped DEF WsTypeOK
  <2>3. HeadLen(f) \in {1, 2} /\ f.len \in Nat
    BY <2>2 DEF HeadLen, WireFrame
  <2>4. nextFrame =
          IF f.ext /\ f.negative /\ l >= 2 THEN [is |-> "fail"]
          ELSE IF \/ isMessageTooLarge(Len(message) + bodyLen)
                  \/ bodyLen > MaxControl /\ f.op \in Control THEN [is |-> "toobig"]
          ELSE IF bodyLen < 0 \/ l < total THEN [is |-> "more"]
          ELSE IF ~validFrame(f) THEN [is |-> "fail"]
          ELSE found
    BY <1>2 DEF nextFrame
  <2>5. bodyLen \in Int
    BY <2>3
  <2> DEFINE minus == f.ext /\ f.negative /\ l >= 2
             big == isMessageTooLarge(Len(message) + bodyLen)
             long == bodyLen > MaxControl /\ f.op \in Control
             short == bodyLen < 0 \/ l < total
             wrong == ~validFrame(f)
  <2>6. minus \/ big \/ long \/ short \/ wrong =>
          nextFrame \in {[is |-> "toobig"], [is |-> "more"], [is |-> "fail"]}
    <3> HIDE DEF bodyLen, total, found, f, l
    <3> QED BY <2>4
  <2>7. ~(minus \/ big \/ long \/ short \/ wrong) => nextFrame = found
    <3> HIDE DEF bodyLen, total, found, f, l
    <3> QED BY <2>4
  <2>8. ASSUME ~(minus \/ big \/ long \/ short \/ wrong)
        PROVE  /\ total \in 1 .. l /\ body \in UnitSeq
               /\ ~isMessageTooLarge(Len(message) + Len(body))
    <3>1. bodyLen \in Nat /\ total \in 1 .. l
      <4> HIDE DEF bodyLen, f, l
      <4> QED BY <2>1, <2>3, <2>5, <2>8
    <3>2. HeadLen(f) + 1 \in 1 .. l + 1 /\ HeadLen(f) + 1 <= total + 1 /\ total \in 0 .. l
      <4> HIDE DEF bodyLen, f, l
      <4> QED BY <2>1, <2>3, <3>1
    <3>3. body \in Seq(Unit) /\ Len(body) = (total - (HeadLen(f) + 1)) + 1
      <4> HIDE DEF total, f
      <4> QED BY <2>1, <3>2, PartSeq
    <3>4. Len(body) = bodyLen
      <4> HIDE DEF bodyLen, f, body
      <4> QED BY <2>3, <3>1, <3>3
    <3> QED BY <2>8, <3>1, <3>3, <3>4 DEF UnitSeq
  <2> HIDE DEF minus, big, long, short, wrong, f, body, total, l
  <2>9. CASE minus \/ big \/ long \/ short \/ wrong
    BY <2>6, <2>9
  <2>10. CASE ~(minus \/ big \/ long \/ short \/ wrong)
    <3>1. /\ nextFrame.is = "frame" /\ nextFrame.frame = f /\ nextFrame.total = total
          /\ nextFrame.body = body
      BY <2>7, <2>10
    <3> QED BY <2>2, <2>8, <2>10, <3>1 DEF l
  <2> QED BY <2>9, <2>10
<1> QED BY <1>1, <1>2

LEMMA FrameJobTyped ==
  ASSUME NEW t \in DataOps, NEW fin \in BOOLEAN, NEW b \in UnitSeq
  PROVE  FrameJob(t, fin, b) \in Seq(HandlerJob)
<1> DEFINE j == [kind |-> "frame", op |-> t, fin |-> fin, body |-> b]
<1>1. j \in HandlerJob
  BY DEF HandlerJob, FrameJobs
<1> HIDE DEF j
<1>2. <<j>> \in Seq(HandlerJob) /\ <<>> \in Seq(HandlerJob)
  BY <1>1
<1>3. FrameJob(t, fin, b) \in {<<j>>, <<>>}
  BY DEF FrameJob, j
<1> QED BY <1>2, <1>3

\* What one turn of Parse's loop leaves: typed, no longer than before, and no
\* message that is too long; a closed Conn is left alone.
ParseOutcome ==
  /\ pc' \in {"idle", "frame", "handoff", "fail", "toobig", "drop", "lost", "gone"}
  /\ out' \in Seq(HandlerJob)
  /\ bytesCached' \in UnitSeq /\ Len(bytesCached') <= Len(bytesCached)
  /\ message' \in UnitSeq /\ ~isMessageTooLarge(Len(message'))
  /\ msgType' \in DataOps /\ compress' \in BOOLEAN /\ expectingFragments' \in BOOLEAN
  /\ closed => bytesCached' = bytesCached /\ message' = message

LEMMA ConsumeTyped ==
  ASSUME WsTypeOK, nextFrame.is = "frame", Consume(nextFrame)
  PROVE  bytesCached' \in UnitSeq /\ Len(bytesCached') <= Len(bytesCached)
<1> DEFINE n == nextFrame.total  l == Len(bytesCached)
<1>1. n \in 1 .. l /\ bytesCached \in Seq(Unit) /\ l \in Nat
  BY NextFrameFound, SeqFacts DEF WsTypeOK, UnitSeq
<1>2. bytesCached' = SubSeq(bytesCached, n + 1, l)
  BY DEF Consume
<1> HIDE DEF n
<1>3. n + 1 \in 1 .. l + 1 /\ l \in 0 .. l /\ n + 1 <= l + 1
  BY <1>1
<1>4. bytesCached' \in Seq(Unit) /\ Len(bytesCached') = (l - (n + 1)) + 1
  BY <1>1, <1>2, <1>3, PartSeq
<1> QED BY <1>1, <1>4 DEF UnitSeq

LEMMA NilTyped ==
  /\ Nil \in UnitSeq /\ Len(Nil) = 0 /\ ~isMessageTooLarge(0)
  /\ Nil \in Seq(Job) /\ Nil \in Seq(HandlerJob)
  BY EmptySeq, LimitAssumption DEF Nil, UnitSeq, isMessageTooLarge

LEMMA DataFrameOutcome ==
  ASSUME WsTypeOK, ~isMessageTooLarge(Len(message)), ~closed, nextFrame.is = "frame",
         nextFrame.frame.op \in DataOps, DataFrame(nextFrame)
  PROVE  ParseOutcome
<1> DEFINE r == nextFrame
           f == r.frame
           first == msgType = "cont"
           type == IF first THEN f.op ELSE msgType
           z == IF first THEN f.rsv1 ELSE compress
           whole == message \o r.body
<1>1. /\ f \in WireFrame /\ r.body \in UnitSeq /\ ~isMessageTooLarge(Len(message) + Len(r.body))
  BY NextFrameFound
<1>2. f.rsv1 \in BOOLEAN /\ f.utf8 \in BOOLEAN
  BY <1>1 DEF WireFrame
<1>3. type \in DataOps /\ z \in BOOLEAN
  BY <1>2 DEF WsTypeOK
<1>4. whole \in UnitSeq /\ Len(whole) = Len(message) + Len(r.body)
  BY <1>1, ConcatSeq DEF WsTypeOK, UnitSeq
<1>5. bytesCached \in UnitSeq /\ Len(bytesCached) \in Nat /\ out \in Seq(HandlerJob)
  BY SeqFacts DEF WsTypeOK, UnitSeq
<1>6. \A b \in BOOLEAN : FrameJob(type, b, r.body) \in Seq(HandlerJob)
  BY <1>1, <1>3, FrameJobTyped, Zenon
<1>9. CASE ~input.onMessage
  <2>1. /\ msgType' = type /\ compress' = z /\ UNCHANGED <<message, expectingFragments>>
        /\ out' = FrameJob(type, f.fin, r.body) /\ pc' = "handoff" /\ Consume(r)
    BY <1>9, Zenon DEF DataFrame
  <2>2. bytesCached' \in UnitSeq /\ Len(bytesCached') <= Len(bytesCached)
    BY <2>1, ConsumeTyped
  <2>3. f.fin \in BOOLEAN
    BY <1>1 DEF WireFrame
  <2>4. out' \in Seq(HandlerJob)
    BY <1>6, <2>1, <2>3, Zenon
  <2> HIDE DEF r, f, type, z, whole
  <2>5. compress' \in BOOLEAN /\ expectingFragments' \in BOOLEAN
    BY <1>3, <2>1 DEF WsTypeOK
  <2>6. message' \in UnitSeq /\ ~isMessageTooLarge(Len(message'))
    BY <2>1 DEF WsTypeOK
  <2> QED BY <1>3, <2>1, <2>2, <2>4, <2>5, <2>6 DEF ParseOutcome
<1>7. CASE input.onMessage /\ ~f.fin
  <2>1. /\ message' = whole /\ msgType' = type /\ compress' = z /\ expectingFragments' = TRUE
        /\ out' = FrameJob(type, FALSE, r.body) /\ pc' = "handoff" /\ Consume(r)
    BY <1>7, Zenon DEF DataFrame
  <2>2. bytesCached' \in UnitSeq /\ Len(bytesCached') <= Len(bytesCached)
    BY <2>1, ConsumeTyped
  <2> HIDE DEF r, type, z, whole
  <2>3. compress' \in BOOLEAN /\ expectingFragments' \in BOOLEAN
    BY <1>3, <2>1
  <2>4. ~isMessageTooLarge(Len(message'))
    BY <1>1, <1>4, <2>1
  <2> QED BY <1>3, <1>4, <1>6, <2>1, <2>2, <2>3, <2>4 DEF ParseOutcome
<1>8. CASE input.onMessage /\ f.fin
  <2> DEFINE mj == [kind |-> "message", op |-> type, body |-> whole, utf8 |-> f.utf8]
             ms == IF whole = Nil THEN <<>> ELSE <<mj>>
             O == IF ~z THEN {"ok"} ELSE IF whole = Nil THEN {"panic"} ELSE readAllOutcomes(f)
  <2>1. PICK o \in O :
          IF o = "ok"
          THEN /\ message' = Nil /\ msgType' = "cont" /\ compress' = FALSE
               /\ expectingFragments' = FALSE
               /\ out' = ms \o FrameJob(type, TRUE, r.body)
               /\ pc' = "handoff" /\ Consume(r)
          ELSE /\ message' = Nil /\ msgType' = type /\ compress' = z
               /\ UNCHANGED <<expectingFragments, out>>
               /\ pc' = CASE o = "panic" -> "drop" [] o # "panic" -> o
               /\ bytesCached' = IF o = "panic" THEN Nil ELSE bytesCached
    BY <1>8, Zenon DEF DataFrame
  <2>2. o \in {"ok", "panic", "fail", "toobig"}
    BY DEF readAllOutcomes
  <2>3. ms \in Seq(HandlerJob)
    <3>1. mj \in HandlerJob
      BY <1>2, <1>3, <1>4 DEF HandlerJob, MessageJobs
    <3> HIDE DEF mj
    <3>2. <<mj>> \in Seq(HandlerJob) /\ <<>> \in Seq(HandlerJob)
      BY <3>1
    <3> QED BY <3>2
  <2> HIDE DEF ms, mj, O, type, z, whole, r, f
  <2>4. CASE o = "ok"
    <3>1. /\ message' = Nil /\ msgType' = "cont" /\ compress' = FALSE
          /\ expectingFragments' = FALSE
          /\ out' = ms \o FrameJob(type, TRUE, r.body)
          /\ pc' = "handoff" /\ Consume(r)
      BY <2>1, <2>4
    <3>2. out' \in Seq(HandlerJob)
      <4>1. FrameJob(type, TRUE, r.body) \in Seq(HandlerJob)
        BY <1>6
      <4> QED BY <2>3, <3>1, <4>1, ConcatSeq
    <3>3. bytesCached' \in UnitSeq /\ Len(bytesCached') <= Len(bytesCached)
      BY <3>1, ConsumeTyped DEF r
    <3>4. message' \in UnitSeq /\ ~isMessageTooLarge(Len(message'))
      BY <3>1, NilTyped
    <3> QED BY <3>1, <3>2, <3>3, <3>4 DEF ParseOutcome, DataOps
  <2>5. CASE o # "ok"
    <3>1. /\ message' = Nil /\ msgType' = type /\ (compress' <=> z)
          /\ (expectingFragments' <=> expectingFragments) /\ out' = out
          /\ pc' = (CASE o = "panic" -> "drop" [] o # "panic" -> o)
          /\ bytesCached' = IF o = "panic" THEN Nil ELSE bytesCached
      BY <2>1, <2>5
    <3>2. pc' \in {"drop", "fail", "toobig"}
      BY <2>2, <2>5, <3>1
    <3>3. bytesCached' \in UnitSeq /\ Len(bytesCached') <= Len(bytesCached)
      BY <1>5, <3>1, NilTyped
    <3>4. message' \in UnitSeq /\ ~isMessageTooLarge(Len(message'))
      BY <3>1, NilTyped
    <3>5. compress' \in BOOLEAN /\ expectingFragments' \in BOOLEAN
      <4>1. compress' = z /\ expectingFragments' = expectingFragments
        BY <2>1, <2>5
      <4> QED BY <1>3, <4>1 DEF WsTypeOK
    <3> QED BY <1>3, <1>5, <3>1, <3>2, <3>3, <3>4, <3>5 DEF ParseOutcome
  <2> QED BY <2>4, <2>5
<1> QED BY <1>7, <1>8, <1>9

LEMMA ParseFrameOutcome ==
  ASSUME WsTypeOK, CacheInv, ParseFrame
  PROVE  ParseOutcome
<1> DEFINE r == nextFrame
<1>1. /\ bytesCached \in UnitSeq /\ Len(bytesCached) \in Nat /\ out \in Seq(HandlerJob) /\ message \in UnitSeq
      /\ ~isMessageTooLarge(Len(message))
  BY SeqFacts DEF WsTypeOK, UnitSeq, CacheInv, WsCachedBounded
<1>2. ASSUME pc' \in {"idle", "fail", "toobig"}, UNCHANGED <<out, parseVars>> PROVE ParseOutcome
  BY <1>1, <1>2 DEF ParseOutcome, WsTypeOK, parseVars
<1>3. CASE closed \/ r.is \in {"more", "fail", "toobig"}
  BY <1>2, <1>3 DEF ParseFrame
<1>4. CASE ~closed /\ r.is = "frame"
  <2>1. CASE r.frame.op \in {"cont", "text", "binary"}
    <3>1. DataFrame(r)
      <4>1. r.frame.op \notin Control /\ r.is \notin {"more", "fail", "toobig"}
        BY <1>4, <2>1 DEF Control
      <4> QED BY <1>4, <2>1, <4>1, Zenon DEF ParseFrame
    <3> QED BY <1>1, <1>4, <2>1, <3>1, DataFrameOutcome DEF DataOps
  <2>2. CASE r.frame.op \in Control
    <3> DEFINE j == [kind |-> "protocol", op |-> r.frame.op, n |-> Len(r.body),
                     code |-> r.frame.code, utf8 |-> r.frame.utf8]
    <3>1. /\ out' = <<j>> /\ pc' = "handoff" /\ Consume(r)
          /\ UNCHANGED <<message, msgType, compress, expectingFragments>>
      BY <1>4, <2>2 DEF ParseFrame, Control
    <3>2. j \in HandlerJob
      <4>1. r.frame \in WireFrame /\ Len(r.body) \in Nat
        BY <1>4, NextFrameFound, SeqFacts DEF UnitSeq
      <4>2. r.frame.code \in Nat /\ r.frame.utf8 \in BOOLEAN
        BY <4>1 DEF WireFrame
      <4> QED BY <2>2, <4>1, <4>2 DEF HandlerJob, ProtocolJobs
    <3> HIDE DEF j
    <3>3. out' \in Seq(HandlerJob)
      BY <3>1, <3>2
    <3>4. bytesCached' \in UnitSeq /\ Len(bytesCached') <= Len(bytesCached)
      BY <1>4, <3>1, ConsumeTyped
    <3> QED BY <1>1, <1>4, <3>1, <3>3, <3>4 DEF ParseOutcome, WsTypeOK
  <2>3. CASE r.frame.op \notin {"cont", "text", "binary"} \cup Control
    <3>1. pc' = "fail" /\ UNCHANGED <<out, parseVars>>
      BY <1>4, <2>3 DEF ParseFrame
    <3> QED BY <1>2, <3>1
  <2> QED BY <2>1, <2>2, <2>3
<1> QED BY <1>3, <1>4, NextFrameFound

-----------------------------------------------------------------------------
(* What a handler does.                                                    *)

LEMMA JobKinds ==
  ASSUME NEW j \in Job
  PROVE  /\ j.kind = "clean" <=> j = CleanJob
         /\ j.kind = "frame" => j \in FrameJobs
         /\ j.kind \notin {"clean", "frame"} => j \in MessageJobs \cup ProtocolJobs
  BY DEF Job, HandlerJob, FrameJobs, MessageJobs, ProtocolJobs, CleanJob

\* A callback of a handler is a message or a frame, and a Conn that is closed
\* gets none.
Handled == \E e \in Event : e \notin {<<"open">>, <<"close">>} /\ events' = Append(events, e)
LEMMA RunJobEvents ==
  ASSUME WsTypeOK, RunJob
  PROVE  events' = events \/ (~closed /\ Handled)
<1> DEFINE j == Head(jobs)
<1>1. j \in Job /\ j.kind # "clean"
  BY TailSeq DEF WsTypeOK, RunJob
<1>2. CASE j.kind = "frame"
  <2>1. events' = IF closed THEN events ELSE Append(events, <<"frame", j>>)
    BY <1>2 DEF RunJob
  <2>2. <<"frame", j>> \in Event /\ <<"frame", j>> \notin {<<"open">>, <<"close">>}
    <3>1. j \in FrameJobs
      BY <1>1, <1>2, JobKinds
    <3> HIDE DEF j
    <3> QED BY <3>1 DEF Event
  <2> QED BY <2>1, <2>2 DEF Handled
<1>3. CASE j.kind # "frame"
  <2>1. handleWsMessage(j)
    BY <1>3 DEF RunJob
  <2>2. j \in MessageJobs \cup ProtocolJobs
    BY <1>1, <1>3, JobKinds
  <2> HIDE DEF j
  <2>3. CASE j.op = "binary" \/ (j.op = "text" /\ j.utf8)
    <3>1. events' = IF closed THEN events ELSE Append(events, <<"message", j.op, j.body>>)
      BY <2>1, <2>3 DEF handleWsMessage
    <3>2. j.op \in DataOps /\ j.body \in UnitSeq
      BY <2>2, <2>3 DEF MessageJobs, ProtocolJobs, Control
    <3> DEFINE e == <<"message", j.op, j.body>>
    <3>3. e \in Event /\ e \notin {<<"open">>, <<"close">>}
      BY <3>2 DEF Event
    <3> HIDE DEF e
    <3>4. closed \/ events' = Append(events, e)
      BY <3>1 DEF e
    <3> QED BY <3>1, <3>3, <3>4 DEF Handled
  <2>4. CASE ~(j.op = "binary" \/ (j.op = "text" /\ j.utf8))
    BY <2>1, <2>4 DEF handleWsMessage
  <2> QED BY <2>3, <2>4
<1> QED BY <1>2, <1>3

\* Conn.Close ends the connection, or has it ended later.
LEMMA CloseEffect ==
  ASSUME SendTypeOK, Close
  PROVE  netOpen' \in BOOLEAN /\ delayed' \in BOOLEAN /\ (Writable' => Writable)
<1>1. CASE async
  <2>1. delayed' = TRUE /\ netOpen' = netOpen /\ expired' = expired
    BY <1>1 DEF Close
  <2> QED BY <2>1 DEF SendTypeOK, Writable
<1>2. CASE ~async
  <2>1. netOpen' = FALSE /\ delayed' = delayed
    BY <1>2 DEF Close
  <2> QED BY <2>1 DEF SendTypeOK, Writable
<1> QED BY <1>1, <1>2

\* A handler writes what it has to, and may close the connection.
LEMMA HandleSends ==
  ASSUME SendInv, NEW j \in MessageJobs \cup ProtocolJobs, handleWsMessage(j), async' = async,
         closed' = closed
  PROVE  SendInv'
<1>1. SendTypeOK /\ netOpen \in BOOLEAN /\ delayed \in BOOLEAN
  BY DEF SendInv, SendTypeOK
<1>2. ASSUME UNCHANGED sendVars, UNCHANGED closeVars PROVE SendInv'
  BY <1>1, <1>2, SendUnchanged DEF closeVars, Writable
<1>3. j.op \in DataOps \cup Control /\ (j.op \in Control => j.n \in Nat)
  BY DEF MessageJobs, ProtocolJobs, DataOps, Control
<1>4. "close" \in FrameOps \ {"cont"} /\ "pong" \in FrameOps \ {"cont"} /\ FALSE \in BOOLEAN
  BY DEF FrameOps, Control
<1>5. ASSUME NEW n \in Nat, WriteMessage("close", n, FALSE), Close PROVE SendInv'
  <2>1. netOpen' \in BOOLEAN /\ delayed' \in BOOLEAN /\ (Writable' => Writable)
    BY <1>1, <1>5, CloseEffect
  <2> QED BY <1>4, <1>5, <2>1, WriteMessageKeeps
<1>6. CASE j.op = "binary" \/ (j.op = "text" /\ j.utf8)
  <2>1. UNCHANGED <<sendVars, closeVars>>
    BY <1>6 DEF handleWsMessage
  <2> QED BY <1>2, <2>1
<1>7. CASE j.op = "text" /\ ~j.utf8
  <2>1. WriteMessage("close", 2, FALSE) /\ Close
    BY <1>7, Zenon DEF handleWsMessage
  <2> QED BY <1>5, <2>1
<1>8. CASE j.op = "ping"
  <2>1. /\ WriteMessage("pong", j.n, FALSE)
        /\ IF WriteFails("pong", j.n, FALSE) THEN Close ELSE UNCHANGED closeVars
    BY <1>8 DEF handleWsMessage
  <2>2. netOpen' \in BOOLEAN /\ delayed' \in BOOLEAN /\ (Writable' => Writable)
    <3>1. CASE Close
      BY <1>1, <3>1, CloseEffect
    <3>2. CASE UNCHANGED closeVars
      BY <1>1, <3>2 DEF closeVars, Writable
    <3> QED BY <2>1, <3>1, <3>2
  <2>3. j.n \in Nat
    BY <1>3, <1>8 DEF Control
  <2> QED BY <1>4, <2>1, <2>2, <2>3, WriteMessageKeeps
<1>9. CASE j.op = "pong"
  <2>1. UNCHANGED <<sendVars, closeVars>>
    BY <1>9 DEF handleWsMessage
  <2> QED BY <1>2, <2>1
<1>10. CASE j.op = "close"
  <2> DEFINE bad == j.n >= 2 /\ ~(validCloseCode(j.code) /\ j.utf8)
             n == IF CloseCode(j) = 1005 THEN 0 ELSE IF bad THEN 2 ELSE j.n
  <2>1. WriteMessage("close", n, FALSE) /\ Close
    BY <1>10 DEF handleWsMessage
  <2>2. n \in Nat
    <3> HIDE DEF bad
    <3> QED BY <1>3, <1>10 DEF Control
  <2> HIDE DEF n
  <2> QED BY <1>5, <2>1, <2>2
<1>11. CASE j.op = "cont"
  <2>1. Close /\ UNCHANGED sendVars
    BY <1>11 DEF handleWsMessage
  <2>2. netOpen' \in BOOLEAN /\ delayed' \in BOOLEAN /\ (Writable' => Writable)
    BY <1>1, <2>1, CloseEffect
  <2> QED BY <2>1, <2>2, SendUnchanged
<1> QED BY <1>3, <1>6, <1>7, <1>8, <1>9, <1>10, <1>11 DEF DataOps, Control

LEMMA RunJobSends ==
  ASSUME SendInv, WsTypeOK, RunJob
  PROVE  SendInv'
<1> DEFINE j == Head(jobs)
<1>1. j \in Job /\ j.kind # "clean" /\ async' = async /\ closed' = closed
  BY TailSeq DEF WsTypeOK, RunJob
<1>2. CASE j.kind = "frame"
  <2>1. UNCHANGED <<sendVars, closeVars>>
    BY <1>2 DEF RunJob
  <2> QED BY <1>1, <2>1, SendUnchanged DEF SendInv, SendTypeOK, closeVars, Writable
<1>3. CASE j.kind # "frame"
  <2>1. handleWsMessage(j) /\ j \in MessageJobs \cup ProtocolJobs
    BY <1>1, <1>3, JobKinds DEF RunJob
  <2> HIDE DEF j
  <2> QED BY <1>1, <2>1, HandleSends
<1> QED BY <1>2, <1>3

\* What the reader's own turn does: it is about to make a callback, dropped it, or
\* has run another job, which makes none.
LEMMA RunHereEffect ==
  ASSUME WsTypeOK, RunHere
  PROVE  /\ events' = events /\ out' \in Seq(HandlerJob) /\ pc' \in {"handoff", "calling"} /\ ByReader
         /\ pc' = "calling" =>
              ~closed /\ out' = out /\ out # Nil /\ Callback(Head(out)) \in Event \ {<<"open">>, <<"close">>}
         /\ UNCHANGED <<sendVars, closeVars>> \/ \E j \in MessageJobs \cup ProtocolJobs : handleWsMessage(j)
<1> DEFINE j == Head(out)
<1>1. pc = "handoff" /\ ByReader /\ out # <<>> /\ out \in Seq(HandlerJob)
  BY DEF RunHere, WsTypeOK, Nil
<1>2. j \in HandlerJob /\ Tail(out) \in Seq(HandlerJob)
  BY <1>1, TailSeq
<1>3. CASE Calls(j)
  <2>1. /\ IF closed THEN out' = Tail(out) /\ pc' = pc ELSE pc' = "calling" /\ out' = out
        /\ UNCHANGED <<sendVars, closeVars, events>>
    BY <1>3 DEF RunHere
  <2>2. Callback(j) \in Event \ {<<"open">>, <<"close">>}
    <3> HIDE DEF j
    <3>1. CASE j.kind = "frame"
      <4>1. j \in FrameJobs
        BY <1>2, <3>1 DEF HandlerJob, FrameJobs, MessageJobs, ProtocolJobs
      <4> QED BY <3>1, <4>1 DEF Callback, Event
    <3>2. CASE j.kind # "frame"
      <4>1. j.op \in DataOps /\ j.body \in UnitSeq
        BY <1>2, <1>3, <3>2 DEF Calls, HandlerJob, FrameJobs, MessageJobs, ProtocolJobs, Control
      <4> DEFINE e == <<"message", j.op, j.body>>
      <4>2. e \in Event /\ e \notin {<<"open">>, <<"close">>}
        BY <4>1 DEF Event
      <4> HIDE DEF e
      <4>3. Callback(j) = e
        BY <3>2 DEF Callback, e
      <4> QED BY <4>2, <4>3
    <3> QED BY <3>1, <3>2
  <2> HIDE DEF j
  <2> QED BY <1>1, <1>2, <2>1, <2>2 DEF Nil, j
<1>4. CASE ~Calls(j)
  <2>1. out' = Tail(out) /\ pc' = pc /\ handleWsMessage(j)
    BY <1>4 DEF RunHere
  <2>2. j \in MessageJobs \cup ProtocolJobs
    BY <1>2, <1>4 DEF Calls, HandlerJob, FrameJobs
  <2> HIDE DEF j
  <2>3. events' = events
    BY <1>4, <2>1 DEF Calls, handleWsMessage
  <2> QED BY <1>1, <1>2, <2>1, <2>2, <2>3
<1> QED BY <1>3, <1>4

-----------------------------------------------------------------------------
(* The steps.                                                              *)

LEMMA CloseAndCleanSends ==
  ASSUME SendInv, CloseAndClean, async' = async, delayed' = delayed, expired' = expired
  PROVE  SendInv'
<1>1. CASE closed
  <2>1. UNCHANGED sendVars /\ closed' = closed /\ netOpen' = netOpen
    BY <1>1 DEF CloseAndClean
  <2>2. netOpen' \in BOOLEAN /\ delayed' \in BOOLEAN /\ (Writable' => Writable)
    BY <2>1 DEF SendInv, SendTypeOK, Writable
  <2> QED BY <2>1, <2>2, SendUnchanged
<1>2. CASE ~closed
  BY <1>2, CleanQueueKeeps DEF CloseAndClean
<1> QED BY <1>1, <1>2

LEMMA SendStep ==
  ASSUME SendInv, WsTypeOK, Next
  PROVE  SendInv'
<1>1. SendTypeOK /\ netOpen \in BOOLEAN /\ delayed \in BOOLEAN
  BY DEF SendInv, SendTypeOK
<1>2. ASSUME UNCHANGED <<async, closeVars, closed, sendVars>> PROVE SendInv'
  <2>1. /\ async' = async /\ closed' = closed /\ netOpen' = netOpen /\ delayed' = delayed
        /\ expired' = expired /\ UNCHANGED sendVars
    BY <1>2 DEF closeVars
  <2>2. netOpen' \in BOOLEAN /\ delayed' \in BOOLEAN /\ (Writable' => Writable)
    BY <1>1, <2>1 DEF Writable
  <2> QED BY <2>1, <2>2, SendUnchanged
<1>3. CASE Upgrade \/ SetSession
  BY <1>2, <1>3 DEF Upgrade, SetSession, Refuse, Hijack, TransferFails, commResponse, openHandler
<1>4. CASE (\E n \in 1 .. ReadSize : Fetch(n)) \/ Parse \/ ParseFrame \/ HandOff \/ CallHere
  <2>1. UNCHANGED <<async, closeVars, closed, sendVars>>
    BY <1>4, Zenon DEF Fetch, Parse, ParseFrame, HandOff, CallHere
  <2> QED BY <1>2, <2>1
<1>16. CASE RunHere
  <2>1. async' = async /\ closed' = closed
    BY <1>16 DEF RunHere
  <2>2. UNCHANGED <<sendVars, closeVars>> \/ \E j \in MessageJobs \cup ProtocolJobs : handleWsMessage(j)
    BY <1>16, RunHereEffect
  <2> QED BY <1>2, <2>1, <2>2, HandleSends
<1>5. CASE ParseFails
  <2>1. /\ async' = async /\ closed' = closed /\ delayed' = delayed /\ expired' = expired
        /\ netOpen' = (netOpen /\ Blocking)
        /\ IF pc = "toobig" THEN WriteMessage("close", 2, FALSE) ELSE UNCHANGED sendVars
    BY <1>5 DEF ParseFails
  <2>2. netOpen' \in BOOLEAN /\ (Writable' => Writable)
    BY <2>1, Zenon DEF Writable
  <2>3. delayed' \in BOOLEAN
    BY <1>1, <2>1
  <2>4. CASE pc = "toobig"
    <3>1. WriteMessage("close", 2, FALSE)
      BY <2>1, <2>4
    <3>2. "close" \in FrameOps \ {"cont"} /\ 2 \in Nat /\ FALSE \in BOOLEAN
      BY DEF FrameOps, Control
    <3> QED BY <2>1, <2>2, <2>3, <3>1, <3>2, WriteMessageKeeps
  <2>5. CASE pc # "toobig"
    BY <2>1, <2>2, <2>3, <2>5, SendUnchanged
  <2> QED BY <2>4, <2>5
<1>6. CASE ReadEnds
  <2>1. CloseAndClean /\ async' = async /\ delayed' = delayed /\ expired' = expired
    BY <1>6 DEF ReadEnds
  <2> QED BY <2>1, CloseAndCleanSends
<1>7. CASE RunJob
  BY <1>7, RunJobSends
<1>8. CASE CleanUp
  <2>1. async' = async /\ delayed' = delayed /\ expired' = expired
    BY <1>8 DEF CleanUp
  <2>2. CASE phase \in {"check", "failed"}
    <3>1. UNCHANGED sendVars /\ closed' = closed /\ netOpen' = netOpen
      BY <1>8, <2>2 DEF CleanUp
    <3> QED BY <1>2, <2>1, <3>1 DEF closeVars
  <2>3. CASE phase \notin {"check", "failed"}
    <3>1. CloseAndClean
      BY <1>8, <2>3 DEF CleanUp
    <3> QED BY <2>1, <3>1, CloseAndCleanSends
  <2> QED BY <2>2, <2>3
<1>9. CASE OnClose
  BY <1>2, <1>9 DEF OnClose
<1>10. CASE WriterStep
  BY <1>10, WriterWriteStep, WriterNextStep DEF WriterStep, Writer
<1>11. ASSUME NEW t \in {"binary", "ping"}, NEW n \in Nat, Send(t, n) PROVE SendInv'
  <2> DEFINE z == Deflate /\ t = "binary"
  <2>1. /\ WriteMessage(t, n, z) /\ async' = async /\ closed' = closed /\ netOpen' = netOpen
        /\ delayed' = delayed /\ expired' = expired
    BY <1>11 DEF Send, closeVars
  <2>2. netOpen' \in BOOLEAN /\ delayed' \in BOOLEAN /\ (Writable' => Writable)
    BY <1>1, <2>1 DEF Writable
  <2>3. z \in BOOLEAN
    BY Zenon
  <2>4. t \in FrameOps \ {"cont"}
    BY DEF FrameOps, Control
  <2> HIDE DEF z
  <2> QED BY <2>1, <2>2, <2>3, <2>4, WriteMessageKeeps
<1>12. CASE UserCloses
  <2>1. Close /\ async' = async /\ closed' = closed /\ UNCHANGED sendVars
    BY <1>12 DEF UserCloses
  <2>2. netOpen' \in BOOLEAN /\ delayed' \in BOOLEAN /\ (Writable' => Writable)
    BY <1>1, <2>1, CloseEffect
  <2> QED BY <2>1, <2>2, SendUnchanged
<1>13. CASE NetCloses
  <2>1. netOpen' = FALSE /\ delayed' = delayed /\ async' = async /\ closed' = closed /\ UNCHANGED sendVars
    BY <1>13 DEF NetCloses
  <2>2. netOpen' \in BOOLEAN /\ delayed' \in BOOLEAN /\ (Writable' => Writable)
    BY <1>1, <2>1 DEF Writable
  <2> QED BY <2>1, <2>2, SendUnchanged
<1>17. CASE WriteDeadline
  <2>1. /\ expired' = TRUE /\ netOpen' = netOpen /\ delayed' = delayed /\ async' = async
        /\ closed' = closed /\ UNCHANGED sendVars
    BY <1>17 DEF WriteDeadline
  <2>2. netOpen' \in BOOLEAN /\ delayed' \in BOOLEAN /\ (Writable' => Writable)
    BY <1>1, <2>1 DEF Writable
  <2> QED BY <2>1, <2>2, SendUnchanged
<1>14. CASE User
  <2>1. 0 \in Nat /\ \A n \in SendSizes : n \in Nat
    BY InputAssumption
  <2> QED BY <1>11, <1>12, <1>13, <1>14, <1>17, <2>1 DEF User
<1>15. CASE DelayedClose
  BY <1>13, <1>15 DEF DelayedClose
<1> QED BY <1>3, <1>4, <1>5, <1>6, <1>7, <1>8, <1>9, <1>10, <1>14, <1>15, <1>16 DEF Next, Reader, Reads, Runner

LEMMA SameMode ==
  ASSUME Next PROVE input' = input /\ mode' = mode
<1>1. Upgrade \/ SetSession => input' = input /\ mode' = mode
  BY DEF Upgrade, SetSession, Refuse, Hijack, TransferFails, commResponse, openHandler, upgradeVars
<1>2. Reader => input' = input /\ mode' = mode
  BY Zenon DEF Reader, Reads, Fetch, Parse, ParseFrame, HandOff, RunHere, CallHere, ParseFails, ReadEnds,
               upgradeVars
<1>3. Runner => input' = input /\ mode' = mode
  BY Zenon DEF Runner, RunJob, CleanUp, OnClose, upgradeVars
<1>4. WriterStep => input' = input /\ mode' = mode
  BY DEF WriterStep, upgradeVars
<1>5. User \/ DelayedClose => input' = input /\ mode' = mode
  BY DEF User, DelayedClose, Send, UserCloses, WriteDeadline, NetCloses, upgradeVars
<1> QED BY <1>1, <1>2, <1>3, <1>4, <1>5 DEF Next

\* What CloseAndClean does to the reader's state and the callbacks.
LEMMA CloseAndCleanEffect ==
  ASSUME WsTypeOK, CloseAndClean
  PROVE  /\ closed => UNCHANGED <<closed, netOpen, bytesCached, message, session, events>>
         /\ ~closed => /\ closed' /\ bytesCached' = Nil /\ message' = Nil
                       /\ session' \in {session, "set"} /\ events' = Append(events, <<"close">>)
         /\ events' \in Seq(Event)
<1>1. CASE closed
  BY <1>1 DEF CloseAndClean, WsTypeOK
<1>2. CASE ~closed
  <2>1. /\ closed' /\ bytesCached' = Nil /\ message' = Nil
        /\ session' \in {session, "set"} /\ events' = Append(events, <<"close">>)
    BY <1>2 DEF CloseAndClean
  <2>2. <<"close">> \in Event
    BY DEF Event
  <2> QED BY <1>2, <2>1, <2>2, AppendSeq DEF WsTypeOK
<1> QED BY <1>1, <1>2

LEMMA TypeStep ==
  ASSUME WsTypeOK, CacheInv, CallInv, Next
  PROVE  WsTypeOK'
<1>1. input' = input /\ mode' = mode
  BY SameMode
<1>2. /\ UnitSeq' = UnitSeq /\ HandlerJob' = HandlerJob /\ Job' = Job /\ Event' = Event
      /\ Stream' = Stream
  BY <1>1, SameInput
<1>3. <<"open">> \in Event /\ <<"close">> \in Event /\ CleanJob \in Job
  BY DEF Event, Job
<1>4. CASE Upgrade \/ SetSession
  <2>1. /\ UNCHANGED <<sends, readVars, jobs, notified>>
        /\ phase' \in {"respond", "open", "done", "failed"} /\ session' \in {session, "pending", "set"}
        /\ events' \in {events, Append(events, <<"open">>)}
    BY <1>4 DEF Upgrade, SetSession, Refuse, Hijack, TransferFails, commResponse, openHandler, upgradeVars
  <2>2. events \in Seq(Event)
    BY DEF WsTypeOK
  <2>3. Append(events, <<"open">>) \in Seq(Event)
    BY <1>3, <2>2, AppendSeq
  <2>4. events' \in Seq(Event)
    BY <2>1, <2>2, <2>3
  <2> QED BY <1>1, <1>2, <2>1, <2>4 DEF WsTypeOK, readVars, parseVars
<1>5. ASSUME NEW n \in 1 .. ReadSize, Fetch(n) PROVE WsTypeOK'
  <2>1. /\ n <= Len(Stream) - fed /\ inbox' = SubSeq(Stream, fed + 1, fed + n) /\ fed' = fed + n
        /\ UNCHANGED <<phase, sends, pc, out, bytesCached, message, msgType, compress,
                       expectingFragments, jobs, notified, session, events>>
    BY <1>5 DEF Fetch, upgradeVars, parseVars
  <2>2. Stream \in Seq(Unit) /\ Len(Stream) \in Nat
    BY StreamTyped DEF WsTypeOK, UnitSeq
  <2>3. fed + 1 \in 1 .. Len(Stream) + 1 /\ fed + n \in 0 .. Len(Stream) /\ fed + 1 <= (fed + n) + 1
    BY <2>1, <2>2, LimitAssumption DEF WsTypeOK
  <2>4. inbox' \in UnitSeq
    BY <2>1, <2>2, <2>3, PartSeq DEF UnitSeq
  <2> QED BY <1>1, <1>2, <2>1, <2>3, <2>4 DEF WsTypeOK
<1>6. CASE Parse
  <2>1. /\ inbox' = Nil /\ pc' \in {"fail", "drop", "frame"} /\ bytesCached' \in {bytesCached, bytesCached \o inbox}
        /\ UNCHANGED <<phase, sends, fed, out, message, msgType, compress, expectingFragments, jobs,
                       notified, session, events>>
    BY <1>6 DEF Parse, upgradeVars
  <2>2. bytesCached' \in UnitSeq
    BY <2>1, ConcatSeq DEF WsTypeOK, UnitSeq
  <2> QED BY <1>1, <1>2, <2>1, <2>2, NilTyped DEF WsTypeOK
<1>7. CASE ParseFrame
  <2>1. ParseOutcome
    BY <1>7, ParseFrameOutcome
  <2>2. UNCHANGED <<phase, sends, fed, inbox, jobs, notified, session, events>>
    BY <1>7 DEF ParseFrame, upgradeVars
  <2> QED BY <1>1, <1>2, <2>1, <2>2 DEF WsTypeOK, ParseOutcome
<1>8. CASE HandOff
  <2>1. /\ jobs' = jobs \o Executed /\ out' = Nil /\ pc' = "frame"
        /\ UNCHANGED <<phase, sends, fed, inbox, bytesCached, message, msgType, compress,
                       expectingFragments, notified, session, events>>
    BY <1>8 DEF HandOff, upgradeVars, parseVars
  <2>2. Executed \in Seq(Job)
    <3>1. HandlerJob \subseteq Job /\ out \in Seq(HandlerJob)
      BY DEF Job, WsTypeOK
    <3>2. out \in Seq(Job)
      BY <3>1
    <3> QED BY <3>2, NilTyped DEF Executed, Nil
  <2>3. jobs' \in Seq(Job)
    BY <2>1, <2>2, ConcatSeq DEF WsTypeOK
  <2> QED BY <1>1, <1>2, <2>1, <2>3, NilTyped DEF WsTypeOK
<1>15. CASE RunHere
  <2>1. UNCHANGED <<phase, sends, fed, inbox, bytesCached, message, msgType, compress,
                    expectingFragments, jobs, notified, session>>
    BY <1>15 DEF RunHere, upgradeVars, parseVars
  <2>2. events' = events /\ out' \in Seq(HandlerJob) /\ pc' \in {"handoff", "calling"}
    BY <1>15, RunHereEffect
  <2> QED BY <1>1, <1>2, <2>1, <2>2 DEF WsTypeOK
<1>16. CASE CallHere
  <2>1. /\ pc = "calling" /\ pc' = "handoff" /\ out' = Tail(out) /\ events' = Append(events, Callback(Head(out)))
        /\ UNCHANGED <<phase, sends, fed, inbox, bytesCached, message, msgType, compress,
                       expectingFragments, jobs, notified, session>>
    BY <1>16 DEF CallHere, upgradeVars, parseVars
  <2>2. out # <<>> /\ Callback(Head(out)) \in Event
    BY <2>1 DEF CallInv, Nil
  <2>3. out' \in Seq(HandlerJob)
    BY <2>1, <2>2, TailSeq DEF WsTypeOK
  <2>4. events' \in Seq(Event)
    BY <2>1, <2>2, AppendSeq DEF WsTypeOK
  <2> QED BY <1>1, <1>2, <2>1, <2>3, <2>4 DEF WsTypeOK
<1>9. CASE ParseFails
  <2>1. /\ pc' \in {"gone", "lost", "idle"}
        /\ UNCHANGED <<phase, sends, fed, inbox, out, bytesCached, message, msgType, compress,
                       expectingFragments, jobs, notified, session, events>>
    BY <1>9 DEF ParseFails, upgradeVars, parseVars
  <2> QED BY <1>1, <1>2, <2>1 DEF WsTypeOK
<1>10. CASE ReadEnds
  <2>1. /\ pc' = "gone" /\ CloseAndClean
        /\ UNCHANGED <<phase, sends, fed, inbox, out, msgType, compress, expectingFragments, jobs,
                       notified>>
    BY <1>10 DEF ReadEnds, upgradeVars
  <2> QED BY <1>1, <1>2, <2>1, NilTyped, CloseAndCleanEffect DEF WsTypeOK
<1>11. CASE RunJob
  <2>1. /\ jobs # <<>> /\ jobs' = Tail(jobs)
        /\ UNCHANGED <<phase, sends, fed, inbox, pc, out, bytesCached, message, msgType, compress,
                       expectingFragments, notified, session>>
    BY <1>11 DEF RunJob, upgradeVars, readVars, parseVars
  <2>2. jobs' \in Seq(Job)
    BY <2>1, TailSeq DEF WsTypeOK
  <2>3. events' \in Seq(Event)
    <3>1. events \in Seq(Event)
      BY DEF WsTypeOK
    <3>2. events' = events \/ \E e \in Event : events' = Append(events, e)
      BY <1>11, RunJobEvents, Zenon DEF Handled
    <3> QED BY <3>1, <3>2, AppendSeq
  <2> QED BY <1>1, <1>2, <2>1, <2>2, <2>3 DEF WsTypeOK
<1>12. CASE CleanUp
  <2>1. /\ jobs # <<>> /\ jobs' = Tail(jobs)
        /\ UNCHANGED <<phase, sends, fed, inbox, pc, out, msgType, compress, expectingFragments, notified>>
    BY <1>12 DEF CleanUp, upgradeVars
  <2>2. jobs' \in Seq(Job)
    BY <2>1, TailSeq DEF WsTypeOK
  <2>3. UNCHANGED <<bytesCached, message, session, events>> \/ CloseAndClean
    BY <1>12 DEF CleanUp
  <2>4. bytesCached' \in UnitSeq /\ message' \in UnitSeq /\ session' \in {session, "set"} /\ events' \in Seq(Event)
    BY <2>3, NilTyped, CloseAndCleanEffect DEF WsTypeOK
  <2> QED BY <1>1, <1>2, <2>1, <2>2, <2>4 DEF WsTypeOK
<1>13. CASE OnClose
  <2>1. /\ jobs' = Append(jobs, CleanJob) /\ notified' = TRUE
        /\ UNCHANGED <<phase, sends, fed, inbox, pc, out, bytesCached, message, msgType, compress,
                       expectingFragments, session, events>>
    BY <1>13 DEF OnClose, upgradeVars, readVars, parseVars
  <2>2. jobs' \in Seq(Job)
    BY <1>3, <2>1, AppendSeq DEF WsTypeOK
  <2> QED BY <1>1, <1>2, <2>1, <2>2 DEF WsTypeOK
<1>14. CASE WriterStep \/ User \/ DelayedClose
  <2>1. /\ sends' \in {sends, sends - 1} /\ (sends' # sends => sends > 0)
        /\ UNCHANGED <<phase, fed, inbox, pc, out, bytesCached, message, msgType, compress,
                       expectingFragments, jobs, notified, session, events>>
    BY <1>14 DEF WriterStep, User, Send, UserCloses, WriteDeadline, NetCloses, DelayedClose, upgradeVars,
                 readVars, parseVars
  <2>2. sends' \in Nat
    BY <2>1 DEF WsTypeOK
  <2> QED BY <1>1, <1>2, <2>1, <2>2 DEF WsTypeOK
<1> QED BY <1>4, <1>5, <1>6, <1>7, <1>8, <1>9, <1>10, <1>11, <1>12, <1>13, <1>14, <1>15, <1>16
        DEF Next, Reader, Reads, Runner

LEMMA CacheStep ==
  ASSUME SendTypeOK, WsTypeOK, CacheInv, Next
  PROVE  CacheInv'
<1> DEFINE most == IF ReadLimit > ReadSize THEN ReadLimit ELSE ReadSize
<1>1. ReadLimit \in Nat /\ ReadSize \in Nat /\ most \in Nat
  BY LimitAssumption
<1>2. Len(inbox) \in Nat /\ Len(bytesCached) \in Nat
  BY SeqFacts DEF WsTypeOK, UnitSeq
<1>3. /\ Len(inbox) <= ReadSize /\ (ReadLimit > 0 => Len(bytesCached) <= most)
      /\ ~isMessageTooLarge(Len(message)) /\ (closed => bytesCached = Nil /\ message = Nil)
  BY DEF CacheInv, WsCachedBounded
<1> SUFFICES /\ Len(inbox') <= ReadSize /\ (ReadLimit > 0 => Len(bytesCached') <= most)
             /\ ~isMessageTooLarge(Len(message'))
             /\ closed' => bytesCached' = Nil /\ message' = Nil
  BY DEF CacheInv, WsCachedBounded, isMessageTooLarge
<1>4. CASE UNCHANGED <<inbox, bytesCached, message, closed>>
  BY <1>3, <1>4
<1>5. CASE \/ Upgrade \/ SetSession \/ HandOff \/ RunHere \/ CallHere \/ ParseFails
         \/ RunJob \/ OnClose \/ WriterStep \/ User \/ DelayedClose
  <2>1. Upgrade \/ SetSession => UNCHANGED <<inbox, bytesCached, message, closed>>
    BY DEF Upgrade, SetSession, Refuse, Hijack, TransferFails, commResponse, openHandler, readVars, parseVars
  <2>2. HandOff \/ ParseFails \/ RunJob \/ OnClose => UNCHANGED <<inbox, bytesCached, message, closed>>
    BY DEF HandOff, ParseFails, RunJob, OnClose, readVars, parseVars
  <2>4. RunHere \/ CallHere => UNCHANGED <<inbox, bytesCached, message, closed>>
    BY DEF RunHere, CallHere, parseVars
  <2>3. WriterStep \/ User \/ DelayedClose => UNCHANGED <<inbox, bytesCached, message, closed>>
    BY DEF WriterStep, Writer, WriterWrite, WriterNext, User, Send, UserCloses, WriteDeadline, NetCloses,
           DelayedClose, readVars, parseVars
  <2> QED BY <1>4, <1>5, <2>1, <2>2, <2>3, <2>4
<1>6. ASSUME NEW n \in 1 .. ReadSize, Fetch(n)
      PROVE  Len(inbox') <= ReadSize /\ UNCHANGED <<bytesCached, message, closed>>
  <2>1. /\ n <= Len(Stream) - fed /\ inbox' = SubSeq(Stream, fed + 1, fed + n)
        /\ UNCHANGED <<bytesCached, message, closed>>
    BY <1>6 DEF Fetch, parseVars
  <2>2. Stream \in Seq(Unit) /\ Len(Stream) \in Nat /\ fed \in Nat
    BY StreamTyped DEF WsTypeOK, UnitSeq
  <2>3. fed + 1 \in 1 .. Len(Stream) + 1 /\ fed + n \in 0 .. Len(Stream) /\ fed + 1 <= (fed + n) + 1
    BY <1>1, <2>1, <2>2
  <2>4. Len(inbox') = ((fed + n) - (fed + 1)) + 1
    BY <2>1, <2>2, <2>3, PartSeq
  <2> QED BY <1>1, <2>1, <2>2, <2>4
<1>7. CASE Parse
  <2>1. inbox' = Nil /\ message' = message /\ closed' = closed
    BY <1>7 DEF Parse
  <2>2. Len(inbox') = 0
    BY <2>1, NilTyped
  <2>3. closed => bytesCached' = bytesCached
    BY <1>7 DEF Parse
  <2>4. ReadLimit > 0 => Len(bytesCached') <= most
    <3> SUFFICES ASSUME ReadLimit > 0 PROVE Len(bytesCached') <= most
      OBVIOUS
    <3>1. CASE bytesCached' = bytesCached
      BY <1>3, <3>1
    <3>2. CASE bytesCached' # bytesCached
      <4>1. /\ bytesCached' = bytesCached \o inbox
            /\ ~(ReadLimit > 0 /\ bytesCached # Nil /\ Len(bytesCached) + Len(inbox) > ReadLimit)
        BY <1>7, <3>2 DEF Parse
      <4>2. Len(bytesCached') = Len(bytesCached) + Len(inbox)
        BY <4>1, ConcatSeq DEF WsTypeOK, UnitSeq
      <4>3. bytesCached = Nil => Len(bytesCached) = 0
        BY NilTyped
      <4> QED BY <1>1, <1>2, <1>3, <4>1, <4>2, <4>3
    <3> QED BY <3>1, <3>2
  <2> QED BY <1>1, <1>3, <2>1, <2>2, <2>3, <2>4
<1>8. CASE ParseFrame
  <2>1. ParseOutcome /\ UNCHANGED <<inbox, closed>>
    BY <1>8, ParseFrameOutcome DEF ParseFrame
  <2>2. Len(bytesCached') \in Nat
    BY <2>1, SeqFacts DEF ParseOutcome, UnitSeq
  <2> QED BY <1>1, <1>2, <1>3, <2>1, <2>2 DEF ParseOutcome
<1>9. ASSUME CloseAndClean, UNCHANGED inbox
      PROVE  /\ Len(inbox') <= ReadSize /\ (ReadLimit > 0 => Len(bytesCached') <= most)
             /\ ~isMessageTooLarge(Len(message')) /\ (closed' => bytesCached' = Nil /\ message' = Nil)
  BY <1>1, <1>3, <1>9, CloseAndCleanEffect, NilTyped
<1>10. CASE ReadEnds
  BY <1>9, <1>10 DEF ReadEnds
<1>11. CASE CleanUp
  BY <1>4, <1>9, <1>11 DEF CleanUp
<1> QED BY <1>3, <1>5, <1>6, <1>7, <1>8, <1>10, <1>11 DEF Next, Reader, Reads, Runner

LEMMA QuietStep ==
  ASSUME WsTypeOK, QuietInv, Next
  PROVE  QuietInv'
<1>1. input' = input /\ mode' = mode /\ (Blocking' <=> Blocking)
  BY SameMode, SameInput
<1>2. CASE Upgrade \/ SetSession
  <2>1. UNCHANGED <<pc, inbox, out, jobs>> /\ (Quiet' => Quiet)
    <3>1. UNCHANGED <<pc, inbox, out, jobs>>
      BY <1>2 DEF Upgrade, SetSession, Refuse, Hijack, TransferFails, commResponse, openHandler, readVars
    <3>2. Upgrade => phase \notin {"done", "failed"} /\ (phase = "open" => phase' = "done")
      BY DEF Upgrade, Refuse, Hijack, TransferFails, commResponse, openHandler
    <3>3. SetSession => phase' = phase
      BY DEF SetSession, upgradeVars
    <3> QED BY <1>1, <1>2, <3>1, <3>2, <3>3 DEF Quiet
  <2> QED BY <2>1 DEF QuietInv
<1>3. ~(Upgrade \/ SetSession) => (Quiet' <=> Quiet)
  <2>1. Reader => phase' = phase
    BY Zenon DEF Reader, Reads, Fetch, Parse, ParseFrame, HandOff, RunHere, CallHere, ParseFails, ReadEnds,
                 upgradeVars
  <2>2. Runner => phase' = phase
    BY Zenon DEF Runner, RunJob, CleanUp, OnClose, upgradeVars
  <2>3. WriterStep \/ User \/ DelayedClose => phase' = phase
    BY DEF WriterStep, User, DelayedClose, Send, UserCloses, WriteDeadline, NetCloses, upgradeVars
  <2> QED BY <1>1, <2>1, <2>2, <2>3 DEF Next, Quiet
<1>4. CASE ~(Upgrade \/ SetSession) /\ Quiet
  <2>1. /\ pc \in {"idle", "gone"} /\ inbox = Nil /\ out = Nil
        /\ \A k \in DOMAIN jobs : jobs[k] = CleanJob
    BY <1>4 DEF QuietInv
  <2>2. jobs \in Seq(Job) /\ Len(jobs) \in Nat /\ DOMAIN jobs = 1 .. Len(jobs)
    BY SeqFacts DEF WsTypeOK
  <2>3. ~Reader \/ ReadEnds
    <3>1. ASSUME NEW n \in 1 .. ReadSize PROVE ~Fetch(n)
      BY <1>4 DEF Fetch, Quiet, Blocking, Transferred
    <3> QED BY <2>1, <3>1 DEF Reader, Reads, Parse, ParseFrame, HandOff, RunHere, CallHere, ParseFails
  <2>4. ~RunJob
    BY <2>1, <2>2, TailSeq DEF RunJob, CleanJob
  <2>5. pc' \in {"idle", "gone"} /\ inbox' = Nil /\ out' = Nil
    BY <1>4, <2>1, <2>3, <2>4
       DEF Next, ReadEnds, Runner, CleanUp, OnClose, WriterStep, User, DelayedClose, Send, UserCloses,
           WriteDeadline, NetCloses, readVars
  <2>6. jobs' \in {jobs, Append(jobs, CleanJob)} \/ (jobs # <<>> /\ jobs' = Tail(jobs))
    BY <1>4, <2>3, <2>4
       DEF Next, ReadEnds, Runner, CleanUp, OnClose, WriterStep, User, DelayedClose, Send, UserCloses,
           WriteDeadline, NetCloses, readVars
  <2>7. \A k \in DOMAIN jobs' : jobs'[k] = CleanJob
    <3>1. CASE jobs' = jobs
      BY <2>1, <3>1
    <3>2. CASE jobs' = Append(jobs, CleanJob)
      <4>1. CleanJob \in Job
        BY DEF Job
      <4>2. /\ jobs' \in Seq(Job) /\ Len(jobs') = Len(jobs) + 1
            /\ \A i \in 1 .. Len(jobs) : jobs'[i] = jobs[i]
            /\ jobs'[Len(jobs) + 1] = CleanJob
        BY <2>2, <3>2, <4>1, AppendSeq
      <4>3. DOMAIN jobs' = 1 .. Len(jobs')
        BY <4>2, SeqFacts
      <4> QED BY <2>1, <2>2, <4>2, <4>3
    <3>3. CASE jobs # <<>> /\ jobs' = Tail(jobs)
      <4>1. /\ jobs' \in Seq(Job) /\ Len(jobs') = Len(jobs) - 1
            /\ \A i \in 1 .. Len(jobs) - 1 : jobs'[i] = jobs[i + 1]
        BY <2>2, <3>3, TailSeq
      <4>2. DOMAIN jobs' = 1 .. Len(jobs')
        BY <4>1, SeqFacts
      <4>3. ASSUME NEW k \in 1 .. Len(jobs) - 1 PROVE jobs'[k] = CleanJob
        <5>1. k + 1 \in DOMAIN jobs /\ jobs'[k] = jobs[k + 1]
          BY <2>2, <4>1
        <5> QED BY <2>1, <5>1
      <4> QED BY <4>1, <4>2, <4>3
    <3> QED BY <2>6, <3>1, <3>2, <3>3
  <2> QED BY <2>5, <2>7 DEF QuietInv
<1> QED BY <1>2, <1>3, <1>4 DEF QuietInv

\* A callback that is added is the last one.
LEMMA EventAdded ==
  ASSUME WsTypeOK, NEW e \in Event, events' = Append(events, e)
  PROVE  /\ Len(events) \in Nat /\ DOMAIN events = 1 .. Len(events)
         /\ Len(events') = Len(events) + 1 /\ DOMAIN events' = 1 .. Len(events) + 1
         /\ events' # <<>> /\ events'[Len(events) + 1] = e
         /\ \A k \in 1 .. Len(events) : events'[k] = events[k]
<1>1. events \in Seq(Event)
  BY DEF WsTypeOK
<1>2. Len(events) \in Nat /\ DOMAIN events = 1 .. Len(events)
  BY <1>1, SeqFacts
<1>3. /\ events' \in Seq(Event) /\ events' # <<>> /\ Len(events') = Len(events) + 1
      /\ \A k \in 1 .. Len(events) : events'[k] = events[k]
      /\ events'[Len(events) + 1] = e
  BY <1>1, AppendSeq
<1>4. DOMAIN events' = 1 .. Len(events')
  BY <1>3, SeqFacts
<1> QED BY <1>2, <1>3, <1>4

\* Parse's loop calls no handler.
LEMMA ParseFrameStops ==
  ASSUME WsTypeOK, ParseFrame PROVE pc' # "calling"
<1> DEFINE r == nextFrame
<1>1. ASSUME DataFrame(r) PROVE pc' # "calling"
  BY <1>1 DEF DataFrame, readAllOutcomes
<1>2. r.is \in {"more", "toobig", "fail", "frame"}
  BY NextFrameFound
<1> HIDE DEF r
<1>3. CASE closed \/ r.is # "frame"
  BY <1>2, <1>3 DEF ParseFrame, r
<1>4. CASE ~closed /\ r.is = "frame"
  <2>1. CASE r.frame.op \in {"cont", "text", "binary"}
    <3>1. r.frame.op \notin Control /\ r.is \notin {"more", "fail", "toobig"}
      BY <1>4, <2>1 DEF Control
    <3>2. DataFrame(r)
      BY <1>4, <2>1, <3>1, Zenon DEF ParseFrame, r
    <3> QED BY <1>1, <3>2
  <2>2. CASE r.frame.op \notin {"cont", "text", "binary"}
    BY <1>4, <2>2 DEF ParseFrame, r
  <2> QED BY <2>1, <2>2
<1> QED BY <1>3, <1>4

LEMMA CallStep ==
  ASSUME WsTypeOK, CallInv, Next
  PROVE  CallInv'
<1>1. input' = input /\ mode' = mode
  BY SameMode
<1>2. Event' = Event /\ (ByReader' <=> ByReader)
  BY <1>1, SameInput
<1>3. ASSUME pc' = pc, out' = out PROVE CallInv'
  BY <1>2, <1>3 DEF CallInv, Callback
<1>4. CASE RunHere
  <2>1. pc' = "calling" => ByReader /\ out' # Nil /\ Callback(Head(out')) \in Event \ {<<"open">>, <<"close">>}
    BY <1>4, RunHereEffect
  <2> QED BY <1>2, <2>1 DEF CallInv, Callback
<1>5. CASE pc' # "calling"
  BY <1>5 DEF CallInv
<1>6. Upgrade \/ SetSession \/ (\E n \in 1 .. ReadSize : Fetch(n)) => pc' = pc /\ out' = out
  BY DEF Upgrade, SetSession, Refuse, Hijack, TransferFails, commResponse, openHandler, Fetch, readVars
<1>7. Parse \/ HandOff \/ CallHere \/ ParseFails \/ ReadEnds => pc' # "calling"
  BY DEF Parse, HandOff, CallHere, ParseFails, ReadEnds
<1>8. ParseFrame => pc' # "calling"
  BY ParseFrameStops
<1>9. Runner \/ WriterStep \/ User \/ DelayedClose => pc' = pc /\ out' = out
  BY Zenon DEF Runner, RunJob, CleanUp, OnClose, WriterStep, User, DelayedClose, Send, UserCloses,
               WriteDeadline, NetCloses, readVars
<1> QED BY <1>3, <1>4, <1>5, <1>6, <1>7, <1>8, <1>9 DEF Next, Reader, Reads

LEMMA EventStep ==
  ASSUME SendTypeOK, WsTypeOK, QuietInv, CallInv, EventInv, Next
  PROVE  EventInv'
<1> DEFINE open == <<"open">>
           close == <<"close">>
           n == Len(events)
           Silent == Together /\ phase # "done" /\ ~(mode = "parser" /\ phase = "failed")
<1>1. input' = input /\ mode' = mode /\ (Together' <=> Together) /\ (ByReader' <=> ByReader)
  BY SameMode, SameInput
<1>2. open \in Event /\ close \in Event /\ open # close
  BY DEF Event
<1>3. events \in Seq(Event) /\ n \in Nat /\ DOMAIN events = 1 .. n /\ (events = <<>> <=> n = 0)
  BY SeqFacts DEF WsTypeOK
<1>4. /\ \A k \in 1 .. n : events[k] = close =>
           /\ closed
           /\ \A j \in k + 1 .. n : events[j] # close /\ (~ByReader \/ pc = "calling" => events[j] = open)
           /\ \A i, j \in k + 1 .. n : events[i] # open /\ events[j] # open => i = j
      /\ Silent => events = <<>>
      /\ Together /\ phase = "done" =>
           events # <<>> /\ events[1] = open /\ \A k \in 2 .. n : events[k] # open
  BY <1>3 DEF EventInv, Ended
<1>5. ASSUME UNCHANGED <<events, phase>>, closed => closed', pc' = "calling" => pc = "calling" \/ ~closed
      PROVE  EventInv'
  <2> HIDE DEF open, close, n
  <2>1. DOMAIN events' = DOMAIN events /\ Len(events') = Len(events)
    BY <1>5
  <2>2. ASSUME NEW k \in DOMAIN events', Ended(k)'
        PROVE  /\ closed'
               /\ \A j \in k + 1 .. Len(events)' :
                    ~Ended(j)' /\ (~ByReader' \/ pc' = "calling" => events'[j] = <<"open">>)
               /\ \A i, j \in k + 1 .. Len(events)' : events'[i] # <<"open">> /\ events'[j] # <<"open">> => i = j
    <3>1. k \in 1 .. n /\ events[k] = close /\ closed
      BY <1>3, <1>4, <1>5, <2>1, <2>2 DEF Ended, close, n
    <3>2. closed' /\ (pc' = "calling" => pc = "calling")
      BY <1>5, <3>1
    <3> QED BY <1>1, <1>4, <1>5, <3>1, <3>2 DEF Ended, open, close, n
  <2>3. /\ Together' /\ phase' # "done" /\ ~(mode' = "parser" /\ phase' = "failed") => events' = <<>>
        /\ Together' /\ phase' = "done" =>
             events' # <<>> /\ events'[1] = <<"open">> /\ \A k \in 2 .. Len(events') : events'[k] # <<"open">>
    BY <1>1, <1>5 DEF EventInv
  <2> QED BY <2>2, <2>3 DEF EventInv
<1>6. CASE Upgrade
  <2>1. CASE openHandler
    <3>1. phase = "open" /\ phase' = "done" /\ events' = Append(events, open) /\ closed' = closed /\ pc' = pc
      BY <2>1 DEF openHandler, readVars
    <3>2. /\ Len(events') = n + 1 /\ DOMAIN events' = 1 .. n + 1 /\ events' # <<>>
          /\ events'[n + 1] = open /\ \A k \in 1 .. n : events'[k] = events[k]
      BY <1>2, <3>1, EventAdded
    <3>3. ASSUME NEW k \in 1 .. n + 1, events'[k] = close
          PROVE  /\ closed
                 /\ \A j \in k + 1 .. n + 1 :
                      events'[j] # close /\ (~ByReader \/ pc = "calling" => events'[j] = open)
                 /\ \A i, j \in k + 1 .. n + 1 : events'[i] # open /\ events'[j] # open => i = j
      <4>1. k \in 1 .. n
        BY <1>2, <1>3, <3>2, <3>3
      <4>2. events[k] = close
        BY <3>2, <3>3, <4>1
      <4>3. /\ closed
            /\ \A j \in k + 1 .. n : events[j] # close /\ (~ByReader \/ pc = "calling" => events[j] = open)
            /\ \A i, j \in k + 1 .. n : events[i] # open /\ events[j] # open => i = j
        BY <1>4, <4>1, <4>2
      <4>4. \A j \in k + 1 .. n + 1 : j = n + 1 \/ (j \in k + 1 .. n /\ events'[j] = events[j])
        BY <1>3, <3>2, <4>1
      <4> HIDE DEF open, close, n
      <4> QED BY <1>2, <3>2, <4>3, <4>4
    <3>4. Together => n = 0
      BY <1>3, <1>4, <3>1
    <3> HIDE DEF open, close, n
    <3>5. Together => events'[1] = open /\ \A k \in 2 .. n + 1 : events'[k] # open
      BY <3>2, <3>4
    <3>6. \A k \in DOMAIN events' : events'[k] = close =>
            /\ closed'
            /\ \A j \in k + 1 .. Len(events') :
                 events'[j] # close /\ (~ByReader' \/ pc' = "calling" => events'[j] = open)
            /\ \A i, j \in k + 1 .. Len(events') : events'[i] # open /\ events'[j] # open => i = j
      BY <1>1, <3>1, <3>2, <3>3
    <3>7. /\ phase' = "done"
          /\ Together' => events' # <<>> /\ events'[1] = open /\ \A k \in 2 .. Len(events') : events'[k] # open
      BY <1>1, <3>1, <3>2, <3>5
    <3> QED BY <3>6, <3>7 DEF EventInv, Ended, open, close
  <2>2. CASE ~openHandler
    <3>1. /\ UNCHANGED <<events, closed, pc>> /\ phase \in {"check", "respond"} /\ phase' # "done"
      BY <1>6, <2>2 DEF Upgrade, Refuse, Hijack, TransferFails, commResponse, readVars
    <3>2. Together => events' = <<>>
      BY <1>4, <3>1
    <3> QED BY <1>1, <1>3, <3>1, <3>2 DEF EventInv, Ended
  <2> QED BY <2>1, <2>2
<1>7. CASE RunJob
  <2>1. closed' = closed /\ phase' = phase /\ pc' = pc
    BY <1>7 DEF RunJob, upgradeVars, readVars
  <2>2. CASE events' = events
    BY <1>5, <2>1, <2>2
  <2>3. CASE ~closed /\ Handled
    <3>1. PICK e \in Event : e # open /\ e # close /\ events' = Append(events, e)
      BY <2>3 DEF Handled
    <3>2. /\ Len(events') = n + 1 /\ DOMAIN events' = 1 .. n + 1 /\ events' # <<>>
          /\ events'[n + 1] = e /\ \A k \in 1 .. n : events'[k] = events[k]
      BY <3>1, EventAdded
    <3>3. ~Silent
      <4>1. jobs # <<>> /\ Head(jobs).kind # "clean" /\ RunnerFree
        BY <1>7 DEF RunJob
      <4>2. jobs \in Seq(Job) /\ Len(jobs) \in Nat /\ DOMAIN jobs = 1 .. Len(jobs) /\ Len(jobs) # 0
            /\ Head(jobs) = jobs[1]
        BY <4>1, SeqFacts, TailSeq DEF WsTypeOK
      <4>3. ~Quiet
        BY <4>1, <4>2 DEF QuietInv, CleanJob
      <4> QED BY <4>1, <4>3 DEF Quiet, RunnerFree, Together, Blocking
    <3> HIDE DEF open, close, n
    <3>4. ASSUME NEW k \in 1 .. n + 1 PROVE events'[k] # close
      <4>1. CASE k \in 1 .. n
        BY <1>4, <2>3, <3>2, <4>1
      <4>2. CASE k = n + 1
        BY <3>1, <3>2, <4>2
      <4> QED BY <1>3, <4>1, <4>2
    <3>5. ASSUME Together, phase = "done"
          PROVE  events'[1] = open /\ \A k \in 2 .. n + 1 : events'[k] # open
      <4>1. n > 0 /\ events'[1] = open
        BY <1>3, <1>4, <3>2, <3>5
      <4>2. ASSUME NEW k \in 2 .. n PROVE events'[k] # open
        BY <1>3, <1>4, <3>2, <3>5, <4>2
      <4> QED BY <1>3, <3>1, <3>2, <4>1, <4>2
    <3> QED BY <1>1, <2>1, <3>2, <3>3, <3>4, <3>5 DEF EventInv, Ended, open, close
  <2> QED BY <1>7, <2>2, <2>3, RunJobEvents
<1>14. CASE CallHere
  <2> DEFINE e == Callback(Head(out))
  <2>1. /\ pc = "calling" /\ pc' = "handoff" /\ events' = Append(events, e) /\ closed' = closed
        /\ phase' = phase
    BY <1>14 DEF CallHere, upgradeVars
  <2>2. ByReader /\ e \in Event /\ e # open /\ e # close
    BY <2>1 DEF CallInv
  <2> HIDE DEF e
  <2>3. /\ Len(events') = n + 1 /\ DOMAIN events' = 1 .. n + 1 /\ events' # <<>>
        /\ events'[n + 1] = e /\ \A k \in 1 .. n : events'[k] = events[k]
    BY <2>1, <2>2, EventAdded
  <2>4. ~Together
    BY <2>2 DEF Together, ByReader
  <2> HIDE DEF open, close, n
  <2>5. ASSUME NEW k \in 1 .. n + 1, events'[k] = close
        PROVE  /\ closed
               /\ \A j \in k + 1 .. n + 1 : events'[j] # close
               /\ \A i, j \in k + 1 .. n + 1 : events'[i] # open /\ events'[j] # open => i = j
    <3>1. k \in 1 .. n /\ events[k] = close
      BY <1>3, <2>2, <2>3, <2>5
    <3>2. closed /\ \A j \in k + 1 .. n : events[j] = open
      BY <1>4, <2>1, <3>1
    <3>3. \A j \in k + 1 .. n + 1 : j = n + 1 \/ (j \in k + 1 .. n /\ events'[j] = events[j])
      BY <1>3, <2>3, <3>1
    <3> QED BY <1>2, <2>2, <2>3, <3>2, <3>3
  <2> QED BY <1>1, <2>1, <2>2, <2>3, <2>4, <2>5 DEF EventInv, Ended, open, close
<1>15. CASE RunHere
  <2>1. closed' = closed /\ phase' = phase
    BY <1>15 DEF RunHere, upgradeVars
  <2>2. events' = events /\ (pc' = "calling" => ~closed)
    BY <1>15, RunHereEffect
  <2> QED BY <1>5, <2>1, <2>2
<1>8. ASSUME CloseAndClean, ~Silent, phase' = phase, pc' \in {pc, "gone"} PROVE EventInv'
  <2>1. CASE closed
    BY <1>5, <1>8, <2>1, CloseAndCleanEffect
  <2>2. CASE ~closed
    <3>1. closed' /\ events' = Append(events, close)
      BY <1>8, <2>2, CloseAndCleanEffect
    <3>2. /\ Len(events') = n + 1 /\ DOMAIN events' = 1 .. n + 1 /\ events' # <<>>
          /\ events'[n + 1] = close /\ \A k \in 1 .. n : events'[k] = events[k]
      BY <1>2, <3>1, EventAdded
    <3>3. ASSUME NEW k \in 1 .. n + 1, events'[k] = close PROVE k = n + 1
      BY <1>3, <1>4, <2>2, <3>2, <3>3
    <3>4. Together /\ phase = "done" =>
            events'[1] = open /\ \A k \in 2 .. n + 1 : events'[k] # open
      BY <1>2, <1>3, <1>4, <3>2
    <3>5. \A i, j \in (n + 1) + 1 .. n + 1 : FALSE
      BY <1>3
    <3> HIDE DEF open, close, n
    <3> QED BY <1>1, <1>8, <3>1, <3>2, <3>3, <3>4, <3>5 DEF EventInv, Ended, open, close
  <2> QED BY <2>1, <2>2
<1>9. CASE ReadEnds
  <2>1. CloseAndClean /\ phase' = phase /\ pc' = "gone"
    BY <1>9 DEF ReadEnds, upgradeVars
  <2>2. ~Silent
    BY <1>9 DEF ReadEnds, Together, Blocking
  <2> QED BY <1>8, <2>1, <2>2
<1>10. CASE CleanUp
  <2>1. phase' = phase /\ pc' = pc /\ ~Blocking /\ RunnerFree
    BY <1>10 DEF CleanUp, upgradeVars
  <2>2. CASE phase \in {"check", "failed"}
    <3>1. UNCHANGED <<events, closed>>
      BY <1>10, <2>2 DEF CleanUp
    <3> QED BY <1>5, <2>1, <3>1
  <2>3. CASE phase \notin {"check", "failed"}
    <3>1. CloseAndClean
      BY <1>10, <2>3 DEF CleanUp
    <3>2. ~Silent
      BY <2>1, <2>3 DEF RunnerFree, Together, Blocking
    <3> QED BY <1>8, <2>1, <3>1, <3>2
  <2> QED BY <2>2, <2>3
<1>11. SetSession \/ OnClose => UNCHANGED <<events, phase, closed, pc>>
  BY DEF SetSession, OnClose, upgradeVars, readVars
<1>12. CASE (\E m \in 1 .. ReadSize : Fetch(m)) \/ Parse \/ ParseFrame \/ HandOff \/ ParseFails
  <2>1. UNCHANGED <<events, phase, closed>>
    BY <1>12, Zenon DEF Fetch, Parse, ParseFrame, HandOff, ParseFails, upgradeVars
  <2>2. pc' = pc \/ pc' # "calling"
    BY <1>12, ParseFrameStops DEF Fetch, Parse, HandOff, ParseFails
  <2> QED BY <1>5, <2>1, <2>2
<1>13. WriterStep \/ User \/ DelayedClose => UNCHANGED <<events, phase, closed, pc>>
  BY DEF WriterStep, Writer, WriterWrite, WriterNext, User, Send, UserCloses, WriteDeadline, NetCloses,
         DelayedClose, upgradeVars, readVars
<1> QED BY <1>5, <1>6, <1>7, <1>9, <1>10, <1>11, <1>12, <1>13, <1>14, <1>15 DEF Next, Reader, Reads, Runner

-----------------------------------------------------------------------------
(* The theorems.                                                           *)

LEMMA InitHolds == Init => IInv
<1> SUFFICES ASSUME Init PROVE IInv
  OBVIOUS
<1>1. /\ sendQueue = <<>> /\ writer = NoWriter /\ buffers = <<>> /\ freed = <<>> /\ sent = <<>>
      /\ netOpen = TRUE /\ delayed = FALSE /\ closed = FALSE /\ async \in BOOLEAN
  <2>1. (IF Blocking THEN BOOLEAN ELSE {FALSE}) \subseteq BOOLEAN
    BY Zenon
  <2> QED BY <2>1 DEF Init, SendInit
<1>2. SentIds = {} /\ InHand = {} /\ Queued = {} /\ AcceptedIds = {} /\ Len(buffers) = 0 /\ Len(sendQueue) = 0
  BY <1>1 DEF SentIds, InHand, Queued, AcceptedIds, NoWriter
<1>3. SendTypeOK
  <2>1. \A S : <<>> \in Seq(S)
    OBVIOUS
  <2>2. NoWriter \in [at : {"off", "write", "next"}, i : Nat, pbuf : Nat]
    BY DEF NoWriter, NoBuf
  <2>3. netOpen \in BOOLEAN /\ delayed \in BOOLEAN /\ closed \in BOOLEAN
    BY <1>1
  <2> QED BY <1>1, <2>1, <2>2, <2>3 DEF SendTypeOK
<1>4. SendInv
  <2>1. QueueInv
    BY <1>1, <1>2, SendAssumption DEF QueueInv, NoWriter, Taken
  <2>2. IdsInv /\ CompleteInv /\ MessageInv
    BY <1>1, <1>2 DEF IdsInv, CompleteInv, MessageInv
  <2>3. OldestFirst
    BY <1>1, <1>2 DEF OldestFirst
  <2> QED BY <1>3, <2>1, <2>2, <2>3 DEF SendInv
<1>5. WsTypeOK
  <2>1. input \in Inputs /\ Len(Stream) \in Nat /\ input.sends \in Nat
    BY StreamTyped, InputAssumption DEF Init
  <2>2. <<>> \in Seq(Job) /\ <<>> \in Seq(Event)
    OBVIOUS
  <2>3. /\ mode \in Modes /\ phase = "check" /\ sends = input.sends /\ fed = 0 /\ pc = "idle"
        /\ inbox = Nil /\ out = Nil /\ bytesCached = Nil /\ message = Nil
        /\ msgType = "cont" /\ jobs = <<>> /\ session = "nil" /\ events = <<>>
    BY DEF Init
  <2>4. compress \in BOOLEAN /\ expectingFragments \in BOOLEAN /\ notified \in BOOLEAN
    BY DEF Init
  <2>5. fed \in 0 .. Len(Stream) /\ sends \in Nat
    BY <2>1, <2>3
  <2> QED BY <2>1, <2>2, <2>3, <2>4, <2>5, NilTyped DEF WsTypeOK, DataOps
<1>6. CacheInv
  BY <1>1, NilTyped, LimitAssumption DEF Init, CacheInv, WsCachedBounded
<1>7. QuietInv /\ CallInv /\ EventInv
  BY DEF Init, QuietInv, CallInv, EventInv
<1> QED BY <1>4, <1>5, <1>6, <1>7 DEF IInv

LEMMA StepHolds == IInv /\ [Next]_vars => IInv'
<1> SUFFICES ASSUME IInv, [Next]_vars PROVE IInv'
  OBVIOUS
<1>1. SendInv /\ SendTypeOK /\ WsTypeOK /\ CacheInv /\ QuietInv /\ CallInv /\ EventInv
  BY DEF IInv, SendInv
<1>2. CASE Next
  BY <1>1, <1>2, SendStep, TypeStep, CacheStep, QuietStep, CallStep, EventStep DEF IInv
<1>3. CASE UNCHANGED vars
  <2>1. /\ UNCHANGED <<async, closeVars, closed, sendVars, sends, readVars, jobs, notified, session, events>>
        /\ input' = input /\ mode' = mode /\ phase' = phase
    BY <1>3 DEF vars, upgradeVars
  <2>2. SendInv'
    <3>1. /\ UNCHANGED sendVars /\ async' = async /\ closed' = closed /\ netOpen' = netOpen
          /\ delayed' = delayed /\ expired' = expired
      BY <2>1 DEF closeVars
    <3>2. netOpen' \in BOOLEAN /\ delayed' \in BOOLEAN /\ (Writable' => Writable)
      BY <1>1, <3>1 DEF SendTypeOK, Writable
    <3> QED BY <1>1, <3>1, <3>2, SendUnchanged
  <2>3. /\ UnitSeq' = UnitSeq /\ HandlerJob' = HandlerJob /\ Job' = Job /\ Event' = Event /\ Stream' = Stream
        /\ (Blocking' <=> Blocking) /\ (Together' <=> Together) /\ (ByReader' <=> ByReader)
    BY <2>1, SameInput
  <2>4. WsTypeOK'
    BY <1>1, <2>1, <2>3 DEF WsTypeOK, readVars, parseVars
  <2>5. CacheInv'
    BY <1>1, <2>1 DEF CacheInv, WsCachedBounded, isMessageTooLarge, readVars, parseVars
  <2>6. QuietInv'
    BY <1>1, <2>1, <2>3 DEF QuietInv, Quiet, readVars
  <2>7. CallInv'
    BY <1>1, <2>1, <2>3 DEF CallInv, Callback, readVars
  <2>8. EventInv'
    BY <1>1, <2>1, <2>3 DEF EventInv, Ended, readVars
  <2> QED BY <2>2, <2>4, <2>5, <2>6, <2>7, <2>8 DEF IInv
<1> QED BY <1>2, <1>3

LEMMA Invariance == Spec => []IInv
  BY InitHolds, StepHolds, PTL DEF Spec

\* The frames that writeFrame accepts reach the connection in their order and
\* without a gap, the frames of a message one behind the other: for every queue
\* size, frame size and mode, and any interleaving of the writers, the handlers
\* and the goroutine of the send queue (conn.go, WriteMessage and writeFrame).
THEOREM SentInOrder == Spec => []SendOrder
<1>1. IInv => SendOrder
  BY OrderFollows DEF IInv
<1> QED BY <1>1, Invariance, PTL

\* A buffer has one owner until it is freed, and is freed once, also when
\* CloseAndClean runs while the goroutine writes (conn.go, writeFrame and
\* CloseAndClean).
THEOREM BuffersFreedOnce == Spec => []SendBuffersOwned
<1>1. IInv => SendBuffersOwned
  BY OwnedFollows DEF IInv
<1> QED BY <1>1, Invariance, PTL

\* What is cached is bounded by ReadLimit and MessageLengthLimit however the
\* reads cut the frames, and given back on close (conn.go, Parse, nextFrame and
\* CloseAndClean).
THEOREM CacheIsBounded == Spec => []WsCachedBounded
<1>1. IInv => WsCachedBounded
  BY DEF IInv, CacheInv
<1> QED BY <1>1, Invariance, PTL

\* The close handler is called once and last, but for one callback that the reader
\* of a one-shot engine was about to make, and the open handler first where
\* Upgrade and the handlers share a goroutine (upgrader.go, Upgrade; conn.go,
\* CloseAndClean).
THEOREM CallbacksInOrder == Spec => []CallbackOrder
<1>1. IInv => CallbackOrder
  <2> SUFFICES ASSUME IInv PROVE CallbackOrder
    OBVIOUS
  <2> DEFINE n == Len(events)
  <2>1. n \in Nat /\ DOMAIN events = 1 .. n /\ (events = <<>> <=> n = 0)
    BY SeqFacts DEF IInv, WsTypeOK
  <2>2. \A k \in 1 .. n : Ended(k) =>
          \A i, j \in k + 1 .. n :
            /\ ~Ended(j) /\ (~ByReader => events[j] = <<"open">>)
            /\ events[i] # <<"open">> /\ events[j] # <<"open">> => i = j
    BY <2>1 DEF IInv, EventInv
  <2>3. ASSUME Guaranteed PROVE OrderGuaranteed /\ (events # <<>> => events[1] = <<"open">>)
    <3>1. Together /\ (phase = "done" \/ events = <<>>)
      BY <2>3 DEF Guaranteed, Together, IInv, EventInv
    <3>2. CASE events = <<>>
      BY <2>1, <3>2 DEF OrderGuaranteed
    <3>3. CASE phase = "done"
      <4>1. events[1] = <<"open">> /\ \A k \in 2 .. n : events[k] # <<"open">>
        BY <3>1, <3>3 DEF IInv, EventInv
      <4>2. ASSUME NEW k \in 1 .. n, Ended(k) PROVE k = n
        <5>1. \A j \in k + 1 .. n : events[j] = <<"open">>
          BY <2>2, <3>1, <4>2 DEF Together, ByReader
        <5>2. k # n => k + 1 \in k + 1 .. n /\ k + 1 \in 2 .. n
          <6> HIDE DEF n
          <6>1. n \in Nat
            BY <2>1
          <6> QED BY <6>1
        <5> QED BY <4>1, <5>1, <5>2
      <4>3. ASSUME NEW k \in 1 .. n, events[k] = <<"open">> PROVE k = 1
        BY <2>1, <4>1, <4>3
      <4> QED BY <2>1, <4>1, <4>2, <4>3 DEF OrderGuaranteed
    <3> QED BY <3>1, <3>2, <3>3
  <2> QED BY <2>1, <2>2, <2>3 DEF CallbackOrder
<1> QED BY <1>1, Invariance, PTL
=============================================================================
