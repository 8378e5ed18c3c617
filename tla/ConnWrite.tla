------------------------------ MODULE ConnWrite ------------------------------
(***************************************************************************)
(* conn_unix.go, sendfile_unix.go and poller_epoll.go: the write side of   *)
(* one stream Conn.  Write, Writev and Sendfile hand bytes to the kernel   *)
(* and cache what it does not take; the poller flushes the cache when      *)
(* epoll reports the fd writable.  User goroutines, the poller, the timer  *)
(* and the peer run concurrently.  c.mux makes each call one step, except  *)
(* that flush holds it over several system calls (pc = "flush"), and that  *)
(* ResetPollerEvent and the resetRead after onConnected run without it.    *)
(*                                                                         *)
(* Bytes are numbered in the order they are handed to the calls.  A dialed *)
(* Conn starts connecting, an accepted one starts registered by addConn.   *)
(***************************************************************************)
EXTENDS Integers, Sequences

CONSTANTS
  Setups,              \* pairs of an epoll mode ("LT", "ET" or "ONESHOT") and
                       \* whether the Conn comes from DialAsync
  SndBuf,              \* bytes the kernel's send buffer holds
  MaxCache,            \* maxWriteCacheOrFlushSize
  MaxWriteBufferSize,  \* Config.MaxWriteBufferSize, 0 for no limit
  Sizes,               \* lengths of a Write or of a Sendfile
  Vecs,                \* lengths of the buffers of a Writev
  MaxBytes,            \* bound: bytes handed over in a behaviour
  MaxInputs            \* bound: times the peer sends something

ASSUME SetupsAssumption == Setups \subseteq {"LT", "ET", "ONESHOT"} \X BOOLEAN
ASSUME SizesAssumption == SndBuf \in Nat \ {0} /\ MaxCache \in Nat /\ MaxWriteBufferSize \in Nat
ASSUME CallsAssumption == Sizes \subseteq Nat \ {0} /\ Vecs \subseteq Seq(Nat)
ASSUME BoundsAssumption == MaxBytes \in Nat /\ MaxInputs \in Nat

VARIABLES
  mode,         \* EpollMod and EPOLLONESHOT
  dialed,       \* the Conn comes from DialAsync
  closed,       \* c.closed
  writeList,    \* c.writeList
  left,         \* c.left
  isWAdded,     \* c.isWAdded
  onConnected,  \* c.onConnected # nil
  wTimer,       \* c.wTimer # nil
  firing,       \* the timer's callback has been launched
  arming,       \* DialAsyncTimeout has not set the dial deadline yet
  interest,     \* events the fd is registered for, {} after a one-shot event
  rdy,          \* the fd is on epoll's ready list (edge-triggered modes)
  nospace,      \* the kernel owes a wake-up for EPOLLOUT
  peer,         \* "connecting", "open", "fin" or "rst"
  input,        \* the peer's data waits to be read
  inputs,       \* how often the peer has sent
  out,          \* all bytes the kernel has taken
  drained,      \* how many of them have left its buffer
  pc,           \* where the poller is with this fd
  ev,           \* the events it handles
  sawEmpty,     \* what ResetPollerEvent read of len(c.writeList)
  next,         \* number of the next byte
  owed,         \* bytes that calls reported as written
  given,        \* bytes of calls that returned a nil error
  dupFailed     \* a Sendfile could not dup its file

conn  == <<closed, writeList, left, isWAdded, onConnected>>
timer == <<wTimer, firing, arming>>
epoll == <<interest, rdy>>
wire  == <<nospace, peer, input, inputs, out, drained>>
poll  == <<pc, ev, sawEmpty>>
hist  == <<next, owed, given, dupFailed>>
vars  == <<mode, dialed, conn, timer, epoll, wire, poll, hist>>

-----------------------------------------------------------------------------
(* The kernel, as the code uses it.                                        *)

Space == SndBuf - (Len(out) - drained)

\* What the fd is ready for, when the kernel has taken the bytes o.
ReadyWith(o) ==
  (IF input \/ peer \in {"fin", "rst"} THEN {"in"} ELSE {})
  \cup (IF \/ peer = "rst"
           \/ peer # "connecting" /\ Len(o) - drained < SndBuf
        THEN {"out"} ELSE {})
  \cup (IF peer \in {"fin", "rst"} THEN {"err"} ELSE {})

\* epoll_ctl MOD as setRead and setReadWrite issue it: edge-triggered fds
\* stay registered for everything, one-shot ones are armed again.
Mod(events, o) ==
  /\ interest' = IF mode = "ET" THEN interest ELSE events
  /\ rdy' = IF mode = "ONESHOT"
            THEN ReadyWith(o) \cap (events \cup {"err"}) # {} ELSE rdy

\* Something happened on the fd: an edge for epoll.
Wake(event) ==
  /\ rdy' = (rdy \/ (mode # "LT" /\ interest # {} /\ event \in interest \cup {"err"}))
  /\ UNCHANGED interest

\* How many of n bytes a write or sendfile takes.
Takes(n) == IF n < Space THEN n ELSE Space

-----------------------------------------------------------------------------
(* The write list.                                                         *)

Entry(isFile, b) == [file |-> isFile, data |-> b, off |-> 0]
Rest(e) == SubSeq(e.data, e.off + 1, Len(e.data))

\* What the entries of a write list whose file flag is in kinds still have to
\* send: everything, and the bytes that left counts.
Part(e, kinds) == IF e.file \in kinds THEN Rest(e) ELSE <<>>
UnsentUpTo(list, kinds) ==
  LET c[k \in 0 .. Len(list)] == IF k = 0 THEN <<>> ELSE c[k - 1] \o Part(list[k], kinds)
  IN  c
Unsent(list, kinds) == UnsentUpTo(list, kinds)[Len(list)]
Cached(list) == Unsent(list, BOOLEAN)
BufBytes(list) == Len(Unsent(list, {FALSE}))

\* Merge into the tail buffer while it stays within the limit, or append.
newToWriteBuf(list, b) ==
  IF /\ list # <<>>
     /\ ~list[Len(list)].file
     /\ Len(list[Len(list)].data) + Len(b) <= MaxCache
  THEN [list EXCEPT ![Len(list)].data = @ \o b]
  ELSE Append(list, Entry(FALSE, b))

newToWriteFile(list, b) == Append(list, Entry(TRUE, b))

\* Bytes number m .. m + n - 1.
Bytes(m, n) == [k \in 1 .. n |-> m + k - 1]
\* Bytes of the first k buffers of a Writev, and of all.
UpTo(v) == LET u[k \in 0 .. Len(v)] == IF k = 0 THEN 0 ELSE u[k - 1] + v[k] IN u
Total(v) == UpTo(v)[Len(v)]
\* The end of the buffer of v in which its n-th byte lies.
EndOfBuffer(v, n) ==
  UpTo(v)[CHOOSE k \in 1 .. Len(v) : UpTo(v)[k] >= n /\ UpTo(v)[k - 1] < n]

\* writev's loop when data is cached: each buffer of v goes to the list.
AddBuffers(list, v, m) ==
  LET l[k \in 0 .. Len(v)] ==
        IF k = 0 THEN list ELSE newToWriteBuf(l[k - 1], Bytes(m + UpTo(v)[k - 1], v[k]))
  IN  l[Len(v)]

overflow(n) == MaxWriteBufferSize > 0 /\ left + n > MaxWriteBufferSize

-----------------------------------------------------------------------------
(* Parts of the calls.                                                     *)

\* closeWithErrorWithoutLock, after closed was set.
Release == /\ closed' = TRUE
           /\ writeList' = <<>>
           /\ UNCHANGED <<left, isWAdded, onConnected>>

closeWithError ==
  \/ closed /\ UNCHANGED <<conn, wTimer>>
  \/ /\ ~closed
     /\ Release
     /\ wTimer' = FALSE

\* Mutant: the flag is set, and the poller is not told.
modWriteFlagOnly(o) ==
  isWAdded' = TRUE /\ UNCHANGED epoll

modWrite(o) ==
  \/ isWAdded /\ UNCHANGED <<isWAdded, epoll>>
  \/ ~isWAdded /\ isWAdded' = TRUE /\ Mod({"in", "out"}, o)

\* The end of Write and Writev: clear the deadline or ask for EPOLLOUT.
AfterWrite(list, o) ==
  \/ /\ list = <<>>
     /\ wTimer' = FALSE
     /\ UNCHANGED <<isWAdded, epoll>>
  \/ list # <<>> /\ modWrite(o) /\ UNCHANGED wTimer

\* A user goroutine has the Conn, c.mux is free and c.closed is FALSE.
MayCall == /\ ~onConnected \/ pc = "connected"
           /\ pc # "flush"
           /\ ~closed

\* A call that closes the Conn: overflow, or an error of the system call.
CallFails == Release /\ UNCHANGED <<timer, epoll, wire>>

\* The kernel takes the first n of the bytes b.
Send(b, n) == /\ out' = out \o SubSeq(b, 1, n)
              /\ nospace' = (nospace \/ n < Len(b))
              /\ UNCHANGED <<peer, input, inputs, drained>>

Report(n, reported, ok) ==
  /\ next' = next + n
  /\ owed' = owed \cup (next .. next + reported - 1)
  /\ given' = IF ok THEN given \cup (next .. next + n - 1) ELSE given

-----------------------------------------------------------------------------
(* Calls of user goroutines.                                               *)

\* Mutant: the whole buffer is cached, not just what the kernel left.
writeAgain(b) ==
  LET n == IF writeList = <<>> THEN Takes(Len(b)) ELSE 0 IN
  /\ IF writeList = <<>> THEN Send(b, n) ELSE UNCHANGED wire
  /\ writeList' = IF n = Len(b) THEN writeList ELSE newToWriteBuf(writeList, b)
  /\ left' = IF n = Len(b) THEN left ELSE left + Len(b)
  /\ AfterWrite(writeList', out')
  /\ UNCHANGED <<closed, onConnected, firing, arming>>

\* write, when it does not fail: the kernel is tried only if nothing is
\* cached, and what is left of b is cached.
write(b) ==
  LET n == IF writeList = <<>> THEN Takes(Len(b)) ELSE 0 IN
  /\ IF writeList = <<>> THEN Send(b, n) ELSE UNCHANGED wire
  /\ writeList' = IF n = Len(b) THEN writeList
                  ELSE newToWriteBuf(writeList, SubSeq(b, n + 1, Len(b)))
  /\ left' = left + Len(b) - n
  /\ AfterWrite(writeList', out')
  /\ UNCHANGED <<closed, onConnected, firing, arming>>

\* Mutant: closed is not checked.
WriteUnchecked(n) ==
  /\ ~onConnected
  /\ pc # "flush"
  /\ next + n - 1 <= MaxBytes
  /\ write(Bytes(next, n)) /\ Report(n, n, TRUE)
  /\ UNCHANGED <<mode, dialed, poll, dupFailed>>

Write(n) ==
  /\ MayCall
  /\ next + n - 1 <= MaxBytes
  /\ LET fails == overflow(n) \/ (writeList = <<>> /\ peer = "rst") IN
     \/ fails /\ CallFails /\ Report(n, 0, FALSE)
     \/ ~fails /\ write(Bytes(next, n)) /\ Report(n, n, TRUE)
  /\ UNCHANGED <<mode, dialed, poll, dupFailed>>

\* Two buffers or more.  When nothing is cached one writev is tried; if it is
\* short, only the rest of the buffer it stopped in is cached, and an EAGAIN
\* goes back to the caller.
Writev(v) ==
  /\ MayCall
  /\ next + Total(v) - 1 <= MaxBytes
  /\ LET size  == Total(v)
         n     == Takes(size)
         fails == overflow(size) \/ (writeList = <<>> /\ peer = "rst")
         stop  == IF n = 0 THEN 0 ELSE EndOfBuffer(v, n)
         b     == Bytes(next, size)
     IN
     \/ fails /\ CallFails /\ Report(size, 0, FALSE)
     \/ /\ ~fails
        /\ writeList # <<>>
        /\ writeList' = AddBuffers(writeList, v, next)
        /\ left' = left + size
        /\ AfterWrite(writeList', out)
        /\ Report(size, size, TRUE)
        /\ UNCHANGED <<closed, onConnected, firing, arming, wire>>
     \/ /\ ~fails
        /\ writeList = <<>>
        /\ Send(b, n)
        /\ writeList' = IF n < stop THEN newToWriteBuf(<<>>, SubSeq(b, n + 1, stop)) ELSE <<>>
        /\ left' = left + stop - n
        /\ AfterWrite(writeList', out')
        /\ Report(size, n, n > 0)
        /\ UNCHANGED <<closed, onConnected, firing, arming>>
  /\ UNCHANGED <<mode, dialed, poll, dupFailed>>

\* n bytes of a file that does not shrink meanwhile.  The file waits behind
\* what is cached; otherwise sendfile is tried, and the rest waits.
Sendfile(n) ==
  /\ MayCall
  /\ next + n - 1 <= MaxBytes
  /\ LET b == Bytes(next, n)
         k == Takes(n)
     IN
     \/ /\ writeList # <<>>          \* a failed Dup returns here, with an error
        /\ \/ writeList' = newToWriteFile(writeList, b) /\ Report(n, n, TRUE)
           \/ UNCHANGED writeList /\ Report(n, 0, FALSE)
        /\ UNCHANGED <<closed, left, isWAdded, onConnected, timer, epoll, wire, dupFailed>>
     \/ /\ writeList = <<>> /\ peer = "rst"
        /\ CallFails /\ Report(n, 0, FALSE)
        /\ UNCHANGED dupFailed
     \/ /\ writeList = <<>> /\ peer # "rst"
        /\ Send(b, k)
        /\ Report(n, n, TRUE)
        /\ \/ /\ k = n
              /\ UNCHANGED <<writeList, isWAdded, epoll, dupFailed>>
           \/ /\ k < n
              /\ writeList' = newToWriteFile(<<>>, SubSeq(b, k + 1, n))
              /\ modWrite(out')
              /\ UNCHANGED dupFailed
           \/ /\ k < n               \* Dup failed: the error is dropped
              /\ dupFailed' = TRUE
              /\ UNCHANGED <<writeList, isWAdded, epoll>>
        /\ UNCHANGED <<closed, left, onConnected, timer>>
  /\ UNCHANGED <<mode, dialed, poll>>

Close ==
  /\ MayCall
  /\ closeWithError
  /\ UNCHANGED <<mode, dialed, firing, arming, epoll, wire, poll, hist>>

SetWriteDeadline ==
  /\ MayCall
  /\ \/ wTimer' = TRUE
     \/ wTimer' = FALSE
  /\ UNCHANGED <<mode, dialed, conn, firing, arming, epoll, wire, poll, hist>>

\* The last step of DialAsyncTimeout, in the dialing goroutine.
SetDialDeadline ==
  /\ arming /\ ~closed
  /\ pc # "flush"
  /\ arming' = FALSE
  /\ wTimer' = TRUE
  /\ UNCHANGED <<mode, dialed, conn, firing, epoll, wire, poll, hist>>

\* The runtime launches the timer's callback in a goroutine of its own, which
\* Stop and Reset no longer reach.  (On a closed Conn it does nothing.)
TimerFires ==
  /\ wTimer /\ ~firing /\ ~closed
  /\ firing' = TRUE
  /\ UNCHANGED <<mode, dialed, conn, wTimer, arming, epoll, wire, poll, hist>>

WriteTimeout ==
  /\ firing /\ ~closed
  /\ pc # "flush"
  /\ firing' = FALSE
  /\ closeWithError
  /\ UNCHANGED <<mode, dialed, arming, epoll, wire, poll, hist>>

-----------------------------------------------------------------------------
(* The peer and the network.                                               *)

PeerAccepts ==
  /\ peer = "connecting"
  /\ \/ peer' = "open" /\ Wake("out")
     \/ peer' = "rst" /\ Wake("err")
  /\ UNCHANGED <<mode, dialed, conn, timer, nospace, input, inputs, out, drained, poll, hist>>

PeerReads ==
  /\ ~closed
  /\ drained < Len(out)
  /\ drained' = drained + 1
  /\ nospace' = FALSE
  /\ IF nospace THEN Wake("out") ELSE UNCHANGED epoll
  /\ UNCHANGED <<mode, dialed, conn, timer, peer, input, inputs, out, poll, hist>>

PeerSends ==
  /\ ~closed
  /\ peer = "open"
  /\ inputs < MaxInputs
  /\ input' = TRUE
  /\ inputs' = inputs + 1
  /\ Wake("in")
  /\ UNCHANGED <<mode, dialed, conn, timer, nospace, peer, out, drained, poll, hist>>

PeerCloses ==
  /\ ~closed
  /\ peer \in {"open", "fin"}
  /\ peer' \in {"fin", "rst"} \ {peer}
  /\ Wake("err")
  /\ UNCHANGED <<mode, dialed, conn, timer, nospace, input, inputs, out, drained, poll, hist>>

-----------------------------------------------------------------------------
(* The poller: readWriteLoop, for this fd.                                 *)

Rest0 == Rest(Head(writeList))
AfterRead == IF "err" \in ev THEN "err" ELSE "wait"

EpollWait ==
  /\ pc = "wait"
  /\ ~closed
  /\ LET e == ReadyWith(out) \cap (interest \cup {"err"}) IN
     /\ IF mode = "LT" THEN e # {} ELSE rdy
     /\ ev' = e
     /\ pc' = IF e = {} THEN "wait" ELSE IF "out" \in e THEN "write" ELSE "read"
     /\ interest' = IF mode = "ONESHOT" /\ e # {} THEN {} ELSE interest
  /\ rdy' = FALSE
  /\ UNCHANGED <<mode, dialed, conn, timer, wire, sawEmpty, hist>>

\* The handler of DialAsyncTimeout clears the deadline, then the user's
\* handler runs (pc = "connected").
OnConnected ==
  /\ pc = "write"
  /\ onConnected
  /\ pc' = "connected"
  /\ \/ closed /\ UNCHANGED wTimer
     \/ ~closed /\ wTimer' = FALSE
  /\ UNCHANGED <<mode, dialed, conn, firing, arming, epoll, wire, ev, sawEmpty, hist>>

\* onConnected is cleared and resetRead runs, without c.mux: first its flag,
\* then the system call.
ConnectedReset ==
  /\ pc = "connected"
  /\ onConnected' = FALSE
  /\ \/ /\ ~closed /\ isWAdded
        /\ isWAdded' = FALSE
        /\ pc' = "connmod"
     \/ /\ closed \/ ~isWAdded
        /\ pc' = "read"
        /\ UNCHANGED isWAdded
  /\ UNCHANGED <<mode, dialed, closed, writeList, left, timer, epoll, wire, ev, sawEmpty, hist>>

ConnectedMod ==
  /\ pc = "connmod"
  /\ pc' = "read"
  /\ IF closed THEN UNCHANGED epoll ELSE Mod({"in"}, out)
  /\ UNCHANGED <<mode, dialed, conn, timer, wire, ev, sawEmpty, hist>>

FlushBegin ==
  /\ pc = "write"
  /\ ~onConnected
  /\ pc' = IF closed \/ writeList = <<>> THEN "read" ELSE "flush"
  /\ UNCHANGED <<mode, dialed, conn, timer, epoll, wire, ev, sawEmpty, hist>>

\* Mutant: left is not reduced when the kernel takes only a part.
writeBufferLeft ==
  /\ pc = "flush" /\ writeList # <<>> /\ peer # "rst"
  /\ ~Head(writeList).file
  /\ LET n == Takes(Len(Rest0)) IN
     /\ n > 0
     /\ Send(Rest0, n)
     /\ left' = IF n = Len(Rest0) THEN left - n ELSE left
     /\ writeList' = IF n = Len(Rest0) THEN Tail(writeList)
                     ELSE [writeList EXCEPT ![1].off = @ + n]
  /\ UNCHANGED <<mode, dialed, closed, isWAdded, onConnected, timer, epoll, poll, hist>>

\* One write of flush's loop.  (An empty buffer would leave everything as it
\* is: the loop would not end.)
writeBuffer ==
  /\ pc = "flush" /\ writeList # <<>> /\ peer # "rst"
  /\ ~Head(writeList).file
  /\ LET n == Takes(Len(Rest0)) IN
     /\ n > 0
     /\ Send(Rest0, n)
     /\ left' = left - n
     /\ writeList' = IF n = Len(Rest0) THEN Tail(writeList)
                     ELSE [writeList EXCEPT ![1].off = @ + n]
  /\ UNCHANGED <<mode, dialed, closed, isWAdded, onConnected, timer, epoll, poll, hist>>

\* Mutant: the file is released after the first sendfile.
writeFileForgets ==
  /\ pc = "flush" /\ writeList # <<>> /\ peer # "rst"
  /\ Head(writeList).file
  /\ Takes(Len(Rest0)) > 0
  /\ Send(Rest0, Takes(Len(Rest0)))
  /\ writeList' = Tail(writeList)
  /\ UNCHANGED <<mode, dialed, closed, left, isWAdded, onConnected, timer, epoll, poll, hist>>

\* One sendfile of flush's loop.
writeFile ==
  /\ pc = "flush" /\ writeList # <<>> /\ peer # "rst"
  /\ Head(writeList).file
  /\ LET n == Takes(Len(Rest0)) IN
     /\ n > 0
     /\ Send(Rest0, n)
     /\ writeList' = IF n = Len(Rest0) THEN Tail(writeList)
                     ELSE [writeList EXCEPT ![1].off = @ + n]
  /\ UNCHANGED <<mode, dialed, closed, left, isWAdded, onConnected, timer, epoll, poll, hist>>

\* Mutant: the write event is cleared although the list is not empty.
FlushAgainResets ==
  /\ pc = "flush" /\ writeList # <<>> /\ peer # "rst"
  /\ Rest0 # <<>> /\ Takes(Len(Rest0)) = 0
  /\ pc' = "read"
  /\ nospace' = TRUE
  /\ isWAdded' = FALSE
  /\ Mod({"in"}, out)
  /\ UNCHANGED <<mode, dialed, closed, writeList, left, onConnected, timer, peer, input, inputs,
                 out, drained, ev, sawEmpty, hist>>

\* EAGAIN: a one-shot fd is armed again.
FlushAgain ==
  /\ pc = "flush" /\ writeList # <<>> /\ peer # "rst"
  /\ Rest0 # <<>> /\ Takes(Len(Rest0)) = 0
  /\ pc' = "read"
  /\ nospace' = TRUE
  /\ IF mode = "ONESHOT" THEN Mod({"in", "out"}, out) ELSE UNCHANGED epoll
  /\ UNCHANGED <<mode, dialed, conn, timer, peer, input, inputs, out, drained, ev, sawEmpty, hist>>

FlushError ==
  /\ pc = "flush" /\ writeList # <<>> /\ peer = "rst"
  /\ pc' = "read"
  /\ Release
  /\ UNCHANGED <<mode, dialed, timer, epoll, wire, ev, sawEmpty, hist>>

\* The list is empty: resetRead.
FlushDone ==
  /\ pc = "flush" /\ writeList = <<>>
  /\ pc' = "read"
  /\ \/ isWAdded /\ isWAdded' = FALSE /\ Mod({"in"}, out)
     \/ ~isWAdded /\ UNCHANGED <<isWAdded, epoll>>
  /\ UNCHANGED <<mode, dialed, closed, writeList, left, onConnected, timer, wire, ev, sawEmpty, hist>>

\* The read loop: drain the input, or find the connection reset.
Reading ==
  /\ pc = "read"
  /\ \/ "in" \in ev /\ ~closed /\ peer = "rst" /\ closeWithError /\ UNCHANGED input
     \/ "in" \in ev /\ ~closed /\ peer # "rst" /\ input' = FALSE /\ UNCHANGED <<conn, wTimer>>
     \/ ("in" \notin ev \/ closed) /\ UNCHANGED <<conn, wTimer, input>>
  /\ pc' = IF "in" \in ev /\ mode = "ONESHOT" THEN "check" ELSE AfterRead
  /\ UNCHANGED <<mode, dialed, firing, arming, epoll, nospace, peer, inputs, out, drained,
                 ev, sawEmpty, hist>>

\* ResetPollerEvent looks at c without c.mux ...
ResetCheck ==
  /\ pc = "check"
  /\ sawEmpty' = (writeList = <<>>)
  /\ pc' = IF closed THEN AfterRead ELSE "reset"
  /\ UNCHANGED <<mode, dialed, conn, timer, epoll, wire, ev, hist>>

\* ... and acts on what it saw.
ResetMod ==
  /\ pc = "reset"
  /\ pc' = AfterRead
  /\ \/ closed /\ UNCHANGED epoll
     \/ ~closed /\ sawEmpty /\ Mod({"in"}, out)
     \/ ~closed /\ ~sawEmpty /\ Mod({"in", "out"}, out)
  /\ UNCHANGED <<mode, dialed, conn, timer, wire, ev, sawEmpty, hist>>

PollError ==
  /\ pc = "err"
  /\ pc' = "wait"
  /\ closeWithError
  /\ UNCHANGED <<mode, dialed, firing, arming, epoll, wire, ev, sawEmpty, hist>>

Flush == writeBuffer \/ writeFile \/ FlushAgain \/ FlushError \/ FlushDone
Poller == \/ EpollWait \/ OnConnected \/ ConnectedReset \/ ConnectedMod
          \/ FlushBegin \/ Flush
          \/ Reading \/ ResetCheck \/ ResetMod \/ PollError

-----------------------------------------------------------------------------
\* The state after addConn, or after addDialer with the connection under way.
\* A connect that completes at once leaves a dialed Conn without onConnected.
Init ==
  /\ \E s \in Setups : mode = s[1] /\ dialed = s[2]
  /\ closed = FALSE /\ writeList = <<>> /\ left = 0
  /\ isWAdded = dialed /\ onConnected \in {FALSE, dialed}
  /\ wTimer = FALSE /\ firing = FALSE /\ arming \in {FALSE, onConnected}
  /\ interest = IF dialed \/ mode = "ET" THEN {"in", "out"} ELSE {"in"}
  /\ rdy = (mode # "LT" /\ "out" \in interest /\ ~onConnected)
  /\ nospace = FALSE /\ input = FALSE /\ inputs = 0 /\ out = <<>> /\ drained = 0
  /\ peer = IF onConnected THEN "connecting" ELSE "open"
  /\ pc = "wait" /\ ev = {} /\ sawEmpty = FALSE
  /\ next = 1 /\ owed = {} /\ given = {} /\ dupFailed = FALSE

Next == \/ \E n \in Sizes : Write(n) \/ Sendfile(n)
        \/ \E v \in Vecs : Writev(v)
        \/ Close \/ SetWriteDeadline \/ SetDialDeadline \/ TimerFires \/ WriteTimeout
        \/ PeerAccepts \/ PeerReads \/ PeerSends \/ PeerCloses
        \/ Poller

\* The poller goroutine keeps running, deadlines elapse and their callbacks
\* run, and the peer keeps reading.
Fairness == /\ WF_vars(Poller) /\ WF_vars(PeerReads)
            /\ WF_vars(TimerFires) /\ WF_vars(WriteTimeout)

Spec == Init /\ [][Next]_vars /\ Fairness

-----------------------------------------------------------------------------
EntryType == {e \in [file : BOOLEAN, data : Seq(Nat), off : Nat] : e.off <= Len(e.data)}

TypeOK ==
  /\ <<mode, dialed>> \in Setups
  /\ {closed, isWAdded, onConnected, wTimer, firing, arming} \subseteq BOOLEAN
  /\ {rdy, nospace, input, sawEmpty, dupFailed} \subseteq BOOLEAN
  /\ writeList \in Seq(EntryType) /\ left \in Nat
  /\ interest \subseteq {"in", "out"} /\ ev \subseteq {"in", "out", "err"}
  /\ peer \in {"connecting", "open", "fin", "rst"}
  /\ inputs \in 0 .. MaxInputs
  /\ out \in Seq(Nat) /\ drained \in 0 .. Len(out) /\ Space \in 0 .. SndBuf
  /\ pc \in {"wait", "write", "connected", "connmod", "flush", "read", "check", "reset", "err"}
  /\ next \in 1 .. MaxBytes + 1 /\ owed \subseteq 1 .. next - 1 /\ given \subseteq 1 .. next - 1

Accepted == out \o Cached(writeList)
AcceptedBytes == {Accepted[k] : k \in DOMAIN Accepted}

\* What is sent and what is cached are, together, bytes in the order in which
\* the calls handed them over, each at most once, however Write, Writev,
\* Sendfile and flush interleave and wherever the kernel cuts a write.
StreamInOrder == \A k \in 1 .. Len(Accepted) - 1 : Accepted[k] < Accepted[k + 1]

\* Every byte that a call reported as written is sent or still cached while
\* the Conn is open (a Sendfile whose Dup failed reports bytes it has lost).
ReportedIsKept == ~closed /\ ~dupFailed => owed \subseteq AcceptedBytes

\* left is the number of bytes cached in buffers, so that the overflow check
\* limits the memory a slow peer can bind: files do not count.
LeftExact == ~closed => /\ left = BufBytes(writeList)
                        /\ MaxWriteBufferSize > 0 => left <= MaxWriteBufferSize

\* For an accepted Conn cached data means that the write event has been asked
\* for, and with a level-triggered poller the registration says the same.  (Of
\* a dialed one neither holds: see WriteIsFlushed.)
WriteEventSet ==
  ~closed /\ ~dialed => /\ writeList # <<>> => isWAdded
                        /\ mode = "LT" => (isWAdded <=> "out" \in interest)

\* Once closed, a Conn hands no byte to the kernel, whose fd number may be in
\* use again, and caches nothing.
ClosedIsSilent == [][closed => closed' /\ out' = out /\ writeList' = <<>>]_vars

\* Write's promise to cache what is left and flush it on the writing event:
\* as long as the peer reads, cached data is sent or the Conn gets closed.
\* Shown for edge-triggered pollers, and for level-triggered ones when the
\* Conn was accepted.
Flushed == writeList = <<>> \/ closed
CachedIsFlushed ==
  (mode = "ET" \/ (mode = "LT" /\ ~dialed)) /\ writeList # <<>> ~> Flushed

\* The same for every Conn ("When it can't write all the data now, the
\* connection will cache the data left to be written and wait for the writing
\* event then try to flush it", Write's comment).
WriteIsFlushed == writeList # <<>> ~> Flushed

\* The same promise for Writev ("does similar things as Write"): when the call
\* returns no error, each byte of its buffers is sent or cached.
WritevCachesTheRest == ~closed /\ ~dupFailed => given \subseteq AcceptedBytes
=============================================================================
