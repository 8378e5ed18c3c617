----------------------------- MODULE TimerAsync ------------------------------
(***************************************************************************)
(* timer/timer.go, Async: the engine-wide list of functions executed in    *)
(* another goroutine.  As in ConnExecute the call that finds the list      *)
(* empty starts the goroutine; here it takes every function, the first one *)
(* included, under the lock, and leaves when its index reaches the end.    *)
(***************************************************************************)
EXTENDS Integers, Sequences

CONSTANTS Funcs, NoFunc

ASSUME NoFuncAssumption == NoFunc \notin Funcs

VARIABLES
  asyncList,  \* t.asyncList
  asked,      \* functions for which Async has been called
  loop,       \* where the goroutine started for head function h is
  n,          \* its local i
  f           \* its local f

timerVars == <<asyncList, asked, loop, n, f>>

TimerInit == /\ asyncList = <<>>
             /\ asked = {}
             /\ loop = [h \in Funcs |-> "none"]
             /\ n = [h \in Funcs |-> 0]
             /\ f = [h \in Funcs |-> NoFunc]

\* Mutant: the emptiness test is made after the append.
AsyncLateHead(g) ==
  /\ g \notin asked
  /\ asked' = asked \cup {g}
  /\ asyncList' = Append(asyncList, g)
  /\ loop' = IF asyncList' = <<>> THEN [loop EXCEPT ![g] = "fetch"] ELSE loop
  /\ UNCHANGED <<n, f>>

Async(g) ==
  /\ g \notin asked
  /\ asked' = asked \cup {g}
  /\ asyncList' = Append(asyncList, g)
  /\ loop' = IF asyncList = <<>> THEN [loop EXCEPT ![g] = "fetch"] ELSE loop
  /\ UNCHANGED <<n, f>>

\* Mutant: the list is emptied as soon as the last function is taken, so that
\* a call made while it runs starts a second goroutine.
FetchEager(h) ==
  /\ loop[h] = "fetch"
  /\ \/ /\ n[h] >= Len(asyncList)
        /\ loop' = [loop EXCEPT ![h] = "end"]
        /\ UNCHANGED <<asyncList, n, f>>
     \/ /\ n[h] < Len(asyncList)
        /\ f' = [f EXCEPT ![h] = asyncList[n[h] + 1]]
        /\ n' = [n EXCEPT ![h] = @ + 1]
        /\ asyncList' = IF n[h] + 1 = Len(asyncList) THEN <<>> ELSE asyncList
        /\ loop' = [loop EXCEPT ![h] = "run"]
  /\ UNCHANGED asked

\* The critical section of the loop.
Fetch(h) ==
  /\ loop[h] = "fetch"
  /\ \/ /\ n[h] = Len(asyncList)
        /\ asyncList' = <<>>
        /\ loop' = [loop EXCEPT ![h] = "end"]
        /\ UNCHANGED <<n, f>>
     \/ /\ n[h] # Len(asyncList)
        /\ f' = [f EXCEPT ![h] = asyncList[n[h] + 1]]
        /\ n' = [n EXCEPT ![h] = @ + 1]
        /\ loop' = [loop EXCEPT ![h] = "run"]
        /\ UNCHANGED asyncList
  /\ UNCHANGED asked

\* f() returns, or panics and is recovered.
Returned(h) ==
  /\ loop[h] = "run"
  /\ loop' = [loop EXCEPT ![h] = "fetch"]
  /\ UNCHANGED <<asyncList, asked, n, f>>

TimerTypeOK ==
  /\ asyncList \in Seq(Funcs)
  /\ asked \subseteq Funcs
  /\ loop \in [Funcs -> {"none", "fetch", "run", "end"}]
  /\ n \in [Funcs -> Nat]
  /\ f \in [Funcs -> Funcs \cup {NoFunc}]

-----------------------------------------------------------------------------
Fetched == IF \E h \in Funcs : loop[h] \in {"fetch", "run"}
           THEN n[CHOOSE h \in Funcs : loop[h] \in {"fetch", "run"}]
           ELSE 0

notFetched == SubSeq(asyncList, Fetched + 1, Len(asyncList))

executing == IF \E h \in Funcs : loop[h] = "run"
             THEN f[CHOOSE h \in Funcs : loop[h] = "run"]
             ELSE NoFunc

AsyncSerialExecutor == INSTANCE SerialExecutor
  WITH Jobs <- Funcs, NoJob <- NoFunc, waiting <- notFetched, running <- executing

\* Async executes the functions one at a time in the order of the calls, which
\* is what orders the close callbacks of the engine.
AsyncSerial == AsyncSerialExecutor!Spec
=============================================================================
