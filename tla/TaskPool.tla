------------------------------ MODULE TaskPool -------------------------------
(***************************************************************************)
(* taskpool/taskpool.go: the goroutine pool every engine runs its handlers *)
(* on (IOTaskPool wraps it for the pollers' asynchronous reads).           *)
(*                                                                         *)
(* Each atomic operation on tp.concurrent and each channel operation is a  *)
(* step of its own, so every interleaving of callers of Go, the dispatcher *)
(* and the workers is a behaviour.  A task stands for one call Go(f); the  *)
(* worker goroutine is named after the task it carries.                    *)
(*                                                                         *)
(* chQqueue is one sequence: its first QueueSize elements are in the       *)
(* channel's buffer, the others belong to callers parked in their send     *)
(* (Go serves parked senders in FIFO order and moves them into the buffer  *)
(* as it drains), so an unbuffered channel is QueueSize = 0.               *)
(***************************************************************************)
EXTENDS Integers, Sequences, FiniteSets, SequencesExt

CONSTANTS Tasks, MaxConcurrent, QueueSize, NoTask

ASSUME MaxAssumption == MaxConcurrent \in Nat \ {0}
ASSUME QueueAssumption == QueueSize \in Nat
ASSUME NoTaskAssumption == NoTask \notin Tasks

VARIABLES
  concurrent,  \* tp.concurrent
  chQqueue,    \* tp.chQqueue, parked senders included
  chSlot,      \* tokens in tp.chSlot (capacity 1)
  stop,        \* progress of Stop: "no", "added", "closed" (chClose closed)
  caller,      \* where the goroutine that calls Go(t) is
  disp,        \* where dispatch is
  held,        \* the task dispatch holds, or NoTask
  worker       \* where the worker that carries t is

vars == <<concurrent, chQqueue, chSlot, stop, caller, disp, held, worker>>

closed == stop = "closed"

\* A caller whose element is beyond the buffer is still parked in its send.
Parked(t) == \E i \in QueueSize + 1 .. Len(chQqueue) : chQqueue[i] = t

\* Workers that hold a slot: they have not decremented the counter yet.
Active == {t \in Tasks : worker[t] \in {"run", "next", "release"}}

\* Goroutines between the failed increment of acquire and its undoing.
Overshoot == {t \in Tasks : caller[t] = "undo"}

Init == /\ concurrent = 0
        /\ chQqueue = <<>>
        /\ chSlot = 0
        /\ stop = "no"
        /\ caller = [t \in Tasks |-> "idle"]
        /\ disp = "recv"
        /\ held = NoTask
        /\ worker = [t \in Tasks |-> "none"]

-----------------------------------------------------------------------------
(* acquire: the increment decides; when it fails a second atomic operation *)
(* undoes it, and in between others see a counter that is too high.        *)

\* Mutant: the limit is off by one.
AcquireOkOffByOne == concurrent <= MaxConcurrent

AcquireOk == concurrent + 1 <= MaxConcurrent

\* fork(f) when acquire succeeds: a worker starts with t.
ForkOk(t) == /\ AcquireOk
             /\ concurrent' = concurrent + 1
             /\ worker' = [worker EXCEPT ![t] = "run"]

\* fork(f) when acquire fails.
ForkFail == /\ ~AcquireOk
            /\ concurrent' = concurrent + 1
            /\ UNCHANGED worker

-----------------------------------------------------------------------------
(* Go, run by the caller of t.                                             *)

GoFork(t) ==
  /\ caller[t] = "idle"
  /\ \/ ForkOk(t) /\ caller' = [caller EXCEPT ![t] = "out"]
     \/ ForkFail /\ caller' = [caller EXCEPT ![t] = "undo"]
  /\ UNCHANGED <<chQqueue, chSlot, stop, disp, held>>

\* Mutant: the failed increment is never undone.
GoUndoLeaks(t) ==
  /\ caller[t] = "undo"
  /\ caller' = [caller EXCEPT ![t] = "send"]
  /\ UNCHANGED <<concurrent, chQqueue, chSlot, stop, disp, held, worker>>

GoUndo(t) ==
  /\ caller[t] = "undo"
  /\ concurrent' = concurrent - 1
  /\ caller' = [caller EXCEPT ![t] = "send"]
  /\ UNCHANGED <<chQqueue, chSlot, stop, disp, held, worker>>

GoSend(t) ==
  /\ caller[t] = "send"
  /\ chQqueue' = Append(chQqueue, t)
  /\ caller' = [caller EXCEPT ![t] = "out"]
  /\ UNCHANGED <<concurrent, chSlot, stop, disp, held, worker>>

\* The other branch of Go's select: the pool is closed, Go returns and the
\* task is dropped, before the send or while parked in it.
GoClosed(t) ==
  /\ closed
  /\ \/ /\ caller[t] = "send"
        /\ caller' = [caller EXCEPT ![t] = "out"]
        /\ UNCHANGED chQqueue
     \/ /\ \E i \in QueueSize + 1 .. Len(chQqueue) :
             /\ chQqueue[i] = t
             /\ chQqueue' = RemoveAt(chQqueue, i)
        /\ UNCHANGED caller
  /\ UNCHANGED <<concurrent, chSlot, stop, disp, held, worker>>

-----------------------------------------------------------------------------
(* A worker: run the task, take the next one without blocking, else leave. *)

\* tp.caller(f) returns (a panic of f is recovered).
WorkerRan(t) ==
  /\ worker[t] = "run"
  /\ worker' = [worker EXCEPT ![t] = "next"]
  /\ UNCHANGED <<concurrent, chQqueue, chSlot, stop, caller, disp, held>>

\* case f = <-tp.chQqueue: the same goroutine carries the next task.
WorkerTake(t) ==
  /\ worker[t] = "next"
  /\ chQqueue # <<>>
  /\ worker' = [worker EXCEPT ![t] = "end", ![Head(chQqueue)] = "run"]
  /\ chQqueue' = Tail(chQqueue)
  /\ UNCHANGED <<concurrent, chSlot, stop, caller, disp, held>>

\* default: return, which runs the deferred release.
WorkerLeave(t) ==
  /\ worker[t] = "next"
  /\ chQqueue = <<>>
  /\ worker' = [worker EXCEPT ![t] = "release"]
  /\ UNCHANGED <<concurrent, chQqueue, chSlot, stop, caller, disp, held>>

ReleaseSlot(t) ==
  /\ worker[t] = "release"
  /\ concurrent' = concurrent - 1
  /\ worker' = [worker EXCEPT ![t] = "notify"]
  /\ UNCHANGED <<chQqueue, chSlot, stop, caller, disp, held>>

\* The send to chSlot is dropped when a token is there already.
ReleaseNotify(t) ==
  /\ worker[t] = "notify"
  /\ chSlot' = 1
  /\ worker' = [worker EXCEPT ![t] = "end"]
  /\ UNCHANGED <<concurrent, chQqueue, stop, caller, disp, held>>

-----------------------------------------------------------------------------
(* dispatch: the goroutine New starts.                                     *)

\* Mutant: the task is read but stays in the queue.
DispatchTakePeeks ==
  /\ disp = "recv"
  /\ chQqueue # <<>>
  /\ held' = Head(chQqueue)
  /\ disp' = "fork"
  /\ UNCHANGED <<concurrent, chQqueue, chSlot, stop, caller, worker>>

DispatchTake ==
  /\ disp = "recv"
  /\ chQqueue # <<>>
  /\ held' = Head(chQqueue)
  /\ chQqueue' = Tail(chQqueue)
  /\ disp' = "fork"
  /\ UNCHANGED <<concurrent, chSlot, stop, caller, worker>>

DispatchFork ==
  /\ disp = "fork"
  /\ \/ ForkOk(held) /\ held' = NoTask /\ disp' = "recv"
     \/ ForkFail /\ disp' = "undo" /\ UNCHANGED held
  /\ UNCHANGED <<chQqueue, chSlot, stop, caller>>

DispatchUndo ==
  /\ disp = "undo"
  /\ concurrent' = concurrent - 1
  /\ disp' = "wait"
  /\ UNCHANGED <<chQqueue, chSlot, stop, caller, held, worker>>

DispatchWake ==
  /\ disp = "wait"
  /\ chSlot = 1
  /\ chSlot' = 0
  /\ disp' = "fork"
  /\ UNCHANGED <<concurrent, chQqueue, stop, caller, held, worker>>

\* Mutant: the inner select of dispatch does not watch chClose.
DispatchClosedRecvOnly ==
  /\ closed
  /\ disp = "recv"
  /\ disp' = "exit"
  /\ UNCHANGED <<concurrent, chQqueue, chSlot, stop, caller, held, worker>>

DispatchClosed ==
  /\ closed
  /\ disp \in {"recv", "wait"}
  /\ disp' = "exit"
  /\ held' = NoTask
  /\ UNCHANGED <<concurrent, chQqueue, chSlot, stop, caller, worker>>

-----------------------------------------------------------------------------
(* Stop: under stopOnce, so one caller takes both steps and the others     *)
(* find it done.                                                           *)

\* Mutant: Stop only closes chClose.
StopAddNothing ==
  /\ stop = "no"
  /\ stop' = "added"
  /\ UNCHANGED <<concurrent, chQqueue, chSlot, caller, disp, held, worker>>

StopAdd == /\ stop = "no"
           /\ concurrent' = concurrent + MaxConcurrent
           /\ stop' = "added"
           /\ UNCHANGED <<chQqueue, chSlot, caller, disp, held, worker>>

StopClose == /\ stop = "added"
             /\ stop' = "closed"
             /\ UNCHANGED <<concurrent, chQqueue, chSlot, caller, disp, held, worker>>

-----------------------------------------------------------------------------
GoStep(t) == GoUndo(t) \/ GoSend(t) \/ GoClosed(t)

WorkerStep(t) == \/ WorkerRan(t) \/ WorkerTake(t) \/ WorkerLeave(t)
                 \/ ReleaseSlot(t) \/ ReleaseNotify(t)

DispatchStep == \/ DispatchTake \/ DispatchFork \/ DispatchUndo
                \/ DispatchWake \/ DispatchClosed

Next == \/ \E t \in Tasks : GoFork(t) \/ GoStep(t) \/ WorkerStep(t)
        \/ DispatchStep
        \/ StopAdd
        \/ StopClose

Spec == Init /\ [][Next]_vars

\* Goroutines that can run do run, tasks terminate, a started Stop finishes;
\* nobody is obliged to call Go or Stop.
Fairness == /\ \A t \in Tasks : WF_vars(GoStep(t)) /\ WF_vars(WorkerStep(t))
            /\ WF_vars(DispatchStep)
            /\ WF_vars(StopClose)

FairSpec == Spec /\ Fairness

-----------------------------------------------------------------------------
TypeOK ==
  /\ concurrent \in Int
  /\ chQqueue \in Seq(Tasks)
  /\ chSlot \in 0..1
  /\ stop \in {"no", "added", "closed"}
  /\ caller \in [Tasks -> {"idle", "undo", "send", "out"}]
  /\ disp \in {"recv", "fork", "undo", "wait", "exit"}
  /\ held \in Tasks \cup {NoTask}
  /\ worker \in [Tasks -> {"none", "run", "next", "release", "notify", "end"}]

\* The counter is exactly the slots held by workers, plus the increments that
\* failed acquires have not undone yet, plus what Stop added: no path of
\* acquire, release and Stop leaks or returns a slot twice.
SlotAccounting ==
  concurrent = Cardinality(Active) + Cardinality(Overshoot)
               + (IF disp = "undo" THEN 1 ELSE 0)
               + (IF stop = "no" THEN 0 ELSE MaxConcurrent)

\* At most MaxConcurrent workers hold a slot, however many callers of Go and
\* the dispatcher race in acquire.
WorkersBounded == Cardinality(Active) <= MaxConcurrent

\* A task is in one place: with its caller, once in the queue, with the
\* dispatcher or with a worker.
OnePlace ==
  /\ \A i, j \in 1 .. Len(chQqueue) : chQqueue[i] = chQqueue[j] => i = j
  /\ \A i \in 1 .. Len(chQqueue) : /\ caller[chQqueue[i]] = "out"
                                   /\ worker[chQqueue[i]] = "none"
                                   /\ chQqueue[i] # held
  /\ held # NoTask => caller[held] = "out" /\ worker[held] = "none"
  /\ held # NoTask <=> disp \in {"fork", "undo", "wait"}
  /\ \A t \in Tasks : worker[t] # "none" => caller[t] = "out"

\* Once Stop has added MaxConcurrent to the counter, fork starts no worker:
\* a worker may only hand its slot on to a queued task.
NoForkAfterStop ==
  [][stop # "no" => Cardinality(Active') <= Cardinality(Active)]_vars

\* After Stop closed chClose the dispatcher exits and no caller of Go stays
\* blocked, whatever the queue holds.
StopUnblocks ==
  /\ closed ~> disp = "exit"
  /\ \A t \in Tasks : closed /\ (caller[t] = "send" \/ Parked(t))
                       ~> caller[t] = "out" /\ ~Parked(t)

-----------------------------------------------------------------------------
(* Refinement: what has become of a task, as the users of the pool see it. *)

Queued == {chQqueue[i] : i \in 1 .. Len(chQqueue)}

StatusOf(t) ==
  IF worker[t] = "run" THEN "running"
  ELSE IF worker[t] # "none" THEN "done"
  ELSE IF caller[t] = "idle" THEN "idle"
  ELSE IF caller[t] # "out" \/ t \in Queued \/ t = held THEN "pending"
  ELSE "dropped"

status == [t \in Tasks |-> StatusOf(t)]

Executor == INSTANCE BoundedExecutor WITH stopped <- stop # "no"

\* The pool implements the bounded executor: no task runs twice or is lost
\* between caller, queue, dispatcher and worker, no more than MaxConcurrent
\* run at once, and only Stop drops tasks.
ExecutorSpec == Executor!Spec

\* The comment of dispatch promises that the queue keeps being consumed (and
\* that of release that the dispatcher is woken when a slot is free): a task
\* that was handed to the pool is executed unless the pool is stopped.
QueuedTaskRuns ==
  \A t \in Tasks : (t \in Queued \/ t = held) ~> (worker[t] # "none" \/ stop # "no")
=============================================================================
