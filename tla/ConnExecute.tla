----------------------------- MODULE ConnExecute -----------------------------
(***************************************************************************)
(* conn.go: the job list of one Conn.  Execute and MustExecute push a job; *)
(* the one that finds the list empty hands a runner to Engine.Execute, and *)
(* the runner works through the list by index until it has caught up.      *)
(*                                                                         *)
(* A runner is named after the head job it was created for, so nothing in  *)
(* the state limits the number of runners: that there is only one is what  *)
(* has to hold.  Engine.Execute (a pool, see TaskPool) starts a runner at  *)
(* some later time, or strands it; when nbhttp's OnStop has replaced it by *)
(* a no-op and stopped the pool, a runner that has not started is dropped. *)
(***************************************************************************)
EXTENDS Integers, Sequences

CONSTANTS Jobs, NoJob

ASSUME NoJobAssumption == NoJob \notin Jobs

VARIABLES
  closed,      \* c.closed
  jobList,     \* c.jobList, a nil entry is NoJob
  call,        \* outcome of the call that hands job j over
  runner,      \* where the runner created for head job h is
  i,           \* its local i
  job,         \* its local job
  poolStopped  \* Engine.Execute no longer runs anything new

vars == <<closed, jobList, call, runner, i, job, poolStopped>>

Init == /\ closed = FALSE
        /\ jobList = <<>>
        /\ call = [j \in Jobs |-> "idle"]
        /\ runner = [h \in Jobs |-> "none"]
        /\ i = [h \in Jobs |-> 0]
        /\ job = [h \in Jobs |-> NoJob]
        /\ poolStopped = FALSE

-----------------------------------------------------------------------------
\* Mutant: whether the job is the head is decided after the append, outside
\* the lock, by whether a runner is already at work.
PushLateHead(j) ==
  /\ jobList' = Append(jobList, j)
  /\ call' = [call EXCEPT ![j] = "pushed"]
  /\ runner' = IF \A h \in Jobs : runner[h] # "run"
               THEN [runner EXCEPT ![j] = "pending"] ELSE runner

\* The critical section of both functions, and the hand-over to
\* Engine.Execute when the list was empty.
Push(j) ==
  /\ jobList' = Append(jobList, j)
  /\ call' = [call EXCEPT ![j] = "pushed"]
  /\ runner' = IF jobList = <<>> THEN [runner EXCEPT ![j] = "pending"] ELSE runner

\* Mutant: the closed flag is not checked.
ExecuteUnchecked(j) ==
  /\ call[j] = "idle"
  /\ Push(j)
  /\ UNCHANGED <<closed, i, job, poolStopped>>

Execute(j) ==
  /\ call[j] = "idle"
  /\ \/ closed /\ call' = [call EXCEPT ![j] = "refused"] /\ UNCHANGED <<jobList, runner>>
     \/ ~closed /\ Push(j)
  /\ UNCHANGED <<closed, i, job, poolStopped>>

MustExecute(j) ==
  /\ call[j] = "idle"
  /\ Push(j)
  /\ UNCHANGED <<closed, i, job, poolStopped>>

\* Mutant: the index starts after the head, as if it had been taken already.
StartRunnerAtOne(h) ==
  /\ runner[h] \in {"pending", "stranded"}
  /\ runner' = [runner EXCEPT ![h] = "run"]
  /\ i' = [i EXCEPT ![h] = 1]
  /\ job' = [job EXCEPT ![h] = h]
  /\ UNCHANGED <<closed, jobList, call, poolStopped>>

\* The executor starts the runner: i := 0, and its first job is the head.
StartRunner(h) ==
  /\ runner[h] \in {"pending", "stranded"}
  /\ runner' = [runner EXCEPT ![h] = "run"]
  /\ i' = [i EXCEPT ![h] = 0]
  /\ job' = [job EXCEPT ![h] = h]
  /\ UNCHANGED <<closed, jobList, call, poolStopped>>

\* The pool's dispatcher has wasted its wake-up (QueuedTaskRuns of TaskPool):
\* the runner is left until some later call of Go happens to free it.
StrandRunner(h) ==
  /\ runner[h] = "pending"
  /\ runner' = [runner EXCEPT ![h] = "stranded"]
  /\ UNCHANGED <<closed, jobList, call, i, job, poolStopped>>

DropRunner(h) ==
  /\ poolStopped
  /\ runner[h] \in {"pending", "stranded"}
  /\ runner' = [runner EXCEPT ![h] = "dropped"]
  /\ UNCHANGED <<closed, jobList, call, i, job, poolStopped>>

\* job() returns, or panics and is recovered.
JobDone(h) ==
  /\ runner[h] = "run"
  /\ runner' = [runner EXCEPT ![h] = "next"]
  /\ UNCHANGED <<closed, jobList, call, i, job, poolStopped>>

\* Mutant: the list is taken as caught up without looking at jobs that were
\* pushed while the last one ran.
NextJobForgets(h) ==
  /\ runner[h] = "next"
  /\ i' = [i EXCEPT ![h] = @ + 1]
  /\ jobList' = <<>>
  /\ runner' = [runner EXCEPT ![h] = "end"]
  /\ UNCHANGED <<closed, call, job, poolStopped>>

\* The critical section after each job: all caught up, or take the next one
\* and clear its entry.
NextJob(h) ==
  /\ runner[h] = "next"
  /\ LET n == i[h] + 1 IN
     /\ i' = [i EXCEPT ![h] = n]
     /\ \/ /\ Len(jobList) = n
           /\ jobList' = <<>>
           /\ runner' = [runner EXCEPT ![h] = "end"]
           /\ UNCHANGED job
        \/ /\ Len(jobList) # n
           /\ job' = [job EXCEPT ![h] = jobList[n + 1]]
           /\ jobList' = [jobList EXCEPT ![n + 1] = NoJob]
           /\ runner' = [runner EXCEPT ![h] = "run"]
  /\ UNCHANGED <<closed, call, poolStopped>>

\* closeWithError, as far as this component sees it.
SetClosed == /\ ~closed
             /\ closed' = TRUE
             /\ UNCHANGED <<jobList, call, runner, i, job, poolStopped>>

\* nbhttp's OnStop: g.Execute becomes a no-op and the pool is stopped.
StopPool == /\ ~poolStopped
            /\ poolStopped' = TRUE
            /\ UNCHANGED <<closed, jobList, call, runner, i, job>>

RunnerStep(h) == \/ StartRunner(h) \/ StrandRunner(h) \/ DropRunner(h)
                 \/ JobDone(h) \/ NextJob(h)

Next == \/ \E j \in Jobs : Execute(j) \/ MustExecute(j) \/ RunnerStep(j)
        \/ SetClosed
        \/ StopPool

Spec == Init /\ [][Next]_vars

-----------------------------------------------------------------------------
TypeOK ==
  /\ closed \in BOOLEAN
  /\ jobList \in Seq(Jobs \cup {NoJob})
  /\ call \in [Jobs -> {"idle", "refused", "pushed"}]
  /\ runner \in [Jobs -> {"none", "pending", "stranded", "dropped", "run", "next", "end"}]
  /\ i \in [Jobs -> Nat]
  /\ job \in [Jobs -> Jobs \cup {NoJob}]
  /\ poolStopped \in BOOLEAN

\* A runner is in charge of the list from its creation until it has caught up;
\* a dropped one stays in charge and blocks the list.
InCharge(h) == runner[h] \in {"pending", "stranded", "dropped", "run", "next"}

\* The guarantee in the comment of Execute: at most one goroutine runs jobs of
\* this Conn, and whenever the list is not empty one is in charge of it.
SingleRunner ==
  /\ \A h, k \in Jobs : InCharge(h) /\ InCharge(k) => h = k
  /\ jobList # <<>> <=> \E h \in Jobs : InCharge(h)

\* The runner's index stays inside the list, and every entry it has not taken
\* yet still holds a job: it never runs a cleared (nil) entry, although the
\* list grows and its slice is reused behind the runner's back.
IndexInList ==
  \A h \in Jobs :
    /\ runner[h] \in {"pending", "stranded", "dropped"} =>
         /\ jobList[1] = h
         /\ \A k \in 1 .. Len(jobList) : jobList[k] \in Jobs
    /\ runner[h] \in {"run", "next"} =>
         /\ i[h] < Len(jobList)
         /\ job[h] \in Jobs
         /\ \A k \in i[h] + 2 .. Len(jobList) : jobList[k] \in Jobs

-----------------------------------------------------------------------------
(* Refinement of the serial executor.                                      *)

\* How many entries of the list have been taken.
Taken == IF \E h \in Jobs : runner[h] \in {"run", "next"}
         THEN i[CHOOSE h \in Jobs : runner[h] \in {"run", "next"}] + 1
         ELSE 0

waiting == SubSeq(jobList, Taken + 1, Len(jobList))

running == IF \E h \in Jobs : runner[h] = "run"
           THEN job[CHOOSE h \in Jobs : runner[h] = "run"]
           ELSE NoJob

Serial == INSTANCE SerialExecutor

\* The job list implements the serial executor: the comment of Execute
\* guarantees that all the jobs are executed in order, one at a time.
ConnSerial == Serial!Spec
=============================================================================
