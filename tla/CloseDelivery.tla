---------------------------- MODULE CloseDelivery ----------------------------
(***************************************************************************)
(* How the data and the close event of a connection reach their handlers.  *)
(*                                                                         *)
(*   conn_unix.go  AsyncRead's tasks read, and hand what they read to the  *)
(*                 data handler, whose jobs go to Execute;                 *)
(*   conn_unix.go  closeWithError sets closed, then deleteConn calls       *)
(*                 g.onClose, from the goroutine that closes;              *)
(*   engine.go     onClose hands a function to Timer.Async that runs the   *)
(*                 user's handler and then wgConn.Done;                    *)
(*   nbhttp        the handler is a MustExecute of the job that cleans up; *)
(*   engine.go     Stop waits for wgConn and only then stops the pool.     *)
(*                                                                         *)
(* Composes AsyncRead (reading), ConnExecute (the connection's jobs) and   *)
(* TimerAsync (the engine's asynchronous functions).  A packet stands for  *)
(* the job it leads to; Others are unrelated Async calls.                  *)
(***************************************************************************)
EXTENDS ConnExecute, TimerAsync, AsyncRead

CONSTANTS CloseJob,   \* the job the close handler hands to MustExecute
          OnClose     \* the function onClose hands to Async

DataJobs == Jobs \ {CloseJob}
Others == Funcs \ {OnClose}

ASSUME CloseAssumption == /\ CloseJob \in Jobs /\ OnClose \in Funcs
                          /\ Packets \in Seq(DataJobs)
                          /\ \A k, l \in DOMAIN Packets : Packets[k] = Packets[l] => k = l

VARIABLES closing,   \* the closing goroutine is between closed = true and onClose
          wgConn     \* what this connection adds to the wait group

deliveryVars == <<closing, wgConn>>
allVars == <<vars, timerVars, readVars, deliveryVars>>

DeliveryInit == Init /\ TimerInit /\ ReadInit /\ closing = FALSE /\ wgConn = 1

\* The fd is open, and the poller finds the Conn in its table.
Kernel == /\ closed => closing
          /\ Arrive
          /\ UNCHANGED <<vars, timerVars, deliveryVars>>

Poll == /\ closed => closing
        /\ PollRead
        /\ UNCHANGED <<vars, timerVars, deliveryVars>>

PollUndo == UndoEvent /\ UNCHANGED <<vars, timerVars, deliveryVars>>

\* The data handler: the packet's job goes to Execute.
OnData(t) == /\ HandedOver(t)
             /\ Execute(data[t][1])
             /\ UNCHANGED <<timerVars, deliveryVars>>

\* What the IO pool does with a task, and what it cannot be relied on to do.
TaskStarts(t) == /\ reader[t] = "pool"
                 /\ StartTask(t)
                 /\ UNCHANGED <<vars, timerVars, deliveryVars>>

TaskWaits(t) == /\ \/ StrandTask(t)
                   \/ reader[t] = "stranded" /\ StartTask(t)
                /\ UNCHANGED <<vars, timerVars, deliveryVars>>

\* A task of AsyncRead that has been started, when its reads do not fail.
ReaderStep(t) ==
  \/ /\ \/ ~closed /\ ReadData(t)
        \/ closed /\ ReadFails(t)
        \/ EventDone(t)
        \/ ResetPollerEvent(t, closed)
     /\ UNCHANGED <<vars, timerVars, deliveryVars>>
  \/ OnData(t)

\* closeWithError: only the call that finds closed FALSE goes on.
Close == /\ SetClosed
         /\ closing' = TRUE
         /\ UNCHANGED <<timerVars, readVars, wgConn>>

\* A read fails, and the task closes the Conn.
ReadError(t) == /\ SetClosed
                /\ ReadFails(t)
                /\ closing' = TRUE
                /\ UNCHANGED <<timerVars, wgConn>>

\* deleteConn takes the Conn out of the table and calls g.onClose; the close
\* of the fd, which takes it out of epoll, follows.
DeleteConn == /\ closing
              /\ closing' = FALSE
              /\ Async(OnClose)
              /\ edge' = FALSE
              /\ UNCHANGED <<vars, mode, toSend, sock, armed, readEvents, poller, reader,
                             data, drifted, wgConn>>

OtherAsync(g) == Async(g) /\ UNCHANGED <<vars, readVars, deliveryVars>>

AsyncFetch(h) == Fetch(h) /\ UNCHANGED <<vars, readVars, deliveryVars>>

\* The handler of the close event calls MustExecute ...
CallHandler(h) == /\ loop[h] = "run" /\ f[h] = OnClose
                  /\ MustExecute(CloseJob)
                  /\ UNCHANGED <<timerVars, readVars, deliveryVars>>

\* ... and the deferred wgConn.Done follows.
HandlerDone(h) == /\ f[h] = OnClose
                  /\ call[CloseJob] = "pushed"
                  /\ Returned(h)
                  /\ wgConn' = wgConn - 1
                  /\ UNCHANGED <<vars, readVars, closing>>

OtherDone(h) == /\ f[h] # OnClose
                /\ Returned(h)
                /\ UNCHANGED <<vars, readVars, deliveryVars>>

\* The same of the pool behind Engine.Execute and of a runner.
RunnerStarts(h) == /\ runner[h] = "pending"
                   /\ StartRunner(h)
                   /\ UNCHANGED <<timerVars, readVars, deliveryVars>>

RunnerWaits(h) == /\ \/ StrandRunner(h) \/ DropRunner(h)
                     \/ runner[h] = "stranded" /\ StartRunner(h)
                  /\ UNCHANGED <<timerVars, readVars, deliveryVars>>

RunnerGoesOn(h) == /\ JobDone(h) \/ NextJob(h)
                   /\ UNCHANGED <<timerVars, readVars, deliveryVars>>

\* Stop: wgConn.Wait, then onStop.
StopEngine == /\ wgConn = 0
              /\ StopPool
              /\ UNCHANGED <<timerVars, readVars, deliveryVars>>

AsyncStep(h) == AsyncFetch(h) \/ CallHandler(h) \/ HandlerDone(h) \/ OtherDone(h)

DeliveryNext ==
  \/ Kernel \/ Poll \/ PollUndo
  \/ \E t \in Readers : TaskStarts(t) \/ TaskWaits(t) \/ ReaderStep(t) \/ ReadError(t)
  \/ \E j \in Jobs : RunnerStarts(j) \/ RunnerWaits(j) \/ RunnerGoesOn(j)
  \/ Close \/ DeleteConn \/ StopEngine
  \/ \E g \in Others : OtherAsync(g)
  \/ \E h \in Funcs : AsyncStep(h)

\* A goroutine that has started goes on, jobs and handlers return, the poller
\* polls, and a pool starts what it was given unless it strands it: TaskPool's
\* QueuedTaskRuns is violated, so that nothing is assumed of a stranded task.
\* Nobody has to close, send data or stop.
DeliverySpec ==
  /\ DeliveryInit /\ [][DeliveryNext]_allVars
  /\ WF_allVars(Poll) /\ WF_allVars(PollUndo)
  /\ \A t \in Readers : WF_allVars(TaskStarts(t)) /\ WF_allVars(ReaderStep(t))
  /\ WF_allVars(DeleteConn)
  /\ \A h \in Jobs : WF_allVars(RunnerStarts(h)) /\ WF_allVars(RunnerGoesOn(h))
  /\ \A h \in Funcs : WF_allVars(AsyncStep(h))

-----------------------------------------------------------------------------
Waiting == {waiting[k] : k \in 1 .. Len(waiting)}

\* The job of the close event is the last one the connection runs: once it
\* has been started no data job runs or waits, and none is accepted any more
\* (nbhttp releases the parser in this job).
CloseJobLast ==
  call[CloseJob] = "pushed" /\ CloseJob \notin Waiting =>
    running \notin DataJobs /\ Waiting = {}

\* A runner that its pool does not start: stranded there, or not yet started
\* when OnStop took the pool away.
RunnerLost == \E h \in Jobs : runner[h] \in {"stranded", "dropped"}

\* All jobs that were pushed have been run, the close job of a closed
\* connection among them.
AllRun == jobList = <<>> /\ (closed => \E h \in Jobs : job[h] = CloseJob)

\* MustExecute guarantees that the close job is executed: every closed
\* connection gets its close job run, and all jobs that were pushed are run.
\* The guarantee has two holes, and no other.  OnStop waits until the close job
\* is pushed and not for its runner, which is lost when it still waits in the
\* pool; and a pool may strand a runner (TaskPool's QueuedTaskRuns).
CloseDelivered == ~AllRun ~> (AllRun \/ RunnerLost)

\* Reads from the socket keep their order: one task reads at a time, and what
\* it reads is handed to Execute in the order it arrived.  (Until an event
\* has been taken back too late: see UndoEvent.)
ReadInOrder ==
  drifted \/ /\ \A t, u \in Readers :
                  reader[t] # "none" /\ reader[u] # "none" => t = u
             /\ \A k \in DOMAIN Packets :
                  call[Packets[k]] # "idle" =>
                    \A l \in 1 .. k : call[Packets[l]] # "idle"

Unread == {k \in 1 .. Len(Packets) - Len(toSend) : call[Packets[k]] = "idle"}

TaskStranded == \E t \in Readers : reader[t] = "stranded"

=============================================================================
