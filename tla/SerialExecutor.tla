---------------------------- MODULE SerialExecutor ---------------------------
(***************************************************************************)
(* What Conn.Execute/MustExecute and Timer.Async promise: the functions    *)
(* handed over are executed one at a time, in the order they were handed   *)
(* over, each once.                                                        *)
(***************************************************************************)
EXTENDS Sequences

CONSTANTS Jobs, NoJob

VARIABLES waiting,   \* handed over and not started, oldest first
          running    \* the one being executed, or NoJob

vars == <<waiting, running>>

Init == waiting = <<>> /\ running = NoJob

Push(j) == /\ waiting' = Append(waiting, j)
           /\ UNCHANGED running

Start == /\ running = NoJob
         /\ waiting # <<>>
         /\ running' = Head(waiting)
         /\ waiting' = Tail(waiting)

Finish == /\ running # NoJob
          /\ running' = NoJob
          /\ UNCHANGED waiting

Next == (\E j \in Jobs : Push(j)) \/ Start \/ Finish

Spec == Init /\ [][Next]_vars
=============================================================================
