--------------------------- MODULE BoundedExecutor ---------------------------
(***************************************************************************)
(* What taskpool.TaskPool promises its users, with none of its machinery:  *)
(* every task handed to Go is executed at most once, at most MaxConcurrent *)
(* tasks are executed at any time, and a task is given up only when the    *)
(* pool has been stopped.                                                  *)
(***************************************************************************)
EXTENDS Naturals, FiniteSets

CONSTANTS Tasks,          \* the calls of Go, each with its own function
          MaxConcurrent   \* the limit given to New

VARIABLES status,         \* what has become of each task
          stopped         \* Stop has been called

vars == <<status, stopped>>

Running == {t \in Tasks : status[t] = "running"}

Init == /\ status = [t \in Tasks |-> "idle"]
        /\ stopped = FALSE

Submit(t) == /\ status[t] = "idle"
             /\ status' = [status EXCEPT ![t] = "pending"]
             /\ UNCHANGED stopped

Start(t) == /\ status[t] \in {"idle", "pending"}
            /\ Cardinality(Running) < MaxConcurrent
            /\ status' = [status EXCEPT ![t] = "running"]
            /\ UNCHANGED stopped

Finish(t) == /\ status[t] = "running"
             /\ status' = [status EXCEPT ![t] = "done"]
             /\ UNCHANGED stopped

Drop(t) == /\ stopped
           /\ status[t] = "pending"
           /\ status' = [status EXCEPT ![t] = "dropped"]
           /\ UNCHANGED stopped

StopCalled == /\ ~stopped
              /\ stopped' = TRUE
              /\ UNCHANGED status

Next == \/ StopCalled
        \/ \E t \in Tasks : Submit(t) \/ Start(t) \/ Finish(t) \/ Drop(t)

Spec == Init /\ [][Next]_vars
=============================================================================
