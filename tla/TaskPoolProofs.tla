--------------------------- MODULE TaskPoolProofs ----------------------------
(***************************************************************************)
(* The safety of the task pool for any number of tasks, any MaxConcurrent  *)
(* and any queue size: the slot counter is exact, no more than             *)
(* MaxConcurrent workers hold a slot, and the pool implements              *)
(* BoundedExecutor.                                                        *)
(***************************************************************************)
EXTENDS TaskPool, TLAPS, FiniteSetTheorems, SequenceTheorems

\* The inductive invariant: the counter says something about the workers only
\* while the sets it counts are finite, and a task starts to run only once
\* because it is in one place.
IInv == /\ TypeOK
        /\ IsFiniteSet(Active)
        /\ IsFiniteSet(Overshoot)
        /\ SlotAccounting
        /\ WorkersBounded
        /\ OnePlace

USE MaxAssumption, QueueAssumption, NoTaskAssumption

\* Initially nothing is counted and every task is with its caller.
LEMMA InitIInv == Init => IInv
<1> SUFFICES ASSUME Init PROVE IInv
  OBVIOUS
<1>1. TypeOK
  BY DEF Init, TypeOK
<1>2. Active = {} /\ Overshoot = {}
  BY DEF Init, Active, Overshoot
<1>3. IsFiniteSet(Active) /\ Cardinality(Active) = 0
  BY <1>2, FS_EmptySet
<1>4. IsFiniteSet(Overshoot) /\ Cardinality(Overshoot) = 0
  BY <1>2, FS_EmptySet
<1>5. SlotAccounting /\ WorkersBounded
  BY <1>3, <1>4 DEF Init, SlotAccounting, WorkersBounded
<1>6. OnePlace
  BY DEF Init, OnePlace
<1> QED
  BY <1>1, <1>3, <1>4, <1>5, <1>6 DEF IInv

\* Taking the head of the queue (by a worker or the dispatcher).
LEMMA TakeHead ==
  ASSUME TypeOK, OnePlace, chQqueue # <<>>
  PROVE  /\ Head(chQqueue) \in Tasks
         /\ Head(chQqueue) = chQqueue[1]
         /\ Tail(chQqueue) \in Seq(Tasks)
         /\ Len(Tail(chQqueue)) = Len(chQqueue) - 1
         /\ \A i \in 1 .. Len(Tail(chQqueue)) :
              /\ i + 1 \in 1 .. Len(chQqueue)
              /\ Tail(chQqueue)[i] = chQqueue[i + 1]
              /\ Tail(chQqueue)[i] # Head(chQqueue)
         /\ \A i, j \in 1 .. Len(Tail(chQqueue)) :
              Tail(chQqueue)[i] = Tail(chQqueue)[j] => i = j
  BY DEF TypeOK, OnePlace

\* A parked caller leaves the queue: the others keep their order.
LEMMA DropAt ==
  ASSUME TypeOK, OnePlace, NEW i \in 1 .. Len(chQqueue)
  PROVE  /\ RemoveAt(chQqueue, i) \in Seq(Tasks)
         /\ Len(RemoveAt(chQqueue, i)) = Len(chQqueue) - 1
         /\ \A j \in 1 .. Len(RemoveAt(chQqueue, i)) :
               LET k == IF j < i THEN j ELSE j + 1
               IN  /\ k \in 1 .. Len(chQqueue)
                   /\ RemoveAt(chQqueue, i)[j] = chQqueue[k]
                   /\ chQqueue[k] # chQqueue[i]
<1> DEFINE front == SubSeq(chQqueue, 1, i - 1)
           back == SubSeq(chQqueue, i + 1, Len(chQqueue))
<1>1. /\ front \in Seq(Tasks)
      /\ Len(front) = i - 1
      /\ \A j \in 1 .. i - 1 : front[j] = chQqueue[j]
  BY DEF TypeOK
<1>2. /\ back \in Seq(Tasks)
      /\ Len(back) = Len(chQqueue) - i
      /\ \A j \in 1 .. Len(chQqueue) - i : back[j] = chQqueue[j + i]
  BY DEF TypeOK
<1>3. RemoveAt(chQqueue, i) = front \o back
  BY DEF RemoveAt
<1> HIDE DEF front, back
<1>4. /\ front \o back \in Seq(Tasks)
      /\ Len(front \o back) = Len(front) + Len(back)
      /\ \A j \in 1 .. Len(front) + Len(back) :
           (front \o back)[j] = IF j <= Len(front) THEN front[j]
                                ELSE back[j - Len(front)]
  BY <1>1, <1>2, ConcatProperties
<1>5. Len(chQqueue) \in Nat
  BY DEF TypeOK
<1>6. ASSUME NEW j \in 1 .. Len(chQqueue) - 1
      PROVE  LET k == IF j < i THEN j ELSE j + 1
             IN  /\ k \in 1 .. Len(chQqueue)
                 /\ (front \o back)[j] = chQqueue[k]
                 /\ chQqueue[k] # chQqueue[i]
  <2>1. CASE j < i
    BY <1>1, <1>2, <1>4, <1>5, <2>1 DEF OnePlace
  <2>2. CASE ~(j < i)
    <3>1. j - Len(front) \in 1 .. Len(chQqueue) - i
      BY <1>1, <1>5, <2>2
    <3>2. (front \o back)[j] = back[j - Len(front)]
      BY <1>1, <1>2, <1>4, <1>5, <2>2
    <3>3. back[j - Len(front)] = chQqueue[j + 1]
      <4>1. j - Len(front) + i = j + 1
        BY <1>1, <1>5
      <4> QED BY <1>2, <3>1, <4>1
    <3> QED
      BY <1>5, <2>2, <3>2, <3>3 DEF OnePlace
  <2> QED
    BY <2>1, <2>2
<1> QED
  BY <1>1, <1>2, <1>3, <1>4, <1>5, <1>6

-----------------------------------------------------------------------------
(* What the steps of fork do to the counted set and to the counter.        *)

\* A successful acquire: one more worker, and room for it.
LEMMA ForkOkCount ==
  ASSUME IInv, NEW t \in Tasks, worker[t] = "none", ForkOk(t)
  PROVE  /\ IsFiniteSet(Active')
         /\ Cardinality(Active') = Cardinality(Active) + 1
         /\ Cardinality(Active') <= MaxConcurrent
<1>1. Active' = Active \cup {t} /\ t \notin Active
  BY DEF IInv, TypeOK, ForkOk, Active
<1>2. IsFiniteSet(Active') /\ Cardinality(Active') = Cardinality(Active) + 1
  BY <1>1, FS_AddElement DEF IInv
<1>3. Cardinality(Active) \in Nat /\ Cardinality(Overshoot) \in Nat
  BY FS_CardinalityType DEF IInv
<1>4. concurrent >= Cardinality(Active)
  BY <1>3 DEF IInv, SlotAccounting
<1> QED
  BY <1>2, <1>3, <1>4 DEF IInv, TypeOK, ForkOk, AcquireOk

\* Steps that leave the workers alone leave the counted set alone.
LEMMA SameActive ==
  ASSUME IInv, UNCHANGED worker
  PROVE  IsFiniteSet(Active') /\ Active' = Active
BY DEF IInv, Active

\* Steps that leave the callers alone leave the overshooting callers alone.
LEMMA SameOvershoot ==
  ASSUME IInv, UNCHANGED caller
  PROVE  IsFiniteSet(Overshoot') /\ Overshoot' = Overshoot
BY DEF IInv, Overshoot

\* A worker that stays between its task and the return of its slot is still
\* counted.
LEMMA StillActive ==
  ASSUME IInv, NEW t \in Active, NEW s \in {"run", "next", "release"},
         worker' = [worker EXCEPT ![t] = s]
  PROVE  IsFiniteSet(Active') /\ Active' = Active
BY DEF IInv, TypeOK, Active

-----------------------------------------------------------------------------
(* Preservation of IInv, one lemma per actor.                              *)

\* Go's acquire takes a slot for a new worker, or overshoots the counter.
LEMMA GoForkIInv == ASSUME IInv, NEW t \in Tasks, GoFork(t) PROVE IInv'
<1>0. worker[t] = "none" /\ t # held /\ \A i \in 1 .. Len(chQqueue) : chQqueue[i] # t
  BY DEF IInv, TypeOK, OnePlace, GoFork
<1>00. Cardinality(Active) \in Nat /\ Cardinality(Overshoot) \in Nat
  BY FS_CardinalityType DEF IInv
<1>1. CASE ForkOk(t) /\ caller' = [caller EXCEPT ![t] = "out"]
  <2>1. TypeOK'
    BY <1>1 DEF IInv, TypeOK, GoFork, ForkOk
  <2>2. /\ IsFiniteSet(Active')
        /\ Cardinality(Active') = Cardinality(Active) + 1
        /\ Cardinality(Active') <= MaxConcurrent
    BY <1>0, <1>1, ForkOkCount
  <2>3. Overshoot' = Overshoot
    BY <1>1 DEF IInv, TypeOK, GoFork, Overshoot
  <2>4. SlotAccounting' /\ WorkersBounded'
    BY <1>00, <1>1, <2>2, <2>3
    DEF IInv, TypeOK, SlotAccounting, WorkersBounded, GoFork, ForkOk
  <2>5. OnePlace'
    BY <1>0, <1>1 DEF IInv, TypeOK, OnePlace, GoFork, ForkOk
  <2> QED
    BY <2>1, <2>2, <2>3, <2>4, <2>5 DEF IInv
<1>2. CASE ForkFail /\ caller' = [caller EXCEPT ![t] = "undo"]
  <2>1. TypeOK'
    BY <1>2 DEF IInv, TypeOK, GoFork, ForkFail
  <2>2. IsFiniteSet(Active') /\ Active' = Active
    BY <1>2, SameActive DEF ForkFail
  <2>3. Overshoot' = Overshoot \cup {t} /\ t \notin Overshoot
    BY <1>2 DEF IInv, TypeOK, GoFork, Overshoot
  <2>4. /\ IsFiniteSet(Overshoot')
        /\ Cardinality(Overshoot') = Cardinality(Overshoot) + 1
    BY <2>3, FS_AddElement DEF IInv
  <2>5. SlotAccounting' /\ WorkersBounded'
    BY <1>00, <1>2, <2>2, <2>4
    DEF IInv, TypeOK, SlotAccounting, WorkersBounded, GoFork, ForkFail
  <2>6. OnePlace'
    BY <1>0, <1>2 DEF IInv, TypeOK, OnePlace, GoFork, ForkFail
  <2> QED
    BY <2>1, <2>2, <2>4, <2>5, <2>6 DEF IInv
<1> QED
  BY <1>1, <1>2 DEF GoFork

\* The failed acquire of Go takes its increment back.
LEMMA GoUndoIInv == ASSUME IInv, NEW t \in Tasks, GoUndo(t) PROVE IInv'
<1>1. TypeOK'
  BY DEF IInv, TypeOK, GoUndo
<1>2. IsFiniteSet(Active') /\ Active' = Active
  BY SameActive DEF GoUndo
<1>3. Overshoot' = Overshoot \ {t} /\ t \in Overshoot
  BY DEF IInv, TypeOK, GoUndo, Overshoot
<1>4. /\ IsFiniteSet(Overshoot')
      /\ Cardinality(Overshoot') = Cardinality(Overshoot) - 1
  BY <1>3, FS_RemoveElement DEF IInv
<1>5. Cardinality(Active) \in Nat /\ Cardinality(Overshoot) \in Nat
  BY FS_CardinalityType DEF IInv
<1>6. SlotAccounting' /\ WorkersBounded'
  BY <1>2, <1>4, <1>5
  DEF IInv, TypeOK, SlotAccounting, WorkersBounded, GoUndo
<1>7. OnePlace'
  BY DEF IInv, TypeOK, OnePlace, GoUndo
<1> QED
  BY <1>1, <1>2, <1>4, <1>6, <1>7 DEF IInv

\* Go puts the task at the end of the queue.
LEMMA GoSendIInv == ASSUME IInv, NEW t \in Tasks, GoSend(t) PROVE IInv'
<1>1. TypeOK'
  BY DEF IInv, TypeOK, GoSend
<1>2. IsFiniteSet(Active') /\ Active' = Active
  BY SameActive DEF GoSend
<1>3. Overshoot' = Overshoot
  BY DEF IInv, TypeOK, GoSend, Overshoot
<1>4. SlotAccounting' /\ WorkersBounded'
  BY <1>2, <1>3 DEF IInv, SlotAccounting, WorkersBounded, GoSend
<1>5. worker[t] = "none" /\ t # held /\ \A i \in 1 .. Len(chQqueue) : chQqueue[i] # t
  BY DEF IInv, TypeOK, OnePlace, GoSend
<1>6. /\ Len(chQqueue') = Len(chQqueue) + 1
      /\ \A i \in 1 .. Len(chQqueue) : chQqueue'[i] = chQqueue[i]
      /\ chQqueue'[Len(chQqueue) + 1] = t
      /\ Len(chQqueue) \in Nat
  BY DEF IInv, TypeOK, GoSend
<1>7. OnePlace'
  BY <1>5, <1>6 DEF IInv, TypeOK, OnePlace, GoSend
<1> QED
  BY <1>1, <1>2, <1>3, <1>4, <1>7 DEF IInv

\* Go gives up, with the task unsent or parked in the queue.
LEMMA GoClosedIInv == ASSUME IInv, NEW t \in Tasks, GoClosed(t) PROVE IInv'
<1>1. IsFiniteSet(Active') /\ Active' = Active
  BY SameActive DEF GoClosed
<1>2. Overshoot' = Overshoot
  BY DEF IInv, TypeOK, GoClosed, Overshoot
<1>3. SlotAccounting' /\ WorkersBounded'
  BY <1>1, <1>2 DEF IInv, SlotAccounting, WorkersBounded, GoClosed
<1>4. CASE caller[t] = "send" /\ caller' = [caller EXCEPT ![t] = "out"]
           /\ UNCHANGED chQqueue
  BY <1>1, <1>2, <1>3, <1>4 DEF IInv, TypeOK, OnePlace, GoClosed
<1>5. ASSUME NEW i \in QueueSize + 1 .. Len(chQqueue),
             chQqueue' = RemoveAt(chQqueue, i), UNCHANGED caller
      PROVE  IInv'
  <2>1. i \in 1 .. Len(chQqueue)
    BY DEF IInv, TypeOK
  <2>2. /\ chQqueue' \in Seq(Tasks)
        /\ Len(chQqueue') = Len(chQqueue) - 1
        /\ \A j \in 1 .. Len(chQqueue') :
               LET k == IF j < i THEN j ELSE j + 1
               IN  /\ k \in 1 .. Len(chQqueue)
                   /\ chQqueue'[j] = chQqueue[k]
    BY <1>5, <2>1, DropAt DEF IInv
  <2>3. TypeOK'
    BY <1>5, <2>2 DEF IInv, TypeOK, GoClosed
  <2>4. OnePlace'
    <3>1. \A j, k \in 1 .. Len(chQqueue') : chQqueue'[j] = chQqueue'[k] => j = k
      <4> SUFFICES ASSUME NEW j \in 1 .. Len(chQqueue'),
                          NEW k \in 1 .. Len(chQqueue'),
                          chQqueue'[j] = chQqueue'[k]
                   PROVE  j = k
        OBVIOUS
      <4> DEFINE jj == IF j < i THEN j ELSE j + 1
                 kk == IF k < i THEN k ELSE k + 1
      <4>1. jj \in 1 .. Len(chQqueue) /\ chQqueue'[j] = chQqueue[jj]
        BY <2>2
      <4>2. kk \in 1 .. Len(chQqueue) /\ chQqueue'[k] = chQqueue[kk]
        BY <2>2
      <4>3. jj = kk
        BY <4>1, <4>2 DEF IInv, OnePlace
      <4> QED
        BY <2>1, <4>3
    <3>2. \A j \in 1 .. Len(chQqueue') : /\ caller[chQqueue'[j]] = "out"
                                         /\ worker[chQqueue'[j]] = "none"
                                         /\ chQqueue'[j] # held
      BY <2>2 DEF IInv, OnePlace
    <3> QED
      BY <1>5, <3>1, <3>2 DEF IInv, OnePlace, GoClosed
  <2> QED
    BY <1>1, <1>2, <1>3, <2>3, <2>4 DEF IInv
<1> QED
  BY <1>4, <1>5 DEF GoClosed

\* A task ends and its worker keeps the slot.
LEMMA WorkerRanIInv == ASSUME IInv, NEW t \in Tasks, WorkerRan(t) PROVE IInv'
<1>1. TypeOK'
  BY DEF IInv, TypeOK, WorkerRan
<1>2. t \in Active
  BY DEF WorkerRan, Active
<1>3. IsFiniteSet(Active') /\ Active' = Active
  BY <1>2, StillActive DEF WorkerRan
<1>4. IsFiniteSet(Overshoot') /\ Overshoot' = Overshoot
  BY SameOvershoot DEF WorkerRan
<1>5. SlotAccounting' /\ WorkersBounded'
  BY <1>3, <1>4 DEF IInv, SlotAccounting, WorkersBounded, WorkerRan
<1>6. OnePlace'
  BY DEF IInv, TypeOK, OnePlace, WorkerRan
<1> QED
  BY <1>1, <1>3, <1>4, <1>5, <1>6 DEF IInv

\* A worker hands its slot on to the first queued task, which has no worker.
LEMMA WorkerTakeIInv == ASSUME IInv, NEW t \in Tasks, WorkerTake(t) PROVE IInv'
<1> DEFINE h == Head(chQqueue)
<1>0. /\ h \in Tasks
      /\ h = chQqueue[1]
      /\ chQqueue' \in Seq(Tasks)
      /\ Len(chQqueue') = Len(chQqueue) - 1
      /\ \A i \in 1 .. Len(chQqueue') : /\ i + 1 \in 1 .. Len(chQqueue)
                                        /\ chQqueue'[i] = chQqueue[i + 1]
                                        /\ chQqueue'[i] # h
      /\ \A i, j \in 1 .. Len(chQqueue') : chQqueue'[i] = chQqueue'[j] => i = j
  BY TakeHead DEF IInv, WorkerTake
<1>1. worker[h] = "none" /\ caller[h] = "out" /\ h # held /\ h # t
  BY <1>0 DEF IInv, TypeOK, OnePlace, WorkerTake
<1> HIDE DEF h
<1>2. worker' = [worker EXCEPT ![t] = "end", ![h] = "run"]
  BY DEF WorkerTake, h
<1>3. TypeOK'
  BY <1>0, <1>2 DEF IInv, TypeOK, WorkerTake
<1>4. Active' = (Active \ {t}) \cup {h} /\ t \in Active /\ h \notin Active
  BY <1>0, <1>1, <1>2 DEF IInv, TypeOK, WorkerTake, Active
<1>5. IsFiniteSet(Active \ {t}) /\ Cardinality(Active \ {t}) = Cardinality(Active) - 1
  BY <1>4, FS_RemoveElement DEF IInv
<1>6. /\ IsFiniteSet(Active')
      /\ Cardinality(Active') = Cardinality(Active \ {t}) + 1
  BY <1>4, <1>5, FS_AddElement
<1>7. Cardinality(Active') = Cardinality(Active)
  BY <1>5, <1>6, FS_CardinalityType DEF IInv
<1>8. IsFiniteSet(Overshoot') /\ Overshoot' = Overshoot
  BY SameOvershoot DEF WorkerTake
<1>9. SlotAccounting' /\ WorkersBounded'
  BY <1>7, <1>8 DEF IInv, SlotAccounting, WorkersBounded, WorkerTake
<1>10. OnePlace'
  <2>1. \A i \in 1 .. Len(chQqueue') : /\ caller[chQqueue'[i]] = "out"
                                       /\ worker'[chQqueue'[i]] = "none"
                                       /\ chQqueue'[i] # held
    BY <1>0, <1>2 DEF IInv, TypeOK, OnePlace, WorkerTake
  <2>2. held # NoTask => worker'[held] = "none"
    BY <1>0, <1>1, <1>2 DEF IInv, TypeOK, OnePlace, WorkerTake
  <2>3. \A u \in Tasks : worker'[u] # "none" => caller[u] = "out"
    BY <1>1, <1>2 DEF IInv, TypeOK, OnePlace, WorkerTake
  <2> QED
    BY <1>0, <2>1, <2>2, <2>3 DEF IInv, OnePlace, WorkerTake
<1> QED
  BY <1>3, <1>6, <1>8, <1>9, <1>10 DEF IInv

\* A worker that finds the queue empty is about to release its slot.
LEMMA WorkerLeaveIInv == ASSUME IInv, NEW t \in Tasks, WorkerLeave(t) PROVE IInv'
<1>1. TypeOK'
  BY DEF IInv, TypeOK, WorkerLeave
<1>2. t \in Active
  BY DEF WorkerLeave, Active
<1>3. IsFiniteSet(Active') /\ Active' = Active
  BY <1>2, StillActive DEF WorkerLeave
<1>4. IsFiniteSet(Overshoot') /\ Overshoot' = Overshoot
  BY SameOvershoot DEF WorkerLeave
<1>5. SlotAccounting' /\ WorkersBounded'
  BY <1>3, <1>4 DEF IInv, SlotAccounting, WorkersBounded, WorkerLeave
<1>6. OnePlace'
  BY DEF IInv, TypeOK, OnePlace, WorkerLeave
<1> QED
  BY <1>1, <1>3, <1>4, <1>5, <1>6 DEF IInv

\* release lowers the counter by the slot of one worker.
LEMMA ReleaseSlotIInv == ASSUME IInv, NEW t \in Tasks, ReleaseSlot(t) PROVE IInv'
<1>1. TypeOK'
  BY DEF IInv, TypeOK, ReleaseSlot
<1>2. Active' = Active \ {t} /\ t \in Active
  BY DEF IInv, TypeOK, ReleaseSlot, Active
<1>3. IsFiniteSet(Active') /\ Cardinality(Active') = Cardinality(Active) - 1
  BY <1>2, FS_RemoveElement DEF IInv
<1>4. IsFiniteSet(Overshoot') /\ Overshoot' = Overshoot
  BY SameOvershoot DEF ReleaseSlot
<1>5. Cardinality(Active) \in Nat /\ Cardinality(Overshoot) \in Nat
  BY FS_CardinalityType DEF IInv
<1>6. SlotAccounting' /\ WorkersBounded'
  <2>1. SlotAccounting'
    BY <1>3, <1>4, <1>5 DEF IInv, TypeOK, SlotAccounting, ReleaseSlot
  <2>2. WorkersBounded'
    BY <1>3, <1>5 DEF IInv, WorkersBounded
  <2> QED
    BY <2>1, <2>2
<1>7. OnePlace'
  BY DEF IInv, TypeOK, OnePlace, ReleaseSlot
<1> QED
  BY <1>1, <1>3, <1>4, <1>6, <1>7 DEF IInv

\* The wake-up counts nothing.
LEMMA ReleaseNotifyIInv == ASSUME IInv, NEW t \in Tasks, ReleaseNotify(t) PROVE IInv'
<1>1. TypeOK'
  BY DEF IInv, TypeOK, ReleaseNotify
<1>2. IsFiniteSet(Active') /\ Active' = Active
  BY DEF IInv, TypeOK, ReleaseNotify, Active
<1>3. IsFiniteSet(Overshoot') /\ Overshoot' = Overshoot
  BY SameOvershoot DEF ReleaseNotify
<1>4. SlotAccounting' /\ WorkersBounded'
  BY <1>2, <1>3 DEF IInv, SlotAccounting, WorkersBounded, ReleaseNotify
<1>5. OnePlace'
  BY DEF IInv, TypeOK, OnePlace, ReleaseNotify
<1> QED
  BY <1>1, <1>2, <1>3, <1>4, <1>5 DEF IInv

\* The dispatcher takes the first queued task in its hand.
LEMMA DispatchTakeIInv == ASSUME IInv, DispatchTake PROVE IInv'
<1> DEFINE h == Head(chQqueue)
<1>0. /\ h \in Tasks
      /\ h = chQqueue[1]
      /\ chQqueue' \in Seq(Tasks)
      /\ Len(chQqueue') = Len(chQqueue) - 1
      /\ \A i \in 1 .. Len(chQqueue') : /\ i + 1 \in 1 .. Len(chQqueue)
                                        /\ chQqueue'[i] = chQqueue[i + 1]
                                        /\ chQqueue'[i] # h
      /\ \A i, j \in 1 .. Len(chQqueue') : chQqueue'[i] = chQqueue'[j] => i = j
  BY TakeHead DEF IInv, DispatchTake
<1>1. worker[h] = "none" /\ caller[h] = "out" /\ held' = h
  BY <1>0 DEF IInv, TypeOK, OnePlace, DispatchTake
<1> HIDE DEF h
<1>2. TypeOK'
  BY <1>0, <1>1 DEF IInv, TypeOK, DispatchTake
<1>3. IsFiniteSet(Active') /\ Active' = Active
  BY SameActive DEF DispatchTake
<1>4. IsFiniteSet(Overshoot') /\ Overshoot' = Overshoot
  BY SameOvershoot DEF DispatchTake
<1>5. SlotAccounting' /\ WorkersBounded'
  BY <1>3, <1>4 DEF IInv, SlotAccounting, WorkersBounded, DispatchTake
<1>6. OnePlace'
  BY <1>0, <1>1 DEF IInv, OnePlace, DispatchTake
<1> QED
  BY <1>2, <1>3, <1>4, <1>5, <1>6 DEF IInv

\* The dispatcher's acquire takes a slot for the held task, or overshoots.
LEMMA DispatchForkIInv == ASSUME IInv, DispatchFork PROVE IInv'
<1>0. /\ held \in Tasks /\ worker[held] = "none" /\ caller[held] = "out"
      /\ \A i \in 1 .. Len(chQqueue) : chQqueue[i] # held
  BY DEF IInv, TypeOK, OnePlace, DispatchFork
<1>1. IsFiniteSet(Overshoot') /\ Overshoot' = Overshoot
  BY SameOvershoot DEF DispatchFork
<1>2. Cardinality(Active) \in Nat /\ Cardinality(Overshoot) \in Nat
  BY FS_CardinalityType DEF IInv
<1>3. CASE ForkOk(held) /\ held' = NoTask /\ disp' = "recv"
  <2>1. TypeOK'
    BY <1>0, <1>3 DEF IInv, TypeOK, DispatchFork, ForkOk
  <2>2. /\ IsFiniteSet(Active')
        /\ Cardinality(Active') = Cardinality(Active) + 1
        /\ Cardinality(Active') <= MaxConcurrent
    BY <1>0, <1>3, ForkOkCount
  <2>3. SlotAccounting' /\ WorkersBounded'
    BY <1>1, <1>2, <1>3, <2>2
    DEF IInv, TypeOK, SlotAccounting, WorkersBounded, DispatchFork, ForkOk
  <2>4. OnePlace'
    BY <1>0, <1>3 DEF IInv, TypeOK, OnePlace, DispatchFork, ForkOk
  <2> QED
    BY <1>1, <2>1, <2>2, <2>3, <2>4 DEF IInv
<1>4. CASE ForkFail /\ disp' = "undo" /\ UNCHANGED held
  <2>1. TypeOK'
    BY <1>4 DEF IInv, TypeOK, DispatchFork, ForkFail
  <2>2. IsFiniteSet(Active') /\ Active' = Active
    BY <1>4, SameActive DEF ForkFail
  <2>3. SlotAccounting' /\ WorkersBounded'
    BY <1>1, <1>2, <1>4, <2>2
    DEF IInv, TypeOK, SlotAccounting, WorkersBounded, DispatchFork, ForkFail
  <2>4. OnePlace'
    BY <1>4 DEF IInv, OnePlace, DispatchFork, ForkFail
  <2> QED
    BY <1>1, <2>1, <2>2, <2>3, <2>4 DEF IInv
<1> QED
  BY <1>3, <1>4 DEF DispatchFork

\* The steps of the dispatcher that touch neither queue nor workers, and Stop.
LEMMA OtherIInv ==
  ASSUME IInv, DispatchUndo \/ DispatchWake \/ DispatchClosed \/ StopAdd \/ StopClose
  PROVE  IInv'
<1> USE DEF DispatchUndo, DispatchWake, DispatchClosed, StopAdd, StopClose
<1>1. TypeOK'
  BY DEF IInv, TypeOK
<1>2. IsFiniteSet(Active') /\ Active' = Active
  BY SameActive
<1>3. IsFiniteSet(Overshoot') /\ Overshoot' = Overshoot
  BY SameOvershoot
<1>4. Cardinality(Active) \in Nat /\ Cardinality(Overshoot) \in Nat
  BY FS_CardinalityType DEF IInv
<1>5. SlotAccounting' /\ WorkersBounded'
  BY <1>2, <1>3, <1>4 DEF IInv, TypeOK, SlotAccounting, WorkersBounded
<1>6. OnePlace'
  BY DEF IInv, TypeOK, OnePlace
<1> QED
  BY <1>1, <1>2, <1>3, <1>5, <1>6 DEF IInv

\* A stuttering step changes nothing.
LEMMA StutterIInv == ASSUME IInv, UNCHANGED vars PROVE IInv'
BY DEF vars, IInv, TypeOK, Active, Overshoot, SlotAccounting, WorkersBounded, OnePlace

\* Every step preserves the invariant.
LEMMA NextIInv == IInv /\ [Next]_vars => IInv'
BY GoForkIInv, GoUndoIInv, GoSendIInv, GoClosedIInv, WorkerRanIInv, WorkerTakeIInv,
   WorkerLeaveIInv, ReleaseSlotIInv, ReleaseNotifyIInv, DispatchTakeIInv,
   DispatchForkIInv, OtherIInv, StutterIInv
DEF Next, GoStep, WorkerStep, DispatchStep

\* The invariant holds in every reachable state of the pool.
LEMMA Invariance == Spec => []IInv
BY InitIInv, NextIInv, PTL DEF Spec

-----------------------------------------------------------------------------
\* Every state of taskpool.go's model is well typed: in particular chSlot
\* never holds more than one token.
THEOREM TypeCorrect == Spec => []TypeOK
<1>1. IInv => TypeOK
  BY DEF IInv
<1> QED
  BY <1>1, Invariance, PTL

\* acquire, release and Stop keep tp.concurrent equal to the slots in use, the
\* increments still to be undone and what Stop added, for every interleaving.
THEOREM SlotsExact == Spec => []SlotAccounting
<1>1. IInv => SlotAccounting
  BY DEF IInv
<1> QED
  BY <1>1, Invariance, PTL

\* New's maxConcurrent really bounds the workers of the pool.
THEOREM Bounded == Spec => []WorkersBounded
<1>1. IInv => WorkersBounded
  BY DEF IInv
<1> QED
  BY <1>1, Invariance, PTL

-----------------------------------------------------------------------------
(* Refinement of BoundedExecutor.                                          *)

\* The tasks that run are those whose worker runs.
LEMMA RunningWorkers == Executor!Running = {t \in Tasks : worker[t] = "run"}
BY DEF Executor!Running, status, StatusOf

\* When only task t changes status, the mapped state changes there only.
LEMMA OneChanges ==
  ASSUME NEW t \in Tasks, NEW s,
         \A u \in Tasks \ {t} : StatusOf(u)' = StatusOf(u),
         StatusOf(t)' = s
  PROVE  status' = [status EXCEPT ![t] = s]
BY DEF status

\* When no task changes its place the abstract state stutters.
LEMMA NoneChanges ==
  ASSUME \A u \in Tasks : StatusOf(u)' = StatusOf(u)
  PROVE  status' = status
BY DEF status

\* The instance's Cardinality is the one of this module.
LEMMA SameCardinality == \A S : Executor!Cardinality(S) = Cardinality(S)
BY DEF Executor!Cardinality, Cardinality, Executor!IsFiniteSet, IsFiniteSet

\* A worker starts a task that is not running while a slot is free for it.
LEMMA StartRefines ==
  ASSUME IInv, NEW t \in Tasks, NEW S, Executor!Running \subseteq S,
         IsFiniteSet(S), Cardinality(S) < MaxConcurrent,
         StatusOf(t) \in {"idle", "pending"}, StatusOf(t)' = "running",
         \A u \in Tasks \ {t} : StatusOf(u)' = StatusOf(u),
         stop' = stop
  PROVE  Executor!Start(t)
<1>1. Cardinality(Executor!Running) < MaxConcurrent
  BY FS_Subset, FS_CardinalityType
<1>2. status' = [status EXCEPT ![t] = "running"]
  BY OneChanges
<1>3. status[t] \in {"idle", "pending"}
  BY DEF status
<1> QED
  BY <1>1, <1>2, <1>3, SameCardinality DEF Executor!Start

\* Go starts the task or leaves it pending.
LEMMA GoForkRefines == ASSUME IInv, NEW t \in Tasks, GoFork(t) PROVE Executor!Next
<1>0. worker[t] = "none" /\ t # held /\ StatusOf(t) = "idle"
  BY DEF IInv, TypeOK, OnePlace, GoFork, StatusOf
<1>1. Queued' = Queued
  BY DEF GoFork, Queued
<1>2. CASE ForkOk(t) /\ caller' = [caller EXCEPT ![t] = "out"]
  <2>1. Cardinality(Active) + 1 <= MaxConcurrent /\ IsFiniteSet(Active)
    BY <1>0, <1>2, ForkOkCount DEF IInv
  <2>2. Cardinality(Active) < MaxConcurrent
    BY <2>1, FS_CardinalityType
  <2>3. Executor!Running \subseteq Active
    BY RunningWorkers DEF Active
  <2>4. StatusOf(t)' = "running"
    BY <1>2 DEF IInv, TypeOK, ForkOk, StatusOf
  <2>5. \A u \in Tasks \ {t} : StatusOf(u)' = StatusOf(u)
    BY <1>1, <1>2 DEF IInv, TypeOK, ForkOk, StatusOf, GoFork
  <2>6. Executor!Start(t)
    BY <1>0, <2>1, <2>2, <2>3, <2>4, <2>5, StartRefines DEF GoFork
  <2> QED
    BY <2>6 DEF Executor!Next
<1>3. CASE ForkFail /\ caller' = [caller EXCEPT ![t] = "undo"]
  <2>1. StatusOf(t)' = "pending"
    BY <1>0, <1>3 DEF IInv, TypeOK, ForkFail, StatusOf
  <2>2. \A u \in Tasks \ {t} : StatusOf(u)' = StatusOf(u)
    BY <1>1, <1>3 DEF IInv, TypeOK, ForkFail, StatusOf, GoFork
  <2>3. status' = [status EXCEPT ![t] = "pending"]
    BY <2>1, <2>2, OneChanges
  <2>4. Executor!Submit(t)
    BY <1>0, <2>3 DEF Executor!Submit, status, GoFork
  <2> QED
    BY <2>4 DEF Executor!Next
<1> QED
  BY <1>2, <1>3 DEF GoFork

\* A worker that takes a queued task starts it.
LEMMA WorkerTakeRefines == ASSUME IInv, NEW t \in Tasks, WorkerTake(t) PROVE Executor!Next
<1>h. PICK h \in Tasks : h = Head(chQqueue)
  BY TakeHead DEF IInv, WorkerTake
<1>0. /\ h = chQqueue[1] /\ 1 \in 1 .. Len(chQqueue)
      /\ Len(chQqueue') = Len(chQqueue) - 1 /\ Len(chQqueue) \in Nat
      /\ \A i \in 1 .. Len(chQqueue') : /\ i + 1 \in 1 .. Len(chQqueue)
                                        /\ chQqueue'[i] = chQqueue[i + 1]
  BY <1>h, TakeHead DEF IInv, WorkerTake, TypeOK
<1>1. worker[h] = "none" /\ caller[h] = "out" /\ h # t
  BY <1>0 DEF IInv, TypeOK, OnePlace, WorkerTake
<1>2. worker' = [worker EXCEPT ![t] = "end", ![h] = "run"]
  BY <1>h DEF WorkerTake
<1>3. \A u \in Tasks \ {h} : u \in Queued' <=> u \in Queued
  <2> SUFFICES ASSUME NEW u \in Tasks \ {h} PROVE u \in Queued' <=> u \in Queued
    OBVIOUS
  <2>1. u \in Queued' => u \in Queued
    BY <1>0 DEF Queued
  <2>2. ASSUME u \in Queued PROVE u \in Queued'
    <3>1. PICK k \in 1 .. Len(chQqueue) : chQqueue[k] = u
      BY <2>2 DEF Queued
    <3>2. k # 1 /\ k - 1 \in 1 .. Len(chQqueue')
      BY <1>0, <3>1
    <3>3. chQqueue'[k - 1] = u
      BY <1>0, <3>1, <3>2
    <3> QED
      BY <3>2, <3>3 DEF Queued
  <2> QED
    BY <2>1, <2>2
<1>4. \A u \in Tasks \ {h} : StatusOf(u)' = StatusOf(u)
  BY <1>0, <1>1, <1>2, <1>3 DEF IInv, TypeOK, WorkerTake, StatusOf
<1>5. StatusOf(h) = "pending" /\ StatusOf(h)' = "running"
  BY <1>0, <1>1, <1>2 DEF IInv, TypeOK, WorkerTake, StatusOf, Queued
<1>6. t \in Active
  BY DEF WorkerTake, Active
<1>7. /\ IsFiniteSet(Active \ {t})
      /\ Cardinality(Active \ {t}) = Cardinality(Active) - 1
  BY <1>6, FS_RemoveElement DEF IInv
<1>8. Cardinality(Active \ {t}) < MaxConcurrent
  BY <1>7, FS_CardinalityType DEF IInv, WorkersBounded
<1>9. Executor!Running \subseteq Active \ {t}
  BY RunningWorkers DEF Active, WorkerTake
<1>10. Executor!Start(h)
  BY <1>0, <1>4, <1>5, <1>7, <1>8, <1>9, StartRefines DEF WorkerTake
<1> QED
  BY <1>0, <1>10 DEF Executor!Next

\* The return of a task is its Finish.
LEMMA WorkerRanRefines == ASSUME IInv, NEW t \in Tasks, WorkerRan(t) PROVE Executor!Next
<1>1. StatusOf(t) = "running" /\ StatusOf(t)' = "done"
  BY DEF IInv, TypeOK, WorkerRan, StatusOf
<1>2. \A u \in Tasks \ {t} : StatusOf(u)' = StatusOf(u)
  BY DEF IInv, TypeOK, WorkerRan, StatusOf, Queued
<1>3. status' = [status EXCEPT ![t] = "done"] /\ status[t] = "running"
  BY <1>1, <1>2, OneChanges DEF status
<1>4. Executor!Finish(t)
  BY <1>3 DEF Executor!Finish, WorkerRan
<1> QED
  BY <1>4 DEF Executor!Next

\* Giving up a pending task, which happens only when chClose is closed.
LEMMA DropRefines ==
  ASSUME NEW t \in Tasks, closed, stop' = stop,
         StatusOf(t) = "pending", StatusOf(t)' = "dropped",
         \A u \in Tasks \ {t} : StatusOf(u)' = StatusOf(u)
  PROVE  Executor!Next
<1>1. status' = [status EXCEPT ![t] = "dropped"] /\ status[t] = "pending"
  BY OneChanges DEF status
<1>2. Executor!Drop(t)
  BY <1>1 DEF Executor!Drop, closed
<1> QED
  BY <1>2 DEF Executor!Next

\* Giving up after Stop drops the pending task.
LEMMA GoClosedRefines == ASSUME IInv, NEW t \in Tasks, GoClosed(t) PROVE Executor!Next
<1>0. closed /\ stop' = stop
  BY DEF GoClosed
<1>1. CASE caller[t] = "send" /\ caller' = [caller EXCEPT ![t] = "out"]
           /\ UNCHANGED chQqueue
  <2>1. worker[t] = "none" /\ t # held /\ t \notin Queued /\ Queued' = Queued
    BY <1>1 DEF IInv, TypeOK, OnePlace, Queued
  <2>2. StatusOf(t) = "pending" /\ StatusOf(t)' = "dropped"
    BY <1>1, <2>1 DEF IInv, TypeOK, GoClosed, StatusOf
  <2>3. \A u \in Tasks \ {t} : StatusOf(u)' = StatusOf(u)
    BY <1>1, <2>1 DEF IInv, TypeOK, GoClosed, StatusOf
  <2> QED
    BY <1>0, <2>2, <2>3, DropRefines
<1>2. ASSUME NEW i \in QueueSize + 1 .. Len(chQqueue), chQqueue[i] = t,
             chQqueue' = RemoveAt(chQqueue, i), UNCHANGED caller
      PROVE  Executor!Next
  <2>1. i \in 1 .. Len(chQqueue) /\ Len(chQqueue) \in Nat
    BY DEF IInv, TypeOK
  <2>2. /\ Len(chQqueue') = Len(chQqueue) - 1
        /\ \A j \in 1 .. Len(chQqueue') :
               LET k == IF j < i THEN j ELSE j + 1
               IN  /\ k \in 1 .. Len(chQqueue)
                   /\ chQqueue'[j] = chQqueue[k]
                   /\ chQqueue[k] # chQqueue[i]
    BY <1>2, <2>1, DropAt DEF IInv
  <2>3. \A u \in Tasks : u \in Queued' <=> u \in Queued /\ u # t
    <3> SUFFICES ASSUME NEW u \in Tasks PROVE u \in Queued' <=> u \in Queued /\ u # t
      OBVIOUS
    <3>1. ASSUME u \in Queued' PROVE u \in Queued /\ u # t
      <4>1. PICK j \in 1 .. Len(chQqueue') : chQqueue'[j] = u
        BY <3>1 DEF Queued
      <4>2. PICK k \in 1 .. Len(chQqueue) : chQqueue[k] = u /\ chQqueue[k] # chQqueue[i]
        BY <2>2, <4>1
      <4> QED
        BY <1>2, <4>2 DEF Queued
    <3>2. ASSUME u \in Queued, u # t PROVE u \in Queued'
      <4>1. PICK k \in 1 .. Len(chQqueue) : chQqueue[k] = u
        BY <3>2 DEF Queued
      <4>2. k # i
        BY <1>2, <3>2, <4>1
      <4>3. CASE k < i
        <5>1. k \in 1 .. Len(chQqueue')
          BY <2>1, <2>2, <4>3
        <5>2. chQqueue'[k] = u
          BY <2>1, <2>2, <4>1, <4>3, <5>1
        <5> QED
          BY <5>1, <5>2 DEF Queued
      <4>4. CASE k > i
        <5>1. k - 1 \in 1 .. Len(chQqueue') /\ ~(k - 1 < i) /\ (k - 1) + 1 = k
          BY <2>1, <2>2, <4>4
        <5>2. chQqueue'[k - 1] = u
          BY <2>2, <4>1, <5>1
        <5> QED
          BY <5>1, <5>2 DEF Queued
      <4> QED
        BY <2>1, <4>2, <4>3, <4>4
    <3> QED
      BY <3>1, <3>2
  <2>4. worker[t] = "none" /\ caller[t] = "out" /\ t # held /\ t \in Queued
    BY <1>2, <2>1 DEF IInv, OnePlace, Queued
  <2>5. StatusOf(t) = "pending" /\ StatusOf(t)' = "dropped"
    BY <1>2, <2>3, <2>4 DEF GoClosed, StatusOf
  <2>6. \A u \in Tasks \ {t} : StatusOf(u)' = StatusOf(u)
    BY <1>2, <2>3 DEF GoClosed, StatusOf
  <2> QED
    BY <1>0, <2>5, <2>6, DropRefines
<1> QED
  BY <1>1, <1>2 DEF GoClosed

\* From queue to dispatcher a task stays pending.
LEMMA DispatchTakeRefines == ASSUME IInv, DispatchTake PROVE status' = status
<1>h. PICK h \in Tasks : h = Head(chQqueue)
  BY TakeHead DEF IInv, DispatchTake
<1>0. /\ h = chQqueue[1] /\ 1 \in 1 .. Len(chQqueue)
      /\ Len(chQqueue') = Len(chQqueue) - 1 /\ Len(chQqueue) \in Nat
      /\ \A i \in 1 .. Len(chQqueue') : /\ i + 1 \in 1 .. Len(chQqueue)
                                        /\ chQqueue'[i] = chQqueue[i + 1]
  BY <1>h, TakeHead DEF IInv, DispatchTake, TypeOK
<1>1. held' = h /\ held = NoTask /\ worker[h] = "none" /\ caller[h] = "out"
  BY <1>h, <1>0 DEF IInv, TypeOK, OnePlace, DispatchTake
<1>2. h \in Queued
  BY <1>0 DEF Queued
<1>3. \A u \in Tasks \ {h} : u \in Queued' <=> u \in Queued
  <2> SUFFICES ASSUME NEW u \in Tasks \ {h} PROVE u \in Queued' <=> u \in Queued
    OBVIOUS
  <2>1. u \in Queued' => u \in Queued
    BY <1>0 DEF Queued
  <2>2. ASSUME u \in Queued PROVE u \in Queued'
    <3>1. PICK k \in 1 .. Len(chQqueue) : chQqueue[k] = u
      BY <2>2 DEF Queued
    <3>2. k # 1 /\ k - 1 \in 1 .. Len(chQqueue')
      BY <1>0, <3>1
    <3>3. chQqueue'[k - 1] = u
      BY <1>0, <3>1, <3>2
    <3> QED
      BY <3>2, <3>3 DEF Queued
  <2> QED
    BY <2>1, <2>2
<1>4. \A u \in Tasks : StatusOf(u)' = StatusOf(u)
  BY <1>1, <1>2, <1>3 DEF DispatchTake, StatusOf
<1> QED
  BY <1>4, NoneChanges

\* The dispatcher starts the task in its hand, or keeps it pending.
LEMMA DispatchForkRefines ==
  ASSUME IInv, DispatchFork
  PROVE  Executor!Next \/ status' = status
<1>t. PICK t \in Tasks : t = held /\ worker[t] = "none" /\ caller[t] = "out"
  BY DEF IInv, TypeOK, OnePlace, DispatchFork
<1>0. Queued' = Queued
  BY DEF DispatchFork, Queued
<1>1. CASE ForkOk(held) /\ held' = NoTask /\ disp' = "recv"
  <2>1. Cardinality(Active) + 1 <= MaxConcurrent /\ IsFiniteSet(Active)
    BY <1>t, <1>1, ForkOkCount DEF IInv
  <2>2. Cardinality(Active) < MaxConcurrent
    BY <2>1, FS_CardinalityType
  <2>3. Executor!Running \subseteq Active
    BY RunningWorkers DEF Active
  <2>4. StatusOf(t) = "pending" /\ StatusOf(t)' = "running"
    BY <1>t, <1>1 DEF IInv, TypeOK, ForkOk, StatusOf
  <2>5. \A u \in Tasks \ {t} : StatusOf(u)' = StatusOf(u)
    BY <1>t, <1>0, <1>1 DEF IInv, TypeOK, ForkOk, StatusOf, DispatchFork
  <2>6. Executor!Start(t)
    BY <2>1, <2>2, <2>3, <2>4, <2>5, StartRefines DEF DispatchFork
  <2> QED
    BY <2>6 DEF Executor!Next
<1>2. CASE ForkFail /\ disp' = "undo" /\ UNCHANGED held
  <2>1. \A u \in Tasks : StatusOf(u)' = StatusOf(u)
    BY <1>0, <1>2 DEF DispatchFork, ForkFail, StatusOf
  <2> QED
    BY <2>1, NoneChanges
<1> QED
  BY <1>1, <1>2 DEF DispatchFork

\* The dispatcher that exits drops the task in its hand, after Stop.
LEMMA DispatchClosedRefines ==
  ASSUME IInv, DispatchClosed
  PROVE  Executor!Next \/ status' = status
<1>0. Queued' = Queued /\ closed /\ stop' = stop
  BY DEF DispatchClosed, Queued
<1>1. CASE held = NoTask
  <2>1. \A u \in Tasks : StatusOf(u)' = StatusOf(u)
    BY <1>0, <1>1 DEF DispatchClosed, StatusOf
  <2> QED
    BY <2>1, NoneChanges
<1>2. CASE held # NoTask
  <2>t. PICK t \in Tasks : t = held /\ worker[t] = "none" /\ caller[t] = "out"
    BY <1>2 DEF IInv, TypeOK, OnePlace
  <2>1. t \notin Queued
    BY <2>t DEF IInv, OnePlace, Queued
  <2>2. StatusOf(t) = "pending" /\ StatusOf(t)' = "dropped"
    BY <1>0, <2>t, <2>1 DEF DispatchClosed, StatusOf
  <2>3. \A u \in Tasks \ {t} : StatusOf(u)' = StatusOf(u)
    BY <1>0, <2>t DEF DispatchClosed, StatusOf
  <2> QED
    BY <1>0, <2>2, <2>3, DropRefines
<1> QED
  BY <1>1, <1>2

\* The steps that the users of the pool cannot see: of callers and workers,
LEMMA HiddenTaskRefines ==
  ASSUME IInv, NEW t \in Tasks,
         \/ GoUndo(t) \/ GoSend(t) \/ WorkerLeave(t)
         \/ ReleaseSlot(t) \/ ReleaseNotify(t)
  PROVE  status' = status
<1>1. ASSUME GoSend(t) PROVE \A u \in Tasks : StatusOf(u)' = StatusOf(u)
  <2>1. \A u \in Tasks : u \in Queued' <=> u \in Queued \/ u = t
    <3>1. /\ Len(chQqueue') = Len(chQqueue) + 1
          /\ \A i \in 1 .. Len(chQqueue) : chQqueue'[i] = chQqueue[i]
          /\ chQqueue'[Len(chQqueue) + 1] = t
          /\ Len(chQqueue) \in Nat
      BY <1>1 DEF IInv, TypeOK, GoSend
    <3> QED
      BY <3>1 DEF Queued
  <2> QED
    BY <1>1, <2>1 DEF IInv, TypeOK, GoSend, StatusOf
<1>2. ASSUME ~GoSend(t) PROVE \A u \in Tasks : StatusOf(u)' = StatusOf(u)
  <2>1. Queued' = Queued
    BY <1>2 DEF Queued, GoUndo, WorkerLeave, ReleaseSlot, ReleaseNotify
  <2> QED
    BY <1>2, <2>1 DEF IInv, TypeOK, StatusOf, GoUndo, WorkerLeave, ReleaseSlot,
                      ReleaseNotify
<1> QED
  BY <1>1, <1>2, NoneChanges

\* and of the dispatcher and Stop.
LEMMA HiddenRefines ==
  ASSUME DispatchUndo \/ DispatchWake \/ StopClose \/ StopAdd \/ UNCHANGED vars
  PROVE  status' = status
<1> USE DEF DispatchUndo, DispatchWake, StopClose, StopAdd, vars
<1>1. Queued' = Queued
  BY DEF Queued
<1>2. \A u \in Tasks : StatusOf(u)' = StatusOf(u)
  BY <1>1 DEF StatusOf
<1> QED
  BY <1>2, NoneChanges

\* Initially every task is idle and the executor is not stopped.
LEMMA InitRefines == Init => Executor!Init
<1> SUFFICES ASSUME Init PROVE Executor!Init
  OBVIOUS
<1>1. \A t \in Tasks : StatusOf(t) = "idle"
  BY DEF Init, StatusOf
<1>2. status = [t \in Tasks |-> "idle"]
  BY <1>1 DEF status
<1>3. (stop # "no") = FALSE
  BY DEF Init
<1> QED
  BY <1>2, <1>3 DEF Executor!Init

\* Every step of the pool is a step or a stutter of the bounded executor.
LEMMA StepRefines == IInv /\ [Next]_vars => [Executor!Next]_(Executor!vars)
<1> SUFFICES ASSUME IInv, [Next]_vars PROVE [Executor!Next]_(Executor!vars)
  OBVIOUS
<1>1. CASE StopAdd
  <2>1. status' = status
    BY <1>1, HiddenRefines
  <2>2. Executor!StopCalled
    BY <1>1, <2>1 DEF StopAdd, Executor!StopCalled
  <2> QED
    BY <2>2 DEF Executor!Next
<1>2. CASE ~StopAdd
  <2>1. UNCHANGED (stop # "no")
    BY <1>2 DEF Next, vars, GoStep, WorkerStep, DispatchStep, GoFork, GoUndo,
                GoSend, GoClosed, WorkerRan, WorkerTake, WorkerLeave, ReleaseSlot,
                ReleaseNotify, DispatchTake, DispatchFork, DispatchUndo,
                DispatchWake, DispatchClosed, StopClose
  <2>2. Executor!Next \/ status' = status
    BY <1>2, GoForkRefines, GoClosedRefines, WorkerRanRefines, WorkerTakeRefines,
       HiddenTaskRefines, HiddenRefines, DispatchTakeRefines, DispatchForkRefines,
       DispatchClosedRefines
    DEF Next, GoStep, WorkerStep, DispatchStep
  <2> QED
    BY <2>1, <2>2 DEF Executor!vars
<1> QED
  BY <1>1, <1>2

\* The pool of taskpool.go implements the bounded executor: whatever the
\* callers, the dispatcher and the workers do, a task is executed at most once,
\* never more than MaxConcurrent at a time, and dropped only after Stop.
THEOREM Refinement == Spec => ExecutorSpec
BY InitRefines, StepRefines, Invariance, PTL DEF Spec, ExecutorSpec, Executor!Spec

-----------------------------------------------------------------------------
\* Once Stop has added to the counter no acquire succeeds any more.
LEMMA NoAcquireAfterStop == IInv /\ stop # "no" => ~AcquireOk
<1> SUFFICES ASSUME IInv, stop # "no" PROVE ~AcquireOk
  OBVIOUS
<1>1. Cardinality(Active) \in Nat /\ Cardinality(Overshoot) \in Nat
  BY FS_CardinalityType DEF IInv
<1>2. concurrent >= MaxConcurrent
  BY <1>1 DEF IInv, SlotAccounting
<1> QED
  BY <1>2 DEF IInv, TypeOK, AcquireOk

\* After Stop a step keeps the workers, or loses some: it never adds one.
LEMMA StoppedStep ==
  IInv /\ [Next]_vars => [stop # "no" => Cardinality(Active') <= Cardinality(Active)]_vars
<1> SUFFICES ASSUME IInv, Next, stop # "no"
             PROVE  Cardinality(Active') <= Cardinality(Active)
  BY DEF vars
<1>0. ~AcquireOk /\ Cardinality(Active) \in Nat /\ IsFiniteSet(Active)
  BY NoAcquireAfterStop, FS_CardinalityType DEF IInv
<1>1. ASSUME UNCHANGED worker PROVE Cardinality(Active') <= Cardinality(Active)
  BY <1>0, <1>1, SameActive
<1>2. ASSUME NEW t \in Tasks, WorkerTake(t)
      PROVE  Cardinality(Active') <= Cardinality(Active)
  <2>h. PICK h \in Tasks : h = Head(chQqueue)
    BY <1>2, TakeHead DEF IInv, WorkerTake
  <2>1. Active' \subseteq (Active \ {t}) \cup {h} /\ t \in Active
    BY <1>2, <2>h DEF IInv, TypeOK, WorkerTake, Active
  <2>2. /\ IsFiniteSet(Active \ {t})
        /\ Cardinality(Active \ {t}) = Cardinality(Active) - 1
    BY <1>0, <2>1, FS_RemoveElement
  <2>3. /\ IsFiniteSet((Active \ {t}) \cup {h})
        /\ Cardinality((Active \ {t}) \cup {h}) <= Cardinality(Active)
    BY <1>0, <2>2, FS_AddElement
  <2>4. Cardinality(Active') <= Cardinality((Active \ {t}) \cup {h}) /\ IsFiniteSet(Active')
    BY <2>1, <2>3, FS_Subset
  <2> QED
    BY <1>0, <2>3, <2>4, FS_CardinalityType
<1>3. ASSUME NEW t \in Tasks,
             \/ WorkerRan(t) \/ WorkerLeave(t) \/ ReleaseSlot(t) \/ ReleaseNotify(t)
      PROVE  Cardinality(Active') <= Cardinality(Active)
  <2>1. Active' \subseteq Active
    BY <1>3 DEF IInv, TypeOK, Active, WorkerRan, WorkerLeave, ReleaseSlot, ReleaseNotify
  <2> QED
    BY <1>0, <2>1, FS_Subset
<1>4. ASSUME NEW t \in Tasks, GoFork(t) \/ GoStep(t)
      PROVE  Cardinality(Active') <= Cardinality(Active)
  BY <1>0, <1>1, <1>4
  DEF GoFork, GoStep, GoUndo, GoSend, GoClosed, ForkOk, ForkFail
<1>5. ASSUME DispatchStep \/ StopAdd \/ StopClose
      PROVE  Cardinality(Active') <= Cardinality(Active)
  BY <1>0, <1>1, <1>5
  DEF DispatchStep, DispatchTake, DispatchFork, DispatchUndo, DispatchWake,
      DispatchClosed, StopAdd, StopClose, ForkOk, ForkFail
<1> QED
  BY <1>2, <1>3, <1>4, <1>5 DEF Next, WorkerStep

\* After Stop's addition to tp.concurrent, fork starts no further worker.
THEOREM StopForksNothing == Spec => NoForkAfterStop
BY StoppedStep, Invariance, PTL DEF Spec, NoForkAfterStop
=============================================================================
