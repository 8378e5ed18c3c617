------------------------- MODULE CloseDeliveryProofs -------------------------
(***************************************************************************)
(* First the job list of a Conn, for any set of jobs: a single runner, and *)
(* the refinement of SerialExecutor (in order, one at a time, each once).  *)
(* Then delivery of data and of the close event, for any jobs, functions,  *)
(* packets and reading tasks: the composition implements the job list of   *)
(* ConnExecute and the serial Async queue, the close job comes last, and   *)
(* the data keeps its order.                                               *)
(***************************************************************************)
EXTENDS CloseDelivery, TLAPS, SequenceTheorems

-----------------------------------------------------------------------------
(* The job list by itself.                                                 *)

\* A runner exists only for a job that has been pushed, and a job is pushed
\* by one call: so a new head never meets a runner of its own name.
RunnersPushed == \A h \in Jobs : runner[h] # "none" => call[h] = "pushed"

IInv == TypeOK /\ SingleRunner /\ IndexInList /\ RunnersPushed

USE NoJobAssumption

\* No job has been pushed and no runner exists.
LEMMA InitIInv == Init => IInv
<1> SUFFICES ASSUME Init PROVE IInv
  OBVIOUS
<1>1. TypeOK
  <2>1. jobList \in Seq(Jobs \cup {NoJob})
    BY DEF Init
  <2>2. i \in [Jobs -> Nat] /\ job \in [Jobs -> Jobs \cup {NoJob}]
    BY DEF Init
  <2> QED
    BY <2>1, <2>2 DEF Init, TypeOK
<1>2. \A h \in Jobs : ~InCharge(h)
  BY DEF Init, InCharge
<1>3. SingleRunner
  BY <1>2 DEF Init, SingleRunner
<1>4. IndexInList /\ RunnersPushed
  BY DEF Init, IndexInList, RunnersPushed
<1> QED
  BY <1>1, <1>3, <1>4 DEF IInv

\* Append, for the entries that matter.
LEMMA AppendFacts ==
  ASSUME TypeOK, NEW j \in Jobs, Push(j)
  PROVE  /\ jobList' \in Seq(Jobs \cup {NoJob})
         /\ Len(jobList') = Len(jobList) + 1
         /\ Len(jobList) \in Nat
         /\ \A k \in 1 .. Len(jobList) : jobList'[k] = jobList[k]
         /\ jobList'[Len(jobList) + 1] = j
         /\ jobList' # <<>>
<1>1. jobList' = Append(jobList, j) /\ j \in Jobs \cup {NoJob}
  BY DEF Push
<1>2. jobList \in Seq(Jobs \cup {NoJob})
  BY DEF TypeOK
<1> QED
  BY <1>1, <1>2, AppendProperties

\* Execute and MustExecute: a push on an empty list creates the only runner,
\* one on a longer list leaves it to the runner in charge.
LEMMA PushIInv ==
  ASSUME IInv, NEW j \in Jobs, call[j] = "idle", Push(j),
         UNCHANGED <<closed, i, job, poolStopped>>
  PROVE  IInv'
<1>0. runner[j] = "none"
  BY DEF IInv, TypeOK, RunnersPushed
<1>1. TypeOK'
  BY AppendFacts DEF IInv, TypeOK, Push
<1>2. RunnersPushed'
  BY DEF IInv, TypeOK, RunnersPushed, Push
<1>3. CASE jobList = <<>>
  <2>1. \A h \in Jobs : ~InCharge(h)
    BY <1>3 DEF IInv, SingleRunner
  <2>2. runner' = [runner EXCEPT ![j] = "pending"]
    BY <1>3 DEF Push
  <2>3. \A h \in Jobs : InCharge(h)' <=> h = j
    BY <2>1, <2>2 DEF IInv, TypeOK, InCharge
  <2>4. SingleRunner'
    BY <2>3, AppendFacts DEF IInv, SingleRunner
  <2>5. jobList' = <<j>>
    BY <1>3 DEF Push
  <2>6. IndexInList'
    BY <2>2, <2>3, <2>5 DEF IInv, TypeOK, IndexInList, InCharge
  <2> QED
    BY <1>1, <1>2, <2>4, <2>6 DEF IInv
<1>4. CASE jobList # <<>>
  <2>1. runner' = runner
    BY <1>4 DEF Push
  <2>2. SingleRunner'
    BY <1>4, <2>1, AppendFacts DEF IInv, SingleRunner, InCharge
  <2>3. IndexInList'
    <3> SUFFICES ASSUME NEW h \in Jobs
                 PROVE  /\ runner[h] \in {"pending", "stranded", "dropped"} =>
                             /\ jobList'[1] = h
                             /\ \A k \in 1 .. Len(jobList') : jobList'[k] \in Jobs
                        /\ runner[h] \in {"run", "next"} =>
                             /\ i[h] < Len(jobList')
                             /\ job[h] \in Jobs
                             /\ \A k \in i[h] + 2 .. Len(jobList') : jobList'[k] \in Jobs
      BY <2>1 DEF IndexInList
    <3>1. Len(jobList) >= 1
      BY <1>4 DEF IInv, TypeOK
    <3>2. ASSUME runner[h] \in {"pending", "stranded", "dropped"}
          PROVE  /\ jobList'[1] = h
                 /\ \A k \in 1 .. Len(jobList') : jobList'[k] \in Jobs
      BY <3>1, <3>2, AppendFacts DEF IInv, IndexInList
    <3>3. ASSUME runner[h] \in {"run", "next"}
          PROVE  /\ i[h] < Len(jobList')
                 /\ job[h] \in Jobs
                 /\ \A k \in i[h] + 2 .. Len(jobList') : jobList'[k] \in Jobs
      <4>1. i[h] < Len(jobList) /\ i[h] \in Nat /\ job[h] \in Jobs /\ Len(jobList) \in Nat
        BY <3>3 DEF IInv, TypeOK, IndexInList
      <4>2. \A k \in i[h] + 2 .. Len(jobList) : jobList[k] \in Jobs
        BY <3>3 DEF IInv, IndexInList
      <4>3. /\ Len(jobList') = Len(jobList) + 1 /\ jobList'[Len(jobList) + 1] = j
            /\ \A k \in 1 .. Len(jobList) : jobList'[k] = jobList[k]
        BY AppendFacts DEF IInv
      <4>4. ASSUME NEW k \in i[h] + 2 .. Len(jobList') PROVE jobList'[k] \in Jobs
        <5>1. (k \in i[h] + 2 .. Len(jobList) /\ k \in 1 .. Len(jobList)) \/ k = Len(jobList) + 1
          BY <4>1, <4>3
        <5> QED BY <4>2, <4>3, <5>1
      <4> QED BY <4>1, <4>3, <4>4
    <3> QED
      BY <3>2, <3>3
  <2> QED
    BY <1>1, <1>2, <2>2, <2>3 DEF IInv
<1> QED
  BY <1>3, <1>4

\* The executor starts the runner with index 0, at the head of the list.
LEMMA StartRunnerIInv == ASSUME IInv, NEW h \in Jobs, StartRunner(h) PROVE IInv'
<1>1. TypeOK'
  BY DEF IInv, TypeOK, StartRunner
<1>2. \A k \in Jobs : InCharge(k)' <=> InCharge(k)
  BY DEF IInv, TypeOK, StartRunner, InCharge
<1>3. SingleRunner'
  BY <1>2 DEF IInv, SingleRunner, StartRunner
<1>4. \A k \in Jobs \ {h} : ~InCharge(k)
  BY DEF IInv, SingleRunner, StartRunner, InCharge
<1>5. jobList # <<>> /\ Len(jobList) \in Nat \ {0}
  BY DEF IInv, TypeOK, SingleRunner, StartRunner, InCharge
<1>6. IndexInList'
  BY <1>4, <1>5 DEF IInv, TypeOK, IndexInList, StartRunner, InCharge
<1>7. RunnersPushed'
  BY DEF IInv, TypeOK, RunnersPushed, StartRunner
<1> QED
  BY <1>1, <1>3, <1>6, <1>7 DEF IInv

\* A job ends, or the pool strands or Stop drops a runner: it stays in charge.
LEMMA DropOrDoneIInv ==
  ASSUME IInv, NEW h \in Jobs, StrandRunner(h) \/ DropRunner(h) \/ JobDone(h) PROVE IInv'
<1> USE DEF StrandRunner, DropRunner, JobDone
<1>1. TypeOK'
  BY DEF IInv, TypeOK
<1>2. \A k \in Jobs : InCharge(k)' <=> InCharge(k)
  BY DEF IInv, TypeOK, InCharge
<1>3. SingleRunner'
  BY <1>2 DEF IInv, SingleRunner
<1>4. IndexInList'
  BY DEF IInv, TypeOK, IndexInList
<1>5. RunnersPushed'
  BY DEF IInv, TypeOK, RunnersPushed
<1> QED
  BY <1>1, <1>3, <1>4, <1>5 DEF IInv

\* The runner's critical section: it empties the list and leaves, or takes the
\* entry after its index, which still holds a job.
LEMMA NextJobIInv == ASSUME IInv, NEW h \in Jobs, NextJob(h) PROVE IInv'
<1>0. /\ i[h] \in Nat /\ i[h] < Len(jobList) /\ Len(jobList) \in Nat
      /\ runner[h] = "next"
      /\ \A k \in Jobs \ {h} : ~InCharge(k)
      /\ \A k \in i[h] + 2 .. Len(jobList) : jobList[k] \in Jobs
  BY DEF IInv, TypeOK, SingleRunner, IndexInList, NextJob, InCharge
<1>1. CASE Len(jobList) = i[h] + 1
  <2>1. jobList' = <<>> /\ runner' = [runner EXCEPT ![h] = "end"]
    BY <1>1 DEF NextJob
  <2>2. \A k \in Jobs : ~InCharge(k)'
    BY <1>0, <2>1 DEF IInv, TypeOK, InCharge
  <2>3. TypeOK'
    BY <1>0, <1>1, <2>1 DEF IInv, TypeOK, NextJob
  <2>4. SingleRunner' /\ IndexInList'
    BY <2>1, <2>2 DEF SingleRunner, IndexInList, InCharge
  <2>5. RunnersPushed'
    BY <1>0, <2>1 DEF IInv, TypeOK, RunnersPushed, NextJob
  <2> QED
    BY <2>3, <2>4, <2>5 DEF IInv
<1>2. CASE Len(jobList) # i[h] + 1
  <2>1. /\ jobList' = [jobList EXCEPT ![i[h] + 2] = NoJob]
        /\ runner' = [runner EXCEPT ![h] = "run"]
        /\ job' = [job EXCEPT ![h] = jobList[i[h] + 2]]
        /\ i' = [i EXCEPT ![h] = i[h] + 1]
    BY <1>0, <1>2 DEF NextJob
  <2>2. i[h] + 2 \in 1 .. Len(jobList) /\ jobList[i[h] + 2] \in Jobs
    BY <1>0, <1>2
  <2>3. /\ jobList' \in Seq(Jobs \cup {NoJob})
        /\ Len(jobList') = Len(jobList)
        /\ \A k \in 1 .. Len(jobList) :
             jobList'[k] = IF k = i[h] + 2 THEN NoJob ELSE jobList[k]
    BY <2>1, <2>2, ExceptSeq DEF IInv, TypeOK
  <2>4. TypeOK'
    BY <1>0, <2>1, <2>2, <2>3 DEF IInv, TypeOK, NextJob
  <2>5. \A k \in Jobs : InCharge(k)' <=> InCharge(k)
    BY <1>0, <2>1 DEF IInv, TypeOK, InCharge
  <2>6. jobList' # <<>> /\ jobList # <<>>
    BY <1>0, <2>3
  <2>7. SingleRunner'
    BY <2>5, <2>6 DEF IInv, SingleRunner
  <2>8. IndexInList'
    <3>1. i'[h] < Len(jobList') /\ job'[h] \in Jobs
      BY <1>0, <1>2, <2>1, <2>2, <2>3 DEF IInv, TypeOK
    <3>2. \A k \in i'[h] + 2 .. Len(jobList') : jobList'[k] \in Jobs
      BY <1>0, <2>1, <2>3 DEF IInv, TypeOK
    <3>3. \A k \in Jobs \ {h} : runner'[k] \notin {"pending", "stranded", "dropped", "run", "next"}
      BY <1>0, <2>1 DEF IInv, TypeOK, InCharge
    <3>4. runner'[h] = "run"
      BY <2>1 DEF IInv, TypeOK
    <3> QED
      BY <3>1, <3>2, <3>3, <3>4 DEF IndexInList
  <2>9. RunnersPushed'
    BY <1>0, <2>1 DEF IInv, TypeOK, RunnersPushed, NextJob
  <2> QED
    BY <2>4, <2>7, <2>8, <2>9 DEF IInv
<1> QED
  BY <1>1, <1>2

\* Closing, stopping the pool, and a refused Execute touch no runner.
LEMMA OtherIInv ==
  ASSUME IInv,
         \/ SetClosed \/ StopPool \/ UNCHANGED vars
         \/ \E j \in Jobs : /\ call[j] = "idle"
                            /\ call' = [call EXCEPT ![j] = "refused"]
                            /\ UNCHANGED <<closed, jobList, runner, i, job, poolStopped>>
  PROVE  IInv'
<1>0. UNCHANGED <<jobList, runner, i, job>>
  BY DEF SetClosed, StopPool, vars
<1>1. SingleRunner' /\ IndexInList'
  BY <1>0 DEF IInv, SingleRunner, IndexInList, InCharge
<1>2. TypeOK'
  BY <1>0 DEF SetClosed, StopPool, vars, IInv, TypeOK
<1>3. RunnersPushed'
  BY <1>0 DEF SetClosed, StopPool, vars, IInv, TypeOK, RunnersPushed
<1> QED
  BY <1>1, <1>2, <1>3 DEF IInv

\* Every step preserves the invariant.
LEMMA NextIInv == IInv /\ [Next]_vars => IInv'
<1> SUFFICES ASSUME IInv, [Next]_vars PROVE IInv'
  OBVIOUS
<1>1. ASSUME NEW j \in Jobs, Execute(j) PROVE IInv'
  BY <1>1, PushIInv, OtherIInv DEF Execute
<1>2. ASSUME NEW j \in Jobs, MustExecute(j) PROVE IInv'
  BY <1>2, PushIInv DEF MustExecute
<1> QED
  BY <1>1, <1>2, StartRunnerIInv, DropOrDoneIInv, NextJobIInv, OtherIInv
  DEF Next, RunnerStep

\* The invariant holds in every reachable state of the job list.
LEMMA Invariance == Spec => []IInv
BY InitIInv, NextIInv, PTL DEF Spec

\* conn.go: the state of the job list and its runners is well typed.
THEOREM TypeCorrect == Spec => []TypeOK
<1>1. IInv => TypeOK
  BY DEF IInv
<1> QED
  BY <1>1, Invariance, PTL

\* The guarantee of Conn.Execute's comment, for any number of callers: at most
\* one goroutine runs jobs of a Conn, and a non-empty list always has one.
THEOREM OneRunner == Spec => []SingleRunner
<1>1. IInv => SingleRunner
  BY DEF IInv
<1> QED
  BY <1>1, Invariance, PTL

\* The runner never runs past the list and never meets a cleared entry.
THEOREM IndexSafe == Spec => []IndexInList
<1>1. IInv => IndexInList
  BY DEF IInv
<1> QED
  BY <1>1, Invariance, PTL

-----------------------------------------------------------------------------
(* Refinement of SerialExecutor.                                           *)

\* The part of the list a runner has not taken, after an append ...
LEMMA TailAppend ==
  ASSUME NEW S, NEW s \in Seq(S), NEW t \in 0 .. Len(s), NEW j \in S
  PROVE  SubSeq(Append(s, j), t + 1, Len(s) + 1) = Append(SubSeq(s, t + 1, Len(s)), j)
<1> DEFINE a == Append(s, j)
           l == SubSeq(a, t + 1, Len(s) + 1)
           b == SubSeq(s, t + 1, Len(s))
           r == Append(b, j)
<1>0. Len(s) \in Nat
  OBVIOUS
<1>1. /\ a \in Seq(S) /\ Len(a) = Len(s) + 1
      /\ \A k \in 1 .. Len(s) : a[k] = s[k]
      /\ a[Len(s) + 1] = j
  BY AppendProperties
<1>2. \A k \in t + 1 .. Len(s) + 1 : a[k] \in S
  BY <1>0, <1>1
<1> HIDE DEF a
<1>3. /\ l \in Seq(S)
      /\ Len(l) = Len(s) + 1 - t
      /\ \A k \in 1 .. Len(s) + 1 - t : l[k] = a[t + k]
  BY <1>0, <1>2, SubSeqProperties
<1>4. /\ b \in Seq(S)
      /\ Len(b) = Len(s) - t
      /\ \A k \in 1 .. Len(s) - t : b[k] = s[t + k]
  BY <1>0, SubSeqProperties
<1> HIDE DEF b, l
<1>5. /\ r \in Seq(S)
      /\ Len(r) = Len(b) + 1
      /\ \A k \in 1 .. Len(b) : r[k] = b[k]
      /\ r[Len(b) + 1] = j
  BY <1>4, AppendProperties
<1> HIDE DEF r
<1>6. ASSUME NEW k \in 1 .. Len(l) PROVE l[k] = r[k]
  <2>1. CASE k <= Len(s) - t
    BY <1>0, <1>1, <1>3, <1>4, <1>5, <2>1
  <2>2. CASE k = Len(s) - t + 1
    BY <1>0, <1>1, <1>3, <1>4, <1>5, <2>2
  <2> QED
    BY <1>0, <1>3, <2>1, <2>2
<1>7. l = r
  <2>1. l \in Seq(S) /\ r \in Seq(S) /\ Len(l) = Len(r)
    BY <1>0, <1>3, <1>4, <1>5
  <2> QED BY <1>6, <2>1, SeqEqual
<1> QED
  BY <1>7 DEF l, r, b, a

\* ... when its first element is taken ...
LEMMA TailTake ==
  ASSUME NEW S, NEW s \in Seq(S), NEW t \in 0 .. Len(s) - 1
  PROVE  /\ SubSeq(s, t + 1, Len(s)) # <<>>
         /\ Head(SubSeq(s, t + 1, Len(s))) = s[t + 1]
         /\ Tail(SubSeq(s, t + 1, Len(s))) = SubSeq(s, t + 2, Len(s))
<1>0. /\ Len(s) \in Nat /\ t \in Nat /\ Len(s) - t > 0
      /\ t + 1 \in 1 .. Len(s) /\ Len(s) \in t + 1 .. Len(s)
  OBVIOUS
<1>1. Len(SubSeq(s, t + 1, Len(s))) = Len(s) - t
  BY <1>0, SubSeqProperties
<1>2. Len(SubSeq(s, t + 1, Len(s))) # 0
  <2>1. \A x : x = Len(s) - t => x # 0
    BY <1>0
  <2> QED
    BY <1>1, <2>1
<1>3. SubSeq(s, t + 1, Len(s)) # <<>>
  BY <1>2, EmptySeq
<1>4. /\ Head(SubSeq(s, t + 1, Len(s))) = s[t + 1]
      /\ Tail(SubSeq(s, t + 1, Len(s))) = SubSeq(s, (t + 1) + 1, Len(s))
  BY <1>0, HeadTailOfSubSeq
<1>5. (t + 1) + 1 = t + 2
  OBVIOUS
<1> QED
  BY <1>3, <1>4, <1>5

\* ... and when an entry that was taken before is cleared.
LEMMA TailClear ==
  ASSUME NEW S, NEW s \in Seq(S), NEW t \in 0 .. Len(s), NEW m \in 1 .. t, NEW e \in S
  PROVE  SubSeq([s EXCEPT ![m] = e], t + 1, Len(s)) = SubSeq(s, t + 1, Len(s))
<1> DEFINE a == [s EXCEPT ![m] = e]
           l == SubSeq(a, t + 1, Len(s))
           r == SubSeq(s, t + 1, Len(s))
<1>0. Len(s) \in Nat /\ m \in 1 .. Len(s)
  OBVIOUS
<1>1. \A k \in 1 .. Len(s) : a[k] = IF k = m THEN e ELSE s[k]
  BY <1>0, ExceptSeq
<1>2. \A k \in t + 1 .. Len(s) : a[k] = s[k] /\ s[k] \in S
  BY <1>0, <1>1
<1> HIDE DEF a
<1>3. /\ l \in Seq(S)
      /\ Len(l) = Len(s) - t
      /\ \A k \in 1 .. Len(s) - t : l[k] = a[t + k]
  BY <1>0, <1>2, SubSeqProperties
<1>4. /\ r \in Seq(S)
      /\ Len(r) = Len(s) - t
      /\ \A k \in 1 .. Len(s) - t : r[k] = s[t + k]
  BY <1>0, SubSeqProperties
<1> HIDE DEF l, r
<1>5. ASSUME NEW k \in 1 .. Len(l) PROVE l[k] = r[k]
  <2>1. k \in 1 .. Len(s) - t /\ t + k \in t + 1 .. Len(s)
    BY <1>0, <1>3
  <2>2. l[k] = a[t + k] /\ r[k] = s[t + k] /\ a[t + k] = s[t + k]
    BY <1>2, <1>3, <1>4, <2>1
  <2> QED BY <2>2
<1>6. l = r
  BY <1>3, <1>4, <1>5, SeqEqual
<1> QED
  BY <1>6 DEF l, r, a

\* What Taken and running denote when there is one runner at most.
MapFacts ==
  /\ \A h \in Jobs : runner[h] \in {"run", "next"} => Taken = i[h] + 1
  /\ (\A h \in Jobs : runner[h] \notin {"run", "next"}) => Taken = 0
  /\ \A h \in Jobs : runner[h] = "run" => running = job[h]
  /\ (\A h \in Jobs : runner[h] # "run") => running = NoJob
  /\ Taken \in 0 .. Len(jobList)

\* With a single runner the CHOOSEs of the mapping name that runner.
LEMMA TakenOf == IInv => MapFacts
<1> SUFFICES ASSUME IInv PROVE MapFacts
  OBVIOUS
<1>1. ASSUME NEW h \in Jobs, runner[h] \in {"run", "next"} PROVE Taken = i[h] + 1
  <2>1. (CHOOSE k \in Jobs : runner[k] \in {"run", "next"}) = h
    BY <1>1 DEF IInv, SingleRunner, InCharge
  <2> QED
    BY <1>1, <2>1 DEF Taken
<1>2. (\A h \in Jobs : runner[h] \notin {"run", "next"}) => Taken = 0
  BY DEF Taken
<1>3. ASSUME NEW h \in Jobs, runner[h] = "run" PROVE running = job[h]
  <2>1. (CHOOSE k \in Jobs : runner[k] = "run") = h
    BY <1>3 DEF IInv, SingleRunner, InCharge
  <2> QED
    BY <1>3, <2>1 DEF running
<1>4. (\A h \in Jobs : runner[h] # "run") => running = NoJob
  BY DEF running
<1>5. Taken \in 0 .. Len(jobList)
  BY <1>1, <1>2 DEF IInv, TypeOK, IndexInList
<1> QED
  BY <1>1, <1>2, <1>3, <1>4, <1>5 DEF MapFacts

\* The same after a step.
LEMMA TakenOfNext == IInv' => MapFacts'
  BY TakenOf, PTL

\* A push of the job list is a Push of the serial executor.
LEMMA PushRefines ==
  ASSUME IInv, IInv', NEW j \in Jobs, call[j] = "idle", Push(j),
         UNCHANGED <<closed, i, job, poolStopped>>
  PROVE  Serial!Push(j)
<1>0. runner[j] = "none"
  BY DEF IInv, TypeOK, RunnersPushed
<1>1. \A h \in Jobs : /\ runner'[h] = "run" <=> runner[h] = "run"
                      /\ runner'[h] = "next" <=> runner[h] = "next"
  BY <1>0 DEF IInv, TypeOK, Push
<1>2. Taken' = Taken /\ running' = running
  <2>1. CASE \E h \in Jobs : runner[h] \in {"run", "next"}
    <3>1. PICK h \in Jobs : runner[h] \in {"run", "next"}
      BY <2>1
    <3>2. Taken = i[h] + 1 /\ (Taken = i[h] + 1)'
      BY <1>1, <3>1, TakenOf, TakenOfNext DEF MapFacts
    <3>3. running' = running
      BY <1>1 DEF running
    <3> QED
      BY <3>2, <3>3
  <2>2. CASE ~ \E h \in Jobs : runner[h] \in {"run", "next"}
    BY <1>1, <2>2 DEF Taken, running
  <2> QED
    BY <2>1, <2>2
<1>3. waiting' = Append(waiting, j)
  <2>1. jobList \in Seq(Jobs \cup {NoJob}) /\ Taken \in 0 .. Len(jobList)
    BY TakenOf DEF MapFacts, IInv, TypeOK
  <2>2. jobList' = Append(jobList, j) /\ Len(jobList') = Len(jobList) + 1
    BY AppendFacts DEF IInv, Push
  <2>3. SubSeq(Append(jobList, j), Taken + 1, Len(jobList) + 1)
          = Append(SubSeq(jobList, Taken + 1, Len(jobList)), j)
    <3>1. j \in Jobs \cup {NoJob}
      OBVIOUS
    <3>2. \A S : \A s \in Seq(S) : \A e \in S : \A t \in 0 .. Len(s) :
            SubSeq(Append(s, e), t + 1, Len(s) + 1) = Append(SubSeq(s, t + 1, Len(s)), e)
      BY TailAppend
    <3> QED
      BY <2>1, <3>1, <3>2
  <2> QED
    BY <1>2, <2>2, <2>3 DEF waiting
<1> QED
  BY <1>2, <1>3 DEF Serial!Push

\* The start of a runner is the Start of its head job.
LEMMA StartRunnerRefines ==
  ASSUME IInv, IInv', NEW h \in Jobs, StartRunner(h)
  PROVE  Serial!Start
<1>0. \A k \in Jobs : runner[k] \notin {"run", "next"}
  BY DEF IInv, SingleRunner, StartRunner, InCharge
<1>1. Taken = 0 /\ running = NoJob
  BY <1>0, TakenOf DEF MapFacts
<1>2. runner'[h] = "run" /\ i'[h] = 0 /\ job'[h] = h
  BY DEF IInv, TypeOK, StartRunner
<1>3. (Taken = i[h] + 1)' /\ (running = job[h])'
  BY <1>2, TakenOfNext DEF MapFacts
<1>4. Taken' = 1 /\ running' = h
  BY <1>2, <1>3
<1>5. /\ jobList' = jobList /\ jobList \in Seq(Jobs \cup {NoJob})
      /\ jobList # <<>> /\ 0 \in 0 .. Len(jobList) - 1 /\ jobList[1] = h
  BY DEF IInv, TypeOK, SingleRunner, IndexInList, StartRunner, InCharge
<1>6. /\ SubSeq(jobList, 1, Len(jobList)) # <<>>
      /\ Head(SubSeq(jobList, 1, Len(jobList))) = jobList[1]
      /\ Tail(SubSeq(jobList, 1, Len(jobList))) = SubSeq(jobList, 2, Len(jobList))
  <2>1. 0 + 1 = 1 /\ 0 + 2 = 2
    OBVIOUS
  <2> QED
    BY <1>5, <2>1, TailTake
<1>7. waiting = SubSeq(jobList, 1, Len(jobList)) /\ waiting' = SubSeq(jobList, 2, Len(jobList))
  BY <1>1, <1>4, <1>5 DEF waiting
<1> QED
  BY <1>1, <1>4, <1>5, <1>6, <1>7 DEF Serial!Start

\* The end of a job is a Finish.
LEMMA JobDoneRefines ==
  ASSUME IInv, IInv', NEW h \in Jobs, JobDone(h)
  PROVE  Serial!Finish
<1>0. runner[h] = "run" /\ runner'[h] = "next" /\ i' = i /\ jobList' = jobList /\ job[h] \in Jobs
  BY DEF IInv, TypeOK, IndexInList, JobDone
<1>1. running = job[h] /\ Taken = i[h] + 1 /\ (Taken = i[h] + 1)'
  BY <1>0, TakenOf, TakenOfNext DEF MapFacts
<1>2. \A k \in Jobs : runner'[k] # "run"
  BY <1>0 DEF IInv, TypeOK, SingleRunner, InCharge, JobDone
<1>3. running' = NoJob
  BY <1>2, TakenOfNext DEF MapFacts
<1>4. waiting' = waiting
  BY <1>0, <1>1 DEF waiting
<1> QED
  BY <1>0, <1>1, <1>3, <1>4 DEF Serial!Finish

\* Taking the next entry is a Start; emptying a list that has been worked off
\* is invisible.
LEMMA NextJobRefines ==
  ASSUME IInv, IInv', NEW h \in Jobs, NextJob(h)
  PROVE  Serial!Start \/ UNCHANGED <<waiting, running>>
<1>0. /\ i[h] \in Nat /\ i[h] < Len(jobList) /\ Len(jobList) \in Nat
      /\ jobList \in Seq(Jobs \cup {NoJob})
      /\ runner[h] = "next"
      /\ \A k \in Jobs \ {h} : ~InCharge(k)
  BY DEF IInv, TypeOK, SingleRunner, IndexInList, NextJob, InCharge
<1>1. Taken = i[h] + 1
  BY <1>0, TakenOf DEF MapFacts
<1>2. \A k \in Jobs : runner[k] # "run"
  BY <1>0 DEF InCharge
<1>3. running = NoJob
  BY <1>2, TakenOf DEF MapFacts
<1>4. CASE Len(jobList) = i[h] + 1
  <2>1. jobList' = <<>> /\ runner' = [runner EXCEPT ![h] = "end"]
    BY <1>4 DEF NextJob
  <2>2. \A k \in Jobs : runner'[k] \notin {"run", "next"}
    BY <1>0, <2>1 DEF IInv, TypeOK, InCharge
  <2>3. Taken' = 0 /\ running' = NoJob
    BY <2>2, TakenOfNext DEF MapFacts
  <2>4. waiting = <<>>
    BY <1>0, <1>1, <1>4, SubSeqEmpty DEF waiting
  <2>5. waiting' = <<>>
    BY <2>1, <2>3, SubSeqEmpty, EmptySeq DEF waiting
  <2> QED
    BY <1>3, <2>3, <2>4, <2>5
<1>5. CASE Len(jobList) # i[h] + 1
  <2>1. /\ jobList' = [jobList EXCEPT ![i[h] + 2] = NoJob]
        /\ runner'[h] = "run"
        /\ job'[h] = jobList[i[h] + 2]
        /\ i'[h] = i[h] + 1
    BY <1>0, <1>5 DEF IInv, TypeOK, NextJob
  <2>2. i[h] + 2 \in 1 .. Len(jobList)
    BY <1>0, <1>5
  <2>3. (Taken = i[h] + 1)' /\ (running = job[h])'
    BY <2>1, TakenOfNext DEF MapFacts
  <2>4. Taken' = i[h] + 2 /\ running' = jobList[i[h] + 2]
    BY <1>0, <2>1, <2>3
  <2>5. Len(jobList') = Len(jobList)
    BY <1>0, <2>1, <2>2, ExceptSeq
  <2>6. /\ waiting # <<>>
        /\ Head(waiting) = jobList[i[h] + 2]
        /\ Tail(waiting) = SubSeq(jobList, i[h] + 3, Len(jobList))
    <3>1. i[h] + 1 \in 0 .. Len(jobList) - 1
      BY <1>0, <1>5
    <3>2. (i[h] + 1) + 1 = i[h] + 2 /\ (i[h] + 1) + 2 = i[h] + 3
      BY <1>0
    <3> QED
      BY <1>0, <1>1, <3>1, <3>2, TailTake DEF waiting
  <2>7. waiting' = SubSeq(jobList, i[h] + 3, Len(jobList))
    <3>1. i[h] + 2 \in 0 .. Len(jobList) /\ i[h] + 2 \in 1 .. i[h] + 2
      BY <1>0, <2>2
    <3>2. (i[h] + 2) + 1 = i[h] + 3
      BY <1>0
    <3>3. SubSeq([jobList EXCEPT ![i[h] + 2] = NoJob], i[h] + 3, Len(jobList))
            = SubSeq(jobList, i[h] + 3, Len(jobList))
      <4>1. NoJob \in Jobs \cup {NoJob}
        OBVIOUS
      <4>2. \A S : \A s \in Seq(S) : \A e \in S : \A t \in 0 .. Len(s) : \A m \in 1 .. t :
              SubSeq([s EXCEPT ![m] = e], t + 1, Len(s)) = SubSeq(s, t + 1, Len(s))
        BY TailClear
      <4>3. SubSeq([jobList EXCEPT ![i[h] + 2] = NoJob], (i[h] + 2) + 1, Len(jobList))
              = SubSeq(jobList, (i[h] + 2) + 1, Len(jobList))
        BY <1>0, <3>1, <4>1, <4>2
      <4> QED
        BY <3>2, <4>3
    <3> QED
      BY <2>1, <2>4, <2>5, <3>2, <3>3 DEF waiting
  <2> QED
    BY <1>3, <2>4, <2>6, <2>7 DEF Serial!Start
<1> QED
  BY <1>4, <1>5

\* The steps that change neither the list nor who runs.
LEMMA HiddenRefines ==
  ASSUME IInv,
         \/ SetClosed \/ StopPool \/ UNCHANGED vars
         \/ \E j \in Jobs : StrandRunner(j) \/ DropRunner(j)
         \/ \E j \in Jobs : Execute(j) /\ UNCHANGED <<jobList, runner>>
  PROVE  UNCHANGED <<waiting, running>>
<1>0. UNCHANGED <<jobList, i, job>>
  BY DEF SetClosed, StopPool, vars, StrandRunner, DropRunner, Execute
<1>1. \A h \in Jobs : /\ runner'[h] = "run" <=> runner[h] = "run"
                      /\ runner'[h] = "next" <=> runner[h] = "next"
  BY DEF SetClosed, StopPool, vars, StrandRunner, DropRunner, Execute, IInv, TypeOK
<1>2. \A h \in Jobs : runner'[h] \in {"run", "next"} <=> runner[h] \in {"run", "next"}
  BY <1>1
<1>3. Taken' = Taken
  <2>1. (CHOOSE h \in Jobs : runner'[h] \in {"run", "next"})
           = (CHOOSE h \in Jobs : runner[h] \in {"run", "next"})
    BY <1>2
  <2> QED
    BY <1>0, <1>2, <2>1 DEF Taken
<1>4. running' = running
  <2>1. (CHOOSE h \in Jobs : runner'[h] = "run") = (CHOOSE h \in Jobs : runner[h] = "run")
    BY <1>1
  <2> QED
    BY <1>0, <1>1, <2>1 DEF running
<1> QED
  BY <1>0, <1>3, <1>4 DEF waiting

\* The empty list maps to the executor with nothing to do.
LEMMA InitRefines == Init => Serial!Init
<1> SUFFICES ASSUME Init PROVE Serial!Init
  OBVIOUS
<1>1. Taken = 0 /\ running = NoJob
  BY DEF Init, Taken, running
<1>2. waiting = <<>>
  BY <1>1, SubSeqEmpty, EmptySeq DEF Init, waiting
<1> QED
  BY <1>1, <1>2 DEF Serial!Init

\* Every step of the job list is a step or a stutter of the serial executor.
LEMMA StepRefines == IInv /\ IInv' /\ [Next]_vars => [Serial!Next]_(Serial!vars)
<1> SUFFICES ASSUME IInv, IInv', [Next]_vars
             PROVE  Serial!Next \/ UNCHANGED <<waiting, running>>
  BY DEF Serial!vars
<1>1. ASSUME NEW j \in Jobs, Execute(j)
      PROVE  Serial!Next \/ UNCHANGED <<waiting, running>>
  BY <1>1, PushRefines, HiddenRefines DEF Execute, Serial!Next
<1>2. ASSUME NEW j \in Jobs, MustExecute(j)
      PROVE  Serial!Next
  BY <1>2, PushRefines DEF MustExecute, Serial!Next
<1>3. ASSUME NEW h \in Jobs, RunnerStep(h)
      PROVE  Serial!Next \/ UNCHANGED <<waiting, running>>
  BY <1>3, StartRunnerRefines, JobDoneRefines, NextJobRefines, HiddenRefines
  DEF RunnerStep, Serial!Next
<1>4. ASSUME SetClosed \/ StopPool \/ UNCHANGED vars
      PROVE  UNCHANGED <<waiting, running>>
  BY <1>4, HiddenRefines
<1> QED
  BY <1>1, <1>2, <1>3, <1>4 DEF Next

\* Conn.Execute and MustExecute implement the serial executor for any jobs and
\* any interleaving: jobs start in the order they were pushed, one at a time,
\* and each pushed job once.
THEOREM Refinement == Spec => ConnSerial
<1>1. IInv /\ [Next]_vars => [Serial!Next]_(Serial!vars)
  BY NextIInv, StepRefines
<1> QED
  BY <1>1, InitRefines, Invariance, PTL DEF Spec, ConnSerial, Serial!Spec

-----------------------------------------------------------------------------
(* Timer.Async by itself.                                                  *)

TimerNext == \E h \in Funcs : Async(h) \/ Fetch(h) \/ Returned(h)

\* A goroutine that works on the list.
Busy(h) == loop[h] \in {"fetch", "run"}

\* There is one goroutine while the list is not empty and none otherwise.
OneLoop == /\ \A h, k \in Funcs : Busy(h) /\ Busy(k) => h = k
           /\ asyncList # <<>> <=> \E h \in Funcs : Busy(h)

\* Goroutines are started for functions that were handed over, with index 0,
\* and the index stays inside the list.
LoopIndex == \A h \in Funcs :
  /\ h \notin asked => loop[h] = "none"
  /\ loop[h] = "none" => n[h] = 0
  /\ Busy(h) => n[h] <= Len(asyncList)
  /\ loop[h] = "run" => f[h] \in asked

ListAsked == \A k \in 1 .. Len(asyncList) : asyncList[k] \in asked

TimerInv == TimerTypeOK /\ OneLoop /\ LoopIndex /\ ListAsked

-----------------------------------------------------------------------------
(* The composition.                                                        *)

ReadTypeOK ==
  /\ mode \in {"et", "oneshot"}
  /\ toSend \in Seq(DataJobs) /\ sock \in Seq(DataJobs)
  /\ readEvents \in Int
  /\ poller \in {"wait", "undo"}
  /\ reader \in [Readers -> {"none", "pool", "stranded", "read", "data", "again"}]
  /\ data \in [Readers -> Seq(DataJobs)]
  /\ \A t \in Readers : reader[t] = "data" => Len(data[t]) = 1

\* OnClose is handed over after closed was set, once, and the close job after
\* that.
CloseOrder ==
  /\ closing \in BOOLEAN
  /\ closing => closed /\ OnClose \notin asked
  /\ OnClose \in asked => closed
  /\ call[CloseJob] # "idle" => closed

\* From then on the close job is the last one waiting, or nothing waits and no
\* data job runs.
CloseLast ==
  call[CloseJob] # "idle" =>
    \/ waiting # <<>> /\ waiting[Len(waiting)] = CloseJob
    \/ waiting = <<>> /\ running \in {CloseJob, NoJob}

DInv == ReadTypeOK /\ IInv /\ TimerInv /\ CloseOrder

-----------------------------------------------------------------------------
(* The order of the data.                                                  *)

Reading(t) == reader[t] # "none"

\* As long as no event was taken back too late, readEvents (or, in one-shot
\* mode, the disarmed fd) keeps a second task from being started.
OneReader ==
  ~drifted =>
    /\ \A t, u \in Readers : Reading(t) /\ Reading(u) => t = u
    /\ mode = "et" => readEvents >= 0
    /\ mode = "et" => \A t \in Readers : Reading(t) => readEvents >= 1
    /\ mode = "oneshot" => \A t \in Readers : Reading(t) => ~armed

\* The packet a task has read and not handed over.
InHand == IF \E t \in Readers : reader[t] = "data" THEN 1 ELSE 0

\* How many packets have been handed to Execute.
Handed == Len(Packets) - Len(toSend) - Len(sock) - InHand

\* What has been handed over, what a task holds, what the kernel holds and what
\* is still to be sent are the packets in their order.
StreamSplit ==
  ~drifted =>
    /\ Handed \in Nat
    /\ \A k \in 1 .. Len(Packets) : call[Packets[k]] # "idle" => k <= Handed
    /\ \A k \in 1 .. Handed : call[Packets[k]] # "idle"
    /\ \A t \in Readers : reader[t] = "data" => data[t][1] = Packets[Handed + 1]
    /\ \A k \in 1 .. Len(sock) : sock[k] = Packets[Handed + InHand + k]
    /\ \A k \in 1 .. Len(toSend) : toSend[k] = Packets[Len(Packets) - Len(toSend) + k]

USE NoJobAssumption, NoFuncAssumption

-----------------------------------------------------------------------------
(* Timer.Async: the invariant.                                             *)

LEMMA TimerInitInv == TimerInit => TimerInv
<1> SUFFICES ASSUME TimerInit PROVE TimerInv
  OBVIOUS
<1>1. TimerTypeOK
  BY DEF TimerInit, TimerTypeOK
<1>2. \A h \in Funcs : ~Busy(h)
  BY DEF TimerInit, Busy
<1>3. OneLoop /\ LoopIndex /\ ListAsked
  BY <1>2 DEF TimerInit, OneLoop, LoopIndex, ListAsked
<1> QED
  BY <1>1, <1>3 DEF TimerInv

\* Only the call that finds the list empty starts a goroutine.
LEMMA AsyncInv == ASSUME TimerInv, NEW g \in Funcs, Async(g) PROVE TimerInv'
<1>a. /\ asyncList' \in Seq(Funcs) /\ Len(asyncList) \in Nat
      /\ Len(asyncList') = Len(asyncList) + 1
      /\ \A k \in 1 .. Len(asyncList) : asyncList'[k] = asyncList[k]
      /\ asyncList'[Len(asyncList) + 1] = g
  BY AppendProperties DEF TimerInv, TimerTypeOK, Async
<1>b. asyncList' # <<>>
  BY <1>a
<1>c. loop[g] = "none" /\ n[g] = 0
  BY DEF TimerInv, LoopIndex, Async
<1>1. TimerTypeOK'
  BY <1>a DEF TimerInv, TimerTypeOK, Async
<1>2. ListAsked'
  BY <1>a DEF TimerInv, ListAsked, Async
<1>3. CASE asyncList = <<>>
  <2>1. \A h \in Funcs : ~Busy(h)
    BY <1>3 DEF TimerInv, OneLoop
  <2>2. \A h \in Funcs : Busy(h)' <=> h = g
    BY <1>3, <2>1 DEF TimerInv, TimerTypeOK, Async, Busy
  <2>3. OneLoop'
    BY <1>b, <2>2 DEF OneLoop
  <2>4. LoopIndex'
    BY <1>3, <1>a, <1>c, <2>1 DEF TimerInv, TimerTypeOK, LoopIndex, Async, Busy
  <2> QED
    BY <1>1, <1>2, <2>3, <2>4 DEF TimerInv
<1>4. CASE asyncList # <<>>
  <2>1. \A h \in Funcs : Busy(h)' <=> Busy(h)
    BY <1>4 DEF Async, Busy
  <2>2. OneLoop'
    BY <1>4, <1>b, <2>1 DEF TimerInv, OneLoop
  <2>3. LoopIndex'
    BY <1>4, <1>a, <2>1 DEF TimerInv, TimerTypeOK, LoopIndex, Async
  <2> QED
    BY <1>1, <1>2, <2>2, <2>3 DEF TimerInv
<1> QED
  BY <1>3, <1>4

\* The goroutine leaves with the list empty, or takes the next function.
LEMMA FetchInv == ASSUME TimerInv, NEW h \in Funcs, Fetch(h) PROVE TimerInv'
<1>a. /\ n[h] \in Nat /\ n[h] <= Len(asyncList) /\ Len(asyncList) \in Nat
      /\ asyncList # <<>> /\ loop[h] = "fetch" /\ asked' = asked
      /\ \A k \in Funcs \ {h} : ~Busy(k)
  BY DEF TimerInv, TimerTypeOK, LoopIndex, OneLoop, Fetch, Busy
<1>1. CASE n[h] = Len(asyncList)
  <2>1. asyncList' = <<>> /\ loop' = [loop EXCEPT ![h] = "end"] /\ n' = n /\ f' = f
    BY <1>1 DEF Fetch
  <2>2. TimerTypeOK'
    BY <1>a, <2>1 DEF TimerInv, TimerTypeOK
  <2>3. \A k \in Funcs : ~Busy(k)'
    BY <1>a, <2>1 DEF TimerInv, TimerTypeOK, Busy
  <2>4. OneLoop' /\ ListAsked'
    BY <2>1, <2>3 DEF OneLoop, ListAsked
  <2>5. LoopIndex'
    BY <1>a, <2>1, <2>3 DEF TimerInv, TimerTypeOK, LoopIndex, Busy
  <2> QED
    BY <2>2, <2>4, <2>5 DEF TimerInv
<1>2. CASE n[h] # Len(asyncList)
  <2>1. /\ asyncList' = asyncList /\ loop' = [loop EXCEPT ![h] = "run"]
        /\ f' = [f EXCEPT ![h] = asyncList[n[h] + 1]]
        /\ n' = [n EXCEPT ![h] = n[h] + 1]
    BY <1>2 DEF Fetch
  <2>2. n[h] + 1 \in 1 .. Len(asyncList)
    BY <1>a, <1>2
  <2>3. asyncList[n[h] + 1] \in asked /\ asyncList[n[h] + 1] \in Funcs
    BY <2>2 DEF TimerInv, TimerTypeOK, ListAsked
  <2>4. TimerTypeOK'
    BY <1>a, <2>1, <2>3 DEF TimerInv, TimerTypeOK
  <2>5. \A k \in Funcs : Busy(k)' <=> Busy(k)
    BY <1>a, <2>1 DEF TimerInv, TimerTypeOK, Busy
  <2>6. OneLoop' /\ ListAsked'
    BY <1>a, <2>1, <2>5 DEF TimerInv, OneLoop, ListAsked
  <2>7. LoopIndex'
    BY <1>a, <2>1, <2>2, <2>3 DEF TimerInv, TimerTypeOK, LoopIndex, Busy
  <2> QED
    BY <2>4, <2>6, <2>7 DEF TimerInv
<1> QED
  BY <1>1, <1>2

LEMMA ReturnedInv == ASSUME TimerInv, NEW h \in Funcs, Returned(h) PROVE TimerInv'
<1>1. TimerTypeOK' /\ ListAsked'
  BY DEF TimerInv, TimerTypeOK, ListAsked, Returned
<1>2. \A k \in Funcs : Busy(k)' <=> Busy(k)
  BY DEF TimerInv, TimerTypeOK, Busy, Returned
<1>3. OneLoop'
  BY <1>2 DEF TimerInv, OneLoop, Returned
<1>4. LoopIndex'
  BY DEF TimerInv, TimerTypeOK, LoopIndex, Busy, Returned
<1> QED
  BY <1>1, <1>3, <1>4 DEF TimerInv

LEMMA TimerNextInv == TimerInv /\ [TimerNext]_timerVars => TimerInv'
<1>1. ASSUME TimerInv, UNCHANGED timerVars PROVE TimerInv'
  BY <1>1 DEF timerVars, TimerInv, TimerTypeOK, OneLoop, LoopIndex, ListAsked, Busy
<1> QED
  BY <1>1, AsyncInv, FetchInv, ReturnedInv DEF TimerNext

-----------------------------------------------------------------------------
(* Timer.Async: refinement of SerialExecutor.                              *)

\* What the mapping denotes when there is one goroutine at most.
AsyncMap ==
  /\ \A h \in Funcs : Busy(h) => Fetched = n[h]
  /\ (\A h \in Funcs : ~Busy(h)) => Fetched = 0
  /\ \A h \in Funcs : loop[h] = "run" => executing = f[h]
  /\ (\A h \in Funcs : loop[h] # "run") => executing = NoFunc
  /\ Fetched \in 0 .. Len(asyncList)

LEMMA AsyncMapHolds == TimerInv => AsyncMap
<1> SUFFICES ASSUME TimerInv PROVE AsyncMap
  OBVIOUS
<1>1. ASSUME NEW h \in Funcs, Busy(h) PROVE Fetched = n[h]
  <2>1. (CHOOSE k \in Funcs : loop[k] \in {"fetch", "run"}) = h
    BY <1>1 DEF TimerInv, OneLoop, Busy
  <2> QED
    BY <1>1, <2>1 DEF Fetched, Busy
<1>2. (\A h \in Funcs : ~Busy(h)) => Fetched = 0
  BY DEF Fetched, Busy
<1>3. ASSUME NEW h \in Funcs, loop[h] = "run" PROVE executing = f[h]
  <2>1. (CHOOSE k \in Funcs : loop[k] = "run") = h
    BY <1>3 DEF TimerInv, OneLoop, Busy
  <2> QED
    BY <1>3, <2>1 DEF executing
<1>4. (\A h \in Funcs : loop[h] # "run") => executing = NoFunc
  BY DEF executing
<1>5. Fetched \in 0 .. Len(asyncList)
  BY <1>1, <1>2 DEF TimerInv, TimerTypeOK, LoopIndex
<1> QED
  BY <1>1, <1>2, <1>3, <1>4, <1>5 DEF AsyncMap

LEMMA AsyncMapNext == TimerInv' => AsyncMap'
  BY AsyncMapHolds, PTL

LEMMA AsyncRefines ==
  ASSUME TimerInv, TimerInv', NEW g \in Funcs, Async(g) PROVE AsyncSerialExecutor!Push(g)
<1>1. loop[g] = "none" /\ n' = n /\ f' = f /\ n[g] = 0
  BY DEF TimerInv, LoopIndex, Async
<1>2. \A h \in Funcs : loop'[h] = "run" <=> loop[h] = "run"
  BY <1>1 DEF TimerInv, TimerTypeOK, Async
<1>3. executing' = executing
  BY <1>1, <1>2 DEF executing
<1>4. Fetched' = Fetched
  <2>1. CASE asyncList = <<>>
    <3>1. \A h \in Funcs : ~Busy(h)
      BY <2>1 DEF TimerInv, OneLoop
    <3>2. Fetched = 0
      BY <3>1, AsyncMapHolds DEF AsyncMap
    <3>3. Busy(g)'
      BY <2>1 DEF TimerInv, TimerTypeOK, Async, Busy
    <3>4. Fetched' = n'[g]
      BY <3>3, AsyncMapNext DEF AsyncMap
    <3> QED
      BY <1>1, <3>2, <3>4
  <2>2. CASE asyncList # <<>>
    <3>1. loop' = loop
      BY <2>2 DEF Async
    <3> QED
      BY <1>1, <3>1 DEF Fetched
  <2> QED
    BY <2>1, <2>2
<1>5. notFetched' = Append(notFetched, g)
  <2>1. asyncList \in Seq(Funcs) /\ Fetched \in 0 .. Len(asyncList)
    BY AsyncMapHolds DEF AsyncMap, TimerInv, TimerTypeOK
  <2>2. asyncList' = Append(asyncList, g) /\ Len(asyncList') = Len(asyncList) + 1
    BY <2>1 DEF Async
  <2>3. \A S : \A s \in Seq(S) : \A e \in S : \A t \in 0 .. Len(s) :
          SubSeq(Append(s, e), t + 1, Len(s) + 1) = Append(SubSeq(s, t + 1, Len(s)), e)
    BY TailAppend
  <2>4. SubSeq(Append(asyncList, g), Fetched + 1, Len(asyncList) + 1)
          = Append(SubSeq(asyncList, Fetched + 1, Len(asyncList)), g)
    BY <2>1, <2>3
  <2> QED
    BY <1>4, <2>2, <2>4 DEF notFetched
<1> QED
  BY <1>3, <1>5 DEF AsyncSerialExecutor!Push

LEMMA FetchRefines ==
  ASSUME TimerInv, TimerInv', NEW h \in Funcs, Fetch(h)
  PROVE  AsyncSerialExecutor!Start \/ UNCHANGED <<notFetched, executing>>
<1>a. /\ n[h] \in Nat /\ n[h] <= Len(asyncList) /\ Len(asyncList) \in Nat
      /\ asyncList \in Seq(Funcs)
      /\ loop[h] = "fetch" /\ Busy(h)
      /\ \A k \in Funcs \ {h} : ~Busy(k)
  BY DEF TimerInv, TimerTypeOK, LoopIndex, OneLoop, Fetch, Busy
<1>b. \A k \in Funcs : loop[k] # "run"
  BY <1>a DEF Busy
<1>c. Fetched = n[h] /\ executing = NoFunc
  BY <1>a, <1>b, AsyncMapHolds DEF AsyncMap
<1>1. CASE n[h] = Len(asyncList)
  <2>1. asyncList' = <<>> /\ loop' = [loop EXCEPT ![h] = "end"]
    BY <1>1 DEF Fetch
  <2>2. \A k \in Funcs : ~Busy(k)' /\ loop'[k] # "run"
    BY <1>a, <2>1 DEF TimerInv, TimerTypeOK, Busy
  <2>3. Fetched' = 0 /\ executing' = NoFunc
    BY <2>2, AsyncMapNext DEF AsyncMap
  <2>4. notFetched = <<>>
    BY <1>1, <1>a, <1>c, SubSeqEmpty DEF notFetched
  <2>5. notFetched' = <<>>
    BY <2>1, <2>3, SubSeqEmpty, EmptySeq DEF notFetched
  <2> QED
    BY <1>c, <2>3, <2>4, <2>5
<1>2. CASE n[h] # Len(asyncList)
  <2>1. /\ asyncList' = asyncList /\ loop'[h] = "run"
        /\ f'[h] = asyncList[n[h] + 1] /\ n'[h] = n[h] + 1
    BY <1>2 DEF Fetch, TimerInv, TimerTypeOK
  <2>2. (Fetched = n[h])' /\ (executing = f[h])'
    BY <2>1, AsyncMapNext DEF AsyncMap, Busy
  <2>3. n[h] \in 0 .. Len(asyncList) - 1
    BY <1>a, <1>2
  <2>4. /\ notFetched # <<>>
        /\ Head(notFetched) = asyncList[n[h] + 1]
        /\ Tail(notFetched) = SubSeq(asyncList, n[h] + 2, Len(asyncList))
    BY <1>a, <1>c, <2>3, TailTake DEF notFetched
  <2>5. notFetched' = SubSeq(asyncList, n[h] + 2, Len(asyncList))
    <3>1. (n[h] + 1) + 1 = n[h] + 2
      BY <1>a
    <3> QED
      BY <2>1, <2>2, <3>1 DEF notFetched
  <2> QED
    BY <1>c, <2>1, <2>2, <2>4, <2>5 DEF AsyncSerialExecutor!Start
<1> QED
  BY <1>1, <1>2

LEMMA ReturnedRefines ==
  ASSUME TimerInv, TimerInv', NEW h \in Funcs, Returned(h) PROVE AsyncSerialExecutor!Finish
<1>1. /\ loop[h] = "run" /\ loop'[h] = "fetch" /\ n' = n /\ asyncList' = asyncList
      /\ f[h] \in Funcs
  BY DEF TimerInv, TimerTypeOK, LoopIndex, Returned
<1>2. Busy(h) /\ Busy(h)'
  BY <1>1 DEF Busy
<1>3. executing = f[h] /\ Fetched = n[h] /\ (Fetched = n[h])'
  BY <1>1, <1>2, AsyncMapHolds, AsyncMapNext DEF AsyncMap
<1>4. \A k \in Funcs : loop'[k] # "run"
  BY <1>1 DEF TimerInv, TimerTypeOK, OneLoop, Busy, Returned
<1>5. executing' = NoFunc
  BY <1>4, AsyncMapNext DEF AsyncMap
<1>6. notFetched' = notFetched
  BY <1>1, <1>3 DEF notFetched
<1> QED
  BY <1>1, <1>3, <1>5, <1>6 DEF AsyncSerialExecutor!Finish

LEMMA TimerInitRefines == TimerInit => AsyncSerialExecutor!Init
<1> SUFFICES ASSUME TimerInit PROVE AsyncSerialExecutor!Init
  OBVIOUS
<1>1. Fetched = 0 /\ executing = NoFunc
  BY DEF TimerInit, Fetched, executing
<1>2. notFetched = <<>>
  BY <1>1, SubSeqEmpty, EmptySeq DEF TimerInit, notFetched
<1> QED
  BY <1>1, <1>2 DEF AsyncSerialExecutor!Init

LEMMA TimerStepRefines ==
  TimerInv /\ TimerInv' /\ [TimerNext]_timerVars
    => [AsyncSerialExecutor!Next]_(AsyncSerialExecutor!vars)
<1> SUFFICES ASSUME TimerInv, TimerInv', [TimerNext]_timerVars
             PROVE  AsyncSerialExecutor!Next \/ UNCHANGED <<notFetched, executing>>
  BY DEF AsyncSerialExecutor!vars
<1>1. ASSUME UNCHANGED timerVars PROVE UNCHANGED <<notFetched, executing>>
  BY <1>1 DEF timerVars, notFetched, executing, Fetched
<1>2. ASSUME NEW h \in Funcs, Async(h) \/ Fetch(h) \/ Returned(h)
      PROVE  AsyncSerialExecutor!Next \/ UNCHANGED <<notFetched, executing>>
  BY <1>2, AsyncRefines, FetchRefines, ReturnedRefines DEF AsyncSerialExecutor!Next
<1> QED
  BY <1>1, <1>2 DEF TimerNext

-----------------------------------------------------------------------------
(* Every step of the composition is a step or a stutter of each component. *)

\* What deleteConn and the close of the fd change.
Unpolled == edge' = FALSE /\ UNCHANGED <<mode, toSend, sock, armed, readEvents, poller,
                                         reader, data, drifted>>

ReadNext ==
  \/ Arrive \/ PollRead \/ UndoEvent \/ Unpolled
  \/ \E t \in Readers : \/ StartTask(t) \/ StrandTask(t) \/ ReadData(t) \/ ReadFails(t) \/ HandedOver(t) \/ EventDone(t)
                        \/ ResetPollerEvent(t, closed)

\* All that happens to a task in its pool, and to a runner.
PoolStep(t) == TaskStarts(t) \/ TaskWaits(t)

Runner(h) == RunnerStarts(h) \/ RunnerWaits(h) \/ RunnerGoesOn(h)

LEMMA PoolStepIs ==
  ASSUME NEW t \in Readers, PoolStep(t)
  PROVE  (StartTask(t) \/ StrandTask(t)) /\ UNCHANGED <<vars, timerVars, deliveryVars>>
BY DEF PoolStep, TaskStarts, TaskWaits

LEMMA RunnerIs ==
  ASSUME NEW h \in Jobs, Runner(h)
  PROVE  RunnerStep(h) /\ UNCHANGED <<timerVars, readVars, deliveryVars>>
BY DEF Runner, RunnerStarts, RunnerWaits, RunnerGoesOn, RunnerStep

LEMMA ReadProjection == [DeliveryNext]_allVars => [ReadNext]_readVars
<1>1. ASSUME UNCHANGED allVars PROVE UNCHANGED readVars
  BY <1>1 DEF allVars
<1>2. Kernel \/ Poll \/ PollUndo => ReadNext
  BY DEF Kernel, Poll, PollUndo, ReadNext
<1>3. ASSUME NEW t \in Readers, PoolStep(t) \/ ReaderStep(t) \/ ReadError(t) PROVE ReadNext
  BY <1>3, PoolStepIs DEF ReaderStep, ReadError, OnData, ReadNext
<1>4. /\ Close \/ StopEngine => UNCHANGED readVars
      /\ DeleteConn => ReadNext
  BY DEF Close, DeleteConn, StopEngine, ReadNext, Unpolled
<1>5. ASSUME NEW j \in Jobs, Runner(j) PROVE UNCHANGED readVars
  BY <1>5, RunnerIs
<1>6. ASSUME NEW g \in Others, OtherAsync(g) PROVE UNCHANGED readVars
  BY <1>6 DEF OtherAsync
<1>7. ASSUME NEW h \in Funcs, AsyncStep(h) PROVE UNCHANGED readVars
  BY <1>7 DEF AsyncStep, AsyncFetch, CallHandler, HandlerDone, OtherDone
<1> QED
  BY <1>1, <1>2, <1>3, <1>4, <1>5, <1>6, <1>7 DEF DeliveryNext, PoolStep, Runner

LEMMA TimerProjection == [DeliveryNext]_allVars => [TimerNext]_timerVars
<1>1. ASSUME UNCHANGED allVars PROVE UNCHANGED timerVars
  BY <1>1 DEF allVars
<1>2. Kernel \/ Poll \/ PollUndo \/ Close \/ StopEngine => UNCHANGED timerVars
  BY DEF Kernel, Poll, PollUndo, Close, StopEngine
<1>3. ASSUME NEW t \in Readers, PoolStep(t) \/ ReaderStep(t) \/ ReadError(t)
      PROVE  UNCHANGED timerVars
  BY <1>3, PoolStepIs DEF ReaderStep, ReadError, OnData
<1>4. DeleteConn => TimerNext
  BY CloseAssumption DEF DeleteConn, TimerNext
<1>5. ASSUME NEW j \in Jobs, Runner(j) PROVE UNCHANGED timerVars
  BY <1>5, RunnerIs
<1>6. ASSUME NEW g \in Others, OtherAsync(g) PROVE TimerNext
  BY <1>6 DEF OtherAsync, TimerNext, Others
<1>7. ASSUME NEW h \in Funcs, AsyncStep(h) PROVE TimerNext \/ UNCHANGED timerVars
  BY <1>7 DEF AsyncStep, AsyncFetch, CallHandler, HandlerDone, OtherDone, TimerNext
<1> QED
  BY <1>1, <1>2, <1>3, <1>4, <1>5, <1>6, <1>7 DEF DeliveryNext, PoolStep, Runner

\* What a task hands over is a packet.
LEMMA PacketInHand ==
  ASSUME ReadTypeOK, NEW t \in Readers, reader[t] = "data"
  PROVE  data[t][1] \in DataJobs /\ data[t][1] \in Jobs /\ data[t][1] # CloseJob
<1>1. data[t] \in Seq(DataJobs) /\ Len(data[t]) = 1
  BY DEF ReadTypeOK
<1>2. data[t][1] \in DataJobs
  BY <1>1
<1> QED
  BY <1>2 DEF DataJobs

LEMMA JobProjection == ReadTypeOK /\ [DeliveryNext]_allVars => [Next]_vars
<1> SUFFICES ASSUME ReadTypeOK, [DeliveryNext]_allVars PROVE [Next]_vars
  OBVIOUS
<1>1. ASSUME UNCHANGED allVars PROVE UNCHANGED vars
  BY <1>1 DEF allVars
<1>2. Kernel \/ Poll \/ PollUndo \/ DeleteConn => UNCHANGED vars
  BY DEF Kernel, Poll, PollUndo, DeleteConn
<1>3. ASSUME NEW t \in Readers, ReaderStep(t) PROVE Next \/ UNCHANGED vars
  <2>1. CASE OnData(t)
    <3>1. reader[t] = "data" /\ Execute(data[t][1])
      BY <2>1 DEF OnData, HandedOver
    <3> QED
      BY <3>1, PacketInHand DEF Next
  <2> QED
    BY <1>3, <2>1 DEF ReaderStep
<1>4. ASSUME NEW t \in Readers, ReadError(t) PROVE Next
  BY <1>4 DEF ReadError, Next
<1>5. Close \/ StopEngine => Next
  BY DEF Close, StopEngine, Next
<1>6. ASSUME NEW j \in Jobs, Runner(j) PROVE Next
  BY <1>6, RunnerIs DEF Next
<1>9. ASSUME NEW t \in Readers, PoolStep(t) PROVE UNCHANGED vars
  BY <1>9, PoolStepIs
<1>7. ASSUME NEW g \in Others, OtherAsync(g) PROVE UNCHANGED vars
  BY <1>7 DEF OtherAsync
<1>8. ASSUME NEW h \in Funcs, AsyncStep(h) PROVE Next \/ UNCHANGED vars
  <2>1. CASE CallHandler(h)
    BY <2>1, CloseAssumption DEF CallHandler, Next
  <2> QED
    BY <1>8, <2>1 DEF AsyncStep, AsyncFetch, HandlerDone, OtherDone
<1> QED
  BY <1>1, <1>2, <1>3, <1>4, <1>5, <1>6, <1>7, <1>8, <1>9
  DEF DeliveryNext, PoolStep, Runner

-----------------------------------------------------------------------------
(* Reading: types, and one task at a time.                                 *)

LEMMA ReadInitInv == ReadInit => ReadTypeOK /\ OneReader
<1> SUFFICES ASSUME ReadInit PROVE ReadTypeOK /\ OneReader
  OBVIOUS
<1>1. ReadTypeOK
  BY CloseAssumption, ModesAssumption DEF ReadInit, ReadTypeOK
<1>2. OneReader
  BY DEF ReadInit, OneReader, Reading
<1> QED
  BY <1>1, <1>2

\* The first packet of a sequence, and the others.
LEMMA Packet ==
  ASSUME NEW s \in Seq(DataJobs), s # <<>>
  PROVE  /\ Head(s) \in DataJobs /\ Tail(s) \in Seq(DataJobs)
         /\ Head(s) = s[1]
         /\ Len(s) \in Nat \ {0} /\ Len(Tail(s)) = Len(s) - 1
         /\ \A k \in 1 .. Len(s) - 1 : Tail(s)[k] = s[k + 1]
BY HeadTailProperties

LEMMA ReadTypeNext == ReadTypeOK /\ [ReadNext]_readVars => ReadTypeOK'
<1> SUFFICES ASSUME ReadTypeOK, [ReadNext]_readVars PROVE ReadTypeOK'
  OBVIOUS
<1>1. CASE UNCHANGED readVars \/ Unpolled
  BY <1>1 DEF readVars, Unpolled, ReadTypeOK
<1>0. ASSUME NEW t \in Readers, StartTask(t) \/ StrandTask(t) PROVE ReadTypeOK'
  BY <1>0 DEF StartTask, StrandTask, ReadTypeOK
<1>2. CASE Arrive
  <2>1. toSend' \in Seq(DataJobs) /\ sock' \in Seq(DataJobs)
    <3>1. CASE toSend # <<>> /\ sock' = Append(sock, Head(toSend)) /\ toSend' = Tail(toSend)
      <4>1. Head(toSend) \in DataJobs /\ Tail(toSend) \in Seq(DataJobs)
        BY <3>1, Packet DEF ReadTypeOK
      <4> QED
        BY <3>1, <4>1, AppendProperties DEF ReadTypeOK
    <3> QED
      BY <1>2, <3>1 DEF Arrive, ReadTypeOK
  <2> QED
    BY <1>2, <2>1 DEF Arrive, ReadTypeOK
<1>3. CASE PollRead
  <2>1. IOExecute => /\ reader' \in [Readers -> {"none", "pool", "stranded", "read", "data", "again"}]
                     /\ \A t \in Readers : reader'[t] = "data" => reader[t] = "data"
    BY DEF IOExecute, ReadTypeOK
  <2>2. /\ reader' \in [Readers -> {"none", "pool", "stranded", "read", "data", "again"}]
        /\ \A t \in Readers : reader'[t] = "data" => reader[t] = "data"
    BY <1>3, <2>1 DEF PollRead, ReadTypeOK
  <2>3. readEvents' \in Int /\ poller' \in {"wait", "undo"}
    <3>1. readEvents' \in {readEvents, readEvents + 1} /\ poller' \in {poller, "undo"}
      BY <1>3 DEF PollRead
    <3> QED
      BY <3>1 DEF ReadTypeOK
  <2> QED
    BY <1>3, <2>2, <2>3 DEF PollRead, ReadTypeOK
<1>4. CASE UndoEvent
  BY <1>4 DEF UndoEvent, OneEventLess, ReadTypeOK
<1>5. ASSUME NEW t \in Readers, ReadData(t) PROVE ReadTypeOK'
  <2>1. CASE sock # <<>>
    <3>1. Head(sock) \in DataJobs /\ Tail(sock) \in Seq(DataJobs)
      BY <2>1, Packet DEF ReadTypeOK
    <3>2. <<Head(sock)>> \in Seq(DataJobs) /\ Len(<<Head(sock)>>) = 1
      BY <3>1
    <3>3. /\ data' = [data EXCEPT ![t] = <<Head(sock)>>] /\ sock' = Tail(sock)
          /\ reader' = [reader EXCEPT ![t] = "data"]
      BY <1>5, <2>1 DEF ReadData
    <3>4. \A u \in Readers : reader'[u] = "data" => Len(data'[u]) = 1
      BY <3>2, <3>3 DEF ReadTypeOK
    <3> QED
      BY <1>5, <3>1, <3>2, <3>3, <3>4 DEF ReadData, ReadTypeOK
  <2>2. CASE sock = <<>>
    BY <1>5, <2>2 DEF ReadData, ReadTypeOK
  <2> QED
    BY <2>1, <2>2
<1>6. ASSUME NEW t \in Readers, ReadFails(t) PROVE ReadTypeOK'
  BY <1>6 DEF ReadFails, ReadTypeOK
<1>7. ASSUME NEW t \in Readers, HandedOver(t) PROVE ReadTypeOK'
  <2>1. <<>> \in Seq(DataJobs)
    OBVIOUS
  <2>2. \A u \in Readers : reader'[u] = "data" => Len(data'[u]) = 1
    BY <1>7 DEF HandedOver, ReadTypeOK
  <2> QED
    BY <1>7, <2>1, <2>2 DEF HandedOver, ReadTypeOK
<1>8. ASSUME NEW t \in Readers, EventDone(t) PROVE ReadTypeOK'
  BY <1>8 DEF EventDone, OneEventLess, ReadTypeOK
<1>9. ASSUME NEW t \in Readers, ResetPollerEvent(t, closed) PROVE ReadTypeOK'
  BY <1>9 DEF ResetPollerEvent, ReadTypeOK
<1> QED
  BY <1>0, <1>1, <1>2, <1>3, <1>4, <1>5, <1>6, <1>7, <1>8, <1>9 DEF ReadNext

\* A new task starts only when readEvents was zero, or the fd was armed: then
\* no other is reading.
LEMMA OneReaderNext == ReadTypeOK /\ OneReader /\ [ReadNext]_readVars => OneReader'
<1> SUFFICES ASSUME ReadTypeOK, OneReader, [ReadNext]_readVars, ~drifted' PROVE OneReader'
  BY DEF OneReader
<1>0. ~drifted
  BY DEF ReadNext, Unpolled, StartTask, StrandTask, Arrive, PollRead, UndoEvent, ReadData, ReadFails, HandedOver, EventDone,
         ResetPollerEvent, readVars
<1>1. CASE UNCHANGED readVars \/ Arrive \/ Unpolled
  BY <1>1 DEF readVars, Arrive, Unpolled, OneReader, Reading
<1>2. CASE PollRead
  <2>1. CASE mode = "oneshot"
    <3>1. \A t \in Readers : reader[t] = "none"
      BY <1>0, <1>2, <2>1 DEF PollRead, OneReader, Reading
    <3>2. IOExecute /\ armed' = FALSE /\ mode' = mode
      BY <1>2, <2>1 DEF PollRead
    <3>3. \A t, u \in Readers : reader'[t] # "none" /\ reader'[u] # "none" => t = u
      BY <3>1, <3>2 DEF IOExecute, ReadTypeOK
    <3> QED
      BY <2>1, <3>2, <3>3 DEF OneReader, Reading
  <2>2. CASE mode = "et"
    <3>1. mode' = mode /\ readEvents' = readEvents + 1 /\ readEvents \in Int /\ readEvents >= 0
      BY <1>0, <1>2, <2>2 DEF PollRead, ReadTypeOK, OneReader
    <3>2. CASE readEvents' < 2 /\ IOExecute
      <4>1. \A t \in Readers : reader[t] = "none"
        BY <1>0, <2>2, <3>1, <3>2 DEF OneReader, Reading
      <4>2. \A t, u \in Readers : reader'[t] # "none" /\ reader'[u] # "none" => t = u
        BY <3>2, <4>1 DEF IOExecute, ReadTypeOK
      <4> QED
        BY <2>2, <3>1, <4>2 DEF OneReader, Reading
    <3>3. CASE reader' = reader
      BY <1>0, <2>2, <3>1, <3>3 DEF OneReader, Reading
    <3> QED
      BY <1>2, <2>2, <3>2, <3>3 DEF PollRead
  <2> QED
    BY <2>1, <2>2 DEF ReadTypeOK
<1>3. CASE UndoEvent
  <2>1. readEvents' \in Int /\ readEvents' >= 1
    <3>1. ~(readEvents' < 1)
      BY <1>3, Zenon DEF UndoEvent
    <3>2. readEvents' \in Int
      BY <1>3 DEF UndoEvent, OneEventLess, ReadTypeOK
    <3> QED
      BY <3>1, <3>2
  <2>2. UNCHANGED <<mode, armed, reader>>
    BY <1>3 DEF UndoEvent
  <2> QED
    BY <1>0, <2>1, <2>2 DEF OneReader, Reading
<1>4. ASSUME NEW t \in Readers,
             StartTask(t) \/ StrandTask(t) \/ ReadData(t) \/ ReadFails(t) \/ HandedOver(t)
      PROVE  OneReader'
  <2>1. /\ \A u \in Readers : reader'[u] # "none" => reader[u] # "none"
        /\ UNCHANGED <<mode, readEvents, armed>>
    BY <1>4 DEF StartTask, StrandTask, ReadData, ReadFails, HandedOver, ReadTypeOK
  <2> QED
    BY <1>0, <2>1 DEF OneReader, Reading
<1>5. ASSUME NEW t \in Readers, EventDone(t) PROVE OneReader'
  <2>1. reader[t] # "none" /\ mode = "et" /\ UNCHANGED <<mode, armed>>
    BY <1>5 DEF EventDone
  <2>2. \A u \in Readers \ {t} : reader[u] = "none" /\ reader'[u] = "none"
    BY <1>0, <1>5, <2>1 DEF EventDone, OneReader, Reading, ReadTypeOK
  <2>3. readEvents \in Int /\ readEvents >= 1
    BY <1>0, <2>1 DEF OneReader, Reading, ReadTypeOK
  <2>4. reader'[t] # "none" => readEvents' # 0
    BY <1>5 DEF EventDone, ReadTypeOK
  <2>5. readEvents' = readEvents - 1
    BY <1>5, <2>3, MinEventsAssumption DEF EventDone, OneEventLess
  <2> QED
    BY <2>1, <2>2, <2>3, <2>4, <2>5 DEF OneReader, Reading
<1>6. ASSUME NEW t \in Readers, ResetPollerEvent(t, closed) PROVE OneReader'
  <2>1. \A u \in Readers : reader'[u] = "none"
    BY <1>0, <1>6 DEF ResetPollerEvent, OneReader, Reading, ReadTypeOK
  <2>2. mode' = "oneshot"
    BY <1>6 DEF ResetPollerEvent
  <2> QED
    BY <2>1, <2>2 DEF OneReader, Reading
<1> QED
  BY <1>1, <1>2, <1>3, <1>4, <1>5, <1>6 DEF ReadNext

-----------------------------------------------------------------------------
(* The composition: the close job comes last.                              *)

LEMMA DeliveryInitInv == DeliveryInit => DInv
<1>1. TimerInit => TimerInv
  BY TimerInitInv
<1>2. ReadInit => ReadTypeOK
  BY ReadInitInv
<1>3. Init => IInv
  BY InitIInv
<1>4. ASSUME DeliveryInit PROVE CloseOrder
  <2>1. closing = FALSE /\ asked = {} /\ call[CloseJob] = "idle"
    BY <1>4, CloseAssumption DEF DeliveryInit, Init, TimerInit
  <2> QED BY <2>1 DEF CloseOrder
<1> QED
  BY <1>1, <1>2, <1>3, <1>4 DEF DeliveryInit, DInv

\* Who changes the call of the close job: the OnClose function, after
\* closeWithError.
LEMMA CloseOrderNext == DInv /\ [DeliveryNext]_allVars => CloseOrder'
<1> SUFFICES ASSUME DInv, [DeliveryNext]_allVars PROVE CloseOrder'
  OBVIOUS
<1> USE CloseAssumption DEF vars, timerVars, deliveryVars, CloseOrder
<1>0. TypeOK /\ ReadTypeOK /\ CloseOrder /\ TimerInv
  BY DEF DInv, IInv
<1>1. CASE \/ UNCHANGED allVars \/ Kernel \/ Poll \/ PollUndo \/ StopEngine
           \/ \E j \in Jobs : Runner(j)
           \/ \E t \in Readers : PoolStep(t)
  <2>1. UNCHANGED <<closed, call, asked, closing>>
    BY <1>1, RunnerIs, PoolStepIs
    DEF allVars, Kernel, Poll, PollUndo, StopEngine, StopPool, RunnerStep, StartRunner,
        StrandRunner, DropRunner, JobDone, NextJob
  <2> QED
    BY <1>0, <2>1
<1>2. ASSUME NEW t \in Readers, ReaderStep(t) PROVE CloseOrder'
  <2>1. CASE OnData(t)
    <3>1. reader[t] = "data" /\ Execute(data[t][1]) /\ UNCHANGED <<asked, closing>>
      BY <2>1 DEF OnData, HandedOver
    <3>2. data[t][1] # CloseJob /\ data[t][1] \in Jobs
      BY <1>0, <3>1, PacketInHand
    <3>3. call'[CloseJob] = call[CloseJob] /\ closed' = closed
      BY <1>0, <3>1, <3>2 DEF Execute, Push, TypeOK
    <3> QED
      BY <1>0, <3>1, <3>3
  <2>2. CASE UNCHANGED <<vars, timerVars, deliveryVars>>
    BY <1>0, <2>2
  <2> QED
    BY <1>2, <2>1, <2>2 DEF ReaderStep
<1>3. ASSUME SetClosed, closing' = TRUE, UNCHANGED timerVars PROVE CloseOrder'
  BY <1>0, <1>3 DEF SetClosed
<1>4. ASSUME NEW t \in Readers, ReadError(t) PROVE CloseOrder'
  BY <1>3, <1>4 DEF ReadError
<1>5. CASE Close
  BY <1>3, <1>5 DEF Close
<1>6. CASE DeleteConn
  BY <1>0, <1>6 DEF DeleteConn, Async
<1>7. ASSUME NEW g \in Others, OtherAsync(g) PROVE CloseOrder'
  BY <1>0, <1>7 DEF OtherAsync, Async, Others
<1>8. ASSUME NEW h \in Funcs, AsyncStep(h) PROVE CloseOrder'
  <2>1. CASE CallHandler(h)
    <3>1. OnClose \in asked
      BY <1>0, <2>1 DEF CallHandler, TimerInv, LoopIndex
    <3>2. UNCHANGED <<closed, closing, asked>>
      BY <2>1 DEF CallHandler, MustExecute
    <3> QED
      BY <1>0, <3>1, <3>2
  <2>2. CASE AsyncFetch(h) \/ HandlerDone(h) \/ OtherDone(h)
    <3>1. UNCHANGED <<closed, call, asked, closing>>
      BY <2>2 DEF AsyncFetch, HandlerDone, OtherDone, Fetch, Returned
    <3> QED
      BY <1>0, <3>1
  <2> QED
    BY <1>8, <2>1, <2>2 DEF AsyncStep
<1> QED
  BY <1>1, <1>2, <1>4, <1>5, <1>6, <1>7, <1>8 DEF DeliveryNext, PoolStep, Runner

LEMMA DeliveryNextInv == DInv /\ [DeliveryNext]_allVars => DInv'
<1>1. DInv /\ [DeliveryNext]_allVars => ReadTypeOK'
  BY ReadProjection, ReadTypeNext DEF DInv
<1>2. DInv /\ [DeliveryNext]_allVars => IInv'
  BY JobProjection, NextIInv DEF DInv
<1>3. DInv /\ [DeliveryNext]_allVars => TimerInv'
  BY TimerProjection, TimerNextInv DEF DInv
<1> QED
  BY <1>1, <1>2, <1>3, CloseOrderNext DEF DInv

LEMMA DeliveryInvariance == DeliverySpec => []DInv
BY DeliveryInitInv, DeliveryNextInv, PTL DEF DeliverySpec

\* The sequence of waiting jobs after the abstract executor's steps.
LEMMA LastOfAppend ==
  ASSUME NEW S, NEW s \in Seq(S), NEW e \in S
  PROVE  Append(s, e) # <<>> /\ Append(s, e)[Len(Append(s, e))] = e
<1>1. Append(s, e) \in Seq(S) /\ Len(Append(s, e)) = Len(s) + 1 /\ Append(s, e)[Len(s) + 1] = e
  BY AppendProperties
<1> QED
  BY <1>1

LEMMA LastOfTail ==
  ASSUME NEW S, NEW s \in Seq(S), s # <<>>
  PROVE  \/ Tail(s) # <<>> /\ Tail(s)[Len(Tail(s))] = s[Len(s)]
         \/ Tail(s) = <<>> /\ Head(s) = s[Len(s)]
<1>1. /\ Tail(s) \in Seq(S) /\ Len(s) \in Nat /\ Len(s) >= 1
      /\ Len(Tail(s)) = Len(s) - 1
      /\ \A k \in 1 .. Len(s) - 1 : Tail(s)[k] = s[k + 1]
      /\ Head(s) = s[1]
  BY HeadTailProperties
<1>2. CASE Len(s) = 1
  <2>1. Len(Tail(s)) = 0
    BY <1>1, <1>2
  <2>2. Tail(s) = <<>>
    BY <1>1, <2>1, EmptySeq
  <2> QED
    BY <1>1, <1>2, <2>2
<1>3. CASE Len(s) # 1
  <2>1. Len(s) - 1 \in 1 .. Len(s) - 1 /\ (Len(s) - 1) + 1 = Len(s)
    BY <1>1, <1>3
  <2>2. Tail(s)[Len(s) - 1] = s[Len(s)]
    BY <1>1, <2>1
  <2>3. Tail(s) # <<>>
    BY <1>1, <2>1, EmptySeq
  <2> QED
    BY <1>1, <2>2, <2>3
<1> QED
  BY <1>2, <1>3

LEMMA WaitingSeq == IInv => waiting \in Seq(Jobs \cup {NoJob})
<1> SUFFICES ASSUME IInv PROVE waiting \in Seq(Jobs \cup {NoJob})
  OBVIOUS
<1>1. jobList \in Seq(Jobs \cup {NoJob}) /\ Len(jobList) \in Nat /\ Taken \in 0 .. Len(jobList)
  BY TakenOf DEF MapFacts, IInv, TypeOK
<1>2. \A k \in Taken + 1 .. Len(jobList) : jobList[k] \in Jobs \cup {NoJob}
  BY <1>1
<1> QED
  BY <1>1, <1>2, SubSeqProperties DEF waiting

\* Once the close job is in, Execute refuses, and the executor only works off
\* what waits before it.
LEMMA CloseLastNext == DInv /\ DInv' /\ CloseLast /\ [DeliveryNext]_allVars => CloseLast'
<1> SUFFICES ASSUME DInv, DInv', CloseLast, [DeliveryNext]_allVars PROVE CloseLast'
  OBVIOUS
<1>0. IInv /\ IInv' /\ TypeOK /\ ReadTypeOK /\ CloseOrder /\ CloseJob \in Jobs
  BY CloseAssumption DEF DInv, IInv
<1>1. ASSUME UNCHANGED <<waiting, running>>, call'[CloseJob] = call[CloseJob] PROVE CloseLast'
  BY <1>1 DEF CloseLast
<1>2. ASSUME SetClosed \/ StopPool \/ UNCHANGED vars PROVE CloseLast'
  <2>1. UNCHANGED <<waiting, running>>
    BY <1>0, <1>2, HiddenRefines
  <2>2. call' = call
    BY <1>2 DEF SetClosed, StopPool, vars
  <2> QED
    BY <1>1, <2>1, <2>2
<1>3. CASE \/ UNCHANGED allVars \/ Kernel \/ Poll \/ PollUndo \/ DeleteConn \/ Close
           \/ StopEngine \/ \E t \in Readers : PoolStep(t)
  BY <1>2, <1>3, PoolStepIs DEF allVars, Kernel, Poll, PollUndo, DeleteConn, Close, StopEngine
<1>4. ASSUME NEW t \in Readers, ReaderStep(t) PROVE CloseLast'
  <2>1. CASE OnData(t)
    <3> DEFINE j == data[t][1]
    <3>1. reader[t] = "data" /\ Execute(j)
      BY <2>1 DEF OnData, HandedOver
    <3>2. j # CloseJob /\ j \in Jobs
      BY <1>0, <3>1, PacketInHand
    <3> HIDE DEF j
    <3>3. call'[CloseJob] = call[CloseJob]
      BY <1>0, <3>1, <3>2 DEF Execute, Push, TypeOK
    <3>4. CASE call[CloseJob] = "idle"
      BY <3>3, <3>4 DEF CloseLast
    <3>5. CASE call[CloseJob] # "idle"
      <4>1. closed
        BY <1>0, <3>5 DEF CloseOrder
      <4>2. UNCHANGED <<jobList, runner>>
        BY <3>1, <4>1 DEF Execute
      <4>3. UNCHANGED <<waiting, running>>
        BY <1>0, <3>1, <3>2, <4>2, HiddenRefines
      <4> QED
        BY <1>1, <3>3, <4>3
    <3> QED
      BY <3>4, <3>5
  <2> QED
    BY <1>2, <1>4, <2>1 DEF ReaderStep
<1>5. ASSUME NEW t \in Readers, ReadError(t) PROVE CloseLast'
  BY <1>2, <1>5 DEF ReadError
<1>6. ASSUME NEW h \in Jobs, Runner(h) PROVE CloseLast'
  <2>0. call' = call
    BY <1>6, RunnerIs DEF RunnerStep, StartRunner, StrandRunner, DropRunner, JobDone, NextJob
  <2>1. Serial!Start \/ Serial!Finish \/ UNCHANGED <<waiting, running>>
    BY <1>0, <1>6, RunnerIs, StartRunnerRefines, JobDoneRefines, NextJobRefines, HiddenRefines
    DEF RunnerStep
  <2>2. CASE UNCHANGED <<waiting, running>>
    BY <1>1, <2>0, <2>2
  <2>3. CASE Serial!Finish
    BY <2>0, <2>3 DEF Serial!Finish, CloseLast
  <2>4. CASE Serial!Start
    <3>1. waiting # <<>> /\ waiting' = Tail(waiting) /\ running' = Head(waiting)
      BY <2>4 DEF Serial!Start
    <3>2. \/ waiting' # <<>> /\ waiting'[Len(waiting')] = waiting[Len(waiting)]
          \/ waiting' = <<>> /\ running' = waiting[Len(waiting)]
      BY <1>0, <3>1, WaitingSeq, LastOfTail
    <3> QED
      BY <2>0, <3>1, <3>2 DEF CloseLast
  <2> QED
    BY <2>1, <2>2, <2>3, <2>4
<1>7. ASSUME NEW g \in Others, OtherAsync(g) PROVE CloseLast'
  BY <1>2, <1>7 DEF OtherAsync
<1>8. ASSUME NEW h \in Funcs, AsyncStep(h) PROVE CloseLast'
  <2>1. CASE CallHandler(h)
    <3>1. Serial!Push(CloseJob)
      BY <1>0, <2>1, PushRefines DEF CallHandler, MustExecute
    <3>2. waiting' = Append(waiting, CloseJob)
      BY <3>1 DEF Serial!Push
    <3>3. waiting' # <<>> /\ waiting'[Len(waiting')] = CloseJob
      <4>1. waiting \in Seq(Jobs \cup {NoJob}) /\ CloseJob \in Jobs \cup {NoJob}
        BY <1>0, WaitingSeq
      <4>2. \A S : \A s \in Seq(S) : \A e \in S :
              Append(s, e) # <<>> /\ Append(s, e)[Len(Append(s, e))] = e
        BY LastOfAppend
      <4> QED
        BY <3>2, <4>1, <4>2
    <3> QED
      BY <3>3 DEF CloseLast
  <2> QED
    BY <1>2, <1>8, <2>1 DEF AsyncStep, AsyncFetch, HandlerDone, OtherDone
<1> QED
  BY <1>3, <1>4, <1>5, <1>6, <1>7, <1>8 DEF DeliveryNext, PoolStep, Runner

-----------------------------------------------------------------------------
\* The composition of poller, readers, closers, Async and Stop drives the job
\* list of a Conn only as ConnExecute says: what is proved of it holds here.
THEOREM JobListImplemented == DeliverySpec => Spec
<1>1. DInv /\ [DeliveryNext]_allVars => [Next]_vars
  BY JobProjection DEF DInv
<1>2. DeliveryInit => Init
  BY DEF DeliveryInit
<1> QED
  BY <1>1, <1>2, DeliveryInvariance, PTL DEF DeliverySpec, Spec

\* Conn.Execute's guarantees while data arrives, the Conn is closed by any of
\* its users and the Engine stops.
THEOREM DeliverySafe == DeliverySpec => [](SingleRunner /\ IndexInList) /\ ConnSerial
BY JobListImplemented, OneRunner, IndexSafe, Refinement, PTL

\* Timer.Async executes its functions one at a time, in the order of the calls
\* and each once, however many goroutines call it.
THEOREM AsyncRefinement == DeliverySpec => AsyncSerial
<1>1. TimerInv /\ [TimerNext]_timerVars => [AsyncSerialExecutor!Next]_(AsyncSerialExecutor!vars)
  BY TimerNextInv, TimerStepRefines
<1>2. DInv /\ [DeliveryNext]_allVars => [AsyncSerialExecutor!Next]_(AsyncSerialExecutor!vars)
  BY <1>1, TimerProjection DEF DInv
<1>3. DeliveryInit => AsyncSerialExecutor!Init
  BY TimerInitRefines DEF DeliveryInit
<1> QED
  BY <1>2, <1>3, DeliveryInvariance, PTL DEF DeliverySpec, AsyncSerial, AsyncSerialExecutor!Spec

\* The job of the close event is the last one: when it starts, every data job
\* has ended, and no other follows it.
THEOREM CloseComesLast == DeliverySpec => []CloseJobLast
<1>1. DeliveryInit => CloseLast
  BY CloseAssumption DEF DeliveryInit, Init, CloseLast
<1>2. DInv /\ CloseLast /\ [DeliveryNext]_allVars => CloseLast'
  BY DeliveryNextInv, CloseLastNext
<1>3. DInv /\ CloseLast => CloseJobLast
  <2> SUFFICES ASSUME DInv, CloseLast, call[CloseJob] = "pushed", CloseJob \notin Waiting
               PROVE  running \notin DataJobs /\ Waiting = {}
    BY DEF CloseJobLast
  <2>1. waiting = <<>>
    <3>1. waiting \in Seq(Jobs \cup {NoJob})
      BY WaitingSeq DEF DInv
    <3>2. waiting # <<>> => Len(waiting) \in 1 .. Len(waiting)
      BY <3>1, EmptySeq
    <3> QED
      BY <3>2 DEF CloseLast, Waiting
  <2>2. running \in {CloseJob, NoJob}
    BY <2>1 DEF CloseLast
  <2> QED
    BY <2>1, <2>2 DEF Waiting, DataJobs
<1> QED
  BY <1>1, <1>2, <1>3, DeliveryInvariance, PTL DEF DeliverySpec

-----------------------------------------------------------------------------
(* The order of the data.                                                  *)

LEMMA StreamInit == DeliveryInit => StreamSplit
<1> SUFFICES ASSUME DeliveryInit PROVE StreamSplit
  OBVIOUS
<1>1. toSend = Packets /\ sock = <<>> /\ \A t \in Readers : reader[t] = "none"
  BY DEF DeliveryInit, ReadInit
<1>2. Len(Packets) \in Nat /\ Len(sock) = 0
  BY <1>1, CloseAssumption, EmptySeq
<1>3. InHand = 0
  BY <1>1 DEF InHand
<1>4. Handed = 0
  <2>1. Handed = Len(Packets) - Len(Packets) - 0 - 0
    BY <1>1, <1>2, <1>3 DEF Handed
  <2> QED
    BY <1>2, <2>1
<1>5. \A k \in 1 .. Len(Packets) : call[Packets[k]] = "idle"
  <2>1. \A k \in 1 .. Len(Packets) : Packets[k] \in DataJobs
    BY CloseAssumption
  <2> QED
    BY <2>1 DEF DataJobs, DeliveryInit, Init
<1> QED
  BY <1>1, <1>2, <1>4, <1>5 DEF StreamSplit

\* The stream after a step that leaves its sequences and the calls alone.
LEMMA StreamFrame ==
  ASSUME StreamSplit, UNCHANGED <<toSend, sock, data, call>>, drifted => drifted',
         \A t \in Readers : reader'[t] = "data" <=> reader[t] = "data"
  PROVE  StreamSplit'
<1>1. InHand' = InHand
  BY DEF InHand
<1>2. Handed' = Handed
  BY <1>1 DEF Handed
<1> QED
  BY <1>1, <1>2 DEF StreamSplit

\* A read moves the first packet the kernel holds into the only task.
LEMMA StreamRead ==
  ASSUME ReadTypeOK, OneReader, StreamSplit, NEW t \in Readers, ReadData(t), call' = call,
         ~drifted
  PROVE  StreamSplit'
<1>0. ~drifted /\ drifted' = drifted /\ reader[t] = "read" /\ toSend' = toSend
  BY DEF ReadData
<1>1. CASE sock = <<>>
  <2>1. UNCHANGED <<toSend, sock, data, drifted>>
    BY <1>1 DEF ReadData
  <2>2. \A u \in Readers : reader'[u] = "data" <=> reader[u] = "data"
    BY <1>1 DEF ReadData, ReadTypeOK
  <2> QED
    BY <1>0, <2>1, <2>2, StreamFrame
<1>2. CASE sock # <<>>
  <2>1. /\ data' = [data EXCEPT ![t] = <<Head(sock)>>] /\ sock' = Tail(sock)
        /\ reader' = [reader EXCEPT ![t] = "data"]
    BY <1>2 DEF ReadData
  <2>2. \A u \in Readers : reader[u] # "data"
    BY <1>0 DEF OneReader, Reading
  <2>3. InHand = 0 /\ InHand' = 1
    BY <2>1, <2>2 DEF InHand, ReadTypeOK
  <2>4. /\ Head(sock) = sock[1] /\ Len(sock) \in Nat /\ Len(sock) >= 1
        /\ Len(sock') = Len(sock) - 1
        /\ \A k \in 1 .. Len(sock') : sock'[k] = sock[k + 1]
    BY <1>2, <2>1, Packet DEF ReadTypeOK
  <2>5. Len(Packets) \in Nat /\ Len(toSend) \in Nat
    BY CloseAssumption DEF ReadTypeOK
  <2>6. Handed' = Handed /\ Handed \in Nat
    BY <1>0, <2>3, <2>4, <2>5 DEF Handed, StreamSplit
  <2>7. \A k \in 1 .. Len(sock) : sock[k] = Packets[Handed + k]
    BY <1>0, <2>3, <2>6 DEF StreamSplit
  <2>8. \A u \in Readers : reader'[u] = "data" => data'[u][1] = Packets[Handed + 1]
    BY <2>1, <2>2, <2>4, <2>7 DEF ReadTypeOK
  <2>9. \A k \in 1 .. Len(sock') : sock'[k] = Packets[Handed + 1 + k]
    <3> SUFFICES ASSUME NEW k \in 1 .. Len(sock') PROVE sock'[k] = Packets[Handed + 1 + k]
      OBVIOUS
    <3>1. k + 1 \in 1 .. Len(sock) /\ Handed + (k + 1) = Handed + 1 + k
      BY <2>4, <2>6
    <3> QED
      BY <2>4, <2>7, <3>1
  <2> QED
    BY <1>0, <2>3, <2>6, <2>8, <2>9 DEF StreamSplit
<1> QED
  BY <1>1, <1>2

\* Data arrives in the order it was sent.
LEMMA StreamArrive ==
  ASSUME ReadTypeOK, StreamSplit, Arrive, call' = call PROVE StreamSplit'
<1>0. UNCHANGED <<reader, data, drifted>>
  BY DEF Arrive
<1>1. CASE UNCHANGED <<sock, toSend>>
  BY <1>0, <1>1, StreamFrame DEF StreamSplit
<1>2. CASE toSend # <<>> /\ sock' = Append(sock, Head(toSend)) /\ toSend' = Tail(toSend)
  <2>1. /\ Head(toSend) = toSend[1] /\ Len(toSend) \in Nat /\ Len(toSend) >= 1
        /\ Head(toSend) \in DataJobs
        /\ Len(toSend') = Len(toSend) - 1
        /\ \A k \in 1 .. Len(toSend') : toSend'[k] = toSend[k + 1]
    BY <1>2, Packet DEF ReadTypeOK
  <2>2. /\ Len(sock') = Len(sock) + 1 /\ Len(sock) \in Nat
        /\ \A k \in 1 .. Len(sock) : sock'[k] = sock[k]
        /\ sock'[Len(sock) + 1] = Head(toSend)
    BY <1>2, <2>1, AppendProperties DEF ReadTypeOK
  <2>3. Len(Packets) \in Nat /\ InHand' = InHand /\ InHand \in Nat
    BY <1>0, CloseAssumption DEF InHand
  <2>4. Handed' = Handed
    BY <2>1, <2>2, <2>3 DEF Handed
  <2> SUFFICES ASSUME ~drifted PROVE StreamSplit'
    BY <1>0 DEF StreamSplit
  <2>5. Handed \in Nat /\ Handed + InHand + Len(sock) = Len(Packets) - Len(toSend)
    <3>1. Handed \in Nat
      BY Zenon DEF StreamSplit
    <3>2. Handed + InHand + Len(sock) = Len(Packets) - Len(toSend)
      BY <2>1, <2>2, <2>3 DEF Handed
    <3> QED BY <3>1, <3>2
  <2>6. Head(toSend) = Packets[Handed + InHand + (Len(sock) + 1)]
    <3>1. 1 \in 1 .. Len(toSend)
      BY <2>1
    <3>2. toSend[1] = Packets[Len(Packets) - Len(toSend) + 1]
      BY <3>1 DEF StreamSplit
    <3>3. Len(Packets) - Len(toSend) + 1 = Handed + InHand + (Len(sock) + 1)
      <4>1. \A a, b, c, d \in Int : a + b + c = d => d + 1 = a + b + (c + 1)
        OBVIOUS
      <4>2. Len(Packets) - Len(toSend) \in Int
        BY <2>1, <2>3
      <4> QED
        BY <2>2, <2>3, <2>5, <4>1, <4>2
    <3> QED
      BY <2>1, <3>2, <3>3
  <2>7. \A k \in 1 .. Len(sock') : sock'[k] = Packets[Handed + InHand + k]
    <3> SUFFICES ASSUME NEW k \in 1 .. Len(sock') PROVE sock'[k] = Packets[Handed + InHand + k]
      OBVIOUS
    <3>1. CASE k \in 1 .. Len(sock)
      BY <2>2, <3>1 DEF StreamSplit
    <3>2. CASE k = Len(sock) + 1
      BY <2>2, <2>6, <3>2
    <3> QED
      BY <2>2, <3>1, <3>2
  <2>8. \A k \in 1 .. Len(toSend') : toSend'[k] = Packets[Len(Packets) - Len(toSend') + k]
    <3> SUFFICES ASSUME NEW k \in 1 .. Len(toSend')
                 PROVE  toSend'[k] = Packets[Len(Packets) - Len(toSend') + k]
      OBVIOUS
    <3>1. k + 1 \in 1 .. Len(toSend)
      BY <2>1
    <3>2. toSend[k + 1] = Packets[Len(Packets) - Len(toSend) + (k + 1)]
      BY <3>1 DEF StreamSplit
    <3>3. Len(Packets) - Len(toSend) + (k + 1) = Len(Packets) - Len(toSend') + k
      BY <2>1, <2>3
    <3> QED
      BY <2>1, <3>2, <3>3
  <2> QED
    BY <1>0, <2>3, <2>4, <2>7, <2>8 DEF StreamSplit
<1> QED
  BY <1>1, <1>2 DEF Arrive

\* The task hands over the packet that follows the ones handed over before.
LEMMA StreamData ==
  ASSUME TypeOK, ReadTypeOK, OneReader, StreamSplit, NEW t \in Readers, OnData(t)
  PROVE  StreamSplit'
<1> SUFFICES ASSUME ~drifted' PROVE StreamSplit'
  BY DEF StreamSplit
<1> DEFINE j == data[t][1]
<1>0. /\ ~drifted /\ reader[t] = "data" /\ UNCHANGED <<toSend, sock>>
      /\ reader' = [reader EXCEPT ![t] = "read"]
      /\ Execute(j)
  BY DEF OnData, HandedOver
<1>1. j \in Jobs
  BY <1>0, PacketInHand
<1>2. j = Packets[Handed + 1] /\ Handed \in Nat
  BY <1>0 DEF StreamSplit
<1> HIDE DEF j
<1>3. /\ call'[j] # "idle"
      /\ \A k \in Jobs : k # j => call'[k] = call[k]
  BY <1>0, <1>1 DEF TypeOK, Execute, Push
<1>4. \A u \in Readers : reader'[u] # "data"
  BY <1>0 DEF OneReader, Reading, ReadTypeOK
<1>5. InHand = 1 /\ InHand' = 0
  BY <1>0, <1>4 DEF InHand
<1>6. Len(Packets) \in Nat /\ Len(toSend) \in Nat /\ Len(sock) \in Nat
  BY CloseAssumption DEF ReadTypeOK
<1>7. Handed = Len(Packets) - Len(toSend) - Len(sock) - 1
  BY <1>5 DEF Handed
<1>8. Handed' = Len(Packets) - Len(toSend) - Len(sock) - 0
  BY <1>0, <1>5 DEF Handed
<1>9. Handed' = Handed + 1 /\ Handed' \in Nat /\ Handed + 1 \in 1 .. Len(Packets)
  BY <1>2, <1>6, <1>7, <1>8
<1>10. \A k \in 1 .. Len(Packets) : Packets[k] \in Jobs
  BY CloseAssumption DEF DataJobs
<1>11. \A k \in 1 .. Len(Packets) : call'[Packets[k]] # "idle" => k <= Handed'
  <2> SUFFICES ASSUME NEW k \in 1 .. Len(Packets), call'[Packets[k]] # "idle" PROVE k <= Handed'
    OBVIOUS
  <2>1. CASE Packets[k] = j
    <3>1. DOMAIN Packets = 1 .. Len(Packets)
      BY CloseAssumption
    <3>2. k = Handed + 1
      BY <1>2, <1>9, <2>1, <3>1, CloseAssumption
    <3> QED
      BY <1>9, <3>2
  <2>2. CASE Packets[k] # j
    <3>1. call[Packets[k]] # "idle"
      BY <1>3, <1>10, <2>2
    <3>2. k <= Handed
      BY <1>0, <3>1 DEF StreamSplit
    <3> QED
      BY <1>2, <1>9, <3>2
  <2> QED
    BY <2>1, <2>2
<1>12. \A k \in 1 .. Handed' : call'[Packets[k]] # "idle"
  <2> SUFFICES ASSUME NEW k \in 1 .. Handed' PROVE call'[Packets[k]] # "idle"
    OBVIOUS
  <2>1. k \in 1 .. Len(Packets) /\ (k \in 1 .. Handed \/ k = Handed + 1)
    BY <1>2, <1>6, <1>9
  <2>2. CASE Packets[k] = j
    BY <1>3, <2>2
  <2>3. CASE Packets[k] # j
    <3>1. k \in 1 .. Handed
      BY <1>2, <2>1, <2>3
    <3>2. call[Packets[k]] # "idle"
      BY <1>0, <3>1 DEF StreamSplit
    <3> QED
      BY <1>3, <1>10, <2>1, <2>3, <3>2
  <2> QED
    BY <2>2, <2>3
<1>13. \A k \in 1 .. Len(sock') : sock'[k] = Packets[Handed' + InHand' + k]
  <2> SUFFICES ASSUME NEW k \in 1 .. Len(sock) PROVE sock[k] = Packets[Handed' + InHand' + k]
    BY <1>0
  <2>1. sock[k] = Packets[Handed + InHand + k]
    BY <1>0 DEF StreamSplit
  <2>2. Handed + InHand + k = Handed' + InHand' + k
    BY <1>2, <1>5, <1>9
  <2> QED
    BY <2>1, <2>2
<1>14. \A k \in 1 .. Len(toSend') : toSend'[k] = Packets[Len(Packets) - Len(toSend') + k]
  BY <1>0 DEF StreamSplit
<1> QED
  BY <1>4, <1>9, <1>11, <1>12, <1>13, <1>14 DEF StreamSplit

\* The close job is no packet: handing it over does not touch the stream.
LEMMA StreamClose ==
  ASSUME TypeOK, ReadTypeOK, StreamSplit, UNCHANGED readVars, MustExecute(CloseJob)
  PROVE  StreamSplit'
<1>0. UNCHANGED <<toSend, sock, data, reader, drifted>>
  BY DEF readVars
<1>1. \A k \in 1 .. Len(Packets) : Packets[k] \in Jobs /\ Packets[k] # CloseJob
  BY CloseAssumption DEF DataJobs
<1>2. \A k \in 1 .. Len(Packets) : call'[Packets[k]] = call[Packets[k]]
  BY <1>1 DEF MustExecute, Push, TypeOK
<1>3. InHand' = InHand /\ Handed' = Handed
  BY <1>0 DEF InHand, Handed
<1>4. Len(Packets) \in Nat /\ Len(toSend) \in Nat /\ Len(sock) \in Nat /\ InHand \in Nat
  BY CloseAssumption DEF InHand, ReadTypeOK
<1>5. Handed <= Len(Packets)
  BY <1>4 DEF Handed
<1>6. ~drifted => \A k \in 1 .. Handed : call'[Packets[k]] # "idle"
  <2> SUFFICES ASSUME ~drifted, NEW k \in 1 .. Handed PROVE call'[Packets[k]] # "idle"
    OBVIOUS
  <2>1. k \in 1 .. Len(Packets) /\ call[Packets[k]] # "idle"
    BY <1>4, <1>5 DEF StreamSplit
  <2> QED
    BY <1>2, <2>1
<1> QED
  BY <1>0, <1>2, <1>3, <1>6 DEF StreamSplit

LEMMA StreamNext ==
  DInv /\ OneReader /\ StreamSplit /\ [DeliveryNext]_allVars => StreamSplit'
<1> SUFFICES ASSUME DInv, OneReader, StreamSplit, [DeliveryNext]_allVars PROVE StreamSplit'
  OBVIOUS
<1>0. TypeOK /\ ReadTypeOK
  BY DEF DInv, IInv
<1>1. ASSUME UNCHANGED <<toSend, sock, data, reader, drifted>>, call' = call PROVE StreamSplit'
  BY <1>1, StreamFrame
<1>2. CASE \/ UNCHANGED allVars \/ DeleteConn \/ Close \/ StopEngine
           \/ \E j \in Jobs : Runner(j)
           \/ \E g \in Others : OtherAsync(g)
  <2>1. UNCHANGED <<toSend, sock, data, reader, drifted>> /\ call' = call
    BY <1>2, RunnerIs
    DEF allVars, vars, readVars, DeleteConn, Close, SetClosed, StopEngine, StopPool, OtherAsync,
        RunnerStep, StartRunner, StrandRunner, DropRunner, JobDone, NextJob
  <2> QED
    BY <1>1, <2>1
<1>3. CASE Kernel
  BY <1>0, <1>3, StreamArrive DEF Kernel, vars
<1>4. CASE Poll
  <2>1. UNCHANGED <<toSend, sock, data, drifted, call>>
    BY <1>4 DEF Poll, PollRead, vars
  <2>2. IOExecute => \A t \in Readers : reader'[t] = "data" <=> reader[t] = "data"
    BY <1>0 DEF IOExecute, ReadTypeOK
  <2>3. \A t \in Readers : reader'[t] = "data" <=> reader[t] = "data"
    BY <1>4, <2>2 DEF Poll, PollRead
  <2> QED
    BY <2>1, <2>3, StreamFrame
<1>5. CASE PollUndo
  <2>1. UNCHANGED <<toSend, sock, data, reader, call>>
    BY <1>5 DEF PollUndo, UndoEvent, vars
  <2>2. drifted => drifted'
    BY <1>5 DEF PollUndo, UndoEvent
  <2> QED
    BY <2>1, <2>2, StreamFrame
<1>6. ASSUME NEW t \in Readers, ReaderStep(t) PROVE StreamSplit'
  <2>1. CASE ReadData(t) /\ UNCHANGED vars
    <3>1. CASE drifted
      BY <2>1, <3>1 DEF ReadData, StreamSplit
    <3>2. CASE ~drifted
      BY <1>0, <2>1, <3>2, StreamRead DEF vars
    <3> QED
      BY <3>1, <3>2
  <2>2. CASE /\ ReadFails(t) \/ EventDone(t) \/ ResetPollerEvent(t, closed)
             /\ UNCHANGED vars
    <3>1. UNCHANGED <<toSend, sock, data, drifted, call>>
      BY <2>2 DEF ReadFails, EventDone, ResetPollerEvent, vars
    <3>2. \A u \in Readers : reader'[u] = "data" <=> reader[u] = "data"
      BY <1>0, <2>2 DEF ReadFails, EventDone, ResetPollerEvent, ReadTypeOK
    <3> QED
      BY <3>1, <3>2, StreamFrame
  <2>3. CASE OnData(t)
    BY <1>0, <2>3, StreamData
  <2> QED
    BY <1>6, <2>1, <2>2, <2>3 DEF ReaderStep
<1>7. ASSUME NEW t \in Readers, ReadError(t) PROVE StreamSplit'
  <2>1. UNCHANGED <<toSend, sock, data, drifted, call>>
    BY <1>7 DEF ReadError, ReadFails, SetClosed
  <2>2. \A u \in Readers : reader'[u] = "data" <=> reader[u] = "data"
    BY <1>0, <1>7 DEF ReadError, ReadFails, ReadTypeOK
  <2> QED
    BY <2>1, <2>2, StreamFrame
<1>8. ASSUME NEW h \in Funcs, AsyncStep(h) PROVE StreamSplit'
  <2>1. CASE CallHandler(h)
    BY <1>0, <2>1, StreamClose DEF CallHandler
  <2>2. CASE AsyncFetch(h) \/ HandlerDone(h) \/ OtherDone(h)
    <3>1. UNCHANGED <<toSend, sock, data, reader, drifted>> /\ call' = call
      BY <2>2 DEF AsyncFetch, HandlerDone, OtherDone, vars, readVars
    <3> QED
      BY <1>1, <3>1
  <2> QED
    BY <1>8, <2>1, <2>2 DEF AsyncStep
<1>9. ASSUME NEW t \in Readers, PoolStep(t) PROVE StreamSplit'
  <2>1. UNCHANGED <<toSend, sock, data, drifted, call>>
    BY <1>9, PoolStepIs DEF StartTask, StrandTask, vars
  <2>2. \A u \in Readers : reader'[u] = "data" <=> reader[u] = "data"
    BY <1>0, <1>9, PoolStepIs DEF StartTask, StrandTask, ReadTypeOK
  <2> QED
    BY <2>1, <2>2, StreamFrame
<1> QED
  BY <1>2, <1>3, <1>4, <1>5, <1>6, <1>7, <1>8, <1>9 DEF DeliveryNext, PoolStep, Runner

\* AsyncRead, for any packets and any number of events: one task reads at a
\* time and the data reaches Execute in the order it arrived, until an event
\* is taken back too late.
THEOREM DataInOrder == DeliverySpec => []ReadInOrder
<1> DEFINE RInv == DInv /\ OneReader /\ StreamSplit
<1>1. DeliveryInit => RInv
  BY DeliveryInitInv, ReadInitInv, StreamInit DEF DeliveryInit
<1>2. RInv /\ [DeliveryNext]_allVars => RInv'
  <2>1. DInv /\ OneReader /\ [DeliveryNext]_allVars => OneReader'
    BY ReadProjection, OneReaderNext DEF DInv
  <2> QED
    BY <2>1, DeliveryNextInv, StreamNext
<1>3. RInv => ReadInOrder
  <2> SUFFICES ASSUME RInv, ~drifted PROVE ReadInOrder
    BY DEF ReadInOrder
  <2>1. \A t, u \in Readers : reader[t] # "none" /\ reader[u] # "none" => t = u
    BY DEF OneReader, Reading
  <2>2. DOMAIN Packets = 1 .. Len(Packets) /\ Len(Packets) \in Nat
    BY CloseAssumption
  <2>3. ASSUME NEW k \in DOMAIN Packets, call[Packets[k]] # "idle", NEW l \in 1 .. k
        PROVE  call[Packets[l]] # "idle"
    <3>1. k <= Handed /\ Handed \in Nat
      BY <2>2, <2>3 DEF StreamSplit
    <3>2. l \in 1 .. Handed
      BY <2>2, <3>1
    <3> QED
      BY <3>2 DEF StreamSplit
  <2> QED
    BY <2>1, <2>3 DEF ReadInOrder
<1> HIDE DEF RInv
<1> QED
  BY <1>1, <1>2, <1>3, PTL DEF DeliverySpec

=============================================================================
