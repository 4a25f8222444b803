------------------------ MODULE TaskSchedulerProofs -------------------------
(***************************************************************************)
(* For any tasks, periods and number of restarts: the history refers only  *)
(* to tasks that are there, and a run shown as running has a live job that *)
(* will finish it, unless the daemon restarted since it began.  The foreign *)
(* key carries the first: the insert of a run and the delete of its task   *)
(* both look at the other's table.  The second is about the two tables of  *)
(* a tick, one on disk and one in memory, that a restart tears apart.      *)
(***************************************************************************)
EXTENDS TaskScheduler, TLAPS

\* Typing, with the tables as sequences and functions.
Typing == /\ TypeOK
          /\ table \in [Tasks -> Row]
          /\ runs \in Seq(RunRow)
          /\ jobs \in Seq(Job)

\* No run is from a start of the daemon that is still to come.
BootsPassed == \A i \in 1..Len(runs) : runs[i].boot <= restarts

IInv == Typing /\ RunsBelongToTasks /\ BootsPassed /\ RunningHasJob

-----------------------------------------------------------------------------
(* A job that starts is a job still.                                        *)
LEMMA JobStarted ==
  ASSUME NEW job \in Job, NEW n \in Nat
  PROVE  LET j == [job EXCEPT !.state = "running", !.run = n + 1]
         IN  j \in Job /\ j.state = "running" /\ j.run = n + 1
  <1> DEFINE k == [job EXCEPT !.state = "running"]
             j == [k EXCEPT !.run = n + 1]
  <1>1. k \in Job /\ k.state = "running"
    BY DEF Job
  <1>2. j = [job EXCEPT !.state = "running", !.run = n + 1]
    OBVIOUS
  <1> HIDE DEF k
  <1>3. j \in Job /\ j.state = "running" /\ j.run = n + 1
    BY <1>1 DEF Job
  <1> QED
    BY <1>2, <1>3

(* What Append does to a table, in terms of Len and the rows.               *)
LEMMA Appended ==
  ASSUME NEW S, NEW s \in Seq(S), NEW e \in S, NEW n \in Nat, n = Len(s)
  PROVE  /\ Append(s, e) \in Seq(S) /\ Len(Append(s, e)) = n + 1
         /\ \A i \in 1..n : Append(s, e)[i] = s[i]
         /\ Append(s, e)[n + 1] = e
         /\ \A i \in 1..(n + 1) : i \in 1..n \/ i = n + 1
  OBVIOUS

(* What an update of one row of a table does to it.                         *)
LEMMA Updated ==
  ASSUME NEW S, NEW s \in Seq(S), NEW i \in 1..Len(s), NEW e \in S
  PROVE  /\ [s EXCEPT ![i] = e] \in Seq(S) /\ Len([s EXCEPT ![i] = e]) = Len(s)
         /\ \A k \in 1..Len(s) : [s EXCEPT ![i] = e][k] = IF k = i THEN e ELSE s[k]
  OBVIOUS

-----------------------------------------------------------------------------
(* A run that is not finished yet keeps its job under a step that changes   *)
(* neither the runs nor a running job.                                      *)
LEMMA JobsKept ==
  ASSUME RunningHasJob, runs' = runs, restarts' = restarts, Len(jobs') >= Len(jobs),
         Len(jobs) \in Nat, Len(jobs') \in Nat,
         \A k \in 1..Len(jobs) : jobs[k].state = "running" => jobs'[k] = jobs[k]
  PROVE  RunningHasJob'
  <1> SUFFICES ASSUME NEW i \in 1..Len(runs), runs[i].status = "running", runs[i].boot = restarts
               PROVE  \E k \in 1..Len(jobs') : jobs'[k].run = i /\ jobs'[k].state = "running"
    BY DEF RunningHasJob
  <1>1. PICK k \in 1..Len(jobs) : jobs[k].run = i /\ jobs[k].state = "running"
    BY DEF RunningHasJob
  <1>2. k \in 1..Len(jobs') /\ jobs'[k] = jobs[k]
    BY <1>1
  <1> QED
    BY <1>1, <1>2

(* A step of a client at the task table, of the tick, or of the clock.      *)
LEMMA TableStep ==
  ASSUME IInv, \/ \E t \in Tasks : Create(t) \/ Delete(t) \/ SpawnDue(t)
               \/ LoadDue \/ Pass
  PROVE  IInv'
  <1> USE DEF IInv, Typing
  <1>0. Len(jobs) \in Nat /\ Len(runs) \in Nat
    OBVIOUS
  <1>1. ASSUME NEW t \in Tasks, Create(t) PROVE IInv'
    <2> USE <1>1 DEF Create
    <2>1. table' \in [Tasks -> Row]
      BY TimeAssumption, PeriodsAssumption DEF Row, Kinds, Never
    <2>2. Typing'
      BY <2>1 DEF TypeOK
    <2>3. RunsBelongToTasks'
      BY DEF RunsBelongToTasks, Exists, TypeOK
    <2>4. RunningHasJob'
      BY <1>0, JobsKept
    <2> QED
      BY <2>2, <2>3, <2>4 DEF BootsPassed
  <1>2. ASSUME NEW t \in Tasks, Delete(t) PROVE IInv'
    <2> USE <1>2 DEF Delete
    <2>1. Typing'
      BY DEF TypeOK
    <2>2. RunsBelongToTasks'
      BY DEF RunsBelongToTasks, Exists, HasRuns, TypeOK
    <2>3. RunningHasJob'
      BY <1>0, JobsKept
    <2> QED
      BY <2>1, <2>2, <2>3 DEF BootsPassed
  <1>3. ASSUME NEW t \in Tasks, SpawnDue(t) PROVE IInv'
    <2> DEFINE j == [task |-> t, spawnedAt |-> now, state |-> "queued", run |-> 0]
    <2> USE <1>3 DEF SpawnDue
    <2>1. j \in Job /\ j.run = 0
      BY TimeAssumption DEF Job, TypeOK
    <2>2. jobs' = Append(jobs, j)
      OBVIOUS
    <2> HIDE DEF j
    <2>3. /\ jobs' \in Seq(Job) /\ Len(jobs') = Len(jobs) + 1
          /\ \A i \in 1..Len(jobs) : jobs'[i] = jobs[i]
          /\ jobs'[Len(jobs) + 1] = j
          /\ \A i \in 1..Len(jobs') : i \in 1..Len(jobs) \/ i = Len(jobs) + 1
      BY <2>1, <2>2, <1>0, Appended
    <2>4. Typing'
      <3>1. \A i \in 1..Len(jobs') : jobs'[i] \in Job /\ jobs'[i].run \in 0..Len(runs')
        BY <1>0, <2>1, <2>3 DEF TypeOK
      <3> QED
        BY <3>1, <2>3 DEF TypeOK
    <2>5. RunningHasJob'
      BY <1>0, <2>3, JobsKept
    <2> QED
      BY <2>4, <2>5 DEF RunsBelongToTasks, Exists, BootsPassed
  <1>4. CASE LoadDue
    <2> USE <1>4 DEF LoadDue
    <2>1. Typing'
      BY DEF TypeOK, Exists
    <2>2. RunningHasJob'
      BY <1>0, JobsKept
    <2> QED
      BY <2>1, <2>2 DEF RunsBelongToTasks, Exists, BootsPassed
  <1>5. CASE Pass
    <2> USE <1>5 DEF Pass
    <2>0. now' \in 0..MaxTime
      BY TimeAssumption DEF TypeOK
    <2>1. Typing'
      BY <2>0 DEF TypeOK
    <2>2. RunningHasJob'
      BY <1>0, JobsKept
    <2> QED
      BY <2>1, <2>2 DEF RunsBelongToTasks, Exists, BootsPassed
  <1> QED
    BY <1>1, <1>2, <1>3, <1>4, <1>5

(* A job writes its run when it starts; the foreign key refuses that of a   *)
(* task that is gone.                                                       *)
LEMMA StartStep ==
  ASSUME IInv, NEW i \in 1..Len(jobs), RecordRunStart(i)
  PROVE  IInv'
  <1> USE DEF IInv, Typing
  <1>0. Len(jobs) \in Nat /\ Len(runs) \in Nat /\ jobs[i] \in Job /\ jobs[i].state = "queued"
    BY DEF RecordRunStart
  <1>1. CASE Exists(jobs[i].task)
    <2> DEFINE r == [task |-> jobs[i].task, status |-> "running", boot |-> restarts]
               j == [jobs[i] EXCEPT !.state = "running", !.run = Len(runs) + 1]
    <2>1. /\ r \in RunRow /\ r.task = jobs[i].task /\ r.boot = restarts
          /\ j \in Job /\ j.state = "running" /\ j.run = Len(runs) + 1
      <3>1. restarts \in Nat
        BY TimeAssumption DEF TypeOK
      <3>2. r \in RunRow
        BY <1>0, <3>1 DEF RunRow, Job
      <3>3. j \in Job /\ j.state = "running" /\ j.run = Len(runs) + 1
        BY <1>0, JobStarted
      <3> QED
        BY <3>2, <3>3
    <2>2. /\ runs' = Append(runs, r) /\ jobs' = [jobs EXCEPT ![i] = j]
          /\ UNCHANGED <<now, life, table, due, ticked, restarts>>
      BY <1>1, <1>0 DEF RecordRunStart, Job
    <2> HIDE DEF r, j
    <2>3. /\ runs' \in Seq(RunRow) /\ Len(runs') = Len(runs) + 1
          /\ \A k \in 1..Len(runs) : runs'[k] = runs[k]
          /\ runs'[Len(runs) + 1] = r
          /\ \A k \in 1..Len(runs') : k \in 1..Len(runs) \/ k = Len(runs) + 1
      BY <2>1, <2>2, <1>0, Appended
    <2>4. /\ jobs' \in Seq(Job) /\ Len(jobs') = Len(jobs)
          /\ \A k \in 1..Len(jobs) : jobs'[k] = IF k = i THEN j ELSE jobs[k]
      BY <2>1, <2>2, Updated
    <2>5. Typing'
      <3>1. \A k \in 1..Len(runs') : runs'[k] \in RunRow
        BY <2>1, <2>3 DEF TypeOK
      <3>2. \A k \in 1..Len(jobs') : jobs'[k] \in Job /\ jobs'[k].run \in 0..Len(runs')
        <4> SUFFICES ASSUME NEW k \in 1..Len(jobs)
                     PROVE  jobs'[k] \in Job /\ jobs'[k].run \in 0..Len(runs')
          BY <2>4
        <4>1. CASE k = i
          BY <4>1, <2>1, <2>3, <2>4, <1>0
        <4>2. CASE k # i
          <5>1. jobs'[k] = jobs[k] /\ jobs[k] \in Job /\ jobs[k].run \in 0..Len(runs)
            BY <4>2, <2>4 DEF TypeOK
          <5> QED
            BY <5>1, <2>3, <1>0
        <4> QED
          BY <4>1, <4>2
      <3> QED
        BY <2>2, <2>3, <2>4, <3>1, <3>2 DEF TypeOK
    <2>6. RunsBelongToTasks'
      BY <1>1, <2>1, <2>2, <2>3 DEF RunsBelongToTasks, Exists
    <2>7. BootsPassed'
      BY <2>1, <2>2, <2>3 DEF BootsPassed, TypeOK
    <2>8. RunningHasJob'
      <3> SUFFICES ASSUME NEW k \in 1..Len(runs'), runs'[k].status = "running", runs'[k].boot = restarts
                   PROVE  \E n \in 1..Len(jobs') : jobs'[n].run = k /\ jobs'[n].state = "running"
        BY <2>2 DEF RunningHasJob
      <3>1. CASE k = Len(runs) + 1
        BY <3>1, <2>1, <2>4
      <3>2. CASE k \in 1..Len(runs)
        <4>1. PICK n \in 1..Len(jobs) : jobs[n].run = k /\ jobs[n].state = "running"
          BY <3>2, <2>3 DEF RunningHasJob
        <4>2. n # i
          BY <4>1, <1>0
        <4> QED
          BY <4>1, <4>2, <2>4
      <3> QED
        BY <3>1, <3>2, <2>3
    <2> QED
      BY <2>5, <2>6, <2>7, <2>8
  <1>2. CASE ~Exists(jobs[i].task)
    <2> DEFINE j == [jobs[i] EXCEPT !.state = "running"]
    <2>1. j \in Job /\ j.run = jobs[i].run
      BY <1>0 DEF Job
    <2>2. jobs' = [jobs EXCEPT ![i] = j] /\ UNCHANGED <<runs, now, life, table, due, ticked, restarts>>
      BY <1>2 DEF RecordRunStart
    <2> HIDE DEF j
    <2>3. /\ jobs' \in Seq(Job) /\ Len(jobs') = Len(jobs)
          /\ \A k \in 1..Len(jobs) : jobs'[k] = IF k = i THEN j ELSE jobs[k]
      BY <2>1, <2>2, Updated
    <2>4. Typing'
      BY <1>0, <2>1, <2>2, <2>3 DEF TypeOK
    <2>5. RunningHasJob'
      BY <1>0, <2>2, <2>3, JobsKept
    <2> QED
      BY <2>2, <2>4, <2>5 DEF RunsBelongToTasks, Exists, BootsPassed
  <1> QED
    BY <1>1, <1>2

(* A job that ends updates its own run, and no other.                       *)
LEMMA FinishStep ==
  ASSUME IInv, NEW i \in 1..Len(jobs), RecordRunFinish(i)
  PROVE  IInv'
  <1> USE DEF IInv, Typing
  <1> DEFINE j == [jobs[i] EXCEPT !.state = "done"]
             n == jobs[i].run
             r == [runs[n] EXCEPT !.status = "success"]
  <1>0. Len(jobs) \in Nat /\ Len(runs) \in Nat /\ n \in 0..Len(runs)
    BY DEF TypeOK
  <1>1. /\ j \in Job /\ j.run = n
        /\ n # 0 => /\ n \in 1..Len(runs) /\ r \in RunRow /\ r.status = "success"
                    /\ r.task = runs[n].task /\ r.boot = runs[n].boot
    <2>1. jobs[i] \in Job
      OBVIOUS
    <2>2. n # 0 => n \in 1..Len(runs) /\ runs[n] \in RunRow
      BY <1>0 DEF TypeOK
    <2> QED
      BY <2>1, <2>2 DEF Job, RunRow
  <1>2. /\ jobs' = [jobs EXCEPT ![i] = j] /\ runs' = IF n = 0 THEN runs ELSE [runs EXCEPT ![n] = r]
        /\ UNCHANGED <<now, life, table, due, ticked, restarts>>
    BY DEF RecordRunFinish
  <1> HIDE DEF j, r
  <1>3. /\ jobs' \in Seq(Job) /\ Len(jobs') = Len(jobs)
        /\ \A k \in 1..Len(jobs) : jobs'[k] = IF k = i THEN j ELSE jobs[k]
    BY <1>1, <1>2, Updated
  <1>4. /\ runs' \in Seq(RunRow) /\ Len(runs') = Len(runs)
        /\ \A k \in 1..Len(runs) : runs'[k] = IF k = n THEN r ELSE runs[k]
    BY <1>0, <1>1, <1>2, Updated
  <1> HIDE DEF n
  <1>5. Typing'
    <2>1. \A k \in 1..Len(runs') : runs'[k] \in RunRow
      BY <1>0, <1>1, <1>4 DEF TypeOK
    <2>2. \A k \in 1..Len(jobs') : jobs'[k] \in Job /\ jobs'[k].run \in 0..Len(runs')
      BY <1>0, <1>1, <1>3, <1>4 DEF TypeOK
    <2> QED
      BY <1>2, <1>3, <1>4, <2>1, <2>2 DEF TypeOK
  <1>6. RunsBelongToTasks' /\ BootsPassed'
    BY <1>0, <1>1, <1>2, <1>4 DEF RunsBelongToTasks, BootsPassed, Exists
  <1>7. RunningHasJob'
    <2> SUFFICES ASSUME NEW k \in 1..Len(runs'), runs'[k].status = "running", runs'[k].boot = restarts
                 PROVE  \E m \in 1..Len(jobs') : jobs'[m].run = k /\ jobs'[m].state = "running"
      BY <1>2 DEF RunningHasJob
    <2>1. k # n /\ runs'[k] = runs[k] /\ k \in 1..Len(runs)
      BY <1>0, <1>1, <1>4
    <2>2. PICK m \in 1..Len(jobs) : jobs[m].run = k /\ jobs[m].state = "running"
      BY <2>1 DEF RunningHasJob
    <2>3. m # i
      BY <2>1, <2>2 DEF n
    <2> QED
      BY <2>2, <2>3, <1>3
  <1> QED
    BY <1>5, <1>6, <1>7

(* A queued job is cancelled; the daemon dies and comes back.               *)
LEMMA OtherStep ==
  ASSUME IInv, Restart \/ \E i \in 1..Len(jobs) : CancelQueued(i)
  PROVE  IInv'
  <1> USE DEF IInv, Typing
  <1>0. Len(jobs) \in Nat /\ Len(runs) \in Nat
    OBVIOUS
  <1>1. CASE Restart
    <2> USE <1>1 DEF Restart
    <2>0. restarts' \in 0..MaxRestarts
      BY TimeAssumption DEF TypeOK
    <2>1. Typing'
      <3>1. jobs' \in Seq(Job) /\ Len(jobs') = 0
        OBVIOUS
      <3>2. runs' = runs /\ table' = table /\ runs \in Seq(RunRow) /\ table \in [Tasks -> Row]
        OBVIOUS
      <3>3. \A i \in 1..Len(jobs') : jobs'[i] \in Job /\ jobs'[i].run \in 0..Len(runs')
        BY <3>1
      <3>4. TypeOK'
        BY <2>0, <3>2, <3>3 DEF TypeOK
      <3> QED
        BY <3>1, <3>2, <3>4
    <2>2. RunningHasJob'
      BY DEF RunningHasJob, BootsPassed, TypeOK, RunRow
    <2>3. BootsPassed'
      BY DEF BootsPassed, TypeOK, RunRow
    <2> QED
      BY <2>1, <2>2, <2>3 DEF RunsBelongToTasks, Exists
  <1>2. ASSUME NEW i \in 1..Len(jobs), CancelQueued(i) PROVE IInv'
    <2> DEFINE j == [jobs[i] EXCEPT !.state = "cancelled"]
    <2>0. jobs[i] \in Job
      OBVIOUS
    <2>1. j \in Job /\ j.run = jobs[i].run
      BY <2>0 DEF Job
    <2>2. jobs' = [jobs EXCEPT ![i] = j] /\ UNCHANGED <<runs, now, life, table, due, ticked, restarts>>
      BY <1>2 DEF CancelQueued
    <2> HIDE DEF j
    <2>3. /\ jobs' \in Seq(Job) /\ Len(jobs') = Len(jobs)
          /\ \A k \in 1..Len(jobs) : jobs'[k] = IF k = i THEN j ELSE jobs[k]
      BY <2>1, <2>2, Updated
    <2>4. Typing'
      BY <1>0, <2>1, <2>2, <2>3 DEF TypeOK
    <2>5. RunningHasJob'
      <3>1. \A k \in 1..Len(jobs) : jobs[k].state = "running" => jobs'[k] = jobs[k]
        BY <1>2, <2>3 DEF CancelQueued
      <3> QED
        BY <1>0, <2>2, <2>3, <3>1, JobsKept
    <2> QED
      BY <2>2, <2>4, <2>5 DEF RunsBelongToTasks, Exists, BootsPassed
  <1> QED
    BY <1>1, <1>2

-----------------------------------------------------------------------------
(* IInv is an invariant of the specification.                               *)
THEOREM Invariance == Spec => []IInv
  <1>1. Init => IInv
    <2> SUFFICES ASSUME Init PROVE IInv
      OBVIOUS
    <2>1. runs = <<>> /\ jobs = <<>> /\ Len(runs) = 0 /\ Len(jobs) = 0
      BY DEF Init
    <2>2. table \in [Tasks -> Row]
      BY DEF Init, Row, Kinds, Never
    <2>3. now \in 0..MaxTime /\ restarts \in 0..MaxRestarts
      BY TimeAssumption DEF Init
    <2>4. Typing
      <3>1. runs \in Seq(RunRow) /\ jobs \in Seq(Job)
        BY <2>1
      <3>2. TypeOK
        <4>1. \A i \in 1..Len(runs) : runs[i] \in RunRow
          BY <2>1
        <4>2. \A i \in 1..Len(jobs) : jobs[i] \in Job /\ jobs[i].run \in 0..Len(runs)
          BY <2>1
        <4>3. life \in [Tasks -> {"unborn", "live", "deleted"}] /\ due = {} /\ ticked \in BOOLEAN
          BY DEF Init
        <4> QED
          BY <2>2, <2>3, <4>1, <4>2, <4>3 DEF TypeOK
      <3> QED
        BY <2>2, <3>1, <3>2 DEF Typing
    <2> QED
      BY <2>1, <2>4 DEF IInv, RunsBelongToTasks, BootsPassed, RunningHasJob
  <1>2. IInv /\ [Next]_vars => IInv'
    <2>1. IInv /\ Next => IInv'
      BY TableStep, StartStep, FinishStep, OtherStep DEF Next
    <2>2. IInv /\ UNCHANGED vars => IInv'
      <3> SUFFICES ASSUME IInv, UNCHANGED vars PROVE IInv'
        OBVIOUS
      <3>1. Typing'
        BY DEF vars, IInv, Typing, TypeOK
      <3>2. RunsBelongToTasks' /\ BootsPassed' /\ RunningHasJob'
        BY DEF vars, IInv, RunsBelongToTasks, Exists, BootsPassed, RunningHasJob
      <3> QED
        BY <3>1, <3>2 DEF IInv
    <2> QED
      BY <2>1, <2>2
  <1> QED
    BY <1>1, <1>2, PTL DEF Spec

(* Every variable keeps its type, through any number of restarts.           *)
THEOREM TypeCorrect == Spec => []TypeOK
  <1>1. IInv => TypeOK
    BY DEF IInv, Typing
  <1> QED
    BY <1>1, Invariance, PTL

(* The history never refers to a task that is gone (L600, L734-766,         *)
(* L916-925).                                                               *)
THEOREM HistoryRefersToTasks == Spec => []RunsBelongToTasks
  <1>1. IInv => RunsBelongToTasks
    BY DEF IInv
  <1> QED
    BY <1>1, Invariance, PTL

(* A run shown as running has a live job that will finish it, unless the    *)
(* daemon restarted since it began (L734-766).                              *)
THEOREM RunsAreLive == Spec => []RunningHasJob
  <1>1. IInv => RunningHasJob
    BY DEF IInv
  <1> QED
    BY <1>1, Invariance, PTL
=============================================================================
