--------------------------- MODULE TaskScheduler ----------------------------
(***************************************************************************)
(* The scheduled-task engine of crates/daemon/src/jobs.rs: a loop ticks    *)
(* every 30 s, loads the tasks of the SQLite table scheduled_tasks that    *)
(* are due and spawns one job per task through the JobRegistry; the job    *)
(* writes a row of task_runs when it starts and updates it when it ends.   *)
(* The tables survive a restart of the daemon, the jobs do not.            *)
(*                                                                         *)
(* One unit of `now` is the 30 s between two ticks.  Of the registry only  *)
(* what the jobs of this module see is kept: a spawned job starts later,   *)
(* or never when it is cancelled first (JobRegistry has the rest).         *)
(***************************************************************************)
EXTENDS Integers, Sequences

CONSTANTS
    Tasks,          \* ids of scheduled_tasks (uuids)
    MaxTime,        \* bound: the last instant modelled
    MaxRestarts,    \* bound: crashes of the daemon
    Periods         \* interval_secs and cron periods, in units

ASSUME TimeAssumption == MaxTime \in Nat /\ MaxRestarts \in Nat
ASSUME PeriodsAssumption == Periods \subseteq Nat \ {0}

VARIABLES
    now,        \* Utc::now(), in units
    life,       \* life[t]: whether scheduled_tasks holds t
    table,      \* table[t]: the row of t, while it is there
    runs,       \* task_runs, in order of rowid
    jobs,       \* the jobs spawned since the daemon started
    due,        \* the tasks the current tick has loaded and not spawned yet
    ticked,     \* this instant's tick has loaded its tasks
    restarts    \* crashes so far

vars == <<now, life, table, runs, jobs, due, ticked, restarts>>

Never == -1
Kinds == {"once", "interval", "cron"}

\* `at` is run_at for once, interval_secs for interval, and the period of the
\* cron expression, which fires at its multiples, for cron.
Row == [kind : Kinds, at : Nat, enabled : BOOLEAN, lastRun : Nat \cup {Never}]
Exists(t) == life[t] = "live"

\* Jobs and runs refer to each other by position; `run = 0` is the failed
\* insert of record_run_start.
Job == [task : Tasks, spawnedAt : Nat, state : {"queued", "running", "done", "cancelled"},
        run : Nat]
RunRow == [task : Tasks, status : {"running", "success"}, boot : Nat]

Init == /\ now = 0
        /\ life = [t \in Tasks |-> "unborn"]
        /\ table = [t \in Tasks |-> [kind |-> "once", at |-> 0, enabled |-> FALSE,
                                    lastRun |-> Never]]
        /\ runs = <<>>
        /\ jobs = <<>>
        /\ due = {}
        /\ ticked = FALSE
        /\ restarts = 0

-----------------------------------------------------------------------------
\* scheduler_create_task: a fresh uuid, last_run_at None.
Create(t) == /\ life[t] = "unborn"
             /\ life' = [life EXCEPT ![t] = "live"]
             /\ \E k \in Kinds, e \in BOOLEAN :
                \E a \in IF k = "once" THEN 0..MaxTime ELSE Periods :
                   table' = [table EXCEPT ![t] = [kind |-> k, at |-> a, enabled |-> e,
                                                  lastRun |-> Never]]
             /\ UNCHANGED <<now, runs, jobs, due, ticked, restarts>>

HasRuns(t) == \E i \in 1..Len(runs) : runs[i].task = t

\* scheduler_delete_task: PRAGMA foreign_keys refuses the DELETE of a task that
\* task_runs refers to (the handler then answers 500 and changes nothing).
Delete(t) == /\ Exists(t)
             /\ ~HasRuns(t)
             /\ life' = [life EXCEPT ![t] = "deleted"]
             /\ UNCHANGED <<now, table, runs, jobs, due, ticked, restarts>>

-----------------------------------------------------------------------------
\* The first instant after n at which a cron of period p fires: upcoming(Utc)
\* yields no instant of the past.
NextFire(p, n) == p * ((n \div p) + 1)

\* Mutant: once compares the wrong way round.
IsDue_Inverted(r) == r.enabled /\
    CASE r.kind = "once"     -> r.at >= now /\ r.lastRun = Never
      [] r.kind = "interval" -> r.lastRun = Never \/ r.lastRun + r.at <= now
      [] r.kind = "cron"     -> r.lastRun = Never /\ NextFire(r.at, now) - now <= 2

\* WHERE enabled = 1, and is_task_due.  A cron task that has run before would
\* need an upcoming() instant that is not in the future: it is never due.
IsDue(r) == r.enabled /\
    CASE r.kind = "once"     -> r.at <= now /\ r.lastRun = Never
      [] r.kind = "interval" -> r.lastRun = Never \/ r.lastRun + r.at <= now
      [] r.kind = "cron"     -> r.lastRun = Never /\ NextFire(r.at, now) - now <= 2

\* The tick loads the due tasks ...
LoadDue == /\ ~ticked
           /\ due' = {t \in Tasks : Exists(t) /\ IsDue(table[t])}
           /\ ticked' = TRUE
           /\ UNCHANGED <<now, life, table, runs, jobs, restarts>>

\* ... and spawns a job for each; nothing marks the task as run.
SpawnDue(t) == /\ t \in due
               /\ due' = due \ {t}
               /\ jobs' = Append(jobs, [task |-> t, spawnedAt |-> now,
                                        state |-> "queued", run |-> 0])
               /\ UNCHANGED <<now, life, table, runs, ticked, restarts>>

\* Time passes once the tick is over.
Pass == /\ ticked /\ due = {} /\ now < MaxTime
        /\ now' = now + 1
        /\ ticked' = FALSE
        /\ UNCHANGED <<life, table, runs, jobs, due, restarts>>

-----------------------------------------------------------------------------
\* Mutant: the run is inserted whether or not its task is still there.
RecordRunStart_NoForeignKey(i) ==
    /\ jobs[i].state = "queued"
    /\ runs' = Append(runs, [task |-> jobs[i].task, status |-> "running",
                             boot |-> restarts])
    /\ jobs' = [jobs EXCEPT ![i].state = "running", ![i].run = Len(runs) + 1]
    /\ UNCHANGED <<now, life, table, due, ticked, restarts>>

\* Mutant: a failed insert still yields an id.
RecordRunStart_IdOnFailure(i) ==
    /\ jobs[i].state = "queued"
    /\ runs' = IF Exists(jobs[i].task)
               THEN Append(runs, [task |-> jobs[i].task, status |-> "running",
                                  boot |-> restarts])
               ELSE runs
    /\ jobs' = [jobs EXCEPT ![i].state = "running", ![i].run = Len(runs) + 1]
    /\ UNCHANGED <<now, life, table, due, ticked, restarts>>

\* record_run_start: the insert fails, silently, when the task is gone.
RecordRunStart(i) ==
    /\ jobs[i].state = "queued"
    /\ IF Exists(jobs[i].task)
       THEN /\ runs' = Append(runs, [task |-> jobs[i].task, status |-> "running",
                                     boot |-> restarts])
            /\ jobs' = [jobs EXCEPT ![i].state = "running", ![i].run = Len(runs) + 1]
       ELSE /\ jobs' = [jobs EXCEPT ![i].state = "running"]
            /\ UNCHANGED runs
    /\ UNCHANGED <<now, life, table, due, ticked, restarts>>

\* Mutant: the finish updates the newest run instead of its own.
RecordRunFinish_Newest(i) ==
    /\ jobs[i].state = "running"
    /\ jobs' = [jobs EXCEPT ![i].state = "done"]
    /\ runs' = IF runs = <<>> THEN runs ELSE [runs EXCEPT ![Len(runs)].status = "success"]
    /\ UNCHANGED <<now, life, table, due, ticked, restarts>>

\* record_run_finish(run_id, "success"): UPDATE ... WHERE id = run_id.
RecordRunFinish(i) ==
    /\ jobs[i].state = "running"
    /\ jobs' = [jobs EXCEPT ![i].state = "done"]
    /\ runs' = IF jobs[i].run = 0 THEN runs
               ELSE [runs EXCEPT ![jobs[i].run].status = "success"]
    /\ UNCHANGED <<now, life, table, due, ticked, restarts>>

\* A client cancels the job before it gets a permit.
CancelQueued(i) == /\ jobs[i].state = "queued"
                   /\ jobs' = [jobs EXCEPT ![i].state = "cancelled"]
                   /\ UNCHANGED <<now, life, table, runs, due, ticked, restarts>>

\* The daemon stops and starts again: the tables stay, the scheduler ticks
\* anew, and nothing looks at the runs that were under way.
Restart == /\ restarts < MaxRestarts
           /\ restarts' = restarts + 1
           /\ jobs' = <<>>
           /\ due' = {}
           /\ ticked' = FALSE
           /\ UNCHANGED <<now, life, table, runs>>

-----------------------------------------------------------------------------
Next == \/ \E t \in Tasks : Create(t) \/ Delete(t) \/ SpawnDue(t)
        \/ LoadDue \/ Pass \/ Restart
        \/ \E i \in 1..Len(jobs) : RecordRunStart(i) \/ RecordRunFinish(i) \/ CancelQueued(i)

\* The loop keeps ticking and spawned jobs keep moving; clients owe nothing.
Fairness == /\ WF_vars(LoadDue) /\ WF_vars(Pass)
            /\ WF_vars(\E t \in Tasks : SpawnDue(t))
            /\ WF_vars(\E i \in 1..Len(jobs) : RecordRunStart(i) \/ RecordRunFinish(i))

Spec == Init /\ [][Next]_vars
FairSpec == Spec /\ Fairness

-----------------------------------------------------------------------------
TypeOK == /\ now \in 0..MaxTime
          /\ life \in [Tasks -> {"unborn", "live", "deleted"}]
          /\ \A t \in Tasks : table[t] \in Row
          /\ \A i \in 1..Len(runs) : runs[i] \in RunRow
          /\ \A i \in 1..Len(jobs) : jobs[i] \in Job /\ jobs[i].run \in 0..Len(runs)
          /\ due \subseteq {t \in Tasks : life[t] # "unborn"}
          /\ ticked \in BOOLEAN
          /\ restarts \in 0..MaxRestarts

(* The history never refers to a task that is gone, although the tick, the  *)
(* jobs it spawned and a delete run concurrently (L600, L734-766, L916-925). *)
RunsBelongToTasks == \A i \in 1..Len(runs) : Exists(runs[i].task)

(* A run shown as running has a live job that will finish it, unless the    *)
(* daemon restarted since it began (L734-766).                              *)
RunningHasJob ==
    \A i \in 1..Len(runs) : (runs[i].status = "running" /\ runs[i].boot = restarts)
        => \E k \in 1..Len(jobs) : jobs[k].run = i /\ jobs[k].state = "running"

(* An enabled one-shot task whose time has come gets a run, unless it is    *)
(* deleted or a client cancels its job (specs/01, acceptance criterion).    *)
OnceFires ==
    \A t \in Tasks :
        (Exists(t) /\ table[t].kind = "once" /\ table[t].enabled
           /\ table[t].at <= now /\ ~ticked)
          ~> \/ HasRuns(t) \/ ~Exists(t)
             \/ \E k \in 1..Len(jobs) : jobs[k].task = t /\ jobs[k].state = "cancelled"

(* jobs.rs L396: run_at is the "datetime for one-shot execution".  A task   *)
(* of kind once is spawned at most once between two starts of the daemon.   *)
OnceRunsOnce ==
    \A i, k \in 1..Len(jobs) :
        (i # k /\ jobs[i].task = jobs[k].task /\ Exists(jobs[i].task))
          => table[jobs[i].task].kind # "once"

(* jobs.rs L836: a cron task that never ran is due when "a fire time is     *)
(* within the last tick window", the 60 s that end now.                     *)
CronFiresAfterItsTime ==
    \A k \in 1..Len(jobs) :
        (Exists(jobs[k].task) /\ table[jobs[k].task].kind = "cron")
          => \E f \in {jobs[k].spawnedAt - 2, jobs[k].spawnedAt - 1, jobs[k].spawnedAt} :
                f >= 0 /\ f % table[jobs[k].task].at = 0

(* specs/06-notes-tasks-scheduler.md: "NAO PODE: rodar tarefas sobrepostas  *)
(* do mesmo id (lock/skip se a anterior ainda roda)".                       *)
NoOverlap ==
    \A i, k \in 1..Len(jobs) :
        (i # k /\ jobs[i].task = jobs[k].task)
          => ~(jobs[i].state = "running" /\ jobs[k].state = "running")
=============================================================================
