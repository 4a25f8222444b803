---------------------------- MODULE JobRegistry -----------------------------
(***************************************************************************)
(* JobRegistry of crates/daemon/src/jobs.rs: every job is a tokio task     *)
(* that waits for a permit of one semaphore, checks its cancellation       *)
(* token, publishes Running, runs its work, publishes the outcome, prunes  *)
(* the finished jobs that are old enough and gives the permit back.        *)
(* Clients cancel jobs and watch them over SSE while all of this goes on.  *)
(*                                                                         *)
(* A step of the model ends where the code reaches an .await or drops a    *)
(* lock, so that every interleaving of tasks and HTTP handlers is there.   *)
(* What the work does is not modelled: it returns Ok or Err, or panics.    *)
(***************************************************************************)
EXTENDS Integers, Sequences, FiniteSets

CONSTANTS
    Jobs,           \* the jobs that may ever be spawned (uuids)
    MaxConcurrent   \* JobRegistry::new(max_concurrent), after max(1)

ASSUME MaxConcurrentAssumption == MaxConcurrent \in Nat \ {0}
ASSUME JobsAssumption == IsFiniteSet(Jobs)

VARIABLES
    registry,   \* keys of `inner`
    status,     \* status[j]: JobRecord::status
    token,      \* token[j]: j's CancellationToken is cancelled
    task,       \* task[j]: how far j's tokio task is
    outcome,    \* outcome[j]: what `work(ctx).await` returned, local to the task
    permits,    \* permits left in the semaphore
    waiters,    \* tasks queued on the semaphore; tokio serves them in order
    aged,       \* jobs whose finished_at is at least max_age ago
    canceller,  \* canceller[j]: the client cancelling j
    watcher     \* watcher[j]: the SSE client watching j

vars == <<registry, status, token, task, outcome, permits, waiters, aged,
          canceller, watcher>>

JobStatus == {"Queued", "Running", "Done", "Error", "Cancelled"}
Terminal  == {"Done", "Error", "Cancelled"}

\* "spawned": before the first poll.  "admitted": holds a permit, token not
\* read yet.  "starting": token read and not cancelled, Running not published.
\* "returned": the work returned, its outcome is not published.
TaskState == {"none", "spawned", "waiting", "admitted", "starting", "working",
              "returned", "pruning", "ended", "panicked"}

Holding == {"admitted", "starting", "working", "returned", "pruning"}

\* The tasks that hold a permit.
Holders == {j \in Jobs : task[j] \in Holding}

\* The record's status at creation stands for "no record" before Spawn.
Init == /\ registry  = {}
        /\ status    = [j \in Jobs |-> "Queued"]
        /\ token     = [j \in Jobs |-> FALSE]
        /\ task      = [j \in Jobs |-> "none"]
        /\ outcome   = [j \in Jobs |-> "none"]
        /\ permits   = MaxConcurrent
        /\ waiters   = <<>>
        /\ aged      = {}
        /\ canceller = [j \in Jobs |-> "idle"]
        /\ watcher   = [j \in Jobs |-> "none"]

-----------------------------------------------------------------------------
(* `cancel` keeps the read lock of `inner` from the signal to its reply, so *)
(* nobody can take the write lock meanwhile.                                *)
InnerWritable == \A j \in Jobs : canceller[j] # "signalled"

Goto(j, from, to) == task[j] = from /\ task' = [task EXCEPT ![j] = to]

\* spawn(): the record is registered, then the task is handed to tokio.
Spawn(j) == /\ InnerWritable
            /\ Goto(j, "none", "spawned")
            /\ registry' = registry \cup {j}
            /\ status' = [status EXCEPT ![j] = "Queued"]
            /\ UNCHANGED <<token, outcome, permits, waiters, aged, canceller,
                           watcher>>

\* The task's first poll: it queues on the semaphore.
Enqueue(j) == /\ Goto(j, "spawned", "waiting")
              /\ waiters' = Append(waiters, j)
              /\ UNCHANGED <<registry, status, token, outcome, permits, aged,
                             canceller, watcher>>

\* Mutant: a task gets past the semaphore without a permit.
Admit_NoPermit(j) == /\ waiters # <<>> /\ Head(waiters) = j
                     /\ Goto(j, "waiting", "admitted")
                     /\ waiters' = Tail(waiters)
                     /\ permits' = permits - 1
                     /\ UNCHANGED <<registry, status, token, outcome, aged,
                                    canceller, watcher>>

\* sem.acquire() returns.
Admit(j) == /\ permits > 0 /\ waiters # <<>> /\ Head(waiters) = j
            /\ Goto(j, "waiting", "admitted")
            /\ waiters' = Tail(waiters)
            /\ permits' = permits - 1
            /\ UNCHANGED <<registry, status, token, outcome, aged, canceller,
                           watcher>>

\* Mutant: the early return forgets the permit.
CancelledBeforeStart_Leak(j) ==
    /\ token[j]
    /\ Goto(j, "admitted", "ended")
    /\ status' = [status EXCEPT ![j] = "Cancelled"]
    /\ UNCHANGED <<registry, token, outcome, permits, waiters, aged, canceller,
                   watcher>>

\* The token was cancelled while the job was queued: the early return, which
\* publishes no event and does not prune.
CancelledBeforeStart(j) ==
    /\ token[j]
    /\ Goto(j, "admitted", "ended")
    /\ status' = [status EXCEPT ![j] = "Cancelled"]
    /\ permits' = permits + 1
    /\ UNCHANGED <<registry, token, outcome, waiters, aged, canceller, watcher>>

\* Mutant: the token is not looked at before the start.
PassTokenCheck_Blind(j) ==
    /\ Goto(j, "admitted", "starting")
    /\ UNCHANGED <<registry, status, token, outcome, permits, waiters, aged,
                   canceller, watcher>>

\* The token is read before the await on the record's lock ...
PassTokenCheck(j) ==
    /\ ~token[j]
    /\ Goto(j, "admitted", "starting")
    /\ UNCHANGED <<registry, status, token, outcome, permits, waiters, aged,
                   canceller, watcher>>

\* ... and Running is published after it.
MarkRunning(j) ==
    /\ Goto(j, "starting", "working")
    /\ status' = [status EXCEPT ![j] = "Running"]
    /\ UNCHANGED <<registry, token, outcome, permits, waiters, aged, canceller,
                   watcher>>

\* The work returns; it may or may not have looked at its token.
WorkReturns(j) ==
    /\ Goto(j, "working", "returned")
    /\ \E o \in {"ok", "err"} : outcome' = [outcome EXCEPT ![j] = o]
    /\ UNCHANGED <<registry, status, token, permits, waiters, aged, canceller,
                   watcher>>

\* The work panics: unwinding gives the permit back and nothing else happens.
WorkPanics(j) ==
    /\ Goto(j, "working", "panicked")
    /\ permits' = permits + 1
    /\ UNCHANGED <<registry, status, token, outcome, waiters, aged, canceller,
                   watcher>>

\* Mutant: the error branch does not look at the token.
FinalStatus_NoToken(j) == IF outcome[j] = "ok" THEN "Done" ELSE "Error"

FinalStatus(j) == IF outcome[j] = "ok" THEN "Done"
                  ELSE IF token[j] THEN "Cancelled" ELSE "Error"

\* Mutant: only a successful end is announced.
TellWatcher_OkOnly(j) == IF watcher[j] = "open" /\ outcome[j] = "ok"
                         THEN [watcher EXCEPT ![j] = "told"] ELSE watcher

\* Who subscribed hears of the end; the event goes out under the record's lock.
TellWatcher(j) == IF watcher[j] = "open" THEN [watcher EXCEPT ![j] = "told"]
                                         ELSE watcher

\* The outcome is published; an error counts as cancelled if the token is
\* cancelled by now, whatever the reason of the error was.
RecordOutcome(j) ==
    /\ Goto(j, "returned", "pruning")
    /\ status' = [status EXCEPT ![j] = FinalStatus(j)]
    /\ watcher' = TellWatcher(j)
    /\ UNCHANGED <<registry, token, outcome, permits, waiters, aged, canceller>>

\* Mutant: a record without finished_at counts as old.
Prunable_Unfinished == {j \in registry : status[j] \in Terminal => j \in aged}

Prunable == {j \in registry : status[j] \in Terminal /\ j \in aged}

\* prune(3600 s), then the task ends and drops its permit.
PruneAndEnd(j) ==
    /\ InnerWritable
    /\ Goto(j, "pruning", "ended")
    /\ registry' = registry \ Prunable
    /\ permits' = permits + 1
    /\ UNCHANGED <<status, token, outcome, waiters, aged, canceller, watcher>>

-----------------------------------------------------------------------------
\* cancel(): the token first, under the read lock of `inner` ...
CancelSignal(j) ==
    /\ j \in registry /\ canceller[j] = "idle"
    /\ token' = [token EXCEPT ![j] = TRUE]
    /\ canceller' = [canceller EXCEPT ![j] = "signalled"]
    /\ UNCHANGED <<registry, status, task, outcome, permits, waiters, aged,
                   watcher>>

\* ... then the record: the client learns whether the job was cancellable.
CancelReply(j) ==
    /\ canceller[j] = "signalled"
    /\ canceller' = [canceller EXCEPT ![j] =
           IF status[j] \in {"Queued", "Running"} THEN "acked" ELSE "refused"]
    /\ UNCHANGED <<registry, status, token, task, outcome, permits, waiters,
                   aged, watcher>>

\* job_stream: a client subscribes to the job's broadcast channel.
Subscribe(j) ==
    /\ j \in registry /\ watcher[j] = "none"
    /\ watcher' = [watcher EXCEPT ![j] = "open"]
    /\ UNCHANGED <<registry, status, token, task, outcome, permits, waiters,
                   aged, canceller>>

\* An hour passes since j finished.
Age(j) == /\ j \in registry \ aged /\ status[j] \in Terminal
          /\ aged' = aged \cup {j}
          /\ UNCHANGED <<registry, status, token, task, outcome, permits,
                         waiters, canceller, watcher>>

-----------------------------------------------------------------------------
\* The steps of j's own task that tokio will take sooner or later.
TaskStep(j) == \/ Enqueue(j) \/ Admit(j) \/ CancelledBeforeStart(j)
               \/ PassTokenCheck(j) \/ MarkRunning(j) \/ RecordOutcome(j)
               \/ PruneAndEnd(j)

WorkEnds(j) == WorkReturns(j) \/ WorkPanics(j)

ClientStep(j) == \/ Spawn(j) \/ CancelSignal(j) \/ CancelReply(j)
                 \/ Subscribe(j)

Next == \E j \in Jobs : TaskStep(j) \/ WorkEnds(j) \/ ClientStep(j) \/ Age(j)

\* tokio polls every ready task, serves the semaphore in order, and the reply
\* of `cancel` only waits for a record lock nobody keeps.
RuntimeFairness == \A j \in Jobs : WF_vars(TaskStep(j)) /\ WF_vars(CancelReply(j))

\* The jobs the daemon spawns are finite (bounded rounds, request timeouts).
WorkFairness == \A j \in Jobs : WF_vars(WorkEnds(j))

Spec == Init /\ [][Next]_vars
FairSpec == Spec /\ RuntimeFairness /\ WorkFairness

-----------------------------------------------------------------------------
TypeOK == /\ registry \subseteq Jobs
          /\ status \in [Jobs -> JobStatus]
          /\ token \in [Jobs -> BOOLEAN]
          /\ task \in [Jobs -> TaskState]
          /\ outcome \in [Jobs -> {"none", "ok", "err"}]
          /\ permits \in 0..MaxConcurrent
          /\ waiters \in Seq(Jobs)
          /\ aged \subseteq Jobs
          /\ canceller \in [Jobs -> {"idle", "signalled", "acked", "refused"}]
          /\ watcher \in [Jobs -> {"none", "open", "told"}]

(* No permit is lost or made up on any path out of a job (early return,     *)
(* error, panic), so the cap holds and never shrinks: jobs.rs L86, L146.    *)
PermitsConserved == permits + Cardinality(Holders) = MaxConcurrent

(* A client whose cancel request was answered with the record (HTTP 200)    *)
(* never sees the job end in Error: the token is set before the record is   *)
(* read, and the task reads the token when it publishes (L177-210, L237).   *)
AckedNeverError == \A j \in Jobs : canceller[j] = "acked" => status[j] # "Error"

(* A cancellation that arrives while the job still waits for its permit     *)
(* keeps the work from ever running (L149-155).                             *)
CancelledInQueueNeverRuns ==
    \A j \in Jobs : [](token[j] /\ task[j] \in {"spawned", "waiting"}
                         => [](task[j] # "working"))

(* Every spawned job reaches a terminal status, unless its work panicked:   *)
(* no job starves in the semaphore's queue.                                 *)
EveryJobSettles ==
    \A j \in Jobs : task[j] = "spawned"
                      ~> (status[j] \in Terminal \/ task[j] = "panicked")

(* A client that subscribes before the outcome is published hears of it.    *)
WatcherHearsOfEnd ==
    \A j \in Jobs : (watcher[j] = "open" /\ task[j] = "working")
                      ~> (watcher[j] = "told" \/ task[j] = "panicked")

\* The client's view: the abstract promise this module implements.
Lifecycle == INSTANCE JobLifecycle WITH
    view  <- [j \in Jobs |-> IF j \in registry THEN status[j]
                             ELSE IF task[j] = "none" THEN "Absent"
                             ELSE "Forgotten"],
    asked <- {j \in Jobs : token[j]}

(* The registry implements JobLifecycle: statuses only move forward, a      *)
(* terminal status never changes, only terminal jobs are pruned, and        *)
(* Cancelled/Error agree with what the client asked.                        *)
ImplementsLifecycle == Lifecycle!Spec

(* Plan of specs/01-infra-jobs-scheduler-sse.md:79: "cancel (dispara token  *)
(* + marca status)", the acceptance criterion being that no job is orphaned *)
(* by a cancel.  Once a queued job's cancel was answered, it shows.         *)
CancelMarksStatus ==
    \A j \in Jobs : canceller[j] = "acked" => status[j] # "Queued"
=============================================================================
