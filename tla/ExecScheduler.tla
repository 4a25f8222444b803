--------------------------- MODULE ExecScheduler ----------------------------
(***************************************************************************)
(* The exec scheduler of crates/agent-tools/src/scheduler.rs: callers put  *)
(* tasks on an unbounded channel, one dispatcher thread moves them to a    *)
(* priority heap and starts as many as the total limit and the limit of    *)
(* each execution domain allow.  A started task runs on the dispatcher's   *)
(* own single-threaded runtime, answers its caller and then tells the      *)
(* dispatcher, over the same channel, that its slot is free.               *)
(***************************************************************************)
EXTENDS Integers, Sequences, FiniteSets

CONSTANTS
    Tasks,          \* calls of schedule_exec_task
    Domains,        \* ExecutionDomain
    Priorities,     \* ExecutionPriority, as integers: greater is more urgent
    TotalLimit,     \* SchedulerConfig::total_limit
    Limit           \* Limit[d]: SchedulerConfig::limit_for(d)

\* env_limit refuses a limit of zero.
ASSUME LimitsAssumption == /\ TotalLimit \in Nat \ {0}
                           /\ Limit \in [Domains -> Nat \ {0}]
ASSUME TasksAssumption == IsFiniteSet(Tasks)
ASSUME PrioritiesAssumption == Priorities \subseteq Int

VARIABLES
    caller,     \* caller[t]: the future of schedule_exec_task
    domain,     \* domain[t], priority[t], sequence[t]: fields of PendingTask
    priority,
    sequence,
    nextSeq,    \* TaskScheduler::sequence
    channel,    \* the messages sent and not received, in order
    queue,      \* the tasks in the BinaryHeap
    total,      \* ActiveCounts::total
    active,     \* active[d]: the count of domain d
    run,        \* run[t]: the tokio task that runs t
    filling,    \* the dispatcher is in its inner loop, between two recv()s
    earlier     \* earlier[t]: history, the calls of its domain sent before t was

vars == <<caller, domain, priority, sequence, nextSeq, channel, queue, total,
          active, run, filling, earlier>>

\* "gone": the caller's future was dropped.  "failed": reply_rx reported that
\* the reply's sender was dropped.
CallerState == {"new", "numbered", "waiting", "answered", "failed", "gone"}
RunState == {"idle", "running", "replied", "completed", "freed", "panicked"}

Message == [kind : {"Enqueue", "Completed"}, task : Tasks]

Init == /\ caller   = [t \in Tasks |-> "new"]
        /\ domain   \in [Tasks -> Domains]
        /\ priority \in [Tasks -> Priorities]
        /\ sequence = [t \in Tasks |-> 0]
        /\ nextSeq  = 1
        /\ channel  = <<>>
        /\ queue    = {}
        /\ total    = 0
        /\ active   = [d \in Domains |-> 0]
        /\ run      = [t \in Tasks |-> "idle"]
        /\ filling  = FALSE
        /\ earlier  = [t \in Tasks |-> {}]

call == <<domain, priority, sequence, nextSeq, earlier>>
dispatcher == <<queue, total, active, filling>>

-----------------------------------------------------------------------------
\* sequence.fetch_add: the number is taken before the message is sent ...
TakeNumber(t) == /\ caller[t] = "new"
                 /\ caller' = [caller EXCEPT ![t] = "numbered"]
                 /\ sequence' = [sequence EXCEPT ![t] = nextSeq]
                 /\ nextSeq' = nextSeq + 1
                 /\ UNCHANGED <<domain, priority, channel, dispatcher, run, earlier>>

Sent(t) == caller[t] \notin {"new", "numbered"}

\* ... so messages may arrive in another order than their numbers.
SendEnqueue(t) == /\ caller[t] = "numbered"
                  /\ caller' = [caller EXCEPT ![t] = "waiting"]
                  /\ channel' = Append(channel, [kind |-> "Enqueue", task |-> t])
                  /\ earlier' = [earlier EXCEPT ![t] = {u \in Tasks : Sent(u) /\ domain[u] = domain[t]}]
                  /\ UNCHANGED <<domain, priority, sequence, nextSeq, dispatcher, run>>

\* The caller is dropped while it waits (request cancelled, turn timed out);
\* nothing tells the scheduler.
CallerGone(t) == /\ caller[t] = "waiting"
                 /\ caller' = [caller EXCEPT ![t] = "gone"]
                 /\ UNCHANGED <<call, channel, dispatcher, run>>

-----------------------------------------------------------------------------
\* Mutant: the sequence is compared the wrong way round.
Before_Lifo(t, u) == \/ priority[t] > priority[u]
                     \/ priority[t] = priority[u] /\ sequence[t] > sequence[u]

\* Ord for PendingTask: the greater priority first, then the smaller sequence.
Before(t, u) == \/ priority[t] > priority[u]
                \/ priority[t] = priority[u] /\ sequence[t] < sequence[u]

\* Mutant: the domain's limit is off by one.
HasRoom_OffByOne(d) == active[d] <= Limit[d]

HasRoom(d) == active[d] < Limit[d]

Runnable == {t \in queue : HasRoom(domain[t])}

\* Mutant: only the top of the heap is considered.
IsNext_TopOnly(t) == t \in Runnable /\ \A u \in queue \ {t} : Before(t, u)

\* take_next_runnable: the first in heap order whose domain has room; the
\* tasks popped on the way are pushed back.
IsNext(t) == t \in Runnable /\ \A u \in Runnable \ {t} : Before(t, u)

\* saturating_sub(1)
MinusOne(n) == IF n > 0 THEN n - 1 ELSE 0

\* rx.recv() yields the next message.
ReceiveEnqueue == /\ ~filling /\ channel # <<>> /\ Head(channel).kind = "Enqueue"
                  /\ queue' = queue \cup {Head(channel).task}
                  /\ channel' = Tail(channel)
                  /\ filling' = TRUE
                  /\ UNCHANGED <<caller, call, total, active, run>>

\* Mutant: the completion of a task frees its domain but not the total.
ReceiveCompleted_DomainOnly ==
    /\ ~filling /\ channel # <<>> /\ Head(channel).kind = "Completed"
    /\ LET t == Head(channel).task IN
         /\ run' = [run EXCEPT ![t] = "freed"]
         /\ active' = [active EXCEPT ![domain[t]] = MinusOne(@)]
    /\ channel' = Tail(channel)
    /\ filling' = TRUE
    /\ UNCHANGED <<caller, call, queue, total>>

\* The message carries the task's domain; the model keeps the task to tell
\* which slot it is.
ReceiveCompleted ==
    /\ ~filling /\ channel # <<>> /\ Head(channel).kind = "Completed"
    /\ LET t == Head(channel).task IN
         /\ run' = [run EXCEPT ![t] = "freed"]
         /\ active' = [active EXCEPT ![domain[t]] = MinusOne(@)]
    /\ total' = MinusOne(total)
    /\ channel' = Tail(channel)
    /\ filling' = TRUE
    /\ UNCHANGED <<caller, call, queue>>

\* Mutant: the slot is not counted against the domain.
Start_Uncounted(t) == /\ filling /\ total < TotalLimit /\ IsNext(t)
                      /\ queue' = queue \ {t}
                      /\ total' = total + 1
                      /\ run' = [run EXCEPT ![t] = "running"]
                      /\ UNCHANGED <<caller, call, channel, active, filling>>

\* One turn of `while active.total < total_limit`.
Start(t) == /\ filling /\ total < TotalLimit /\ IsNext(t)
            /\ queue' = queue \ {t}
            /\ total' = total + 1
            /\ active' = [active EXCEPT ![domain[t]] = @ + 1]
            /\ run' = [run EXCEPT ![t] = "running"]
            /\ UNCHANGED <<caller, call, channel, filling>>

\* Nothing more to start: back to recv().
Filled == /\ filling
          /\ total >= TotalLimit \/ \A t \in queue : ~IsNext(t)
          /\ filling' = FALSE
          /\ UNCHANGED <<caller, call, channel, queue, total, active, run>>

-----------------------------------------------------------------------------
\* Started tasks share the dispatcher's thread: they move only at its recv().

\* The task's result, Ok or Err, goes to the caller if it still listens.
Reply(t) == /\ ~filling /\ run[t] = "running"
            /\ run' = [run EXCEPT ![t] = "replied"]
            /\ caller' = IF caller[t] = "waiting"
                         THEN [caller EXCEPT ![t] = "answered"] ELSE caller
            /\ UNCHANGED <<call, channel, dispatcher>>

\* Then the slot is returned.
SendCompleted(t) == /\ ~filling /\ run[t] = "replied"
                    /\ run' = [run EXCEPT ![t] = "completed"]
                    /\ channel' = Append(channel, [kind |-> "Completed", task |-> t])
                    /\ UNCHANGED <<caller, call, dispatcher>>

\* A panic drops the reply sender and skips the completion message.
TaskPanics(t) == /\ ~filling /\ run[t] = "running"
                 /\ run' = [run EXCEPT ![t] = "panicked"]
                 /\ caller' = IF caller[t] = "waiting"
                              THEN [caller EXCEPT ![t] = "failed"] ELSE caller
                 /\ UNCHANGED <<call, channel, dispatcher>>

-----------------------------------------------------------------------------
Dispatch == ReceiveEnqueue \/ ReceiveCompleted \/ Filled \/ \E t \in Tasks : Start(t)

Next == \/ Dispatch
        \/ \E t \in Tasks : \/ TakeNumber(t) \/ SendEnqueue(t) \/ CallerGone(t)
                            \/ Reply(t) \/ SendCompleted(t) \/ TaskPanics(t)

\* The dispatcher thread, the callers already under way and the started tasks
\* (bounded by the exec timeout) make progress; nobody has to call.
Fairness == /\ WF_vars(Dispatch)
            /\ \A t \in Tasks : /\ WF_vars(SendEnqueue(t))
                                /\ WF_vars(Reply(t))
                                /\ WF_vars(SendCompleted(t))

Spec == Init /\ [][Next]_vars
FairSpec == Spec /\ Fairness

-----------------------------------------------------------------------------
TypeOK == /\ caller \in [Tasks -> CallerState]
          /\ domain \in [Tasks -> Domains]
          /\ priority \in [Tasks -> Priorities]
          /\ sequence \in [Tasks -> Nat]
          /\ nextSeq \in Nat
          /\ channel \in Seq(Message)
          /\ queue \subseteq Tasks
          /\ total \in 0..TotalLimit
          /\ active \in [Domains -> Nat]
          /\ \A d \in Domains : active[d] <= Limit[d]
          /\ run \in [Tasks -> RunState]
          /\ filling \in BOOLEAN
          /\ earlier \in [Tasks -> SUBSET Tasks]

\* The tasks whose slot is taken: a completed one keeps it until the
\* dispatcher reads its message, a panicked one for good.
Occupied == {t \in Tasks : run[t] \in {"running", "replied", "completed", "panicked"}}
OccupiedIn(d) == {t \in Occupied : domain[t] = d}
RunningIn(d) == {t \in Tasks : run[t] = "running" /\ domain[t] = d}

(* The dispatcher's counters are exactly the slots taken, so saturating_sub *)
(* never hides an underflow (L102-110) and a count never goes stale.        *)
CountsExact == /\ total = Cardinality(Occupied)
               /\ \A d \in Domains : active[d] = Cardinality(OccupiedIn(d))

(* Never more tasks really running than the limits of SchedulerConfig allow *)
(* (L54-81), although a slot is freed by a message and not by the task.     *)
LimitsRespected ==
    /\ Cardinality({t \in Tasks : run[t] = "running"}) <= TotalLimit
    /\ \A d \in Domains : Cardinality(RunningIn(d)) <= Limit[d]

(* The dispatcher never goes back to recv() with a slot free and a task     *)
(* that could use it: a domain at its limit holds nobody else up (L233-254).*)
NoIdleCapacity == ~filling => total >= TotalLimit \/ Runnable = {}

(* A number is taken before its message is sent (L176, L183), so the heap's *)
(* order and the channel's may differ.  Where they agree nobody passes: a   *)
(* call sent later than another of its domain, and less urgent or of the    *)
(* same priority and a greater number, is started only after it, whatever   *)
(* was received, started, held back or freed in between.                    *)
Behind(t, u) == \/ priority[t] < priority[u]
                \/ priority[t] = priority[u] /\ sequence[t] > sequence[u]

NoOvertaking ==
    \A t \in Tasks : run[t] # "idle" =>
        \A u \in earlier[t] : Behind(t, u) => run[u] # "idle"

(* As long as no task panics, every caller that keeps waiting is answered.  *)
(* A panicked task keeps its slot, and a domain's slots may all be lost.    *)
EveryCallAnswered ==
    \A t \in Tasks : caller[t] = "numbered" ~>
        \/ caller[t] \in {"answered", "gone"}
        \/ \E u \in Tasks : run[u] = "panicked"
=============================================================================
