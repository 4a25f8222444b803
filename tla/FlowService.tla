---------------------------- MODULE FlowService -----------------------------
(***************************************************************************)
(* The flow service of the daemon (crates/daemon/src/flows.rs) over the    *)
(* store of flows and of runs (crates/flow/src/store.rs): requests that    *)
(* save, delete and run flows, webhooks, and FlowScheduler.  A step ends   *)
(* at an await; a flow is saved by one rename (module FlowStore has the    *)
(* steps of a save), a run of the engine is one step that ends in a record *)
(* or in an EngineError (module FlowRun has the steps of a run).           *)
(***************************************************************************)
EXTENDS Integers, Sequences, FiniteSets, SequencesExt

CONSTANTS
    Flows,          \* flow ids
    Defs,           \* the valid definitions clients save: records of DefType
    Occurs(_),      \* Occurs(c): when the cron expression c occurs
    Keep,           \* DEFAULT_RUN_HISTORY
    MaxRuns,        \* bound: runs ever started
    MaxTime,        \* bound: the clock
    MaxRestarts,    \* bound: restarts of the daemon
    None

\* active: the switch of the flow; hook: its webhook's response mode; cron: its
\* schedule; keep: settings.save_runs.
DefType == [active : BOOLEAN, hook : {"none", "immediate", "last_node"}, cron : STRING,
            keep : BOOLEAN]

\* What the instances of this module assume.
KeepAssumption == /\ Keep \in Nat \ {0} /\ MaxRuns \in Nat /\ MaxTime \in Nat /\ MaxRestarts \in Nat
                  /\ IsFiniteSet(Flows) /\ Defs \subseteq DefType /\ None \notin Defs
                  /\ \A d \in Defs : Occurs(d.cron) \subseteq Int

VARIABLES
    flows,      \* flows[f]: the definition in <f>.json, or None
    history,    \* the runs that have a file in flow-runs/
    run,        \* run[r], for r \in 1..Len(run): an execution and its request
    listed,     \* listed[f]: the runs that delete_runs_of has read of f, or None
    deleting,   \* the flows whose file is gone and whose history is not yet
    seen,       \* the flows this tick of the scheduler has read, or None
    lastFired,  \* FlowScheduler::last_fired
    clock, restarts,
    fireTime,   \* ghost: when f's trigger last fired, -1 for never
    outlived    \* ghost: runs in flight when the history of their flow was listed
                \* for deletion, or begun by a tick that had read it before, or of a
                \* delete that was cut short

scheduler == <<seen, lastFired, fireTime>>
vars == <<flows, history, run, listed, deleting, scheduler, clock, restarts, outlived>>

Runs == 1..Len(run)
Stages == {"running", "unrecorded", "written", "unpruned", "pruning", "done"}
InFlight == {r \in Runs : run[r].stage \in {"running", "written", "pruning"}}
RunsOf(f, rs) == {r \in rs : run[r].flow = f}

Init == /\ flows = [f \in Flows |-> None] /\ history = {} /\ run = <<>>
        /\ listed = [f \in Flows |-> None] /\ deleting = {}
        /\ seen = None /\ lastFired = [f \in Flows |-> None]
        /\ clock = 0 /\ restarts = 0
        /\ fireTime = [f \in Flows |-> -1] /\ outlived = {}

-----------------------------------------------------------------------------
\* POST /flows saves what passes validate(), and nothing else.
SaveFlow(f, d) == /\ flows[f] # d
                  /\ flows' = [flows EXCEPT ![f] = d]
                  /\ UNCHANGED <<history, run, listed, deleting, scheduler, clock, restarts, outlived>>

\* DELETE /flows/{id} (one at a time per flow) removes the file, reads the
\* whole history ...
DeleteFlow(f) == /\ flows[f] # None /\ f \notin deleting
                 /\ flows' = [flows EXCEPT ![f] = None]
                 /\ deleting' = deleting \cup {f}
                 /\ UNCHANGED <<history, run, listed, scheduler, clock, restarts, outlived>>

ListRunsOf(f) == /\ f \in deleting /\ listed[f] = None
                 /\ listed' = [listed EXCEPT ![f] = RunsOf(f, history)]
                 /\ outlived' = outlived \cup RunsOf(f, InFlight)
                 /\ UNCHANGED <<flows, history, run, deleting, scheduler, clock, restarts>>

\* Mutant: the listing is dropped.
RemoveRunsOf_None(f) == /\ f \in deleting /\ listed[f] # None
                        /\ listed' = [listed EXCEPT ![f] = None]
                        /\ deleting' = deleting \ {f}
                        /\ UNCHANGED <<flows, history, run, scheduler, clock, restarts, outlived>>

\* ... and removes what it found there of this flow.
RemoveRunsOf(f) == /\ f \in deleting /\ listed[f] # None
                   /\ history' = history \ listed[f]
                   /\ listed' = [listed EXCEPT ![f] = None]
                   /\ deleting' = deleting \ {f}
                   /\ UNCHANGED <<flows, run, scheduler, clock, restarts, outlived>>

\* The client of the delete goes away before the history is gone.
AbandonDelete(f) == /\ f \in deleting
                    /\ listed' = [listed EXCEPT ![f] = None]
                    /\ deleting' = deleting \ {f}
                    /\ outlived' = outlived \cup RunsOf(f, Runs)
                    /\ UNCHANGED <<flows, history, run, scheduler, clock, restarts>>

-----------------------------------------------------------------------------
\* Flow f is run as definition d, which was loaded just before; "owned": as
\* part of a request, whose client may go away.
Started(f, d, owned) == [flow |-> f, keep |-> d.keep, owned |-> owned, stage |-> "running",
                         stamp |-> 0, listing |-> {}]

\* POST /flows/{id}/run.
RunManually(f) == /\ flows[f] # None /\ Len(run) < MaxRuns
                  /\ run' = Append(run, Started(f, flows[f], TRUE))
                  /\ UNCHANGED <<flows, history, listed, deleting, scheduler, clock, restarts, outlived>>

\* ANY /flows/webhook/{path}, read from an active flow that publishes it; mode
\* "immediate" answers 202 with the id of the run, which runs in the background.
Webhook(f) == /\ flows[f] # None /\ flows[f].active /\ flows[f].hook # "none"
              /\ Len(run) < MaxRuns
              /\ run' = Append(run, Started(f, flows[f], flows[f].hook = "last_node"))
              /\ UNCHANGED <<flows, history, listed, deleting, scheduler, clock, restarts, outlived>>

\* Run r goes from a stage to the next, with the listing it then works on.
Move(r, from, to, l) == /\ run[r].stage = from
                        /\ run' = [run EXCEPT ![r] = [run[r] EXCEPT !.stage = to, !.listing = l]]

\* The runs that wrote a record, and the modification time of the next.
Written == {r \in Runs : run[r].stamp > 0}
Now == Cardinality(Written) + 1

\* engine.run(): a record is written if the flow, as it was loaded, keeps its
\* runs; an EngineError leaves none, and a failed write is only logged.
RunEnds(r) == /\ \/ Move(r, "running", "unrecorded", {}) /\ UNCHANGED history
                 \/ /\ run[r].stage = "running" /\ run[r].keep
                    /\ run' = [run EXCEPT ![r] = [run[r] EXCEPT !.stage = "written", !.stamp = Now]]
                    /\ history' = history \cup {r}
              /\ UNCHANGED <<flows, listed, deleting, scheduler, clock, restarts, outlived>>

\* prune_runs lists the directory ...
ListForPrune(r) == /\ Move(r, "written", "pruning", history)
                   /\ UNCHANGED <<flows, history, listed, deleting, scheduler, clock, restarts, outlived>>

\* Mutant: the newest are the ones skipped over.
Excess_Newest(l) == {r \in l : Cardinality({q \in l : run[q].stamp < run[r].stamp}) >= Keep}

\* The files beyond the Keep newest.
Excess(l) == {r \in l : Cardinality({q \in l : run[q].stamp > run[r].stamp}) >= Keep}

\* ... and removes the oldest of that listing.
Prune(r) == /\ Move(r, "pruning", "done", {})
            /\ history' = history \ Excess(run[r].listing)
            /\ UNCHANGED <<flows, listed, deleting, scheduler, clock, restarts, outlived>>

\* The client goes away: the request's future is dropped where it waits.
Abandon(r) == /\ run[r].owned
              /\ \/ Move(r, "running", "unrecorded", {})
                 \/ Move(r, "written", "unpruned", {}) \/ Move(r, "pruning", "unpruned", {})
              /\ UNCHANGED <<flows, history, listed, deleting, scheduler, clock, restarts, outlived>>

-----------------------------------------------------------------------------
\* tick() reads all flows ...
TickRead == /\ seen = None
            /\ seen' = flows
            /\ UNCHANGED <<flows, history, run, listed, deleting, lastFired, fireTime, clock,
                           restarts, outlived>>

Scheduled(f) == seen[f] # None /\ seen[f].active /\ seen[f].cron # "none"

\* Mutant: a trigger that is seen for the first time counts from the epoch.
Reference_Epoch(f) == IF lastFired[f] = None THEN -1 ELSE lastFired[f]

\* The first sight of a trigger only marks the clock.
Reference(f) == IF lastFired[f] = None THEN clock ELSE lastFired[f]

\* next_occurrence(cron, reference) <= now
Due(f) == Scheduled(f) /\ \E o \in Occurs(seen[f].cron) : Reference(f) < o /\ o <= clock

\* ... and, with no further await, fires what is due: one run per trigger.
TickFire ==
    /\ seen # None
    /\ \E due \in SetToSeqs({f \in Flows : Due(f)}) :
          /\ Len(run) + Len(due) <= MaxRuns
          /\ run' = run \o [i \in DOMAIN due |-> Started(due[i], seen[due[i]], FALSE)]
          /\ outlived' = outlived \cup {Len(run) + i : i \in {j \in DOMAIN due : flows[due[j]] = None}}
    /\ lastFired' = [f \in Flows |-> IF Due(f) THEN clock
                                     ELSE IF Scheduled(f) THEN Reference(f) ELSE lastFired[f]]
    /\ fireTime' = [f \in Flows |-> IF Due(f) THEN clock ELSE fireTime[f]]
    /\ seen' = None
    /\ UNCHANGED <<flows, history, listed, deleting, clock, restarts>>

Pass == /\ clock < MaxTime /\ clock' = clock + 1
        /\ UNCHANGED <<flows, history, run, listed, deleting, scheduler, restarts, outlived>>

AfterCrash(stage) == CASE stage = "running" -> "unrecorded"
                       [] stage \in {"written", "pruning"} -> "unpruned"
                       [] OTHER -> stage

\* The daemon dies and comes back: the disk is all that stays.
Restart == /\ restarts < MaxRestarts /\ restarts' = restarts + 1
           /\ run' = [r \in Runs |-> [run[r] EXCEPT !.stage = AfterCrash(@), !.listing = {}]]
           /\ listed' = [f \in Flows |-> None] /\ deleting' = {}
           /\ outlived' = outlived \cup UNION {RunsOf(f, Runs) : f \in deleting}
           /\ seen' = None /\ lastFired' = [f \in Flows |-> None]
           /\ UNCHANGED <<flows, history, clock, fireTime>>

-----------------------------------------------------------------------------
RunStep(r) == RunEnds(r) \/ ListForPrune(r) \/ Prune(r)

Next == \/ \E f \in Flows : \/ \E d \in Defs : SaveFlow(f, d)
                            \/ DeleteFlow(f) \/ ListRunsOf(f) \/ RemoveRunsOf(f) \/ AbandonDelete(f)
                            \/ RunManually(f) \/ Webhook(f)
        \/ \E r \in Runs : RunStep(r) \/ Abandon(r)
        \/ TickRead \/ TickFire \/ Pass \/ Restart

Spec == Init /\ [][Next]_vars

-----------------------------------------------------------------------------
RunState == [flow : Flows, keep : BOOLEAN, owned : BOOLEAN, stage : Stages,
             stamp : 0..MaxRuns, listing : SUBSET (1..MaxRuns)]

TypeOK == /\ flows \in [Flows -> Defs \cup {None}]
          /\ Len(run) <= MaxRuns /\ run \in Seq(RunState)
          /\ history \subseteq Written /\ deleting \subseteq Flows /\ outlived \subseteq Runs
          /\ listed \in [Flows -> (SUBSET Written) \cup {None}]
          /\ seen \in [Flows -> Defs \cup {None}] \cup {None}
          /\ lastFired \in [Flows -> (0..MaxTime) \cup {None}]
          /\ fireTime \in [Flows -> -1..MaxTime]
          /\ clock \in 0..MaxTime /\ restarts \in 0..MaxRestarts

\* The runs that wrote and did not prune, or not yet.
Unpruned == {r \in Runs : run[r].stage \in {"written", "pruning", "unpruned"}}

(* However the prunes of several runs overlap, and with requests dropped    *)
(* between the write and the prune, the history never has more runs beyond  *)
(* Keep than there are runs that wrote and did not prune (store.rs L133).   *)
HistoryBounded == Cardinality(history) <= Keep + Cardinality(Unpruned)

(* Whatever stale listings the prunes work on, the record written last goes *)
(* away only with its flow (store.rs L169, L193).                           *)
LatestStays ==
    [][\A r \in history \ history' :
            (\A q \in Runs : run[q].stamp <= run[r].stamp) => run[r].flow \in deleting]_vars

(* A flow that is gone leaves records only of runs that were in flight when *)
(* its history was listed for deletion, unless that delete was cut short    *)
(* (flows.rs L396-407).                                                     *)
OrphansWereInFlight ==
    \A r \in history : flows[run[r].flow] = None /\ run[r].flow \notin deleting => r \in outlived

(* A trigger fires at most once per occurrence of its cron expression,      *)
(* restarts included: none late in bulk when the daemon comes up (L737).    *)
OncePerOccurrence ==
    [][\A f \in Flows : fireTime'[f] # fireTime[f] =>
            \E o \in Occurs(seen[f].cron) : fireTime[f] < o /\ o <= fireTime'[f]]_vars
=============================================================================
