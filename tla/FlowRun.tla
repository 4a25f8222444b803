------------------------------ MODULE FlowRun -------------------------------
(***************************************************************************)
(* FlowEngine::run of crates/flow/src/engine.rs: one run of one flow.  The *)
(* nodes are executed level by level; within a level up to max_parallel    *)
(* nodes run at once, each with its retries, and a level ends when all of  *)
(* its nodes have.  A node whose incoming edges are all inactive is        *)
(* skipped, which is how an `if` cuts a branch.  One deadline bounds it    *)
(* all.                                                                    *)
(*                                                                         *)
(* Items are abstracted to the ports a node's output has: an edge carries  *)
(* items exactly when its source succeeded with that port.                 *)
(***************************************************************************)
EXTENDS Integers, Sequences, FiniteSets

CONSTANTS
    Nodes,          \* indices in flow.nodes: integers
    Flows,          \* the flows considered, see FlowShape
    MaxParallel     \* settings.effective_max_parallel(): 1..32

\* edges: <<from, port, to>>.  levels: FlowGraph's, each node in one of them and
\* after what it depends on; a graph that has none is never run.  kind: a flow.if
\* has ports "true" and "false", any other node "main" and always outputs it.
\* attempts[n]: 1..10.
FlowShape(f) ==
    /\ f.edges \subseteq Nodes \X {"main", "true", "false"} \X Nodes
    /\ f.levels \in Seq(SUBSET Nodes)
    /\ \A n \in Nodes : \E k \in 1..Len(f.levels) : n \in f.levels[k]
    /\ \A j, k \in 1..Len(f.levels) : j # k => f.levels[j] \cap f.levels[k] = {}
    /\ \A e \in f.edges, j, k \in 1..Len(f.levels) : e[1] \in f.levels[j] /\ e[3] \in f.levels[k] => j < k
    /\ f.kind \in [Nodes -> {"plain", "if"}]
    /\ f.disabled \subseteq Nodes
    /\ f.onError \in [Nodes -> {"stop", "continue"}]
    /\ f.attempts \in [Nodes -> Nat \ {0}]
    /\ f.entry \in Nodes

ASSUME NodesAssumption == IsFiniteSet(Nodes) /\ Nodes \subseteq Nat
ASSUME FlowsAssumption == \A f \in Flows : FlowShape(f)
ASSUME MaxParallelAssumption == MaxParallel \in 1..32

VARIABLES
    flow,       \* the flow and the entry node of this run
    expired,    \* Instant::now() >= deadline
    level,      \* the level being run, counted from 0
    phase,      \* "decide" at the top of the loop, "execute", or "finished"
    nodeStatus, \* NodeRun::status
    outputs,    \* outputs[n]: the ports of n's output, of use once n succeeded
    runStatus,  \* run_status
    step,       \* step[n]: where execute_node(n) is
    attempts    \* attempts[n]: attempts made

vars == <<flow, expired, level, phase, nodeStatus, outputs, runStatus, step, attempts>>

NodeStatus == {"Pending", "Success", "Failed", "Skipped", "Disabled"}

\* "queued" in the stream, "trying" at the top of the attempt loop,
\* "executing" inside the executor, "sleeping" between attempts; then the
\* NodeAttempt: "ok", "failed" or "timedOut".
Steps == {"idle", "queued", "trying", "executing", "sleeping", "ok", "failed", "timedOut"}
InFlight == {n \in Nodes : step[n] \in {"trying", "executing", "sleeping"}}
Queued == {n \in Nodes : step[n] = "queued"}

Pred(n) == {m \in Nodes : \E e \in flow.edges : e[1] = m /\ e[3] = n}
Succ(n) == {m \in Nodes : \E e \in flow.edges : e[1] = n /\ e[3] = m}

Level(k) == flow.levels[k + 1]
LevelCount == Len(flow.levels)

\* reachable_from(entry)
Scope == LET Grow(S) == S \cup UNION {Succ(n) : n \in S}
             reach[k \in 0..Cardinality(Nodes)] ==
                 IF k = 0 THEN {flow.entry} ELSE Grow(reach[k - 1])
         IN  reach[Cardinality(Nodes)]

Init == /\ flow \in Flows
        /\ expired = FALSE
        /\ level = 0
        /\ phase = "decide"
        /\ nodeStatus = [n \in Nodes |-> "Pending"]
        /\ outputs = [n \in Nodes |-> {}]
        /\ runStatus = "Success"
        /\ step = [n \in Nodes |-> "idle"]
        /\ attempts = [n \in Nodes |-> 0]

Succeeded(n) == \/ nodeStatus[n] \in {"Success", "Disabled"}
                \/ nodeStatus[n] = "Failed" /\ step[n] = "failed"
                     /\ flow.onError[n] = "continue"

-----------------------------------------------------------------------------
\* Mutant: an edge is active as soon as its source succeeded, whatever the port.
ActiveInto_AnyPort(n) == \E e \in flow.edges : e[3] = n /\ Succeeded(e[1])

\* collect_inputs: some incoming edge carries items.
ActiveInto(n) == \E e \in flow.edges : e[3] = n /\ Succeeded(e[1]) /\ e[2] \in outputs[e[1]]

Reached(n) == n \in Scope /\ (n = flow.entry \/ ActiveInto(n))

\* The deadline passed before the level: the rest of the flow is left Pending.
GiveUp == /\ phase = "decide" /\ level < LevelCount /\ expired
          /\ runStatus' = "TimedOut"
          /\ phase' = "finished"
          /\ UNCHANGED <<flow, expired, level, nodeStatus, outputs, step, attempts>>

\* Every node of the level is skipped, passed through when it is disabled (its
\* items leave on port main), or handed to the stream.
Decide ==
    /\ phase = "decide" /\ level < LevelCount /\ ~expired
    /\ LET here == Level(level)
           off  == {n \in here : Reached(n) /\ n \in flow.disabled}
           on   == {n \in here : Reached(n) /\ n \notin flow.disabled}
       IN  /\ nodeStatus' = [n \in Nodes |-> IF n \in here /\ ~Reached(n) THEN "Skipped"
                                             ELSE IF n \in off THEN "Disabled"
                                             ELSE nodeStatus[n]]
           /\ outputs' = [n \in Nodes |-> IF n \in off THEN {"main"} ELSE outputs[n]]
           /\ step' = [n \in Nodes |-> IF n \in on THEN "queued" ELSE step[n]]
           /\ phase' = IF on = {} THEN "decide" ELSE "execute"
           /\ level' = IF on = {} THEN level + 1 ELSE level
    /\ UNCHANGED <<flow, expired, runStatus, attempts>>

\* All levels are done.
Finish == /\ phase = "decide" /\ level = LevelCount
          /\ phase' = "finished"
          /\ UNCHANGED <<flow, expired, level, nodeStatus, outputs, runStatus, step, attempts>>

-----------------------------------------------------------------------------
nodeUnchanged == <<flow, expired, level, phase, nodeStatus, outputs, runStatus>>
Move(n, from, to) == step[n] = from /\ step' = [step EXCEPT ![n] = to]

\* Mutant: the stream does not bound the nodes in flight.
Begin_Unbounded(n) == /\ phase = "execute"
                      /\ \A m \in Queued : n <= m
                      /\ Move(n, "queued", "trying")
                      /\ UNCHANGED <<nodeUnchanged, attempts>>

\* buffer_unordered polls the next node of the level when it has room.
Begin(n) == /\ phase = "execute"
            /\ Cardinality(InFlight) < MaxParallel
            /\ \A m \in Queued : n <= m
            /\ Move(n, "queued", "trying")
            /\ UNCHANGED <<nodeUnchanged, attempts>>

\* The top of the attempt loop, before the deadline ...
Attempt(n) == /\ attempts[n] < flow.attempts[n] /\ ~expired
              /\ Move(n, "trying", "executing")
              /\ attempts' = [attempts EXCEPT ![n] = @ + 1]
              /\ UNCHANGED nodeUnchanged

\* ... or after it, when no attempt is made any more.
TooLate(n) == /\ attempts[n] < flow.attempts[n] /\ expired
              /\ Move(n, "trying", "timedOut")
              /\ UNCHANGED <<nodeUnchanged, attempts>>

\* The ports of a successful output: an `if` outputs a port only when an item
\* took it, and always has an item; any other node outputs main.
OutputsOf(n) == IF flow.kind[n] = "if" THEN (SUBSET {"true", "false"}) \ {{}} ELSE {{"main"}}

ExecuteOk(n) == /\ Move(n, "executing", "ok")
                /\ \E ports \in OutputsOf(n) : outputs' = [outputs EXCEPT ![n] = ports]
                /\ UNCHANGED <<flow, expired, level, phase, nodeStatus, runStatus, attempts>>

\* An error is retried after the delay of the retry policy: none, or a sleep.
ExecuteErr(n) == /\ \/ attempts[n] = flow.attempts[n] /\ Move(n, "executing", "failed")
                    \/ attempts[n] < flow.attempts[n] /\ Move(n, "executing", "sleeping")
                    \/ attempts[n] < flow.attempts[n] /\ Move(n, "executing", "trying")
                 /\ UNCHANGED <<nodeUnchanged, attempts>>

Awake(n) == Move(n, "sleeping", "trying") /\ UNCHANGED <<nodeUnchanged, attempts>>

\* Mutant: only the delay is under the deadline, not the executor.
CutOff_SleepOnly(n) == /\ expired
                       /\ Move(n, "sleeping", "timedOut")
                       /\ UNCHANGED <<nodeUnchanged, attempts>>

\* timeout_at(deadline) around the executor, and around the delay.
CutOff(n) == /\ expired
             /\ Move(n, "executing", "timedOut") \/ Move(n, "sleeping", "timedOut")
             /\ UNCHANGED <<nodeUnchanged, attempts>>

-----------------------------------------------------------------------------
LevelResults == {n \in Level(level) : step[n] \in {"ok", "failed", "timedOut"}}
TimedOutNodes == {n \in LevelResults : step[n] = "timedOut"}
StopNodes == {n \in LevelResults : step[n] = "failed" /\ flow.onError[n] = "stop"}

Stops == TimedOutNodes # {} \/ StopNodes # {}

\* Mutant: a failed node overrides a timed-out one.
NextRunStatus_FailedFirst == IF StopNodes # {} THEN "Failed"
                             ELSE IF TimedOutNodes # {} THEN "TimedOut" ELSE runStatus

\* A timeout wins whatever the order the results came in: Failed is only set
\* over Success, TimedOut over anything.
NextRunStatus == IF TimedOutNodes # {} THEN "TimedOut"
                 ELSE IF StopNodes # {} THEN "Failed" ELSE runStatus

\* Mutant: the first result ends the level.
Conclude_Eager ==
    /\ phase = "execute" /\ LevelResults # {}
    /\ nodeStatus' = [n \in Nodes |-> IF n \notin LevelResults THEN nodeStatus[n]
                                      ELSE IF step[n] = "ok" THEN "Success" ELSE "Failed"]
    /\ runStatus' = NextRunStatus
    /\ phase' = IF Stops THEN "finished" ELSE "decide"
    /\ level' = IF Stops THEN level ELSE level + 1
    /\ UNCHANGED <<flow, expired, outputs, step, attempts>>

\* collect() returned: the results of the level are recorded.
Conclude ==
    /\ phase = "execute" /\ Queued = {} /\ InFlight = {}
    /\ nodeStatus' = [n \in Nodes |-> IF n \notin LevelResults THEN nodeStatus[n]
                                      ELSE IF step[n] = "ok" THEN "Success" ELSE "Failed"]
    /\ outputs' = [n \in Nodes |->
           IF n \in LevelResults /\ step[n] = "failed" /\ flow.onError[n] = "continue"
           THEN {"main"} ELSE outputs[n]]
    /\ runStatus' = NextRunStatus
    /\ phase' = IF Stops THEN "finished" ELSE "decide"
    /\ level' = IF Stops THEN level ELSE level + 1
    /\ UNCHANGED <<flow, expired, step, attempts>>

\* The deadline passes, at any moment of the run.
Expire == /\ phase # "finished" /\ ~expired
          /\ expired' = TRUE
          /\ UNCHANGED <<flow, level, phase, nodeStatus, outputs, runStatus, step, attempts>>

-----------------------------------------------------------------------------
NodeStep(n) == \/ Begin(n) \/ Attempt(n) \/ TooLate(n) \/ ExecuteOk(n)
               \/ ExecuteErr(n) \/ Awake(n) \/ CutOff(n)

Next == \/ GiveUp \/ Decide \/ Finish \/ Conclude \/ Expire
        \/ \E n \in Nodes : NodeStep(n)

\* The engine and the clock make progress; an executor may hang for ever.
Fairness == /\ WF_vars(GiveUp \/ Decide \/ Finish \/ Conclude)
            /\ WF_vars(Expire)
            /\ \A n \in Nodes : WF_vars(Begin(n) \/ Attempt(n) \/ TooLate(n) \/ CutOff(n))

Spec == Init /\ [][Next]_vars
FairSpec == Spec /\ Fairness

-----------------------------------------------------------------------------
TypeOK == /\ flow \in Flows
          /\ level \in 0..LevelCount
          /\ phase \in {"decide", "execute", "finished"}
          /\ nodeStatus \in [Nodes -> NodeStatus]
          /\ outputs \in [Nodes -> SUBSET {"main", "true", "false"}]
          /\ runStatus \in {"Success", "Failed", "TimedOut"}
          /\ step \in [Nodes -> Steps]
          /\ \A n \in Nodes : attempts[n] \in 0..flow.attempts[n]
          /\ Cardinality(InFlight) <= MaxParallel

(* A node starts only after everything it depends on has settled: a join    *)
(* never misses the items of a slow branch (L156-157, L223-243).            *)
JoinsWait == \A n \in Nodes : step[n] # "idle" =>
                 \A m \in Pred(n) : nodeStatus[m] # "Pending"

(* A node runs only if it is the entry or an edge carries items to it, so a *)
(* branch an `if` did not take never runs (L526-560).                       *)
OnlyTakenBranchesRun ==
    \A n \in Nodes : step[n] # "idle" /\ n # flow.entry =>
        \E e \in flow.edges : /\ e[3] = n
                              /\ nodeStatus[e[1]] \in {"Success", "Failed", "Disabled"}
                              /\ e[2] \in outputs[e[1]]

(* The status of a finished run agrees with those of its nodes: Success     *)
(* means every node settled and no failure was meant to stop the run,       *)
(* TimedOut that the deadline passed, Failed that a node stopped it.        *)
RunStatusIsEarned ==
    phase = "finished" =>
        /\ runStatus = "Success" =>
              \A n \in Nodes : /\ nodeStatus[n] # "Pending"
                               /\ nodeStatus[n] = "Failed" => flow.onError[n] = "continue"
                               /\ step[n] # "timedOut"
        /\ runStatus = "TimedOut" <=>
              expired /\ (\/ \E n \in Nodes : step[n] = "timedOut"
                          \/ level < LevelCount /\ Level(level) \cap
                                {n \in Nodes : step[n] # "idle"} = {})
        /\ runStatus = "Failed" =>
              \E n \in Nodes : nodeStatus[n] = "Failed" /\ flow.onError[n] = "stop"

(* The run ends although every executor may hang: the deadline cuts both    *)
(* the execution and the delay between attempts (L387-421).                 *)
Terminates == <>(phase = "finished")

(* engine.rs L199: "No desligado repassa a entrada, para poder ser          *)
(* desativado temporariamente sem quebrar o resto do fluxo".  In a run that *)
(* succeeded, what follows a disabled node was not skipped.                 *)
DisabledKeepsTheRest ==
    (phase = "finished" /\ runStatus = "Success") =>
        \A n \in Nodes : nodeStatus[n] = "Disabled" =>
            \A m \in Succ(n) : nodeStatus[m] # "Skipped"
=============================================================================
