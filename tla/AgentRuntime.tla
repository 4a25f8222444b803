---------------------------- MODULE AgentRuntime ----------------------------
(***************************************************************************)
(* The runs of one session: execute_agent_request and run_agent_once       *)
(* (crates/daemon/src/agent_api.rs), AgentRuntime::run with the listener   *)
(* that writes the tool events to the session (agent_runtime.rs), the loop *)
(* that emits them on the bus of all (agent_loop.rs).  A client may go away *)
(* at any time (agent_stream): its run is aborted, while the listener is a *)
(* task of its own.                                                        *)
(***************************************************************************)
EXTENDS Integers, Sequences

CONSTANTS
    RunCount,
    Variants(_), \* Variants(r): what the run may be, of "classic", "hermes", "ooda"
    MaxCalls,   \* bound: tool calls of a run
    MaxLoops    \* bound: loops of an OODA run, over its planning ones

Runs == 1..RunCount    \* in the order they begin
VariantNames == {"classic", "hermes", "ooda"}

\* What the instances of this module assume of its parameters.
RunsAssumption == /\ RunCount \in Nat /\ MaxCalls \in Nat /\ MaxLoops \in Nat
                  /\ \A r \in Runs : Variants(r) \subseteq VariantNames

VARIABLES
    run,        \* run[r]: where it is, see Idle
    listener,   \* listener[r]: "none", "on", "off"
    queue,      \* queue[r]: events of the session its listener has not read
    told,       \* told[r]: what the session tells of it, <<kind, number>> in order, until
                \* it is shared: what is then written twice or not at all is not kept
    made,       \* ghost: made[r], what it should tell, until the run is shared
    lagged,     \* ghost: runs whose listener fell behind the bus
    shared      \* ghost: runs that met another run, or a listener left by one

vars == <<run, listener, queue, told, made, lagged, shared>>

Idle == [pc |-> "idle", variant |-> "classic", phase |-> "act",
         calls |-> 0, loops |-> 0, try |-> 1, out |-> "ok"]
Over == {"done", "failed", "dropped"}
At(r, pc) == run[r].pc = pc
Busy(r) == run[r].pc \notin Over \cup {"idle"}
Go(r, pc) == run' = [run EXCEPT ![r].pc = pc]
End(r, pc) == run' = [run EXCEPT ![r] = [Idle EXCEPT !.pc = pc, !.variant = run[r].variant]]

Init == /\ run = [r \in Runs |-> Idle] /\ listener = [r \in Runs |-> "none"]
        /\ queue = [r \in Runs |-> <<>>] /\ told = [r \in Runs |-> <<>>]
        /\ made = [r \in Runs |-> <<>>] /\ lagged = {} /\ shared = {}

Stops(e) == e[1] \in {"end", "lag"}

\* EventBus::emit; what comes after an event that stops a listener is not kept.
Emit(e) == queue' = [r \in Runs |-> IF /\ listener[r] = "on"
                                       /\ \A i \in DOMAIN queue[r] : ~Stops(queue[r][i])
                                    THEN Append(queue[r], e) ELSE queue[r]]
Write(r, kind, n) == told' = [told EXCEPT ![r] = IF r \in shared THEN <<>> ELSE Append(@, <<kind, n>>)]
Note(r, kind, n) == made' = [made EXCEPT ![r] = IF run[r].variant = "classic" \/ r \in shared THEN <<>>
                                                 ELSE Append(@, <<kind, n>>)]

-----------------------------------------------------------------------------
First(v) == IF v = "classic" THEN "loop" ELSE "user"
Opening(v) == IF v = "ooda" THEN "plan" ELSE "act"

Begin(r) ==
    LET met == {q \in Runs : Busy(q) \/ listener[q] = "on"}
    IN  /\ At(r, "idle") /\ \A q \in 1..(r - 1) : ~At(q, "idle")
        /\ \E v \in Variants(r) :
               run' = [run EXCEPT ![r] = [Idle EXCEPT !.pc = First(v), !.variant = v,
                                                      !.phase = Opening(v)]]
        /\ shared' = IF met = {} THEN shared ELSE shared \cup met \cup {r}
        /\ made' = [q \in Runs |-> IF q \in shared' THEN <<>> ELSE made[q]]
        /\ told' = [q \in Runs |-> IF q \in shared' THEN <<>> ELSE told[q]]
        /\ UNCHANGED <<listener, queue, lagged>>

\* The question is written and the listener subscribes before the loop begins.
User(r) ==
    /\ At(r, "user") /\ Go(r, "loop")
    /\ Write(r, "user", 0) /\ Note(r, "user", 0)
    /\ listener' = [listener EXCEPT ![r] = "on"] /\ queue' = [queue EXCEPT ![r] = <<>>]
    /\ UNCHANGED <<lagged, shared>>

\* Where a loop that ends leaves the run: OODA goes on after all but a failed plan.
Return(r, out) ==
    LET i == run[r]
        pc == CASE i.variant = "classic" -> IF out = "ok" THEN "answer" ELSE "retry"
                [] i.variant = "hermes" -> "join"
                [] i.variant = "ooda" /\ (i.phase = "final" \/ (i.phase = "plan" /\ out # "ok")) -> "join"
                [] OTHER -> "decide"
    IN  run' = [run EXCEPT ![r] = [i EXCEPT !.pc = pc, !.out = IF i.phase = "final" THEN "ok" ELSE out]]

\* AgentLoop::run: the model answers, or asks for a tool, or fails, or runs out
\* of iterations; each way out says so on the bus.
Text(r) == /\ At(r, "loop") /\ Return(r, "ok") /\ Emit(<<"end", r, 0>>)
           /\ UNCHANGED <<listener, told, made, lagged, shared>>

Call(r) ==
    /\ At(r, "loop") /\ run[r].phase = "act" /\ run[r].calls < MaxCalls
    /\ LET n == run[r].calls + 1
       IN  /\ run' = [run EXCEPT ![r] = [@ EXCEPT !.pc = "exec", !.calls = n]]
           /\ Emit(<<"call", r, n>>) /\ Note(r, "call", n)
    /\ UNCHANGED <<listener, told, lagged, shared>>

Exec(r) ==
    /\ At(r, "exec") /\ Go(r, "loop")
    /\ \/ Emit(<<"result", r, run[r].calls>>) /\ Note(r, "result", run[r].calls)
       \/ UNCHANGED <<queue, made>>
    /\ UNCHANGED <<listener, told, lagged, shared>>

\* Mutant: running out of iterations is not told to anybody.
Fail_Silent(r) ==
    /\ At(r, "loop")
    /\ \/ Return(r, "provider") /\ Emit(<<"end", r, 0>>)
       \/ Return(r, "iterations") /\ UNCHANGED queue
    /\ UNCHANGED <<listener, told, made, lagged, shared>>

Fail(r) == /\ At(r, "loop") /\ \E out \in {"provider", "iterations"} : Return(r, out)
           /\ Emit(<<"end", r, 0>>)
           /\ UNCHANGED <<listener, told, made, lagged, shared>>

\* OodaController::run between two loops: an empty plan ends it without another.
Decide(r) ==
    /\ At(r, "decide")
    /\ \/ \E p \in {"plan", "act"} :
              /\ run[r].loops < MaxLoops
              /\ run' = [run EXCEPT ![r] = [@ EXCEPT !.pc = "loop", !.phase = p, !.loops = run[r].loops + 1]]
       \/ run' = [run EXCEPT ![r] = [@ EXCEPT !.pc = "loop", !.phase = "final"]]
       \/ run[r].phase = "plan" /\ Go(r, "join")
    /\ UNCHANGED <<listener, queue, told, made, lagged, shared>>

-----------------------------------------------------------------------------
\* Mutant: results are where the listener stops.
Listen_Break(r) ==
    LET e == Head(queue[r])
    IN  /\ listener[r] = "on" /\ queue[r] # <<>> /\ queue' = [queue EXCEPT ![r] = Tail(@)]
        /\ IF e[1] = "call" THEN Write(e[2], e[1], e[3]) ELSE UNCHANGED told
        /\ listener' = IF e[1] = "call" THEN listener ELSE [listener EXCEPT ![r] = "off"]
        /\ UNCHANGED <<run, made, lagged, shared>>

\* The listener writes the tool events of its session, whoever's they are, until
\* a run of the session ends, whichever it is, or it has fallen behind.
Listen(r) ==
    LET e == Head(queue[r])
    IN  /\ listener[r] = "on" /\ queue[r] # <<>> /\ queue' = [queue EXCEPT ![r] = Tail(@)]
        /\ IF Stops(e) THEN UNCHANGED told ELSE Write(e[2], e[1], e[3])
        /\ listener' = IF Stops(e) THEN [listener EXCEPT ![r] = "off"] ELSE listener
        /\ UNCHANGED <<run, made, lagged, shared>>

\* The bus, which other sessions use too, wraps over what the listener has unread.
Lag(r) == /\ listener[r] = "on" /\ Len(queue[r]) > 0 /\ ~Stops(queue[r][1])
          /\ queue' = [queue EXCEPT ![r] = <<<<"lag", r, 0>>>>] /\ lagged' = lagged \cup {r}
          /\ UNCHANGED <<run, listener, told, made, shared>>

\* Mutant: the answer does not wait for the listener.
Join_Not(r) == /\ At(r, "join") /\ Go(r, IF run[r].out = "ok" THEN "answer" ELSE "retry")
               /\ UNCHANGED <<listener, queue, told, made, lagged, shared>>

Join(r) == /\ At(r, "join") /\ listener[r] = "off"
           /\ Go(r, IF run[r].out = "ok" THEN "answer" ELSE "retry")
           /\ UNCHANGED <<listener, queue, told, made, lagged, shared>>

\* A classic run writes question and answer here, and nothing when it fails.
Answer(r) ==
    LET last == (IF run[r].variant = "classic" THEN <<<<"user", 0>>>> ELSE <<>>) \o <<<<"assistant", 0>>>>
    IN  /\ At(r, "answer") /\ End(r, "done")
        /\ told' = [told EXCEPT ![r] = IF r \in shared THEN <<>> ELSE @ \o last]
        /\ made' = [made EXCEPT ![r] = IF r \in shared THEN <<>> ELSE @ \o last]
        /\ UNCHANGED <<listener, queue, lagged, shared>>

\* A provider that fails is replaced once, where that is enabled, from the start.
Retry(r) ==
    /\ At(r, "retry")
    /\ \/ End(r, "failed")
       \/ /\ run[r].out = "provider" /\ run[r].try = 1
          /\ run' = [run EXCEPT ![r] = [@ EXCEPT !.pc = First(run[r].variant), !.try = 2, !.loops = 0,
                                              !.phase = Opening(run[r].variant)]]
    /\ UNCHANGED <<listener, queue, told, made, lagged, shared>>

-----------------------------------------------------------------------------
\* The client goes away: the run is aborted where it waits.
Drop(r) == /\ Busy(r) /\ run[r].pc \notin {"decide", "retry"} /\ End(r, "dropped")
           /\ UNCHANGED <<listener, queue, told, made, lagged, shared>>

-----------------------------------------------------------------------------
Step(r) == User(r) \/ Text(r) \/ Call(r) \/ Exec(r) \/ Fail(r) \/ Decide(r)
           \/ Join(r) \/ Answer(r) \/ Retry(r)
Next == \E r \in Runs : Begin(r) \/ Step(r) \/ Listen(r) \/ Lag(r) \/ Drop(r)

Spec == Init /\ [][Next]_vars
\* Every call of a provider has a timeout, tools and approvals too; tasks are run.
Fairness == \A r \in Runs : WF_vars(Step(r)) /\ WF_vars(Listen(r))
FairSpec == Spec /\ Fairness

-----------------------------------------------------------------------------
Places == Over \cup {"idle", "user", "loop", "exec", "decide", "join", "answer", "retry"}
Event == {"call", "result", "end", "lag"} \X Runs \X Nat
Line == {"user", "call", "result", "assistant"} \X Nat

RunState == [pc : Places, variant : VariantNames, phase : {"plan", "act", "final"}, calls : Nat,
             loops : Nat, try : {1, 2}, out : {"ok", "provider", "iterations"}]

TypeOK ==
    /\ run \in [Runs -> RunState]
    /\ listener \in [Runs -> {"none", "on", "off"}]
    /\ queue \in [Runs -> Seq(Event)]
    /\ told \in [Runs -> Seq(Line)] /\ made \in [Runs -> Seq(Line)]
    /\ lagged \subseteq Runs /\ shared \subseteq Runs

Faithful(r) == run[r].pc \in {"done", "failed"} /\ r \notin shared \cup lagged => told[r] = made[r]

(* The transcript of a run that is over tells what it did: the question,    *)
(* each tool call and result once and in order, and the answer; unless its  *)
(* listener lagged or the session was shared (agent_runtime.rs L417-467).   *)
TranscriptTellsRun == \A r \in Runs : run[r].variant # "ooda" => Faithful(r)

(* "The rest of the flow (session persistence, memory, events) is the       *)
(* same" when OODA drives the loop (agent_runtime.rs L267-269).             *)
OodaTranscriptTellsRun == \A r \in Runs : run[r].variant = "ooda" => Faithful(r)

(* Whatever other runs do, the answer is the last that the session gets of  *)
(* a run: its listener is over when it is written (L286-297).               *)
AnswerComesLast == \A r \in Runs : At(r, "done") => listener[r] # "on"

(* Every run that is not dropped returns: the listener it waits for hears   *)
(* an end on every way out of the loop, if not its own another's.           *)
EveryRunReturns == \A r \in Runs : At(r, "loop") ~> run[r].pc \in Over
=============================================================================
