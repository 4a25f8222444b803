-------------------------------- MODULE Ooda --------------------------------
(***************************************************************************)
(* OodaController::run of crates/agent-core/src/ooda.rs: a plan asked of a *)
(* model is executed step by step, revised after a failure, and the run    *)
(* stops for one of the reasons decide() gives.  The model and the tools   *)
(* behind OodaExecutor answer anything, or fail.                           *)
(*                                                                         *)
(* A step's id is its position: parse_plan_steps and apply_revised_plan    *)
(* number the steps from 1.  The run is one task, so every await ends in   *)
(* the action that starts it; only the clock runs beside it.               *)
(***************************************************************************)
EXTENDS Integers, Sequences, SequencesExt

CONSTANTS
    Descriptions,   \* step descriptions, up to the equality of same_step
    MaxCycles, MaxSteps, MaxAttempts, MaxToolCalls, MaxReplans, \* OodaLimits
    CallsPerStep    \* bound: the tool calls one act() can make

\* What the instances of this module assume of the limits.
LimitsAssumption ==
    /\ MaxCycles \in Nat /\ MaxSteps \in Nat /\ MaxAttempts \in Nat
    /\ MaxToolCalls \in Nat /\ MaxReplans \in Nat /\ CallsPerStep \in Nat

VARIABLES
    phase,       \* "orient", then "loop", then "stopped" or "error" (Err returned)
    plan,        \* state.plan.steps
    cycle, replans, toolCalls, \* of OodaState; toolCalls is tool_calls_used
    lastFailure, \* last_failure.is_some()
    late,        \* started.elapsed() >= deadline
    stopReason,  \* of the OodaOutcome
    made,        \* ghost: the tool calls really made
    brokenDown   \* ghost: an act failed for want of a provider

counters == <<cycle, replans, toolCalls, lastFailure>>
ghosts == <<made, brokenDown>>
vars == <<phase, plan, counters, late, stopReason, ghosts>>

StepStatus == {"Pending", "Done", "Failed"}
PlanStep == [what : Descriptions, status : StepStatus, attempts : Nat]
StopReason == {"Completed", "CompletedWithFailures", "MaxCycles",
               "MaxToolCalls", "Deadline", "EmptyPlan"}

\* Any answer of the model, as parse_plan_steps cuts it.
Answers == BoundedSeq(Descriptions, MaxSteps)
NewStep(d, tried) == [what |-> d, status |-> "Pending", attempts |-> tried]
Settled(s) == s.status # "Pending"
PendingIn(p) == {i \in DOMAIN p : ~Settled(p[i])}
FailedIn(p) == {i \in DOMAIN p : p[i].status = "Failed"}

Init == /\ phase = "orient" /\ plan = <<>>
        /\ cycle = 0 /\ replans = 0 /\ toolCalls = 0 /\ lastFailure = FALSE
        /\ late = FALSE /\ stopReason = "none"
        /\ made = 0 /\ brokenDown = FALSE

-----------------------------------------------------------------------------
\* The first plan.  The run fails when the model cannot be asked.
Orient == /\ phase = "orient"
          /\ \/ /\ phase' = "loop"
                /\ \E a \in Answers : plan' = [i \in DOMAIN a |-> NewStep(a[i], 0)]
             \/ /\ phase' = "error"
                /\ UNCHANGED plan
          /\ UNCHANGED <<counters, late, stopReason, ghosts>>

\* decide(): the limits in their order, then the plan.
OutOfBounds == late \/ toolCalls >= MaxToolCalls \/ cycle >= MaxCycles
GoesOn == phase = "loop" /\ ~OutOfBounds /\ PendingIn(plan) # {}
WantsReplan == lastFailure /\ replans < MaxReplans

Reason == CASE late                         -> "Deadline"
            [] ~late /\ toolCalls >= MaxToolCalls -> "MaxToolCalls"
            [] ~late /\ toolCalls < MaxToolCalls /\ cycle >= MaxCycles -> "MaxCycles"
            [] ~OutOfBounds /\ plan = <<>>  -> "EmptyPlan"
            [] OTHER -> IF FailedIn(plan) # {} THEN "CompletedWithFailures" ELSE "Completed"

Stop == /\ phase = "loop" /\ ~GoesOn
        /\ phase' = "stopped" /\ stopReason' = Reason
        /\ UNCHANGED <<plan, counters, late, ghosts>>

-----------------------------------------------------------------------------
\* A step the model lists again keeps the attempts of the first one like it.
Relisted(p, d) ==
    LET same == {i \in DOMAIN p : p[i].what = d}
    IN  NewStep(d, IF same = {} THEN 0 ELSE p[CHOOSE i \in same : \A j \in same : i <= j].attempts)

\* The steps of p at the positions S, in their order.
Only(p, S) == [k \in 1..Cardinality(S) |-> p[CHOOSE i \in S : Cardinality({j \in S : j <= i}) = k]]
SettledIn(p) == {i \in DOMAIN p : Settled(p[i])}

\* Mutant: only what succeeded is kept.
Revised_DropFailed(p, a) ==
    LET kept == Only(p, SettledIn(p) \ FailedIn(p))
        all  == kept \o [i \in DOMAIN a |-> Relisted(p, a[i])]
    IN  IF a = <<>> THEN p ELSE SubSeq(all, 1, IF Len(all) < MaxSteps THEN Len(all) ELSE MaxSteps)

\* Mutant: the revision is appended without looking at max_steps.
Revised_Unbounded(p, a) ==
    IF a = <<>> THEN p ELSE Only(p, SettledIn(p)) \o [i \in DOMAIN a |-> Relisted(p, a[i])]

\* apply_revised_plan: an empty revision changes nothing; otherwise it
\* replaces the pending steps, as far as max_steps allows.
Revised(p, a) ==
    LET all == Only(p, SettledIn(p)) \o [i \in DOMAIN a |-> Relisted(p, a[i])]
    IN  IF a = <<>> THEN p ELSE SubSeq(all, 1, IF Len(all) < MaxSteps THEN Len(all) ELSE MaxSteps)

\* Mutant: a replan costs no cycle and is not counted.
Replan_Free == /\ GoesOn /\ WantsReplan
               /\ \/ /\ \E a \in Answers : plan' = Revised(plan, a)
                     /\ UNCHANGED phase
                  \/ /\ phase' = "error"
                     /\ UNCHANGED plan
               /\ UNCHANGED <<counters, late, stopReason, ghosts>>

Replan == /\ GoesOn /\ WantsReplan
          /\ cycle' = cycle + 1 /\ replans' = replans + 1
          /\ \/ /\ \E a \in Answers : plan' = Revised(plan, a)
                /\ lastFailure' = FALSE
                /\ UNCHANGED phase
             \/ /\ phase' = "error"
                /\ UNCHANGED <<plan, lastFailure>>
          /\ UNCHANGED <<toolCalls, late, stopReason, ghosts>>

-----------------------------------------------------------------------------
NextPending == CHOOSE i \in PendingIn(plan) : \A j \in PendingIn(plan) : i <= j

\* Mutant: the step is given up one attempt early.
AfterFailure_Early(s) == [s EXCEPT !.attempts = @ + 1,
                              !.status = IF s.attempts + 2 >= MaxAttempts THEN "Failed" ELSE "Pending"]

\* The step after an attempt: a failure puts it back until it has had its
\* attempts.
AfterFailure(s) == [s EXCEPT !.attempts = @ + 1,
                              !.status = IF s.attempts + 1 >= MaxAttempts THEN "Failed" ELSE "Pending"]
AfterSuccess(s) == [s EXCEPT !.attempts = @ + 1, !.status = "Done"]

\* Mutant: the calls of a step are forgotten when the next one is counted.
Succeeds_Recount(i, calls) ==
    /\ plan' = [plan EXCEPT ![i] = AfterSuccess(@)]
    /\ toolCalls' = calls
    /\ lastFailure' = FALSE
    /\ UNCHANGED brokenDown

Succeeds(i, calls) ==
    /\ plan' = [plan EXCEPT ![i] = AfterSuccess(@)]
    /\ toolCalls' = toolCalls + calls
    /\ lastFailure' = FALSE
    /\ UNCHANGED brokenDown

\* A failed act reports no calls, whatever it did before it failed: the
\* iteration limit, a tool and the policy make a failed outcome
\* (AgentLoopExecutor::act), any other error is caught by run().
Fails(i) ==
    /\ plan' = [plan EXCEPT ![i] = AfterFailure(@)]
    /\ lastFailure' = TRUE
    /\ brokenDown' \in {brokenDown, TRUE}
    /\ UNCHANGED toolCalls

Execute == /\ GoesOn /\ ~WantsReplan
           /\ cycle' = cycle + 1
           /\ \E calls \in 0..CallsPerStep :
                 /\ made' = made + calls
                 /\ Succeeds(NextPending, calls) \/ Fails(NextPending)
           /\ UNCHANGED <<phase, replans, late, stopReason>>

\* The deadline passes.
Expire == /\ ~late /\ phase \in {"orient", "loop"}
          /\ late' = TRUE
          /\ UNCHANGED <<phase, plan, counters, stopReason, ghosts>>

\* The run is over.
Over == phase \in {"stopped", "error"} /\ UNCHANGED vars

Controller == Orient \/ Stop \/ Replan \/ Execute
Next == Controller \/ Expire \/ Over

Spec == Init /\ [][Next]_vars

\* Each call of the executor returns: the agent loop it wraps bounds its
\* iterations and every provider call has a timeout.
FairSpec == Spec /\ WF_vars(Controller)

-----------------------------------------------------------------------------
TypeOK == /\ phase \in {"orient", "loop", "stopped", "error"}
          /\ plan \in Seq(PlanStep) /\ Len(plan) <= MaxSteps
          /\ cycle \in 0..MaxCycles /\ replans \in 0..MaxReplans
          /\ toolCalls \in Nat /\ made \in Nat
          /\ lastFailure \in BOOLEAN /\ late \in BOOLEAN /\ brokenDown \in BOOLEAN
          /\ stopReason \in StopReason \cup {"none"}

(* What is settled always comes before what is pending, across any series   *)
(* of replans.  The prompt of a step shows the steps up to its own          *)
(* (observation_for_act, L190-199): so it shows everything that was done.   *)
ActSeesAllDoneWork ==
    \A i, j \in DOMAIN plan : i < j /\ Settled(plan[j]) => Settled(plan[i])

(* The reason a run gives is true of it: Completed means all steps were     *)
(* done, and a step is only called failed after all of its attempts.        *)
StopIsEarned ==
    /\ stopReason = "Completed" => plan # <<>> /\ \A i \in DOMAIN plan : plan[i].status = "Done"
    /\ stopReason = "CompletedWithFailures" => PendingIn(plan) = {} /\ FailedIn(plan) # {}
    /\ stopReason = "EmptyPlan" => cycle = 0
    /\ \A i \in FailedIn(plan) : plan[i].attempts >= MaxAttempts

(* As run() counts them, the tool calls exceed max_tool_calls by less than  *)
(* the calls of one step, and the count never goes back.                    *)
OverrunIsOneStep == [][toolCalls' >= toolCalls
                       /\ (toolCalls' > toolCalls => toolCalls' < MaxToolCalls + CallsPerStep)]_vars

(* No replan loses, changes or moves what was already executed (L660:       *)
(* "preservando os já executados").                                         *)
SettledIsKept == [][\A i \in DOMAIN plan :
                       Settled(plan[i]) => i \in DOMAIN plan' /\ plan'[i] = plan[i]]_vars

(* A run ends, whatever the model answers and however often it replans.     *)
Terminates == <>(phase \in {"stopped", "error"})

(* L38: "Teto global de chamadas de ferramenta no run inteiro": nothing is  *)
(* executed once that many calls were made.                                 *)
ToolCeiling == [][Execute => made < MaxToolCalls]_vars

(* L369: "Erro de provider é infraestrutura, não do passo: propaga e        *)
(* encerra o run".                                                          *)
ProviderErrorEndsRun == [][brokenDown' /\ ~brokenDown => phase' = "error"]_vars

(* L685: the attempts of a step listed again are kept so that it cannot     *)
(* have more than max_attempts_per_step of them.                            *)
AttemptsAreCapped == \A i \in DOMAIN plan : plan[i].attempts <= MaxAttempts
=============================================================================
