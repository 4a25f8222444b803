---------------------------- MODULE AgentControl -----------------------------
(***************************************************************************)
(* What governs an agent's run, side by side: the approval of its tool     *)
(* calls, the OODA controller that may drive it, the session it writes to. *)
(* They share no state.  A controller is given any plans; a session, any   *)
(* number of runs.                                                         *)
(***************************************************************************)
EXTENDS Approval

CONSTANTS
    Descriptions, MaxCycles, MaxSteps, MaxAttempts, MaxToolCalls, MaxReplans, CallsPerStep, \* of Ooda
    RunCount, Variants(_), MaxRunCalls, MaxLoops    \* of AgentRuntime

VARIABLES
    phase, plan, cycle, replans, toolCalls, lastFailure, late, stopReason, calls, brokenDown,
    run, listener, queue, told, made, lagged, shared

oodaVars == <<phase, plan, cycle, replans, toolCalls, lastFailure, late, stopReason, calls, brokenDown>>
sessionVars == <<run, listener, queue, told, made, lagged, shared>>

Ooda == INSTANCE Ooda WITH made <- calls
Session == INSTANCE AgentRuntime WITH MaxCalls <- MaxRunCalls

ASSUME OodaAssumption == Ooda!LimitsAssumption
ASSUME SessionAssumption == Session!RunsAssumption

-----------------------------------------------------------------------------
(* No replan loses, changes or moves what was executed, see Ooda.           *)
SettledIsKept == Ooda!SettledIsKept

(* The transcript of a run that is over tells what it did, see AgentRuntime. *)
TranscriptTellsRun == Session!TranscriptTellsRun

(* What agent_runtime.rs L267-269 says of the runs that OODA drives.        *)
OodaTranscriptTellsRun == Session!OodaTranscriptTellsRun

(* Every run that is not dropped returns, see AgentRuntime.                 *)
EveryRunReturns == Session!EveryRunReturns
=============================================================================
