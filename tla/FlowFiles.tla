------------------------------ MODULE FlowFiles ------------------------------
(***************************************************************************)
(* What crates/flow/src/store.rs and the daemon's flow service keep on     *)
(* disk, side by side: the steps of saving one flow (FlowStore), and flows, *)
(* runs and their history, where a save is one step (FlowService).         *)
(***************************************************************************)
EXTENDS FlowStore

CONSTANTS Flows, Defs, Occurs(_), Keep, MaxRuns, MaxTime, MaxRestarts   \* of FlowService

VARIABLES flows, history, run, listed, deleting, seen, lastFired, clock, restarts, fireTime,
          outlived

serviceVars == <<flows, history, run, listed, deleting, seen, lastFired, clock, restarts,
                 fireTime, outlived>>

Service == INSTANCE FlowService

ASSUME ServiceAssumption == Service!KeepAssumption

-----------------------------------------------------------------------------
(* The record written last goes away only with its flow, see FlowService.   *)
LatestStays == Service!LatestStays

(* A flow that is gone leaves records only of runs that were in flight.     *)
OrphansWereInFlight == Service!OrphansWereInFlight

(* A trigger fires at most once per occurrence of its cron expression.      *)
OncePerOccurrence == Service!OncePerOccurrence
=============================================================================
