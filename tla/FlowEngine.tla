----------------------------- MODULE FlowEngine ------------------------------
(***************************************************************************)
(* The flow engine's two halves side by side: the preparation of a flow    *)
(* and a run of one.  They share no state: a run is given the levels that  *)
(* the preparation of its flow has found.                                  *)
(***************************************************************************)
EXTENDS FlowRun

CONSTANTS NodeCount, Graphs

VARIABLES edges, search, marks, stack, unseen, cycle, remaining, current, levels, placed

graphVars == <<edges, search, marks, stack, unseen, cycle, remaining, current, levels, placed>>

Graph == INSTANCE FlowGraph WITH Flows <- Graphs, phase <- search

ASSUME GraphAssumption == Graph!FlowsAssumption

-----------------------------------------------------------------------------
(* Kahn's algorithm places every node of a flow the search let through, see *)
(* FlowGraph.                                                               *)
NeverPanics == Graph!NeverPanics

(* The levels of an accepted flow hold every node once, at its depth, see   *)
(* FlowGraph.                                                               *)
LevelIsDepth == Graph!LevelIsDepth
=============================================================================
