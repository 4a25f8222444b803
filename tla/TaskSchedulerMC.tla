-------------------------- MODULE TaskSchedulerMC ---------------------------
(* Small instances of TaskScheduler.                                        *)
EXTENDS TaskScheduler

CONSTANTS taskA, taskB
MCOneTask == {taskA}
MCTwoTasks == {taskA, taskB}
MCPeriods == {2}
=============================================================================
