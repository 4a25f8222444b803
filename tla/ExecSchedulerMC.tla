-------------------------- MODULE ExecSchedulerMC ---------------------------
(* A small instance of ExecScheduler: three calls over two domains, one of  *)
(* them limited to a single task as System is by default, and two           *)
(* priorities, so that the total limit, a domain's limit and the heap order *)
(* all decide who starts.                                                   *)
EXTENDS ExecScheduler

CONSTANTS t1, t2, t3, tools, system
MCTasks == {t1, t2, t3}
MCDomains == {tools, system}
MCPriorities == {0, 1}
MCLimit == [d \in MCDomains |-> IF d = tools THEN 2 ELSE 1]

\* The calls are interchangeable, so one order of their kinds stands for all:
\* a symmetry that liveness checking allows.
Kind(t) == 2 * priority[t] + (IF domain[t] = tools THEN 0 ELSE 1)
MCInit == Init /\ Kind(t1) <= Kind(t2) /\ Kind(t2) <= Kind(t3)
MCSpec == MCInit /\ [][Next]_vars /\ Fairness
=============================================================================
