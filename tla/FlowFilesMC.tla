---------------------------- MODULE FlowFilesMC -----------------------------
(* The files of the flows, in one check; `part` says whose: three saves and  *)
(* a delete of one flow, step by step, where the third save finds a file     *)
(* that the other two raced for or a temporary one that they left; or the    *)
(* service over a flow that comes and goes, with triggers and a history or   *)
(* without: while its requests run it, before any trigger is due, or while   *)
(* the scheduler does.                                                       *)
EXTENDS FlowFiles

CONSTANTS s1, s2, s3, d1, f1
MCSavers == {s1, s2, s3}
MCDeleters == {d1}

Def(hook, cron, keep) == [active |-> TRUE, hook |-> hook, cron |-> cron, keep |-> keep]
MCDefs == {Def("immediate", "once", TRUE), Def("last_node", "none", FALSE)}
MCOccurs(c) == IF c = "once" THEN {1} ELSE {}

MCFlows == {f1}

VARIABLE part

MCInit == part \in {"store", "requests", "schedule"} /\ Init /\ Service!Init

\* The runs that begin are those of a tick.
ByTheScheduler == DOMAIN run' # DOMAIN run => seen' # seen

MCNext == \/ part = "store" /\ Next /\ UNCHANGED <<part, serviceVars>>
          \/ part = "requests" /\ Service!Next /\ UNCHANGED <<clock, part, vars>>
          \/ part = "schedule" /\ Service!Next /\ ByTheScheduler /\ UNCHANGED <<part, vars>>

MCSpec == MCInit /\ [][MCNext]_<<part, vars, serviceVars>>
=============================================================================
