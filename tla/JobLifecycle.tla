---------------------------- MODULE JobLifecycle ----------------------------
(***************************************************************************)
(* What the background-job registry of crates/daemon/src/jobs.rs promises  *)
(* to the clients of /jobs: a job that was submitted is visible as Queued, *)
(* then perhaps Running, then in exactly one terminal status for good, and *)
(* only a terminal job is ever forgotten.  `asked` remembers which jobs a  *)
(* client asked to cancel: only such a job may end Cancelled, and such a   *)
(* job never ends in Error.                                                *)
(*                                                                         *)
(* Nothing here says how the promise is kept: there is no semaphore, no    *)
(* task and no token.  JobRegistry is shown to implement this module.      *)
(***************************************************************************)
CONSTANT Jobs

VARIABLES
    view,   \* view[j]: what GET /jobs/{id} shows of j
    asked   \* the jobs a client asked to cancel

vars == <<view, asked>>

JobStatus == {"Queued", "Running", "Done", "Error", "Cancelled"}
Terminal  == {"Done", "Error", "Cancelled"}
View      == JobStatus \cup {"Absent", "Forgotten"}

TypeOK == view \in [Jobs -> View] /\ asked \subseteq Jobs

Init == view = [j \in Jobs |-> "Absent"] /\ asked = {}

Becomes(j, s) == view' = [view EXCEPT ![j] = s]

Submit(j) == view[j] = "Absent" /\ Becomes(j, "Queued") /\ UNCHANGED asked

Ask(j) == /\ view[j] \notin {"Absent", "Forgotten"}
          /\ asked' = asked \cup {j}
          /\ UNCHANGED view

Start(j) == view[j] = "Queued" /\ Becomes(j, "Running") /\ UNCHANGED asked

Drop(j) == /\ view[j] = "Queued" /\ j \in asked
           /\ Becomes(j, "Cancelled")
           /\ UNCHANGED asked

End(j) == /\ view[j] = "Running"
          /\ \E s \in Terminal : /\ s = "Cancelled" => j \in asked
                                 /\ s = "Error" => j \notin asked
                                 /\ Becomes(j, s)
          /\ UNCHANGED asked

Forget(gone) == /\ \A j \in gone : view[j] \in Terminal
                /\ view' = [j \in Jobs |-> IF j \in gone THEN "Forgotten"
                                                         ELSE view[j]]
                /\ UNCHANGED asked

Next == \/ \E j \in Jobs : Submit(j) \/ Ask(j) \/ Start(j) \/ Drop(j) \/ End(j)
        \/ \E gone \in SUBSET Jobs : Forget(gone)

Spec == Init /\ [][Next]_vars
=============================================================================
