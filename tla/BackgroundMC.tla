---------------------------- MODULE BackgroundMC ----------------------------
(* What the daemon does behind its requests, in one check: two jobs of the   *)
(* registry on one permit, so that one queues behind the other, or two       *)
(* downloads of one model of two files, whichever `part` says; the other     *)
(* part stays as it begins.                                                  *)
EXTENDS Background

CONSTANTS j1, j2
MCJobs == {j1, j2}

VARIABLE part

registryVars == vars

MCInit == part \in {"registry", "catalog"} /\ Init /\ Catalog!Init

MCNext == \/ part = "registry" /\ Next /\ UNCHANGED <<part, downloadVars>>
          \/ part = "catalog" /\ Catalog!Next /\ UNCHANGED <<part, registryVars>>

\* Neither part has a step to make that fairness asks for before a client comes.
MCSpec == /\ MCInit /\ [][MCNext]_<<part, registryVars, downloadVars>>
          /\ RuntimeFairness /\ WorkFairness /\ Catalog!Fairness
=============================================================================
