--------------------------- MODULE AgentControlMC ---------------------------
(* An agent run, in one check; `part` says what of it, and the rest stays as *)
(* it begins.  The approval service, with two runs that share it, one of     *)
(* whose calls the policy asks about, under every pair of modes (the         *)
(* daemon's own is ask to begin with, and may be changed at once); that call *)
(* is of medium risk, which some modes allow by themselves, the other of     *)
(* any.  The controller of one run, with two descriptions, plans of three    *)
(* steps and two replans, where five cycles let steps be retried and         *)
(* revised.  Two runs of one session, with a tool call each, the first of    *)
(* them classic or driven by the controller.                                 *)
EXTENDS AgentControl

CONSTANTS c1, c2, a, b
MCCalls == {c1, c2}
MCAsked == {c1}
MCDescriptions == {a, b}
Kinds(r) == IF r = 1 THEN {"classic", "ooda"} ELSE {"hermes"}

VARIABLE part

MCInit == /\ part \in {"approval", "ooda", "session"} /\ mode = "ask" /\ Init /\ Ooda!Init /\ Session!Init
          /\ risk[c1] = "medium"
          /\ part # "approval" => \A c \in Calls : own[c] = "ask" /\ risk[c] = "medium"

MCNext == \/ part = "approval" /\ Next /\ UNCHANGED <<part, oodaVars, sessionVars>>
          \/ part = "ooda" /\ Ooda!Next /\ UNCHANGED <<part, vars, sessionVars>>
          \/ part = "session" /\ Session!Next /\ UNCHANGED <<part, vars, oodaVars>>

\* No call and no run has a step to make that fairness asks for before it is started.
MCSpec == /\ MCInit /\ [][MCNext]_<<part, vars, oodaVars, sessionVars>>
          /\ Fairness /\ WF_oodaVars(part = "ooda" /\ Ooda!Controller) /\ Session!Fairness

(* A controller ends, whatever the model answers.                            *)
Terminates == part = "ooda" => Ooda!Terminates
=============================================================================
