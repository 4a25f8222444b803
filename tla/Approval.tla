------------------------------ MODULE Approval ------------------------------
(***************************************************************************)
(* The approval of tool calls: DefaultApprovalService of                   *)
(* crates/agent-core/src/approval.rs, as the agent loop uses it            *)
(* (execute_tool_call and request_tool_approval of agent_loop.rs) and as   *)
(* the daemon shares it: one service for all agent runs, whose mode each   *)
(* run overwrites when it starts (execute_agent_request of agent_api.rs),  *)
(* and which POST /agent/approve resolves.                                 *)
(*                                                                         *)
(* Every run makes one call here; its id is a fresh uuid, so ids never     *)
(* meet.  Only calls that go through the service are modelled: those the   *)
(* policy asks about, and those it allows but whose risk needs an approval *)
(* unless the tool's allowlist has them.                                   *)
(***************************************************************************)
EXTENDS Integers, Sequences

CONSTANTS
    Calls,      \* tool calls, one per agent run
    Asked       \* Asked \subseteq Calls: the policy said Ask, not Allow

ASSUME AskedAssumption == Asked \subseteq Calls

Modes == {"auto", "ask", "deny", "risk_based"}
Decisions == {"AllowOnce", "AllowAlways", "Deny"} \* AllowSession is AllowOnce

VARIABLES
    mode,       \* DefaultApprovalService::mode
    own,        \* own[c]: the approval_mode of c's request
    risk,       \* risk[c]: the risk is "low"/"medium", or worse
    pending,    \* the ids in DefaultApprovalService::pending
    allowed,    \* the allowlist has a pattern that these calls match
    stage,      \* stage[c]: where execute_tool_call(c) is
    mail,       \* mail[c]: what the oneshot channel of c carries
    outcome,    \* outcome[c]: how the approval of c ended
    acks        \* acks[c]: ghost, the decisions resolve() answered Ok to

vars == <<mode, own, risk, pending, allowed, stage, mail, outcome, acks>>
given == <<own, risk>>

\* "announced": ApprovalRequired was emitted and clients know the id;
\* "registering": the mode was read and the lock of `pending` is awaited;
\* "expired": the timeout fired and the entry is not removed yet.
Stages == {"new", "started", "announced", "registering", "waiting", "expired",
           "settled", "dropped"}
Outcomes == {"none", "allowed", "denied", "timeout"}

Init == /\ mode \in Modes
        /\ own \in [Calls -> Modes]
        /\ risk \in [Calls -> {"medium", "high"}]
        /\ pending = {} /\ allowed = FALSE
        /\ stage = [c \in Calls |-> "new"]
        /\ mail = [c \in Calls |-> "none"]
        /\ outcome = [c \in Calls |-> "none"]
        /\ acks = [c \in Calls |-> <<>>]

Settle(c, how) == /\ stage' = [stage EXCEPT ![c] = "settled"]
                  /\ outcome' = [outcome EXCEPT ![c] = how]

-----------------------------------------------------------------------------
\* The run starts: set_mode(approval_mode), for everybody.
StartRun(c) == /\ stage[c] = "new"
               /\ mode' = own[c]
               /\ stage' = [stage EXCEPT ![c] = "started"]
               /\ UNCHANGED <<given, pending, allowed, mail, outcome, acks>>

\* A call the policy allows needs no approval when its risk is not high or
\* the allowlist has it.
Skip(c) == /\ stage[c] = "started" /\ c \notin Asked
           /\ allowed \/ risk[c] # "high"
           /\ Settle(c, "allowed")
           /\ UNCHANGED <<mode, given, pending, allowed, mail, acks>>

\* The event goes out before the service is asked.
Announce(c) == /\ stage[c] = "started"
               /\ c \in Asked \/ ~(allowed \/ risk[c] # "high")
               /\ stage' = [stage EXCEPT ![c] = "announced"]
               /\ UNCHANGED <<mode, given, pending, allowed, mail, outcome, acks>>

AutoApproves(m, r) == m = "auto" \/ (m = "risk_based" /\ r = "medium")

\* request_approval reads the mode once ...
ReadMode(c) == /\ stage[c] = "announced"
               /\ \/ mode = "deny" /\ Settle(c, "denied")
                  \/ AutoApproves(mode, risk[c]) /\ Settle(c, "allowed")
                  \/ /\ mode # "deny" /\ ~AutoApproves(mode, risk[c])
                     /\ stage' = [stage EXCEPT ![c] = "registering"]
                     /\ UNCHANGED outcome
               /\ UNCHANGED <<mode, given, pending, allowed, mail, acks>>

\* ... and registers the sender once it has the lock.
Register(c) == /\ stage[c] = "registering"
               /\ pending' = pending \cup {c}
               /\ stage' = [stage EXCEPT ![c] = "waiting"]
               /\ UNCHANGED <<mode, given, allowed, mail, outcome, acks>>

-----------------------------------------------------------------------------
\* Mutant: the sender is looked up and left in the map.
Resolve_Get(c, d) ==
    /\ stage[c] \notin {"new", "started"}
    /\ c \in pending /\ Len(acks[c]) < 2
    /\ acks' = [acks EXCEPT ![c] = Append(@, d)]
    /\ mail' = [mail EXCEPT ![c] = IF stage[c] = "waiting" /\ @ = "none" THEN d ELSE @]
    /\ UNCHANGED <<mode, given, pending, allowed, stage, outcome>>

\* POST /agent/approve: Ok when the id was pending, even when its receiver is
\* gone and the send fails.  Any other id is answered 404 and changes nothing.
Resolve(c, d) ==
    /\ stage[c] \notin {"new", "started"}
    /\ c \in pending
    /\ pending' = pending \ {c}
    /\ acks' = [acks EXCEPT ![c] = Append(@, d)]
    /\ mail' = [mail EXCEPT ![c] = IF stage[c] = "waiting" THEN d ELSE @]
    /\ UNCHANGED <<mode, given, allowed, stage, outcome>>

\* Mutant: the decision is passed on as it came.
Receive_Raw(c) ==
    /\ stage[c] = "waiting" /\ mail[c] # "none"
    /\ Settle(c, mail[c])
    /\ allowed' \in {allowed, allowed \/ mail[c] = "AllowAlways"}
    /\ UNCHANGED <<mode, given, pending, mail, acks>>

\* Mutant: AllowAlways is remembered and the call itself is denied.
Receive_Forgets(c) ==
    /\ stage[c] = "waiting" /\ mail[c] # "none"
    /\ Settle(c, IF mail[c] = "AllowOnce" THEN "allowed" ELSE "denied")
    /\ allowed' = (allowed \/ mail[c] = "AllowAlways")
    /\ UNCHANGED <<mode, given, pending, mail, acks>>

\* The receiver gets the decision; AllowAlways carries a pattern, which the
\* client chooses: other calls may match it or not.
Receive(c) ==
    /\ stage[c] = "waiting" /\ mail[c] # "none"
    /\ Settle(c, IF mail[c] = "Deny" THEN "denied" ELSE "allowed")
    /\ allowed' \in {allowed, allowed \/ mail[c] = "AllowAlways"}
    /\ UNCHANGED <<mode, given, pending, mail, acks>>

\* Mutant: the wait has no timeout when the mode is ask.
TimeOut_NotInAsk(c) == /\ stage[c] = "waiting" /\ mail[c] = "none" /\ mode # "ask"
                       /\ stage' = [stage EXCEPT ![c] = "expired"]
                       /\ UNCHANGED <<mode, given, pending, allowed, mail, outcome, acks>>

\* The 300 s are over and no decision is there (timeout() polls the receiver
\* first); the receiver is dropped ...
TimeOut(c) == /\ stage[c] = "waiting" /\ mail[c] = "none"
              /\ stage' = [stage EXCEPT ![c] = "expired"]
              /\ UNCHANGED <<mode, given, pending, allowed, mail, outcome, acks>>

\* Mutant: the entry of an expired call stays.
CleanUp_Leak(c) == /\ stage[c] = "expired"
                   /\ Settle(c, "timeout")
                   /\ UNCHANGED <<mode, given, pending, allowed, mail, acks>>

\* ... and the entry is removed once the lock is free.
CleanUp(c) == /\ stage[c] = "expired"
              /\ pending' = pending \ {c}
              /\ Settle(c, "timeout")
              /\ UNCHANGED <<mode, given, allowed, mail, acks>>

\* The future is dropped (the client of POST /agent/run went away).
Drop(c) == /\ stage[c] \in {"announced", "registering", "waiting", "expired"}
           /\ stage' = [stage EXCEPT ![c] = "dropped"]
           /\ UNCHANGED <<mode, given, pending, allowed, mail, outcome, acks>>

\* The settings are saved: set_mode again.
Configure(m) == /\ mode # m
                /\ mode' = m
                /\ UNCHANGED <<given, pending, allowed, stage, mail, outcome, acks>>

-----------------------------------------------------------------------------
Approve(c) == \E d \in Decisions : Resolve(c, d)
CallStep(c) == \/ StartRun(c) \/ Skip(c) \/ Announce(c) \/ ReadMode(c) \/ Register(c)
               \/ Receive(c) \/ TimeOut(c) \/ CleanUp(c)

Next == \/ \E c \in Calls : CallStep(c) \/ Approve(c) \/ Drop(c)
        \/ \E m \in Modes : Configure(m)

Spec == Init /\ [][Next]_vars

\* A run under way keeps moving and its timer fires; no client owes an answer.
Fairness == \A c \in Calls :
    WF_vars(Skip(c) \/ Announce(c) \/ ReadMode(c) \/ Register(c) \/ Receive(c)
              \/ TimeOut(c) \/ CleanUp(c))

FairSpec == Spec /\ Fairness

-----------------------------------------------------------------------------
TypeOK == /\ mode \in Modes
          /\ own \in [Calls -> Modes] /\ risk \in [Calls -> {"medium", "high"}]
          /\ pending \subseteq Calls
          /\ allowed \in BOOLEAN
          /\ stage \in [Calls -> Stages]
          /\ mail \in [Calls -> Decisions \cup {"none"}]
          /\ outcome \in [Calls -> Outcomes]
          /\ acks \in [Calls -> Seq(Decisions)]

(* However clients race each other, the timeout and the cleanup: one        *)
(* decision per call is acknowledged, and a call that was waiting when it   *)
(* was given ends by it, never by the timeout (L167-188).                   *)
OneDecisionCounts ==
    \A c \in Calls : /\ Len(acks[c]) <= 1
                     /\ mail[c] # "none" => acks[c] = <<mail[c]>>
                     /\ (outcome[c] # "none" /\ mail[c] # "none") =>
                            outcome[c] = IF mail[c] = "Deny" THEN "denied" ELSE "allowed"

(* A waiting call can be answered, and a settled one has left no entry      *)
(* behind: only a dropped future leaks its sender (L160-177).               *)
PendingIsWaiting ==
    \A c \in Calls : /\ stage[c] = "waiting" => (c \in pending <=> mail[c] = "none")
                     /\ stage[c] = "settled" => c \notin pending

(* Every announced call settles, answered or not.                           *)
EveryCallSettles ==
    \A c \in Calls : stage[c] = "announced" ~> stage[c] \in {"settled", "dropped"}

(* daemon/src/flows.rs L128: "Um no de fluxo nunca deve pedir aprovacao     *)
(* interativa": the calls of a run with mode deny never wait for a client.  *)
DenyRunsNeverWait == \A c \in Calls : own[c] = "deny" => stage[c] # "waiting"
=============================================================================
