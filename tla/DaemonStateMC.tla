--------------------------- MODULE DaemonStateMC ----------------------------
(* What the daemon keeps between requests, in one check; `part` says which,  *)
(* and the others stay as they begin.  The model server: two daemons over    *)
(* one root, a start-up and a chat in one, a start-up in the other.  The     *)
(* sessions: two of them, two clients.  A channel: two accounts, two callers *)
(* and an editor, where a failing call is made twice and two failures open   *)
(* the breaker.  The settings and the vault: two clients.  A document and a  *)
(* plugin: a page, an invocation, two packages, and a history of two that    *)
(* four revisions overflow.                                                  *)
EXTENDS OllamaRuntime, DaemonState, TLC

CONSTANTS d1, d2, u1, u2, chat, s1, s2, k1, k2, a1, a2, e1, i1, m1, m2
MCDaemons == {d1, d2}
MCCallers == {u1, u2, chat}
MCHome(c) == IF c = u2 THEN d2 ELSE d1
MCChats == {chat}
MCSessions == {s1, s2}
MCClients == {k1, k2}
MCAccounts == {a1, a2}
MCFirst(S) == IF a1 \in S THEN a1 ELSE a2
MCEditors == {e1}
MCRuns == {i1}
MCMarks == {m1, m2}
Alike == Permutations({k1, k2})

VARIABLE part

runtimeVars == vars

MCInit == /\ part \in {"runtime", "store", "channel", "settings", "studio"}
          /\ Init /\ Store!Init /\ Channel!Init /\ Config!Init /\ Papers!Init
          /\ (env => part = "settings") /\ (pkg # Nobody => part = "studio")

MCNext == \/ part = "runtime" /\ Next /\ UNCHANGED <<part, storeVars, channelVars, settingsVars, studioVars>>
          \/ part = "store" /\ Store!Next /\ UNCHANGED <<part, runtimeVars, channelVars, settingsVars, studioVars>>
          \/ part = "channel" /\ Channel!Next /\ UNCHANGED <<part, runtimeVars, storeVars, settingsVars, studioVars>>
          \/ part = "settings" /\ Config!Next /\ UNCHANGED <<part, runtimeVars, storeVars, channelVars, studioVars>>
          \/ part = "studio" /\ Papers!Next /\ UNCHANGED <<part, runtimeVars, storeVars, channelVars, settingsVars>>

MCSpec == MCInit /\ [][MCNext]_<<part, runtimeVars, storeVars, channelVars, settingsVars, studioVars>>
=============================================================================
