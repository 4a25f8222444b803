---------------------------- MODULE FlowEngineMC ----------------------------
(* A flow is prepared and a flow is run, in one check; `part` says which.    *)
(* Prepared is every flow of four nodes without duplicate edges, and every   *)
(* flow of three (the fourth stands alone) whose edges may be duplicated.    *)
(* Run are flows of four nodes: a diamond behind an `if`, a diamond behind a *)
(* plain node (entered at its top or in the middle), a chain with a shortcut *)
(* and a fan wider than max_parallel, under several choices of on_error, one *)
(* node disabled or none, and a node that is retried.                        *)
EXTENDS FlowEngine, FiniteSetsExt

MCNodes == 1..4

\* The levels that FlowGraph gives: a node's is the longest path that leads to it.
LevelsOf(wires) ==
    LET depth[n \in MCNodes] ==
            LET before == {e[1] : e \in {e \in wires : e[3] = n}}
            IN  IF before = {} THEN 1 ELSE 1 + Max({depth[m] : m \in before})
    IN  [k \in 1..Max({depth[n] : n \in MCNodes}) |-> {n \in MCNodes : depth[n] = k}]

Wire(wires, kind, disabled, err, att, entry) ==
    [edges |-> wires, levels |-> LevelsOf(wires), kind |-> kind, disabled |-> disabled, onError |-> err,
     attempts |-> att, entry |-> entry]

NoIf == [n \in MCNodes |-> "plain"]
FirstIf == [NoIf EXCEPT ![1] = "if"]
IfDiamond == {<<1, "true", 2>>, <<1, "false", 3>>, <<2, "main", 4>>, <<3, "main", 4>>}
Diamond == {<<1, "main", 2>>, <<1, "main", 3>>, <<2, "main", 4>>, <<3, "main", 4>>}
Fan == {<<1, "main", 2>>, <<1, "main", 3>>, <<1, "main", 4>>}
Shortcut == {<<1, "main", 2>>, <<2, "main", 3>>, <<1, "main", 3>>}

OnErrors == {[n \in MCNodes |-> "stop"], [n \in MCNodes |-> "continue"],
             [n \in MCNodes |-> IF n = 2 THEN "stop" ELSE "continue"]}
Retries == [n \in MCNodes |-> IF n = 2 THEN 2 ELSE 1]

MCFlows ==
    UNION {{Wire(IfDiamond, FirstIf, d, o, Retries, 1),
            Wire(Diamond, NoIf, d, o, Retries, 1),
            Wire(Diamond, NoIf, d, o, Retries, 2),
            Wire(Fan, NoIf, d, o, Retries, 1),
            Wire(Shortcut, NoIf, d, o, Retries, 1)}
           : d \in {{}, {1}, {2}}, o \in OnErrors}

\* The edges over the first n nodes, and the flows that have those in S.
EdgeList(n) == [k \in 1..(n * (n - 1)) |->
                   LET a == ((k - 1) \div (n - 1)) + 1 b == ((k - 1) % (n - 1)) + 1
                   IN  <<a, IF b < a THEN b ELSE b + 1>>]
EdgesOver(n) == {EdgeList(n)[k] : k \in DOMAIN EdgeList(n)}
Listed(n, S) == SelectSeq(EdgeList(n), LAMBDA e : e \in S)
Doubled == {r \in (SUBSET EdgesOver(3)) \X (SUBSET EdgesOver(3)) : r[2] \subseteq r[1]}
MCGraphs == {Listed(4, S) : S \in SUBSET EdgesOver(4)} \cup {Listed(3, r[1]) \o Listed(3, r[2]) : r \in Doubled}

VARIABLE part

runVars == vars

MCInit == /\ \/ part = "run" /\ Graph!Init /\ edges = <<>>
             \/ part = "graph" /\ Graph!Init /\ flow = CHOOSE f \in Flows : TRUE
          /\ Init

RunStep(A) == part = "run" /\ A
MCNext == \/ RunStep(Next) /\ UNCHANGED <<part, graphVars>>
          \/ part = "graph" /\ Graph!Next /\ UNCHANGED <<part, runVars>>

\* Fairness of FlowRun, of the part that runs.
MCFairness == /\ WF_runVars(RunStep(GiveUp \/ Decide \/ Finish \/ Conclude))
              /\ WF_runVars(RunStep(Expire))
              /\ \A n \in Nodes : WF_runVars(RunStep(Begin(n) \/ Attempt(n) \/ TooLate(n) \/ CutOff(n)))

MCSpec == MCInit /\ [][MCNext]_<<part, runVars, graphVars>> /\ MCFairness

(* A run ends although every executor may hang.                              *)
EveryRunEnds == part = "run" => Terminates
=============================================================================
