---------------------------- MODULE FlowRunProofs ----------------------------
(***************************************************************************)
(* For any flow, any number of nodes and attempts and any deadline: a run  *)
(* that is over has the status its nodes justify, a node starts only after *)
(* all it depends on, a branch that was not taken is not run, and no more  *)
(* than MaxParallel nodes run at once.  The invariant behind it goes by    *)
(* levels: those before the one being run are settled for good, those      *)
(* after it are untouched.  And for any graph: what validate() finds no    *)
(* cycle in, build() puts on levels, each node at its depth.               *)
(***************************************************************************)
EXTENDS FlowEngine, FiniteSetTheorems, WellFoundedInduction, TLAPS

Settled(n) == /\ nodeStatus[n] # "Pending"
              /\ nodeStatus[n] = "Failed" => flow.onError[n] = "continue"
              /\ step[n] \in {"idle", "ok", "failed"}
Untouched(n) == nodeStatus[n] = "Pending" /\ step[n] = "idle"

\* In the level being run a node is decided against, or on its way.
Decided(n) == \/ nodeStatus[n] = "Pending" /\ step[n] # "idle"
              \/ nodeStatus[n] \in {"Skipped", "Disabled"} /\ step[n] = "idle"

RunTyping ==
    /\ flow \in Flows /\ expired \in BOOLEAN
    /\ level \in 0..LevelCount
    /\ phase \in {"decide", "execute", "finished"}
    /\ nodeStatus \in [Nodes -> NodeStatus]
    /\ outputs \in [Nodes -> SUBSET {"main", "true", "false"}]
    /\ runStatus \in {"Success", "Failed", "TimedOut"}
    /\ step \in [Nodes -> Steps]
    /\ attempts \in [Nodes -> Nat]
    /\ \A n \in Nodes : attempts[n] <= flow.attempts[n]

ByLevel ==
    \A k \in 0..LevelCount-1 : \A n \in Level(k) :
        /\ k < level => Settled(n)
        /\ k > level => Untouched(n)
        /\ k = level /\ phase = "decide" => Untouched(n)
        /\ k = level /\ phase = "execute" => Decided(n)

\* What ended the run.
GivenUp == /\ runStatus = "TimedOut" /\ expired /\ level < LevelCount
           /\ \A n \in Level(level) : Untouched(n)
Completed == runStatus = "Success" /\ level = LevelCount
CutShort == runStatus = "TimedOut" /\ \E n \in Nodes : step[n] = "timedOut"
Stopped == /\ runStatus = "Failed" /\ level < LevelCount
           /\ \A n \in Nodes : step[n] # "timedOut"
           /\ \E n \in Level(level) : step[n] # "idle" /\ nodeStatus[n] = "Failed" /\ flow.onError[n] = "stop"

ByPhase ==
    /\ phase = "execute" => level < LevelCount
    /\ phase # "finished" => runStatus = "Success"
    /\ phase = "finished" => /\ \A n \in Nodes : step[n] \in {"idle", "ok", "failed", "timedOut"}
                             /\ GivenUp \/ Completed \/ CutShort \/ Stopped

TimedOutLate == \A n \in Nodes : step[n] = "timedOut" => expired

RunInv == RunTyping /\ ByLevel /\ ByPhase /\ TimedOutLate

-----------------------------------------------------------------------------
\* Every node is in one level of its flow, and what it depends on in one before.
LEMMA LevelsPartition ==
  ASSUME flow \in Flows
  PROVE  /\ LevelCount \in Nat
         /\ \A k \in 0..LevelCount-1 : Level(k) \subseteq Nodes
         /\ \A n \in Nodes : \E k \in 0..LevelCount-1 : n \in Level(k)
         /\ \A j, k \in 0..LevelCount-1 : \A n \in Level(j) : n \in Level(k) => j = k
         /\ \A j, k \in 0..LevelCount-1 : \A m \in Level(j), n \in Level(k) : m \in Pred(n) => j < k
  <1>1. FlowShape(flow)
    BY FlowsAssumption
  <1>2. LevelCount \in Nat
    BY <1>1 DEF FlowShape, LevelCount
  <1>3. \A k \in 0..LevelCount-1 : k + 1 \in 1..Len(flow.levels)
    BY <1>2 DEF LevelCount
  <1>4. \A k \in 0..LevelCount-1 : Level(k) \subseteq Nodes
    BY <1>1, <1>3 DEF FlowShape, Level
  <1>5. ASSUME NEW n \in Nodes PROVE \E k \in 0..LevelCount-1 : n \in Level(k)
    <2>1. PICK l \in 1..Len(flow.levels) : n \in flow.levels[l]
      BY <1>1 DEF FlowShape
    <2>2. l - 1 \in 0..LevelCount-1 /\ (l - 1) + 1 = l
      BY <1>2, <2>1 DEF LevelCount
    <2>3. n \in Level(l - 1)
      BY <2>1, <2>2 DEF Level
    <2> QED
      BY <2>2, <2>3
  <1>6. ASSUME NEW j \in 0..LevelCount-1, NEW k \in 0..LevelCount-1, NEW n \in Level(j), n \in Level(k)
        PROVE  j = k
    <2>1. j + 1 = k + 1
      BY <1>1, <1>3, <1>6 DEF FlowShape, Level
    <2> QED
      BY <1>2, <2>1
  <1>7. ASSUME NEW j \in 0..LevelCount-1, NEW k \in 0..LevelCount-1, NEW m \in Level(j), NEW n \in Level(k), m \in Pred(n)
        PROVE  j < k
    <2>1. PICK e \in flow.edges : e[1] = m /\ e[3] = n
      BY <1>7 DEF Pred
    <2>2. j + 1 < k + 1
      BY <1>1, <1>3, <2>1 DEF FlowShape, Level
    <2> QED
      BY <1>2, <2>2
  <1> QED
    BY <1>2, <1>4, <1>5, <1>6, <1>7

\* A node that is under way is of the level that is being run.
LEMMA UnderWay ==
  ASSUME RunInv, NEW n \in Nodes, step[n] \in {"queued", "trying", "executing", "sleeping"}
  PROVE  phase = "execute" /\ level \in 0..LevelCount-1 /\ n \in Level(level) /\ nodeStatus[n] = "Pending"
  <1>1. PICK k \in 0..LevelCount-1 : n \in Level(k)
    BY LevelsPartition DEF RunInv, RunTyping
  <1>2. level \in Nat /\ LevelCount \in Nat /\ k \in Nat
    BY LevelsPartition DEF RunInv, RunTyping
  <1>3. phase \in {"decide", "execute"}
    BY DEF RunInv, RunTyping, ByPhase
  <1>4. ~(k < level) /\ ~(k > level) /\ ~(k = level /\ phase = "decide")
    BY <1>1 DEF RunInv, ByLevel, Settled, Untouched
  <1>5. k = level /\ phase = "execute"
    BY <1>2, <1>3, <1>4
  <1> QED
    BY <1>1, <1>5 DEF RunInv, ByLevel, Decided

\* A node under way makes a step; it stays of the level that is being run.
LEMMA NodeMoves ==
  ASSUME RunInv, NEW n \in Nodes, NEW from \in {"queued", "trying", "executing", "sleeping"}, NEW to \in Steps \ {"idle"},
         Move(n, from, to), UNCHANGED <<flow, expired, level, phase, nodeStatus, runStatus>>,
         outputs' \in [Nodes -> SUBSET {"main", "true", "false"}],
         attempts' \in [Nodes -> Nat], \A m \in Nodes : attempts'[m] <= flow.attempts[m],
         to = "timedOut" => expired
  PROVE  RunInv'
  <1>1. /\ phase = "execute" /\ level \in 0..LevelCount-1 /\ n \in Level(level) /\ nodeStatus[n] = "Pending"
        /\ step' = [step EXCEPT ![n] = to]
    BY UnderWay DEF Move
  <1>2. /\ step' \in [Nodes -> Steps] /\ step'[n] = to
        /\ \A m \in Nodes : m # n => step'[m] = step[m]
    BY <1>1 DEF RunInv, RunTyping
  <1>3. LevelCount' = LevelCount /\ \A k \in 0..LevelCount-1 : Level(k)' = Level(k)
    BY DEF LevelCount, Level
  <1>4. flow \in Flows /\ \A k \in 0..LevelCount-1 : Level(k) \subseteq Nodes /\ (n \in Level(k) => k = level)
    BY <1>1, LevelsPartition DEF RunInv, RunTyping
  <1>5. ASSUME NEW k \in 0..LevelCount-1, NEW m \in Level(k)
        PROVE  /\ k < level => Settled(m)'
               /\ k > level => Untouched(m)'
               /\ k = level => Decided(m)'
    <2>1. CASE m = n
      BY <1>1, <1>2, <1>4, <2>1 DEF Decided
    <2>2. CASE m # n
      <3>1. m \in Nodes /\ step'[m] = step[m]
        BY <1>2, <1>4, <2>2
      <3> QED
        BY <1>1, <3>1 DEF RunInv, ByLevel, Settled, Untouched, Decided
    <2> QED
      BY <2>1, <2>2
  <1>6. ByLevel'
    BY <1>1, <1>3, <1>5 DEF ByLevel
  <1>7. ByPhase'
    BY <1>1, <1>3 DEF RunInv, ByPhase
  <1>8. TimedOutLate'
    BY <1>2 DEF RunInv, TimedOutLate
  <1> QED
    BY <1>2, <1>3, <1>6, <1>7, <1>8 DEF RunInv, RunTyping

-----------------------------------------------------------------------------
\* The stream takes a node, its attempts are made, retried, and cut off.
LEMMA NodeSteps ==
  ASSUME RunInv, NEW n \in Nodes, NodeStep(n)
  PROVE  RunInv'
  <1> USE DEF nodeUnchanged
  <1>1. /\ outputs \in [Nodes -> SUBSET {"main", "true", "false"}] /\ attempts \in [Nodes -> Nat]
        /\ \A m \in Nodes : attempts[m] <= flow.attempts[m] /\ flow.attempts[m] \in Nat
    BY FlowsAssumption DEF RunInv, RunTyping, FlowShape
  <1>2. {"queued", "trying", "executing", "sleeping"} \subseteq Steps \ {"idle"} /\ {"ok", "failed", "timedOut"} \subseteq Steps \ {"idle"}
    BY DEF Steps
  <1>3. CASE Begin(n)
    <2>1. Move(n, "queued", "trying")
      BY <1>3 DEF Begin
    <2> QED
      BY <1>1, <1>2, <1>3, <2>1, NodeMoves DEF Begin
  <1>4. CASE Attempt(n)
    <2>1. Move(n, "trying", "executing") /\ UNCHANGED nodeUnchanged
      BY <1>4 DEF Attempt
    <2>2. attempts' \in [Nodes -> Nat] /\ \A m \in Nodes : attempts'[m] <= flow.attempts[m]
      BY <1>1, <1>4 DEF Attempt
    <2> QED
      BY <1>1, <1>2, <2>1, <2>2, NodeMoves
  <1>5. CASE TooLate(n)
    <2>1. Move(n, "trying", "timedOut") /\ expired
      BY <1>5 DEF TooLate
    <2> QED
      BY <1>1, <1>2, <1>5, <2>1, NodeMoves DEF TooLate
  <1>6. CASE ExecuteOk(n)
    <2>1. /\ Move(n, "executing", "ok")
          /\ UNCHANGED <<flow, expired, level, phase, nodeStatus, runStatus, attempts>>
      BY <1>6 DEF ExecuteOk
    <2>2. outputs' \in [Nodes -> SUBSET {"main", "true", "false"}]
      BY <1>1, <1>6 DEF ExecuteOk, OutputsOf
    <2> QED
      BY <1>1, <1>2, <2>1, <2>2, NodeMoves
  <1>7. ASSUME NEW to \in {"failed", "sleeping", "trying"}, Move(n, "executing", to), UNCHANGED <<nodeUnchanged, attempts>>
        PROVE  RunInv'
    <2>1. to \in Steps \ {"idle"} /\ to # "timedOut"
      BY <1>2, <1>7
    <2> QED
      BY <1>1, <1>7, <2>1, NodeMoves
  <1>8. CASE Awake(n)
    <2>1. Move(n, "sleeping", "trying")
      BY <1>8 DEF Awake
    <2> QED
      BY <1>1, <1>2, <1>8, <2>1, NodeMoves DEF Awake
  <1>9. CASE CutOff(n)
    <2>1. expired /\ UNCHANGED <<nodeUnchanged, attempts>>
      BY <1>9 DEF CutOff
    <2>2. \E from \in {"executing", "sleeping"} : Move(n, from, "timedOut")
      BY <1>9 DEF CutOff
    <2> QED
      BY <1>1, <1>2, <2>1, <2>2, NodeMoves
  <1> QED
    BY <1>3, <1>4, <1>5, <1>6, <1>7, <1>8, <1>9 DEF NodeStep, ExecuteErr

\* The nodes of a level are skipped, passed through, or handed to the stream.
LEMMA Decides ==
  ASSUME RunInv, Decide
  PROVE  RunInv'
  <1> DEFINE off == {n \in Level(level) : Reached(n) /\ n \in flow.disabled}
             on == {n \in Level(level) : Reached(n) /\ n \notin flow.disabled}
  <1>1. /\ phase = "decide" /\ level < LevelCount /\ UNCHANGED <<flow, expired, runStatus, attempts>>
        /\ nodeStatus' = [n \in Nodes |-> IF n \in Level(level) /\ ~Reached(n) THEN "Skipped"
                                          ELSE IF n \in off THEN "Disabled" ELSE nodeStatus[n]]
        /\ outputs' = [n \in Nodes |-> IF n \in off THEN {"main"} ELSE outputs[n]]
        /\ step' = [n \in Nodes |-> IF n \in on THEN "queued" ELSE step[n]]
        /\ phase' = IF on = {} THEN "decide" ELSE "execute"
        /\ level' = IF on = {} THEN level + 1 ELSE level
    BY DEF Decide
  <1>2. LevelCount' = LevelCount /\ \A k \in 0..LevelCount-1 : Level(k)' = Level(k)
    BY <1>1 DEF LevelCount, Level
  <1>3. /\ flow \in Flows /\ level \in 0..LevelCount-1 /\ LevelCount \in Nat /\ level \in Nat
        /\ \A k \in 0..LevelCount-1 : Level(k) \subseteq Nodes /\ \A n \in Level(k) : n \in Level(level) => k = level
    BY <1>1, LevelsPartition DEF RunInv, RunTyping
  <1>4. RunTyping'
    <2>1. nodeStatus' \in [Nodes -> NodeStatus] /\ step' \in [Nodes -> Steps]
      BY <1>1 DEF RunInv, RunTyping, NodeStatus, Steps
    <2>2. outputs' \in [Nodes -> SUBSET {"main", "true", "false"}]
      BY <1>1 DEF RunInv, RunTyping
    <2> QED
      BY <1>1, <1>2, <1>3, <2>1, <2>2 DEF RunInv, RunTyping
  <1>5. \A n \in Nodes \ Level(level) : nodeStatus'[n] = nodeStatus[n] /\ step'[n] = step[n]
    BY <1>1
  <1>6. \A n \in Level(level) : IF n \in on THEN nodeStatus'[n] = "Pending" /\ step'[n] = "queued"
                                ELSE nodeStatus'[n] \in {"Skipped", "Disabled"} /\ step'[n] = "idle"
    BY <1>1, <1>3 DEF RunInv, ByLevel, Untouched
  <1> HIDE DEF on, off
  <1>7. ByLevel'
    <2> SUFFICES ASSUME NEW k \in 0..LevelCount-1, NEW n \in Level(k)
                 PROVE  /\ k < level' => Settled(n)'
                        /\ k > level' => Untouched(n)'
                        /\ k = level' /\ phase' = "decide" => Untouched(n)'
                        /\ k = level' /\ phase' = "execute" => Decided(n)'
      BY <1>2 DEF ByLevel
    <2>1. CASE k # level
      <3>1. nodeStatus'[n] = nodeStatus[n] /\ step'[n] = step[n] /\ n \in Nodes
        BY <1>3, <1>5, <2>1
      <3>2. /\ k < level => Settled(n)
            /\ k > level => Untouched(n)
        BY DEF RunInv, ByLevel
      <3> QED
        BY <1>1, <1>3, <2>1, <3>1, <3>2 DEF Settled, Untouched
    <2>2. CASE k = level
      BY <1>1, <1>3, <1>6, <2>2 DEF Settled, Decided
    <2> QED
      BY <2>1, <2>2
  <1>8. ByPhase'
    BY <1>1, <1>2 DEF RunInv, ByPhase
  <1>9. TimedOutLate'
    <2>1. \A n \in Nodes : step'[n] = "timedOut" => step[n] = "timedOut"
      BY <1>1 DEF on
    <2> QED
      BY <1>1, <2>1 DEF RunInv, TimedOutLate
  <1> QED
    BY <1>4, <1>7, <1>8, <1>9 DEF RunInv

\* The results of a level are recorded, and the run goes on or stops.
LEMMA Concludes ==
  ASSUME RunInv, Conclude
  PROVE  RunInv'
  <1>1. /\ phase = "execute" /\ Queued = {} /\ InFlight = {} /\ UNCHANGED <<flow, expired, step, attempts>>
        /\ nodeStatus' = [n \in Nodes |-> IF n \notin LevelResults THEN nodeStatus[n]
                                          ELSE IF step[n] = "ok" THEN "Success" ELSE "Failed"]
        /\ runStatus' = NextRunStatus
        /\ phase' = IF Stops THEN "finished" ELSE "decide"
        /\ level' = IF Stops THEN level ELSE level + 1
    BY DEF Conclude
  <1>2. LevelCount' = LevelCount /\ \A k \in 0..LevelCount-1 : Level(k)' = Level(k)
    BY <1>1 DEF LevelCount, Level
  <1>3. /\ flow \in Flows /\ level \in 0..LevelCount-1 /\ LevelCount \in Nat /\ level \in Nat /\ level < LevelCount
        /\ \A k \in 0..LevelCount-1 : Level(k) \subseteq Nodes /\ \A n \in Level(k) : n \in Level(level) => k = level
        /\ \A n \in Nodes : \E k \in 0..LevelCount-1 : n \in Level(k)
    BY <1>1, LevelsPartition DEF RunInv, RunTyping, ByPhase
  <1>4. \A n \in Nodes : step[n] \in {"idle", "ok", "failed", "timedOut"}
    BY <1>1 DEF RunInv, RunTyping, Steps, Queued, InFlight
  <1>5. LevelResults \subseteq Level(level) /\ \A n \in Level(level) : step[n] # "idle" => n \in LevelResults
    BY <1>3, <1>4 DEF LevelResults
  <1>6. \A n \in Nodes : step[n] = "timedOut" => n \in TimedOutNodes
    <2> SUFFICES ASSUME NEW n \in Nodes, step[n] = "timedOut" PROVE n \in Level(level)
      BY <1>5 DEF TimedOutNodes
    <2>1. PICK k \in 0..LevelCount-1 : n \in Level(k)
      BY <1>3
    <2>2. ~(k < level) /\ ~(k > level)
      BY <2>1 DEF RunInv, ByLevel, Settled, Untouched
    <2> QED
      BY <1>3, <2>1, <2>2
  <1>7. RunTyping'
    <2>1. nodeStatus' \in [Nodes -> NodeStatus]
      BY <1>1 DEF RunInv, RunTyping, NodeStatus
    <2>2. outputs' \in [Nodes -> SUBSET {"main", "true", "false"}]
      BY DEF RunInv, RunTyping, Conclude
    <2>3. runStatus' \in {"Success", "Failed", "TimedOut"}
      BY <1>1 DEF RunInv, RunTyping, NextRunStatus
    <2> QED
      BY <1>1, <1>2, <1>3, <2>1, <2>2, <2>3 DEF RunInv, RunTyping
  <1>8. ByLevel'
    <2> SUFFICES ASSUME NEW k \in 0..LevelCount-1, NEW n \in Level(k)
                 PROVE  /\ k < level' => Settled(n)'
                        /\ k > level' => Untouched(n)'
                        /\ k = level' /\ phase' = "decide" => Untouched(n)'
                        /\ k = level' /\ phase' = "execute" => Decided(n)'
      BY <1>2 DEF ByLevel
    <2>1. CASE k # level
      <3>1. nodeStatus'[n] = nodeStatus[n] /\ step'[n] = step[n] /\ n \in Nodes
        BY <1>1, <1>3, <1>5, <2>1
      <3>2. /\ k < level => Settled(n)
            /\ k > level => Untouched(n)
        BY DEF RunInv, ByLevel
      <3> QED
        BY <1>1, <1>3, <2>1, <3>1, <3>2 DEF Settled, Untouched
    <2>2. CASE k = level /\ Stops
      BY <1>1, <1>3, <2>2
    <2>3. CASE k = level /\ ~Stops
      <3>1. n \in Nodes /\ n \in Level(level) /\ Decided(n)
        BY <1>1, <1>3, <2>3 DEF RunInv, ByLevel
      <3>2. n \in LevelResults => step[n] # "timedOut" /\ (step[n] = "failed" => flow.onError[n] = "continue")
        <4>1. flow.onError[n] \in {"stop", "continue"}
          BY <1>3, <3>1, FlowsAssumption DEF FlowShape
        <4> QED
          BY <2>3, <4>1 DEF Stops, TimedOutNodes, StopNodes
      <3>3. Settled(n)'
        <4>1. CASE n \in LevelResults
          <5>1. /\ nodeStatus'[n] = IF step[n] = "ok" THEN "Success" ELSE "Failed"
                /\ step'[n] \in {"ok", "failed"} /\ flow'.onError[n] = flow.onError[n]
            BY <1>1, <3>1, <3>2, <4>1 DEF LevelResults
          <5>2. step[n] # "ok" => flow'.onError[n] = "continue"
            BY <1>1, <3>2, <4>1, <5>1
          <5> QED
            BY <5>1, <5>2 DEF Settled
        <4>2. CASE n \notin LevelResults
          <5>1. nodeStatus'[n] = nodeStatus[n] /\ step'[n] = "idle" /\ step[n] = "idle"
            BY <1>1, <1>5, <3>1, <4>2
          <5> QED
            BY <3>1, <5>1 DEF Settled, Decided
        <4> QED
          BY <4>1, <4>2
      <3> QED
        BY <1>1, <1>3, <2>3, <3>3
    <2> QED
      BY <2>1, <2>2, <2>3
  <1>9. ByPhase'
    <2>1. runStatus = "Success"
      BY <1>1 DEF RunInv, ByPhase
    <2>2. ~Stops => runStatus' = "Success"
      BY <1>1, <2>1 DEF Stops, NextRunStatus
    <2>3. TimedOutNodes # {} => CutShort'
      <3>1. TimedOutNodes # {} => \E n \in Nodes : step[n] = "timedOut"
        BY <1>3 DEF TimedOutNodes, LevelResults
      <3> QED
        BY <1>1, <3>1 DEF CutShort, NextRunStatus
    <2>4. TimedOutNodes = {} /\ StopNodes # {} => Stopped'
      <3> SUFFICES ASSUME TimedOutNodes = {}, NEW n \in StopNodes PROVE Stopped'
        OBVIOUS
      <3>1. /\ n \in LevelResults /\ n \in Level(level) /\ n \in Nodes
            /\ step[n] = "failed" /\ flow.onError[n] = "stop"
        BY <1>3, <1>5 DEF StopNodes
      <3>2. runStatus' = "Failed" /\ level' = level /\ Level(level)' = Level(level)
        BY <1>1 DEF NextRunStatus, Stops, Level
      <3>3. nodeStatus'[n] = "Failed"
        BY <1>1, <3>1
      <3>4. \A m \in Nodes : step'[m] # "timedOut"
        BY <1>1, <1>6
      <3> QED
        BY <1>1, <1>2, <1>3, <3>1, <3>2, <3>3, <3>4 DEF Stopped
    <2> QED
      BY <1>1, <1>4, <2>2, <2>3, <2>4 DEF ByPhase, Stops
  <1>10. TimedOutLate'
    BY <1>1 DEF RunInv, TimedOutLate
  <1> QED
    BY <1>7, <1>8, <1>9, <1>10 DEF RunInv

\* The deadline passes, before a level or in it, and all levels are done.
LEMMA Ends ==
  ASSUME RunInv, GiveUp \/ Finish \/ Expire \/ UNCHANGED vars
  PROVE  RunInv'
  <1>1. UNCHANGED <<flow, level, nodeStatus, outputs, step, attempts>>
    BY DEF GiveUp, Finish, Expire, vars
  <1>2. LevelCount' = LevelCount /\ \A k \in 0..LevelCount-1 : Level(k)' = Level(k)
    BY <1>1 DEF LevelCount, Level
  <1>3. /\ level \in 0..LevelCount /\ LevelCount \in Nat
        /\ \A n \in Nodes : \E k \in 0..LevelCount-1 : n \in Level(k)
        /\ \A k \in 0..LevelCount-1 : Level(k) \subseteq Nodes
    BY LevelsPartition DEF RunInv, RunTyping
  <1>4. RunTyping' /\ TimedOutLate'
    BY <1>1, <1>2 DEF RunInv, RunTyping, TimedOutLate, GiveUp, Finish, Expire, vars
  <1>5. phase' = phase \/ (phase = "decide" /\ phase' = "finished")
    BY DEF GiveUp, Finish, Expire, vars
  <1>6. ByLevel'
    BY <1>1, <1>2, <1>5 DEF RunInv, ByLevel, Settled, Untouched, Decided
  <1>7. ByPhase'
    <2>1. CASE GiveUp \/ Finish
      <3>1. phase = "decide"
        BY <2>1 DEF GiveUp, Finish
      <3>2. \A n \in Nodes : step[n] \in {"idle", "ok", "failed"}
        <4> SUFFICES ASSUME NEW n \in Nodes PROVE step[n] \in {"idle", "ok", "failed"}
          OBVIOUS
        <4>1. PICK k \in 0..LevelCount-1 : n \in Level(k)
          BY <1>3
        <4>2. k < level \/ k > level \/ k = level
          BY <1>3
        <4> QED
          BY <3>1, <4>1, <4>2 DEF RunInv, ByLevel, Settled, Untouched
      <3>3. GiveUp => GivenUp'
        <4> SUFFICES ASSUME GiveUp PROVE GivenUp'
          OBVIOUS
        <4>1. level \in 0..LevelCount-1 /\ Level(level)' = Level(level)
          BY <1>1, <1>3 DEF GiveUp, Level
        <4>2. \A n \in Level(level) : Untouched(n)
          BY <3>1, <4>1 DEF RunInv, ByLevel
        <4> QED
          BY <1>1, <1>2, <4>1, <4>2 DEF GiveUp, GivenUp, Untouched
      <3>4. Finish => Completed'
        BY <1>1, <1>2 DEF RunInv, ByPhase, Finish, Completed
      <3>5. phase' = "finished"
        BY <2>1 DEF GiveUp, Finish
      <3> QED
        BY <1>1, <2>1, <3>2, <3>3, <3>4, <3>5 DEF ByPhase
    <2>2. CASE Expire
      BY <1>1, <1>2, <2>2 DEF RunInv, ByPhase, Expire
    <2>3. CASE UNCHANGED vars
      BY <1>1, <1>2, <2>3 DEF RunInv, ByPhase, GivenUp, Completed, CutShort, Stopped, Untouched, Level, vars
    <2> QED
      BY <2>1, <2>2, <2>3
  <1> QED
    BY <1>4, <1>6, <1>7 DEF RunInv

\* A run begins with its first level, and nothing of it done.
LEMMA RunInit == Init => RunInv
  <1> SUFFICES ASSUME Init PROVE RunInv
    OBVIOUS
  <1>1. FlowShape(flow) /\ flow \in Flows
    BY FlowsAssumption DEF Init
  <1>2. LevelCount \in Nat /\ \A k \in 0..LevelCount-1 : Level(k) \subseteq Nodes
    BY <1>1, LevelsPartition
  <1>3. RunTyping
    <2>1. \A n \in Nodes : attempts[n] = 0 /\ flow.attempts[n] \in Nat
      BY <1>1 DEF Init, FlowShape
    <2>2. /\ attempts \in [Nodes -> Nat] /\ \A n \in Nodes : attempts[n] <= flow.attempts[n]
      BY <2>1 DEF Init
    <2>3. level \in 0..LevelCount
      BY <1>2 DEF Init
    <2> QED
      BY <1>1, <2>2, <2>3 DEF Init, RunTyping, NodeStatus, Steps
  <1>4. ByLevel
    BY <1>2 DEF Init, ByLevel, Untouched
  <1> QED
    BY <1>3, <1>4 DEF Init, RunInv, ByPhase, TimedOutLate

\* Every step of a run keeps RunInv.
LEMMA RunStep == RunInv /\ [Next]_vars => RunInv'
  BY NodeSteps, Decides, Concludes, Ends DEF Next

(* The levels before the one being run are settled and those after it are   *)
(* untouched, as RunInv says.                                               *)
THEOREM RunInvariance == Spec => []RunInv
  BY RunInit, RunStep, PTL DEF Spec

(* The status of a run that is over is the one its nodes justify, in any    *)
(* order the results came in and whenever the deadline passed.              *)
THEOREM StatusIsEarned == Spec => []RunStatusIsEarned
  <1>1. RunInv => RunStatusIsEarned
    <2> SUFFICES ASSUME RunInv, phase = "finished" PROVE RunStatusIsEarned
      BY DEF RunStatusIsEarned
    <2>1. GivenUp \/ Completed \/ CutShort \/ Stopped
      BY DEF RunInv, ByPhase
    <2>2. /\ LevelCount \in Nat /\ level \in 0..LevelCount
          /\ \A k \in 0..LevelCount-1 : Level(k) \subseteq Nodes
          /\ \A n \in Nodes : \E k \in 0..LevelCount-1 : n \in Level(k)
      BY LevelsPartition DEF RunInv, RunTyping
    <2>3. Completed => \A n \in Nodes : Settled(n)
      <3> SUFFICES ASSUME Completed, NEW n \in Nodes PROVE Settled(n)
        OBVIOUS
      <3>1. PICK k \in 0..LevelCount-1 : n \in Level(k)
        BY <2>2
      <3>2. k < level
        BY <2>2 DEF Completed
      <3> QED
        BY <3>1, <3>2 DEF RunInv, ByLevel
    <2>4. Stopped => Level(level) \cap {n \in Nodes : step[n] # "idle"} # {}
      BY <2>2 DEF Stopped
    <2>5. GivenUp => Level(level) \cap {n \in Nodes : step[n] # "idle"} = {}
      BY DEF GivenUp, Untouched
    <2>6. CASE GivenUp
      BY <2>5, <2>6 DEF GivenUp, RunStatusIsEarned
    <2>7. CASE Completed
      BY <2>2, <2>3, <2>7 DEF Completed, Settled, RunStatusIsEarned
    <2>8. CASE CutShort
      BY <2>8 DEF CutShort, RunStatusIsEarned, RunInv, TimedOutLate
    <2>9. CASE Stopped
      <3>1. \E n \in Nodes : nodeStatus[n] = "Failed" /\ flow.onError[n] = "stop"
        BY <2>2, <2>9 DEF Stopped
      <3> QED
        BY <2>4, <2>9, <3>1 DEF Stopped, RunStatusIsEarned
    <2> QED
      BY <2>1, <2>6, <2>7, <2>8, <2>9
  <1> QED
    BY <1>1, RunInvariance, PTL

(* A node starts only after everything it depends on has settled, whatever  *)
(* runs beside it and however long it takes.                                *)
THEOREM JoinsWaitForAll == Spec => []JoinsWait
  <1>1. RunInv => JoinsWait
    <2> SUFFICES ASSUME RunInv, NEW n \in Nodes, step[n] # "idle", NEW m \in Pred(n)
                 PROVE  nodeStatus[m] # "Pending"
      BY DEF JoinsWait
    <2>1. m \in Nodes
      BY DEF Pred
    <2>2. flow \in Flows /\ level \in Nat /\ LevelCount \in Nat
      BY LevelsPartition DEF RunInv, RunTyping
    <2>3. PICK k \in 0..LevelCount-1 : n \in Level(k)
      BY <2>2, LevelsPartition
    <2>4. PICK j \in 0..LevelCount-1 : m \in Level(j)
      BY <2>1, <2>2, LevelsPartition
    <2>5. j < k
      BY <2>2, <2>3, <2>4, LevelsPartition
    <2>6. ~(k > level)
      BY <2>3 DEF RunInv, ByLevel, Untouched
    <2>7. j < level
      BY <2>2, <2>5, <2>6
    <2> QED
      BY <2>4, <2>7 DEF RunInv, ByLevel, Settled
  <1> QED
    BY <1>1, RunInvariance, PTL

-----------------------------------------------------------------------------
\* What a node needs is of a level before its own, and settled when it starts.
LEMMA NeedsArePast ==
  ASSUME RunInv, NEW n \in Nodes, NEW m \in Pred(n),
         \/ step[n] # "idle"
         \/ phase = "decide" /\ level < LevelCount /\ n \in Level(level)
  PROVE  \E k \in 0..LevelCount-1 : k < level /\ m \in Level(k)
  <1>1. m \in Nodes /\ flow \in Flows /\ level \in Nat /\ LevelCount \in Nat
    BY LevelsPartition DEF RunInv, RunTyping, Pred
  <1>2. PICK k \in 0..LevelCount-1 : n \in Level(k)
    BY <1>1, LevelsPartition
  <1>3. PICK j \in 0..LevelCount-1 : m \in Level(j)
    BY <1>1, LevelsPartition
  <1>4. j < k
    BY <1>1, <1>2, <1>3, LevelsPartition
  <1>5. ~(k > level)
    <2>1. CASE step[n] # "idle"
      BY <1>2, <2>1 DEF RunInv, ByLevel, Untouched
    <2>2. CASE level < LevelCount /\ n \in Level(level)
      <3>1. level \in 0..LevelCount-1
        BY <1>1, <2>2
      <3>2. k = level
        BY <1>1, <1>2, <2>2, <3>1, LevelsPartition
      <3> QED
        BY <1>1, <3>2
    <2> QED
      BY <2>1, <2>2
  <1>6. j < level
    BY <1>1, <1>4, <1>5
  <1> QED
    BY <1>3, <1>6

\* The status and the output of a node stay when its level is over.
LEMMA PastStays ==
  ASSUME RunInv, [Next]_vars, NEW k \in 0..LevelCount-1, k < level, NEW m \in Level(k)
  PROVE  nodeStatus'[m] = nodeStatus[m] /\ outputs'[m] = outputs[m]
  <1>1. m \in Nodes /\ flow \in Flows /\ level \in Nat /\ LevelCount \in Nat
    BY LevelsPartition DEF RunInv, RunTyping
  <1>2. step[m] \in {"idle", "ok", "failed"}
    BY DEF RunInv, ByLevel, Settled
  <1>3. level < LevelCount => m \notin Level(level)
    <2> SUFFICES ASSUME level < LevelCount, m \in Level(level) PROVE FALSE
      OBVIOUS
    <2>1. level \in 0..LevelCount-1
      BY <1>1
    <2>2. k = level
      BY <1>1, <2>1, LevelsPartition
    <2> QED
      BY <1>1, <2>2
  <1>4. CASE Decide
    BY <1>1, <1>3, <1>4 DEF Decide
  <1>5. CASE Conclude
    <2>1. level < LevelCount
      BY <1>5 DEF Conclude, RunInv, ByPhase
    <2>2. m \notin LevelResults
      BY <1>3, <2>1 DEF LevelResults
    <2> QED
      BY <1>1, <1>5, <2>2 DEF Conclude
  <1>6. ASSUME NEW n \in Nodes, NodeStep(n)
        PROVE  nodeStatus'[m] = nodeStatus[m] /\ outputs'[m] = outputs[m]
    <2>1. CASE ExecuteOk(n)
      <3>1. n # m /\ UNCHANGED nodeStatus
        BY <1>2, <2>1 DEF ExecuteOk, Move
      <3> QED
        BY <2>1, <3>1 DEF ExecuteOk, RunInv, RunTyping
    <2>2. CASE ~ExecuteOk(n)
      BY <1>6, <2>2 DEF NodeStep, Begin, Attempt, TooLate, ExecuteErr, Awake, CutOff, nodeUnchanged
    <2> QED
      BY <2>1, <2>2
  <1>7. CASE GiveUp \/ Finish \/ Expire \/ UNCHANGED vars
    BY <1>7 DEF GiveUp, Finish, Expire, vars
  <1> QED
    BY <1>4, <1>5, <1>6, <1>7 DEF Next

\* A node starts only when it is decided on.
LEMMA StartsDecided ==
  ASSUME RunInv, [Next]_vars, NEW n \in Nodes, step'[n] # "idle", step[n] = "idle"
  PROVE  phase = "decide" /\ level < LevelCount /\ n \in Level(level) /\ (n = flow.entry \/ ActiveInto(n))
  <1>1. ASSUME NEW m \in Nodes, NodeStep(m) PROVE step'[n] = step[n]
    <2>1. \E from \in Steps \ {"idle"}, to \in Steps : Move(m, from, to)
      BY <1>1 DEF NodeStep, Begin, Attempt, TooLate, ExecuteOk, ExecuteErr, Awake, CutOff, Steps
    <2> QED
      BY <2>1 DEF Move, RunInv, RunTyping
  <1>2. Decide
    BY <1>1 DEF Next, GiveUp, Finish, Conclude, Expire, vars
  <1> QED
    BY <1>2 DEF Decide, Reached

(* A node runs only if it is the entry of the run or an edge carries items  *)
(* to it, so a branch that an `if` did not take never runs.                 *)
THEOREM BranchesAreTaken == Spec => []OnlyTakenBranchesRun
  <1>1. Init => OnlyTakenBranchesRun
    BY DEF Init, OnlyTakenBranchesRun
  <1>2. ASSUME RunInv, OnlyTakenBranchesRun, [Next]_vars
        PROVE  OnlyTakenBranchesRun'
    <2>1. flow' = flow
      BY <1>2
      DEF Next, GiveUp, Decide, Finish, Conclude, Expire, NodeStep, Begin, Attempt, TooLate, ExecuteOk,
                  ExecuteErr, Awake, CutOff, nodeUnchanged, vars
    <2> SUFFICES ASSUME NEW n \in Nodes, step'[n] # "idle", n # flow.entry
                 PROVE  \E e \in flow.edges : /\ e[3] = n /\ nodeStatus'[e[1]] \in {"Success", "Failed", "Disabled"}
                                              /\ e[2] \in outputs'[e[1]]
      BY <2>1 DEF OnlyTakenBranchesRun
    <2>2. PICK e \in flow.edges : /\ e[3] = n /\ nodeStatus[e[1]] \in {"Success", "Failed", "Disabled"}
                                  /\ e[2] \in outputs[e[1]]
      <3>1. CASE step[n] # "idle"
        BY <1>2, <3>1 DEF OnlyTakenBranchesRun
      <3>2. CASE step[n] = "idle"
        <4>1. ActiveInto(n)
          BY <1>2, <3>2, StartsDecided
        <4> QED
          BY <4>1 DEF ActiveInto, Succeeded
      <3> QED
        BY <3>1, <3>2
    <2>3. e[1] \in Pred(n)
      <3>1. FlowShape(flow)
        BY <1>2, FlowsAssumption DEF RunInv, RunTyping
      <3>2. e[1] \in Nodes
        BY <3>1 DEF FlowShape
      <3> QED
        BY <2>2, <3>2 DEF Pred
    <2>4. \/ step[n] # "idle"
          \/ phase = "decide" /\ level < LevelCount /\ n \in Level(level)
      BY <1>2, StartsDecided
    <2>5. nodeStatus'[e[1]] = nodeStatus[e[1]] /\ outputs'[e[1]] = outputs[e[1]]
      BY <1>2, <2>3, <2>4, NeedsArePast, PastStays
    <2> QED
      BY <2>2, <2>5
  <1> QED
    BY <1>1, <1>2, RunInvariance, PTL DEF Spec

-----------------------------------------------------------------------------
\* No more nodes are in flight than the stream has room for.
LEMMA InFlightBounded ==
  ASSUME RunInv, Cardinality(InFlight) <= MaxParallel, [Next]_vars
  PROVE  Cardinality(InFlight') <= MaxParallel
  <1>1. IsFiniteSet(InFlight)
    <2>1. InFlight \in SUBSET Nodes
      BY DEF InFlight
    <2> QED
      BY <2>1, NodesAssumption, FS_Subset
  <1>2. Cardinality(InFlight) \in Nat /\ MaxParallel \in Nat
    BY <1>1, FS_CardinalityType, MaxParallelAssumption
  <1>3. CASE InFlight' \subseteq InFlight
    <2>1. IsFiniteSet(InFlight') /\ Cardinality(InFlight') <= Cardinality(InFlight)
      BY <1>1, <1>3, FS_Subset
    <2> QED
      BY <1>2, <2>1, FS_CardinalityType
  <1>4. ASSUME NEW n \in Nodes, Begin(n)
        PROVE  Cardinality(InFlight') <= MaxParallel
    <2>1. InFlight' \subseteq InFlight \cup {n} /\ Cardinality(InFlight) < MaxParallel
      BY <1>4 DEF Begin, Move, InFlight, RunInv, RunTyping
    <2>2. /\ IsFiniteSet(InFlight \cup {n})
          /\ Cardinality(InFlight \cup {n}) = Cardinality(InFlight) \/ Cardinality(InFlight \cup {n}) = Cardinality(InFlight) + 1
      BY <1>1, FS_AddElement
    <2>3. IsFiniteSet(InFlight') /\ Cardinality(InFlight') <= Cardinality(InFlight \cup {n})
      BY <2>1, <2>2, FS_Subset
    <2>4. Cardinality(InFlight') \in Nat
      BY <2>3, FS_CardinalityType
    <2> QED
      BY <1>2, <2>1, <2>2, <2>3, <2>4
  <1>5. ASSUME NEW n \in Nodes, NodeStep(n), ~Begin(n)
        PROVE  InFlight' \subseteq InFlight
    <2>1. \E from \in {"trying", "executing", "sleeping"}, to \in Steps : Move(n, from, to)
      BY <1>5 DEF NodeStep, Attempt, TooLate, ExecuteOk, ExecuteErr, Awake, CutOff, Steps
    <2> QED
      BY <2>1 DEF Move, InFlight, RunInv, RunTyping
  <1>6. CASE Decide
    BY <1>3, <1>6 DEF Decide, InFlight
  <1>7. CASE GiveUp \/ Finish \/ Conclude \/ Expire \/ UNCHANGED vars
    BY <1>3, <1>7 DEF GiveUp, Finish, Conclude, Expire, InFlight, vars
  <1> QED
    BY <1>3, <1>4, <1>5, <1>6, <1>7 DEF Next

(* Types, and at most max_parallel nodes of a level in flight at any time,  *)
(* with at most as many attempts each as its policy has.                    *)
THEOREM TypeCorrect == Spec => []TypeOK
  <1>1. Init => Cardinality(InFlight) <= MaxParallel
    <2>1. Init => InFlight = {}
      BY DEF Init, InFlight
    <2> QED
      BY <2>1, FS_EmptySet, MaxParallelAssumption
  <1>2. RunInv /\ Cardinality(InFlight) <= MaxParallel => TypeOK
    <2>1. RunInv => \A n \in Nodes : flow.attempts[n] \in Nat
      BY FlowsAssumption DEF RunInv, RunTyping, FlowShape
    <2> QED
      BY <2>1 DEF RunInv, RunTyping, TypeOK
  <1>3. RunInv /\ Cardinality(InFlight) <= MaxParallel /\ [Next]_vars => (Cardinality(InFlight) <= MaxParallel)'
    BY InFlightBounded
  <1> QED
    BY <1>1, <1>2, <1>3, RunInvariance, PTL DEF Spec

-----------------------------------------------------------------------------
(* How a flow is prepared, for any number of nodes and any edges.           *)

Finished == {n \in Graph!Vertices : marks[n] = "Done"}

\* No part of S is without a node that nothing else in it points to.
Acyclic(S) == \A T \in SUBSET S : T # {} => \E n \in T : \A m \in T : n \notin Graph!Succ(m)

SearchTyping ==
    /\ edges \in Graphs
    /\ search \in {"dfs", "rejected", "kahn", "built", "panic"}
    /\ marks \in [Graph!Vertices -> {"Unvisited", "InStack", "Done"}]
    /\ stack \in Seq(Graph!Vertices)
    /\ unseen \in [Graph!Vertices -> SUBSET Graph!Vertices]
    /\ \A n \in Graph!Vertices : unseen[n] \subseteq Graph!Succ(n)

\* The stack is the path to the node being visited: every node on it once.
StackIsPath ==
    /\ \A n \in Graph!Vertices : marks[n] = "InStack" <=> \E i \in 1..Len(stack) : stack[i] = n
    /\ \A i, k \in 1..Len(stack) : stack[i] = stack[k] => i = k
    /\ \A i \in 1..(Len(stack) - 1) : stack[i + 1] \in Graph!Succ(stack[i])

\* What was looked at from a node is done, or is being visited from there.
SeenIsDone ==
    /\ \A n \in Finished : Graph!Succ(n) \subseteq Finished
    /\ \A i \in 1..Len(stack) : \A m \in Graph!Succ(stack[i]) :
           m \in unseen[stack[i]] \/ m \in Finished \/ (i < Len(stack) /\ m = stack[i + 1])

\* The nodes the levels hold, and the edges into n that come from others.
PlacedSet == UNION {levels[i] : i \in 1..Len(levels)}
Waiting(n) == {e \in Graph!Into(n) : edges[e][1] \notin PlacedSet}

LevelTyping == /\ levels \in Seq(SUBSET Graph!Vertices)
               /\ current \in SUBSET Graph!Vertices
               /\ remaining \in [Graph!Vertices -> Nat]
               /\ placed \in Nat

\* A level holds what nothing outside the levels before it points to ...
LevelsAreLevels ==
    /\ \A i, k \in 1..Len(levels) : \A n \in levels[i] : n \in levels[k] => i = k
    /\ \A i \in 1..Len(levels) : \A n \in levels[i] : \A m \in Graph!Vertices :
           n \in Graph!Succ(m) => \E k \in 1..(i - 1) : m \in levels[k]
    /\ \A i \in 2..Len(levels) : \A n \in levels[i] : \E m \in levels[i - 1] : n \in Graph!Succ(m)

\* ... and the next one is what has nothing left to wait for.
NextIsReady ==
    /\ \A n \in Graph!Vertices : remaining[n] = Cardinality(Waiting(n))
    /\ current = {n \in Graph!Vertices \ PlacedSet : remaining[n] = 0}
    /\ levels # <<>> => \A n \in current : \E m \in levels[Len(levels)] : n \in Graph!Succ(m)
    /\ placed = Cardinality(PlacedSet) /\ Len(levels) <= placed

(* The inductive invariant: until the search ends its finished nodes have   *)
(* no cycle; from then on nothing has, and the levels are levels.           *)
SearchInv ==
    /\ SearchTyping /\ LevelTyping
    /\ search = "dfs" => StackIsPath /\ SeenIsDone /\ Acyclic(Finished) /\ levels = <<>> /\ placed = 0
    /\ search \in {"kahn", "built", "panic"} => Acyclic(Graph!Vertices) /\ LevelsAreLevels /\ NextIsReady
    /\ search = "built" => PlacedSet = Graph!Vertices
    /\ search # "panic"
    /\ Graph!ReportedCycleIsReal

(* The cardinality of the instance is that of the library.                  *)
LEMMA GraphCardinality == \A S : Graph!Cardinality(S) = Cardinality(S)
  BY DEF Graph!Cardinality, Cardinality

(* What the edges are: no node points to itself, and finitely many edges    *)
(* come into it.                                                            *)
LEMMA EdgeFacts ==
  ASSUME edges \in Graphs
  PROVE  /\ NodeCount \in Nat
         /\ \A n : Graph!Succ(n) \subseteq Graph!Vertices /\ n \notin Graph!Succ(n)
         /\ \A n : Graph!Into(n) \subseteq 1..Len(edges) /\ IsFiniteSet(Graph!Into(n))
         /\ \A n : \A e \in Graph!Into(n) : edges[e][1] \in Graph!Vertices /\ edges[e][2] = n
         /\ \A n, m : n \in Graph!Succ(m) <=> \E e \in Graph!Into(n) : edges[e][1] = m
  <1>1. NodeCount \in Nat /\ edges \in Seq(Graph!Vertices \X Graph!Vertices) /\ \A e \in DOMAIN edges : edges[e][1] # edges[e][2]
    BY GraphAssumption DEF Graph!FlowsAssumption
  <1>2. Len(edges) \in Nat /\ DOMAIN edges = 1..Len(edges) /\ \A e \in 1..Len(edges) : edges[e] \in Graph!Vertices \X Graph!Vertices
    BY <1>1
  <1>3. \A e \in 1..Len(edges) : edges[e][1] \in Graph!Vertices /\ edges[e][2] \in Graph!Vertices
    BY <1>2
  <1>4. IsFiniteSet(1..Len(edges))
    BY <1>2, FS_Interval
  <1>5. \A n : Graph!Into(n) \subseteq 1..Len(edges)
    BY <1>2 DEF Graph!Into
  <1>6. \A n : IsFiniteSet(Graph!Into(n))
    BY <1>4, <1>5, FS_Subset
  <1>7. \A n : Graph!Succ(n) \subseteq Graph!Vertices /\ n \notin Graph!Succ(n)
    BY <1>1, <1>2, <1>3 DEF Graph!Succ
  <1>8. \A n : \A e \in Graph!Into(n) : edges[e][1] \in Graph!Vertices /\ edges[e][2] = n
    BY <1>2, <1>3 DEF Graph!Into
  <1>9. \A n, m : n \in Graph!Succ(m) <=> \E e \in Graph!Into(n) : edges[e][1] = m
    BY <1>2 DEF Graph!Into, Graph!Succ
  <1> QED
    BY <1>1, <1>5, <1>6, <1>7, <1>8, <1>9

(* SearchInv holds as validate begins.                                      *)
LEMMA SearchStart == Graph!Init => SearchInv
  <1> SUFFICES ASSUME Graph!Init PROVE SearchInv
    OBVIOUS
  <1> USE DEF Graph!Init
  <1>1. SearchTyping /\ LevelTyping
    BY DEF SearchTyping, LevelTyping
  <1>2. StackIsPath /\ SeenIsDone
    BY DEF StackIsPath, SeenIsDone, Finished
  <1>3. Acyclic(Finished)
    BY DEF Acyclic, Finished
  <1>4. Graph!ReportedCycleIsReal
    BY DEF Graph!ReportedCycleIsReal
  <1> QED
    BY <1>1, <1>2, <1>3, <1>4 DEF SearchInv

(* Entering a node puts it on the path.                                     *)
LEMMA EnterStep ==
  ASSUME SearchInv, search = "dfs", NEW n \in Graph!Vertices, marks[n] = "Unvisited", Graph!Enter(n),
         \/ stack = <<>> /\ unseen' = [unseen EXCEPT ![n] = Graph!Succ(n)]
         \/ /\ stack # <<>> /\ n \in unseen[Graph!Top]
            /\ unseen' = [unseen EXCEPT ![Graph!Top] = @ \ {n}, ![n] = Graph!Succ(n)]
  PROVE  StackIsPath' /\ SeenIsDone' /\ Acyclic(Finished)' /\ SearchTyping'
  <1> USE DEF SearchTyping, Graph!Enter
  <1>0. StackIsPath /\ SeenIsDone /\ Acyclic(Finished) /\ SearchTyping
    BY DEF SearchInv
  <1>1. /\ stack \in Seq(Graph!Vertices) /\ Len(stack) \in Nat /\ Len(stack') = Len(stack) + 1
        /\ stack'[Len(stack) + 1] = n /\ \A i \in 1..Len(stack) : stack'[i] = stack[i] /\ stack[i] \in Graph!Vertices
    BY <1>0
  <1>2. /\ marks'[n] = "InStack" /\ \A m \in Graph!Vertices : m # n => marks'[m] = marks[m]
        /\ \A i \in 1..Len(stack) : stack[i] # n
    BY <1>0, <1>1 DEF StackIsPath
  <1>3. edges' = edges /\ \A m : Graph!Succ(m)' = Graph!Succ(m)
    BY DEF Graph!Succ
  <1>4. Finished' = Finished
    BY <1>0, <1>2 DEF Finished
  <1>5. Acyclic(Finished)'
    BY <1>0, <1>3, <1>4 DEF Acyclic
  <1>6. SearchTyping'
    <2>1. Graph!Succ(n) \subseteq Graph!Vertices
      BY <1>0, EdgeFacts
    <2>2. unseen' \in [Graph!Vertices -> SUBSET Graph!Vertices] /\ \A m \in Graph!Vertices : unseen'[m] \subseteq Graph!Succ(m)
      BY <1>0, <2>1
    <2> QED
      BY <1>0, <1>1, <1>3, <2>2 DEF SearchInv
  <1>7. StackIsPath'
    <2>1. \A m \in Graph!Vertices : marks'[m] = "InStack" <=> \E i \in 1..Len(stack') : stack'[i] = m
      BY <1>0, <1>1, <1>2 DEF StackIsPath
    <2>2. \A i, k \in 1..Len(stack') : stack'[i] = stack'[k] => i = k
      BY <1>0, <1>1, <1>2 DEF StackIsPath
    <2>3. \A i \in 1..(Len(stack') - 1) : stack'[i + 1] \in Graph!Succ(stack'[i])
      <3> SUFFICES ASSUME NEW i \in 1..Len(stack) PROVE stack'[i + 1] \in Graph!Succ(stack'[i])
        BY <1>1
      <3>1. CASE i < Len(stack)
        BY <1>0, <1>1, <3>1 DEF StackIsPath
      <3>2. CASE i = Len(stack)
        <4>1. n \in unseen[Graph!Top] /\ Graph!Top = stack[i] /\ stack[i] \in Graph!Vertices
          BY <1>1, <3>2 DEF Graph!Top
        <4> QED
          BY <1>0, <1>1, <3>2, <4>1
      <3> QED
        BY <1>1, <3>1, <3>2
    <2> QED
      BY <1>3, <2>1, <2>2, <2>3 DEF StackIsPath
  <1>8. SeenIsDone'
    <2>1. \A m \in Finished : Graph!Succ(m) \subseteq Finished
      BY <1>0 DEF SeenIsDone
    <2>2. ASSUME NEW i \in 1..Len(stack'), NEW m \in Graph!Succ(stack'[i])
          PROVE  m \in unseen'[stack'[i]] \/ m \in Finished \/ (i < Len(stack') /\ m = stack'[i + 1])
      <3>1. CASE i = Len(stack) + 1
        BY <1>0, <1>1, <2>2, <3>1
      <3>2. CASE i \in 1..Len(stack)
        <4>1. /\ stack'[i] = stack[i] /\ stack[i] \in Graph!Vertices /\ stack[i] # n
              /\ m \in unseen[stack[i]] \/ m \in Finished \/ (i < Len(stack) /\ m = stack[i + 1])
          BY <1>0, <1>1, <1>2, <2>2, <3>2 DEF SeenIsDone
        <4>2. CASE m \in unseen[stack[i]]
          <5>1. stack # <<>> /\ Graph!Top = stack[Len(stack)] /\ Graph!Top \in Graph!Vertices
            BY <1>1, <3>2 DEF Graph!Top
          <5>2. CASE m = n /\ i = Len(stack)
            BY <1>1, <5>2
          <5>3. CASE m # n
            BY <1>0, <4>1, <4>2, <5>1, <5>3
          <5>4. CASE i # Len(stack)
            <6>1. stack[i] # Graph!Top
              BY <1>0, <1>1, <3>2, <5>1, <5>4 DEF StackIsPath
            <6> QED
              BY <1>0, <4>1, <4>2, <5>1, <6>1
          <5> QED
            BY <5>2, <5>3, <5>4
        <4>3. CASE i < Len(stack) /\ m = stack[i + 1]
          BY <1>1, <4>3
        <4> QED
          BY <4>1, <4>2, <4>3
      <3> QED
        BY <1>1, <2>2, <3>1, <3>2
    <2> QED
      BY <1>3, <1>4, <2>1, <2>2 DEF SeenIsDone
  <1> QED
    BY <1>5, <1>6, <1>7, <1>8

(* An edge to a finished node is passed over.                               *)
LEMMA PassStep ==
  ASSUME SearchInv, search = "dfs", stack # <<>>, NEW m \in unseen[Graph!Top], marks[m] = "Done",
         unseen' = [unseen EXCEPT ![Graph!Top] = @ \ {m}], UNCHANGED <<edges, search, marks, stack>>
  PROVE  StackIsPath' /\ SeenIsDone' /\ Acyclic(Finished)' /\ SearchTyping'
  <1>0. StackIsPath /\ SeenIsDone /\ Acyclic(Finished) /\ SearchTyping
    BY DEF SearchInv
  <1>1. (\A n : Graph!Succ(n)' = Graph!Succ(n)) /\ Finished' = Finished
    BY DEF Graph!Succ, Finished
  <1>2. StackIsPath' /\ Acyclic(Finished)'
    BY <1>0, <1>1 DEF StackIsPath, Acyclic
  <1>3. Graph!Top \in Graph!Vertices /\ m \in Finished
    BY <1>0 DEF SearchTyping, Graph!Top, Finished
  <1>4. SearchTyping'
    BY <1>0, <1>1, <1>3 DEF SearchTyping
  <1>5. \A i \in 1..Len(stack) : \A k \in unseen[stack[i]] : k \in unseen'[stack[i]] \/ k = m
    BY <1>0, <1>3 DEF SearchTyping
  <1>6. SeenIsDone'
    BY <1>0, <1>1, <1>3, <1>5 DEF SeenIsDone
  <1> QED
    BY <1>2, <1>4, <1>6

(* A sequence without its last element.                                     *)
LEMMA ButLast ==
  ASSUME NEW S, NEW s \in Seq(S), s # <<>>
  PROVE  LET t == SubSeq(s, 1, Len(s) - 1)
         IN  t \in Seq(S) /\ Len(t) = Len(s) - 1 /\ \A i \in 1..(Len(s) - 1) : t[i] = s[i]
  <1>1. Len(s) \in Nat /\ Len(s) # 0 /\ \A i \in 1..Len(s) : s[i] \in S
    OBVIOUS
  <1>2. PICK k \in Nat : k = Len(s) - 1
    BY <1>1
  <1>3. Len(SubSeq(s, 1, k)) = k /\ \A i \in 1..k : SubSeq(s, 1, k)[i] = s[i]
    BY <1>1, <1>2
  <1>4. SubSeq(s, 1, k) \in Seq(S)
    BY <1>1, <1>2
  <1> QED
    BY <1>2, <1>3, <1>4

(* A node whose successors are all finished is finished, and adds no cycle: *)
(* no finished node points to it.                                           *)
LEMMA PopStep ==
  ASSUME SearchInv, Graph!DfsPop
  PROVE  StackIsPath' /\ SeenIsDone' /\ Acyclic(Finished)' /\ SearchTyping'
  <1> DEFINE n == Graph!Top
             L == Len(stack)
  <1>0. StackIsPath /\ SeenIsDone /\ Acyclic(Finished) /\ SearchTyping /\ edges \in Graphs
    BY DEF SearchInv, Graph!DfsPop, SearchTyping
  <1>1. /\ L \in Nat \ {0} /\ n = stack[L] /\ n \in Graph!Vertices /\ Len(stack') = L - 1 /\ stack' \in Seq(Graph!Vertices)
        /\ \A i \in 1..(L - 1) : stack'[i] = stack[i] /\ stack[i] \in Graph!Vertices
    <2>1. stack \in Seq(Graph!Vertices) /\ stack # <<>> /\ stack' = SubSeq(stack, 1, L - 1)
      BY <1>0 DEF Graph!DfsPop, SearchTyping
    <2>2. L \in Nat /\ L # 0 /\ \A i \in 1..L : stack[i] \in Graph!Vertices
      BY <2>1
    <2>3. stack' \in Seq(Graph!Vertices) /\ Len(stack') = L - 1 /\ \A i \in 1..(L - 1) : stack'[i] = stack[i]
      BY <2>1, <2>2, ButLast
    <2> QED
      BY <2>2, <2>3 DEF Graph!Top
  <1>2. /\ marks' = [marks EXCEPT ![n] = "Done"] /\ marks[n] = "InStack" /\ edges' = edges /\ unseen' = unseen /\ unseen[n] = {}
        /\ search' = search
    BY <1>0, <1>1 DEF Graph!DfsPop, StackIsPath, SearchTyping
  <1>3. \A m : Graph!Succ(m)' = Graph!Succ(m)
    BY <1>2 DEF Graph!Succ
  <1>4. Finished' = Finished \cup {n} /\ n \notin Finished
    BY <1>0, <1>1, <1>2 DEF Finished, SearchTyping
  <1>5. SearchTyping'
    BY <1>0, <1>1, <1>2, <1>3 DEF SearchTyping
  <1>6. StackIsPath'
    <2>1. \A m \in Graph!Vertices : marks'[m] = "InStack" <=> \E i \in 1..(L - 1) : stack[i] = m
      BY <1>0, <1>1, <1>2 DEF StackIsPath, SearchTyping
    <2>2. \A m \in Graph!Vertices : marks'[m] = "InStack" <=> \E i \in 1..Len(stack') : stack'[i] = m
      BY <1>1, <2>1
    <2>3. \A i, k \in 1..Len(stack') : stack'[i] = stack'[k] => i = k
      BY <1>0, <1>1 DEF StackIsPath
    <2>4. \A i \in 1..(Len(stack') - 1) : stack'[i + 1] \in Graph!Succ(stack'[i])
      BY <1>0, <1>1 DEF StackIsPath
    <2> QED
      BY <1>3, <2>2, <2>3, <2>4 DEF StackIsPath
  <1>7. Graph!Succ(n) \subseteq Finished
    <2>1. \A m \in Graph!Succ(stack[L]) : m \in unseen[stack[L]] \/ m \in Finished
      BY <1>0, <1>1 DEF SeenIsDone
    <2> QED
      BY <1>1, <1>2, <2>1
  <1>8. SeenIsDone'
    <2>1. \A k \in Finished' : Graph!Succ(k) \subseteq Finished'
      BY <1>0, <1>4, <1>7 DEF SeenIsDone
    <2>2. ASSUME NEW i \in 1..(L - 1), NEW m \in Graph!Succ(stack[i])
          PROVE  m \in unseen[stack[i]] \/ m \in Finished' \/ (i < L - 1 /\ m = stack[i + 1])
      <3>1. m \in unseen[stack[i]] \/ m \in Finished \/ (i < L /\ m = stack[i + 1])
        BY <1>0, <1>1, <2>2 DEF SeenIsDone
      <3>2. i < L /\ m = stack[i + 1] => m = n \/ i < L - 1
        BY <1>1
      <3> QED
        BY <1>4, <3>1, <3>2
    <2>3. \A i \in 1..Len(stack') : \A m \in Graph!Succ(stack'[i]) :
             m \in unseen'[stack'[i]] \/ m \in Finished' \/ (i < Len(stack') /\ m = stack'[i + 1])
      BY <1>1, <1>2, <2>2
    <2> QED
      BY <1>3, <2>1, <2>3 DEF SeenIsDone
  <1>9. Acyclic(Finished)'
    <2> SUFFICES ASSUME NEW T \in SUBSET (Finished \cup {n}), T # {}
                 PROVE  \E x \in T : \A y \in T : x \notin Graph!Succ(y)
      BY <1>3, <1>4 DEF Acyclic
    <2>1. CASE n \in T
      <3>1. n \notin Graph!Succ(n)
        BY <1>0, EdgeFacts
      <3>2. \A y \in Finished : n \notin Graph!Succ(y)
        BY <1>0, <1>4 DEF SeenIsDone
      <3> QED
        BY <2>1, <3>1, <3>2
    <2>2. CASE n \notin T
      BY <1>0, <2>2 DEF Acyclic
    <2> QED
      BY <2>1, <2>2
  <1> QED
    BY <1>5, <1>6, <1>8, <1>9

(* The stretch of the path from m on, closed with m, is a cycle.            *)
LEMMA RejectStep ==
  ASSUME SearchInv, search = "dfs", stack # <<>>, NEW m \in unseen[Graph!Top], marks[m] = "InStack",
         cycle' = Graph!ClosedAt(m), edges' = edges
  PROVE  Graph!ReportedCycleIsReal'
  <1> DEFINE L == Len(stack)
             p == Graph!PositionOf(m)
             c == Graph!ClosedAt(m)
             K == L - p + 1
  <1>0. StackIsPath /\ SearchTyping /\ edges \in Graphs
    BY DEF SearchInv, SearchTyping
  <1>1. L \in Nat \ {0} /\ Graph!Top = stack[L] /\ \A i \in 1..L : stack[i] \in Graph!Vertices
    BY <1>0 DEF SearchTyping, Graph!Top
  <1>2. m \in Graph!Succ(stack[L]) /\ m \in Graph!Vertices
    BY <1>0, <1>1 DEF SearchTyping
  <1>3. p \in 1..L /\ stack[p] = m
    <2>1. \E i \in 1..L : stack[i] = m
      BY <1>0, <1>2 DEF StackIsPath
    <2> QED
      BY <2>1 DEF Graph!PositionOf
  <1>4. p # L
    BY <1>0, <1>2, <1>3, EdgeFacts
  <1> HIDE DEF p
  <1>5. SubSeq(stack, p, L) \in Seq(Graph!Vertices) /\ Len(SubSeq(stack, p, L)) = K
        /\ \A i \in 1..K : SubSeq(stack, p, L)[i] = stack[p + i - 1]
    BY <1>0, <1>1, <1>3 DEF SearchTyping
  <1>6. c = Append(SubSeq(stack, p, L), m)
    BY DEF Graph!ClosedAt, p
  <1>7. Len(c) = K + 1 /\ c[K + 1] = m /\ \A i \in 1..K : c[i] = stack[p + i - 1]
    BY <1>1, <1>2, <1>3, <1>5, <1>6
  <1> HIDE DEF c
  <1>8. Len(c) >= 3 /\ c[1] = c[Len(c)]
    BY <1>1, <1>3, <1>4, <1>7
  <1>9. \A i \in 1..(Len(c) - 1) : c[i + 1] \in Graph!Succ(c[i])
    <2> SUFFICES ASSUME NEW i \in 1..K PROVE c[i + 1] \in Graph!Succ(c[i])
      BY <1>1, <1>3, <1>7
    <2>1. CASE i = K
      BY <1>1, <1>2, <1>3, <1>7, <2>1
    <2>2. CASE i < K
      <3>1. p + i - 1 \in 1..(L - 1) /\ i + 1 \in 1..K /\ (p + i - 1) + 1 = p + (i + 1) - 1
        BY <1>1, <1>3, <2>2
      <3>2. stack[(p + i - 1) + 1] \in Graph!Succ(stack[p + i - 1])
        BY <1>0, <3>1 DEF StackIsPath
      <3> QED
        BY <1>7, <3>1, <3>2
    <2> QED
      BY <1>1, <1>3, <2>1, <2>2
  <1>10. Cardinality({c[i] : i \in 1..Len(c)}) = Len(c) - 1
    <2> DEFINE S == {c[i] : i \in 1..Len(c)}
               f == [i \in 1..K |-> c[i]]
    <2>1. S = {c[i] : i \in 1..K}
      <3>1. K \in Nat /\ 1 \in 1..K /\ c[K + 1] = c[1] /\ Len(c) = K + 1
        BY <1>1, <1>3, <1>7
      <3>2. \A i \in 1..Len(c) : i \in 1..K \/ c[i] = c[1]
        BY <3>1
      <3>3. 1..K \subseteq 1..Len(c)
        BY <3>1
      <3> QED
        BY <3>1, <3>2, <3>3
    <2>2. f \in Bijection(1..K, S)
      <3>1. f \in [1..K -> S] /\ \A x \in S : \E i \in 1..K : f[i] = x
        BY <2>1
      <3>2. \A i, k \in 1..K : f[i] = f[k] => i = k
        BY <1>0, <1>1, <1>3, <1>7 DEF StackIsPath
      <3> QED
        BY <3>1, <3>2 DEF Bijection, Injection, Surjection, IsInjective
    <2>3. IsFiniteSet(1..K) /\ Cardinality(1..K) = K
      BY <1>1, <1>3, FS_Interval
    <2> HIDE DEF S, f, K
    <2>4. Cardinality(S) = K
      BY <2>2, <2>3, FS_Bijection DEF ExistsBijection
    <2> QED
      BY <1>1, <1>3, <1>7, <2>4 DEF S, K
  <1>11. \A n : Graph!Succ(n)' = Graph!Succ(n)
    BY DEF Graph!Succ
  <1> QED
    BY <1>8, <1>9, <1>10, <1>11, GraphCardinality DEF Graph!ReportedCycleIsReal, c

(* Nothing is placed yet, so every edge is waited for.                      *)
LEMMA KahnInitStep ==
  ASSUME SearchInv, Graph!KahnInit
  PROVE  SearchInv'
  <1>0. /\ search = "dfs" /\ StackIsPath /\ SeenIsDone /\ Acyclic(Finished) /\ levels = <<>> /\ placed = 0 /\ edges \in Graphs
        /\ SearchTyping /\ LevelTyping
    BY DEF SearchInv, SearchTyping, Graph!KahnInit
  <1>1. /\ stack = <<>> /\ Graph!Unvisited = {} /\ search' = "kahn" /\ UNCHANGED <<edges, levels, placed, marks, stack, unseen, cycle>>
        /\ remaining' = [n \in Graph!Vertices |-> Graph!Indegree(n)]
        /\ current' = {n \in Graph!Vertices : Graph!Indegree(n) = 0}
    BY DEF Graph!KahnInit, Graph!dfsVars
  <1>2. Finished = Graph!Vertices
    BY <1>0, <1>1 DEF Finished, StackIsPath, SearchTyping, Graph!Unvisited
  <1>3. (\A n : Graph!Succ(n)' = Graph!Succ(n)) /\ (\A n : Graph!Into(n)' = Graph!Into(n))
    BY <1>1 DEF Graph!Succ, Graph!Into
  <1>4. Acyclic(Graph!Vertices)'
    BY <1>0, <1>2, <1>3 DEF Acyclic
  <1>5. \A n : Graph!Indegree(n) \in Nat /\ Graph!Indegree(n) = Cardinality(Graph!Into(n))
    BY <1>0, EdgeFacts, GraphCardinality, FS_CardinalityType DEF Graph!Indegree
  <1>6. PlacedSet' = {} /\ \A n : Waiting(n)' = Graph!Into(n)
    BY <1>0, <1>1, <1>3 DEF PlacedSet, Waiting
  <1>7. SearchTyping' /\ LevelTyping'
    BY <1>0, <1>1, <1>3, <1>5 DEF SearchTyping, LevelTyping
  <1>8. LevelsAreLevels'
    BY <1>0, <1>1 DEF LevelsAreLevels
  <1>9. NextIsReady'
    <2>1. \A n \in Graph!Vertices : remaining'[n] = Cardinality(Waiting(n)')
      BY <1>1, <1>5, <1>6
    <2>2. current' = {n \in Graph!Vertices \ PlacedSet' : remaining'[n] = 0}
      BY <1>1, <1>6
    <2>3. placed' = Cardinality(PlacedSet') /\ Len(levels') <= placed'
      BY <1>0, <1>1, <1>6, FS_EmptySet
    <2> QED
      BY <1>0, <1>1, <1>3, <2>1, <2>2, <2>3 DEF NextIsReady
  <1>10. Graph!ReportedCycleIsReal'
    BY <1>1 DEF Graph!ReportedCycleIsReal
  <1> QED
    BY <1>1, <1>4, <1>7, <1>8, <1>9, <1>10 DEF SearchInv

(* A turn of Kahn's loop: what was current is placed, and the next level is *)
(* what waited for it only.                                                 *)
LEMMA KahnLevelStep ==
  ASSUME SearchInv, Graph!KahnLevel
  PROVE  SearchInv'
  <1> DEFINE L == Len(levels)
             Taken(n) == {e \in Graph!Into(n) : edges[e][1] \in current}
  <1>0. /\ search = "kahn" /\ Acyclic(Graph!Vertices) /\ LevelsAreLevels /\ NextIsReady /\ edges \in Graphs
        /\ SearchTyping /\ LevelTyping
    BY DEF SearchInv, SearchTyping, Graph!KahnLevel
  <1>1. /\ current # {} /\ levels' = Append(levels, current) /\ UNCHANGED <<edges, search, marks, stack, unseen, cycle>>
        /\ remaining' = [n \in Graph!Vertices |-> remaining[n] - Graph!FromCurrent(n)]
        /\ current' = Graph!NextLevel /\ placed' = placed + Graph!Cardinality(current)
    BY DEF Graph!KahnLevel, Graph!dfsVars
  <1>2. (\A n : Graph!Succ(n)' = Graph!Succ(n)) /\ (\A n : Graph!Into(n)' = Graph!Into(n))
    BY <1>1 DEF Graph!Succ, Graph!Into
  <1>3. /\ L \in Nat /\ Len(levels') = L + 1 /\ levels' \in Seq(SUBSET Graph!Vertices) /\ levels'[L + 1] = current
        /\ \A i \in 1..L : levels'[i] = levels[i] /\ levels[i] \in SUBSET Graph!Vertices
    BY <1>0, <1>1 DEF LevelTyping
  <1>4. PlacedSet' = PlacedSet \cup current /\ PlacedSet \subseteq Graph!Vertices
    BY <1>3 DEF PlacedSet
  <1>5. current \cap PlacedSet = {} /\ current \subseteq Graph!Vertices
    BY <1>0 DEF NextIsReady
  <1>6. \A n \in PlacedSet : \A m \in Graph!Vertices : n \in Graph!Succ(m) => m \in PlacedSet
    <2> SUFFICES ASSUME NEW i \in 1..L, NEW n \in levels[i], NEW m \in Graph!Vertices, n \in Graph!Succ(m)
                 PROVE  m \in PlacedSet
      BY DEF PlacedSet
    <2>1. PICK k \in 1..(i - 1) : m \in levels[k]
      BY <1>0 DEF LevelsAreLevels
    <2>2. k \in 1..L
      BY <1>3
    <2> QED
      BY <2>1, <2>2 DEF PlacedSet
  <1>7. \A n \in current : \A m \in Graph!Vertices : n \in Graph!Succ(m) => m \in PlacedSet
    <2> SUFFICES ASSUME NEW n \in current, NEW m \in Graph!Vertices, n \in Graph!Succ(m), m \notin PlacedSet
                 PROVE  FALSE
      OBVIOUS
    <2>1. Cardinality(Waiting(n)) = 0 /\ IsFiniteSet(Waiting(n))
      BY <1>0, EdgeFacts, FS_Subset DEF NextIsReady, Waiting
    <2>2. \E e \in Graph!Into(n) : edges[e][1] = m
      BY <1>0, EdgeFacts
    <2> QED
      BY <2>1, <2>2, FS_EmptySet DEF Waiting
  <1>8. \A n \in Graph!Vertices : /\ IsFiniteSet(Waiting(n)) /\ IsFiniteSet(Taken(n)) /\ Graph!FromCurrent(n) = Cardinality(Taken(n))
                                  /\ Cardinality(Taken(n)) \in Nat /\ Cardinality(Waiting(n)') = Cardinality(Waiting(n)) - Cardinality(Taken(n))
                                  /\ Cardinality(Waiting(n)') \in Nat
    <2> SUFFICES ASSUME NEW n \in Graph!Vertices
                 PROVE  /\ IsFiniteSet(Waiting(n)) /\ IsFiniteSet(Taken(n)) /\ Graph!FromCurrent(n) = Cardinality(Taken(n))
                        /\ Cardinality(Taken(n)) \in Nat /\ Cardinality(Waiting(n)') = Cardinality(Waiting(n)) - Cardinality(Taken(n))
                        /\ Cardinality(Waiting(n)') \in Nat
      OBVIOUS
    <2>1. IsFiniteSet(Waiting(n)) /\ IsFiniteSet(Taken(n))
      BY <1>0, EdgeFacts, FS_Subset DEF Waiting
    <2>2. Graph!FromCurrent(n) = Cardinality(Taken(n))
      BY GraphCardinality DEF Graph!FromCurrent
    <2>3. Waiting(n)' = Waiting(n) \ Taken(n) /\ Waiting(n) \cap Taken(n) = Taken(n)
      BY <1>1, <1>2, <1>4, <1>5 DEF Waiting
    <2> HIDE DEF Taken
    <2>4. Cardinality(Waiting(n) \ Taken(n)) = Cardinality(Waiting(n)) - Cardinality(Taken(n)) /\ IsFiniteSet(Waiting(n) \ Taken(n))
      BY <2>1, <2>3, FS_Difference
    <2> QED
      BY <2>1, <2>2, <2>3, <2>4, FS_CardinalityType
  <1>9. \A n \in Graph!Vertices : Cardinality(Taken(n)) > 0 <=> \E m \in current : n \in Graph!Succ(m)
    <2> SUFFICES ASSUME NEW n \in Graph!Vertices
                 PROVE  Cardinality(Taken(n)) > 0 <=> \E m \in current : n \in Graph!Succ(m)
      OBVIOUS
    <2>1. Cardinality(Taken(n)) = 0 <=> Taken(n) = {}
      BY <1>8, FS_EmptySet
    <2>2. Taken(n) # {} <=> \E m \in current : n \in Graph!Succ(m)
      BY <1>0, EdgeFacts
    <2> HIDE DEF Taken
    <2> QED
      BY <1>8, <2>1, <2>2
  <1> HIDE DEF Taken
  <1>10. \A n \in Graph!Vertices : remaining'[n] = Cardinality(Waiting(n)') /\ remaining[n] = Cardinality(Waiting(n))
    BY <1>0, <1>1, <1>8 DEF NextIsReady
  <1>11. current' = {n \in Graph!Vertices \ PlacedSet' : remaining'[n] = 0}
    <2>1. ASSUME NEW n \in current' PROVE n \in Graph!Vertices \ PlacedSet' /\ remaining'[n] = 0
      <3>1. n \in Graph!Vertices /\ Graph!FromCurrent(n) > 0 /\ remaining[n] - Graph!FromCurrent(n) = 0
        BY <1>1, <2>1 DEF Graph!NextLevel
      <3>2. PICK m \in current : n \in Graph!Succ(m)
        BY <1>8, <1>9, <3>1
      <3>3. m \in Graph!Vertices /\ m \notin PlacedSet
        BY <1>5
      <3> QED
        BY <1>1, <1>4, <1>6, <1>7, <3>1, <3>2, <3>3
    <2>2. ASSUME NEW n \in Graph!Vertices \ PlacedSet', remaining'[n] = 0 PROVE n \in current'
      <3>1. n \notin PlacedSet /\ n \notin current
        BY <1>4
      <3>2. remaining[n] # 0
        BY <1>0, <3>1 DEF NextIsReady
      <3>3. remaining[n] \in Nat /\ Graph!FromCurrent(n) \in Nat /\ remaining'[n] = remaining[n] - Graph!FromCurrent(n)
        BY <1>0, <1>1, <1>8 DEF LevelTyping
      <3>4. Graph!FromCurrent(n) > 0
        BY <2>2, <3>2, <3>3
      <3> QED
        BY <1>1, <2>2, <3>3, <3>4 DEF Graph!NextLevel
    <2> QED
      BY <2>1, <2>2
  <1>12. \A n \in current' : \E m \in current : n \in Graph!Succ(m)
    BY <1>1, <1>8, <1>9 DEF Graph!NextLevel
  <1>13. placed' = Cardinality(PlacedSet') /\ Len(levels') <= placed' /\ placed' \in Nat
    <2>1. IsFiniteSet(Graph!Vertices)
      BY <1>0, EdgeFacts, FS_Interval DEF Graph!Vertices
    <2>2. IsFiniteSet(PlacedSet) /\ IsFiniteSet(current)
      BY <1>4, <1>5, <2>1, FS_Subset
    <2>3. Cardinality(PlacedSet \cup current) = Cardinality(PlacedSet) + Cardinality(current)
      <3>1. Cardinality(PlacedSet \cap current) = 0
        <4>1. PlacedSet \cap current = {}
          BY <1>5
        <4> QED
          BY <4>1, FS_EmptySet
      <3>2. Cardinality(PlacedSet) \in Nat /\ Cardinality(current) \in Nat
        BY <2>2, FS_CardinalityType
      <3>3. Cardinality(PlacedSet \cup current) = Cardinality(PlacedSet) + Cardinality(current) - Cardinality(PlacedSet \cap current)
        BY <2>2, FS_Union
      <3> QED
        BY <3>1, <3>2, <3>3
    <2>4. Cardinality(current) \in Nat /\ Cardinality(current) # 0
      BY <1>1, <2>2, FS_CardinalityType, FS_EmptySet
    <2>5. placed = Cardinality(PlacedSet) /\ L <= placed /\ placed \in Nat
      BY <1>0 DEF NextIsReady, LevelTyping
    <2>6. placed' = placed + Cardinality(current)
      BY <1>1, GraphCardinality
    <2> QED
      BY <1>3, <1>4, <2>3, <2>4, <2>5, <2>6
  <1>14. LevelTyping'
    <2>1. remaining' \in [Graph!Vertices -> Nat]
      BY <1>1, <1>8, <1>10
    <2>2. current' \in SUBSET Graph!Vertices
      BY <1>11
    <2> QED
      BY <1>3, <1>13, <2>1, <2>2 DEF LevelTyping
  <1>15. LevelsAreLevels'
    <2>1. \A i \in 1..L : levels'[i] \subseteq PlacedSet
      BY <1>3 DEF PlacedSet
    <2>2. \A i, k \in 1..(L + 1) : \A n \in levels'[i] : n \in levels'[k] => i = k
      BY <1>0, <1>3, <1>5, <2>1 DEF LevelsAreLevels
    <2>3. ASSUME NEW i \in 1..(L + 1), NEW n \in levels'[i], NEW m \in Graph!Vertices, n \in Graph!Succ(m)
          PROVE  \E k \in 1..(i - 1) : m \in levels'[k]
      <3>1. CASE i = L + 1
        <4>1. m \in PlacedSet
          BY <1>3, <1>7, <2>3, <3>1
        <4> QED
          BY <1>3, <3>1, <4>1 DEF PlacedSet
      <3>2. CASE i \in 1..L
        <4>1. PICK k \in 1..(i - 1) : m \in levels[k]
          BY <1>0, <1>3, <2>3, <3>2 DEF LevelsAreLevels
        <4> QED
          BY <1>3, <3>2, <4>1
      <3>3. i = L + 1 \/ i \in 1..L
        BY <1>3
      <3> QED
        BY <3>1, <3>2, <3>3
    <2>4. ASSUME NEW i \in 2..(L + 1), NEW n \in levels'[i]
          PROVE  \E m \in levels'[i - 1] : n \in Graph!Succ(m)
      <3>1. CASE i = L + 1
        BY <1>0, <1>3, <2>4, <3>1 DEF NextIsReady
      <3>2. CASE i \in 2..L
        BY <1>0, <1>3, <2>4, <3>2 DEF LevelsAreLevels
      <3> QED
        BY <1>3, <3>1, <3>2
    <2> QED
      BY <1>2, <1>3, <2>2, <2>3, <2>4 DEF LevelsAreLevels
  <1>16. NextIsReady'
    BY <1>2, <1>3, <1>10, <1>11, <1>12, <1>13 DEF NextIsReady
  <1>17. SearchTyping' /\ Acyclic(Graph!Vertices)'
    BY <1>0, <1>1, <1>2 DEF SearchTyping, Acyclic
  <1>18. Graph!ReportedCycleIsReal'
    BY <1>0, <1>1 DEF Graph!ReportedCycleIsReal
  <1> QED
    BY <1>0, <1>1, <1>14, <1>15, <1>16, <1>17, <1>18 DEF SearchInv

(* With nothing left to place, all is placed: what is not waits for         *)
(* something that is not, which only a cycle allows.                        *)
LEMMA AllPlaced ==
  ASSUME SearchInv, search = "kahn", current = {}
  PROVE  PlacedSet = Graph!Vertices /\ placed = NodeCount
  <1> DEFINE R == Graph!Vertices \ PlacedSet
  <1>0. Acyclic(Graph!Vertices) /\ NextIsReady /\ LevelTyping /\ edges \in Graphs
    BY DEF SearchInv, SearchTyping
  <1>1. PlacedSet \subseteq Graph!Vertices
    BY <1>0 DEF PlacedSet, LevelTyping
  <1>2. R = {}
    <2> SUFFICES ASSUME R # {} PROVE FALSE
      OBVIOUS
    <2>1. PICK n \in R : \A m \in R : n \notin Graph!Succ(m)
      BY <1>0 DEF Acyclic
    <2>2. Waiting(n) = {}
      BY <1>0, <2>1, EdgeFacts DEF Waiting
    <2>3. remaining[n] = 0
      BY <1>0, <2>1, <2>2, FS_EmptySet DEF NextIsReady
    <2> QED
      BY <1>0, <2>1, <2>3 DEF NextIsReady
  <1>3. Cardinality(Graph!Vertices) = NodeCount
    BY <1>0, EdgeFacts, FS_Interval DEF Graph!Vertices
  <1> QED
    BY <1>0, <1>1, <1>2, <1>3 DEF NextIsReady

(* A set of naturals has a least one.                                       *)
LEMMA LeastOfNaturals ==
  ASSUME NEW S \in SUBSET Nat, S # {}
  PROVE  \E x \in S : \A y \in S : x <= y
  <1> DEFINE R == OpToRel(<, Nat)
  <1>1. \A x, y \in Nat : x < y => <<x, y>> \in R
    BY DEF OpToRel
  <1>2. IsWellFoundedOn(R, Nat)
    BY NatLessThanWellFounded
  <1> HIDE DEF R
  <1>3. PICK x \in S : \A y \in S : ~(<<y, x>> \in R)
    BY <1>2, WFMin
  <1>4. \A y \in S : x <= y
    <2> SUFFICES ASSUME NEW y \in S, ~(x <= y) PROVE FALSE
      OBVIOUS
    <2>1. x \in Nat /\ y \in Nat
      OBVIOUS
    <2>2. y < x
      BY <2>1
    <2> QED
      BY <1>1, <1>3, <2>1, <2>2
  <1> QED
    BY <1>4

(* The greatest of a set of integers is its Max.                            *)
LEMMA GreatestIsMax ==
  ASSUME NEW S, NEW x \in S, x \in Int, \A y \in S : y \in Int /\ y <= x
  PROVE  Graph!Max(S) = x
  <1>1. PICK m : m = Graph!Max(S)
    OBVIOUS
  <1>2. \A y \in S : x >= y
    OBVIOUS
  <1>3. m \in S /\ \A y \in S : m >= y
    BY <1>1, <1>2 DEF Graph!Max
  <1>4. m \in Int /\ m <= x /\ m >= x
    BY <1>3
  <1> QED
    BY <1>1, <1>4

(* SearchInv is inductive.                                                  *)
LEMMA SearchStep == SearchInv /\ [Graph!Next]_(Graph!vars) => SearchInv'
  <1> SUFFICES ASSUME SearchInv, [Graph!Next]_(Graph!vars) PROVE SearchInv'
    OBVIOUS
  <1>0. SearchTyping /\ LevelTyping /\ Graph!ReportedCycleIsReal
    BY DEF SearchInv
  <1>1. ASSUME search = "dfs", search' = "dfs", StackIsPath' /\ SeenIsDone' /\ Acyclic(Finished)' /\ SearchTyping',
               UNCHANGED Graph!kahnVars
        PROVE  SearchInv'
    <2>1. levels = <<>> /\ placed = 0 /\ UNCHANGED <<remaining, current, levels, placed>>
      BY <1>1 DEF SearchInv, Graph!kahnVars
    <2>2. LevelTyping'
      BY <1>0, <2>1 DEF LevelTyping, Graph!Vertices
    <2>3. Graph!ReportedCycleIsReal'
      BY <1>1 DEF Graph!ReportedCycleIsReal
    <2> QED
      BY <1>1, <2>1, <2>2, <2>3 DEF SearchInv
  <1>2. CASE Graph!DfsRoot
    <2> DEFINE n == CHOOSE n \in Graph!Unvisited : \A m \in Graph!Unvisited : n <= m
    <2>1. n \in Graph!Unvisited
      <3>1. Graph!Unvisited # {} /\ Graph!Unvisited \in SUBSET Nat
        BY <1>2, <1>0, EdgeFacts DEF Graph!DfsRoot, Graph!Unvisited, Graph!Vertices, SearchTyping
      <3>2. \E x \in Graph!Unvisited : \A y \in Graph!Unvisited : x <= y
        BY <3>1, LeastOfNaturals
      <3> QED
        BY <3>2
    <2> HIDE DEF n
    <2>2. n \in Graph!Vertices /\ marks[n] = "Unvisited"
      BY <2>1 DEF Graph!Unvisited
    <2>3. search = "dfs" /\ stack = <<>> /\ Graph!Enter(n) /\ unseen' = [unseen EXCEPT ![n] = Graph!Succ(n)]
      BY <1>2 DEF Graph!DfsRoot, n
    <2>4. search' = "dfs" /\ UNCHANGED Graph!kahnVars
      BY <2>3 DEF Graph!Enter
    <2> QED
      BY <1>1, <2>2, <2>3, <2>4, EnterStep
  <1>3. ASSUME NEW m \in Graph!Vertices, Graph!DfsEdge(m) PROVE SearchInv'
    <2>0. search = "dfs" /\ stack # <<>> /\ m \in unseen[Graph!Top]
      BY <1>3 DEF Graph!DfsEdge
    <2>1. CASE marks[m] = "InStack"
      <3>1. /\ cycle' = Graph!ClosedAt(m) /\ search' = "rejected"
            /\ UNCHANGED <<edges, marks, stack, unseen, remaining, current, levels, placed>>
        BY <1>3, <2>1 DEF Graph!DfsEdge, Graph!kahnVars
      <3>2. Graph!ReportedCycleIsReal'
        BY <2>0, <2>1, <3>1, RejectStep
      <3>3. SearchTyping' /\ LevelTyping'
        BY <1>0, <3>1 DEF SearchTyping, LevelTyping, Graph!Succ, Graph!Vertices
      <3> QED
        BY <3>1, <3>2, <3>3 DEF SearchInv
    <2>2. CASE marks[m] = "Unvisited"
      <3>1. Graph!Enter(m) /\ unseen' = [unseen EXCEPT ![Graph!Top] = @ \ {m}, ![m] = Graph!Succ(m)]
        BY <1>3, <2>2 DEF Graph!DfsEdge
      <3>2. search' = "dfs" /\ UNCHANGED Graph!kahnVars
        BY <2>0, <3>1 DEF Graph!Enter
      <3> QED
        BY <1>1, <2>0, <2>2, <3>1, <3>2, EnterStep
    <2>3. CASE marks[m] = "Done"
      <3>1. /\ unseen' = [unseen EXCEPT ![Graph!Top] = @ \ {m}]
            /\ UNCHANGED <<edges, search, marks, stack>> /\ UNCHANGED Graph!kahnVars
        BY <1>3, <2>3 DEF Graph!DfsEdge
      <3> QED
        BY <1>1, <2>0, <2>3, <3>1, PassStep
    <2> QED
      BY <1>0, <2>1, <2>2, <2>3 DEF SearchTyping
  <1>4. CASE Graph!DfsPop
    <2>1. search = "dfs" /\ search' = "dfs" /\ UNCHANGED Graph!kahnVars
      BY <1>4 DEF Graph!DfsPop
    <2> QED
      BY <1>1, <1>4, <2>1, PopStep
  <1>5. CASE Graph!KahnInit
    BY <1>5, KahnInitStep
  <1>6. CASE Graph!KahnLevel
    BY <1>6, KahnLevelStep
  <1>7. CASE Graph!KahnEnd
    <2>1. search = "kahn" /\ current = {} /\ search' = IF placed = NodeCount THEN "built" ELSE "panic"
      BY <1>7 DEF Graph!KahnEnd
    <2>2. UNCHANGED <<edges, marks, stack, unseen, cycle, remaining, current, levels, placed>>
      BY <1>7 DEF Graph!KahnEnd, Graph!dfsVars, Graph!kahnVars
    <2>3. PlacedSet = Graph!Vertices /\ search' = "built"
      BY <2>1, AllPlaced
    <2>4. SearchTyping' /\ LevelTyping'
      BY <1>0, <2>2, <2>3 DEF SearchTyping, LevelTyping, Graph!Succ, Graph!Vertices
    <2>5. Acyclic(Graph!Vertices)' /\ LevelsAreLevels' /\ NextIsReady' /\ PlacedSet' = PlacedSet
      BY <2>1, <2>2
      DEF SearchInv, Acyclic, LevelsAreLevels, NextIsReady, PlacedSet, Waiting, Graph!Succ, Graph!Into, Graph!Vertices
    <2>6. Graph!ReportedCycleIsReal'
      BY <2>3 DEF Graph!ReportedCycleIsReal
    <2> QED
      BY <2>3, <2>4, <2>5, <2>6 DEF SearchInv
  <1>8. CASE UNCHANGED Graph!vars
    <2>1. UNCHANGED <<edges, search, marks, stack, unseen, cycle, remaining, current, levels, placed>>
      BY <1>8 DEF Graph!vars
    <2>2. (SearchTyping <=> SearchTyping') /\ (LevelTyping <=> LevelTyping')
      BY <2>1 DEF SearchTyping, LevelTyping, Graph!Succ
    <2>3. (StackIsPath <=> StackIsPath') /\ (SeenIsDone <=> SeenIsDone')
      BY <2>1 DEF StackIsPath, SeenIsDone, Finished, Graph!Succ
    <2>4. (Acyclic(Finished) <=> Acyclic(Finished)') /\ (Acyclic(Graph!Vertices) <=> Acyclic(Graph!Vertices)')
      BY <2>1 DEF Acyclic, Finished, Graph!Succ
    <2>5. (LevelsAreLevels <=> LevelsAreLevels') /\ PlacedSet' = PlacedSet
      BY <2>1 DEF LevelsAreLevels, PlacedSet, Graph!Succ
    <2>6. NextIsReady <=> NextIsReady'
      BY <2>1 DEF NextIsReady, PlacedSet, Waiting, Graph!Into, Graph!Succ
    <2>7. Graph!ReportedCycleIsReal <=> Graph!ReportedCycleIsReal'
      BY <2>1 DEF Graph!ReportedCycleIsReal, Graph!Succ
    <2> QED
      BY <2>1, <2>2, <2>3, <2>4, <2>5, <2>6, <2>7 DEF SearchInv
  <1> QED
    BY <1>2, <1>3, <1>4, <1>5, <1>6, <1>7, <1>8 DEF Graph!Next

(* The search and Kahn's algorithm agree on every flow, whatever its nodes  *)
(* and edges: the expect() of FlowGraph::build never fires (graph.rs L125). *)
THEOREM BuildNeverPanics == Graph!Spec => []NeverPanics
  <1>1. SearchInv => NeverPanics
    BY DEF SearchInv, NeverPanics, Graph!NeverPanics
  <1> QED
    BY SearchStart, SearchStep, <1>1, PTL DEF Graph!Spec

(* What validate reports as a cycle is one of the flow, on every flow       *)
(* (graph.rs L451-456).                                                     *)
THEOREM ReportedCyclesAreReal == Graph!Spec => []Graph!ReportedCycleIsReal
  <1>1. SearchInv => Graph!ReportedCycleIsReal
    BY DEF SearchInv
  <1> QED
    BY SearchStart, SearchStep, <1>1, PTL DEF Graph!Spec

\* That d gives every node one more than the deepest that points to it.
Before(d, n) == {d[m] + 1 : m \in {m \in Graph!Vertices : n \in Graph!Succ(m)}}
IsDepth(d) == \A n \in Graph!Vertices : d[n] = IF Before(d, n) = {} THEN 0 ELSE Graph!Max(Before(d, n))

(* Without a cycle there is only one depth.                                 *)
LEMMA DepthIsUnique ==
  ASSUME Acyclic(Graph!Vertices), NEW c, IsDepth(c), NEW d, IsDepth(d), NEW n \in Graph!Vertices
  PROVE  c[n] = d[n]
  <1> DEFINE T == {m \in Graph!Vertices : c[m] # d[m]}
  <1> SUFFICES ASSUME T # {} PROVE FALSE
    OBVIOUS
  <1>1. PICK x \in T : \A y \in T : x \notin Graph!Succ(y)
    BY DEF Acyclic
  <1>2. \A m \in {m \in Graph!Vertices : x \in Graph!Succ(m)} : c[m] = d[m]
    BY <1>1
  <1>3. Before(c, x) = Before(d, x)
    BY <1>2 DEF Before
  <1> QED
    BY <1>1, <1>3 DEF IsDepth

(* The levels of an accepted flow hold every node exactly once, at the      *)
(* length of the longest path to it, on every flow (graph.rs L364-409).     *)
THEOREM LevelsAreDepths == Graph!Spec => []LevelIsDepth
  <1>1. SearchInv => LevelIsDepth
    <2> SUFFICES ASSUME SearchInv, search = "built"
                 PROVE  \A n \in Graph!Vertices : {i \in 1..Len(levels) : n \in levels[i]} = {Graph!Depth[n] + 1}
      BY DEF LevelIsDepth, Graph!LevelIsDepth
    <2> DEFINE At(n) == CHOOSE i \in 1..Len(levels) : n \in levels[i]
               c == [n \in Graph!Vertices |-> At(n) - 1]
    <2>1. /\ PlacedSet = Graph!Vertices /\ LevelsAreLevels /\ NextIsReady /\ Acyclic(Graph!Vertices) /\ LevelTyping
          /\ edges \in Graphs /\ NodeCount \in Nat
      BY EdgeFacts DEF SearchInv, SearchTyping
    <2>2. Len(levels) \in Nat /\ Len(levels) <= NodeCount /\ \A i \in 1..Len(levels) : levels[i] \subseteq Graph!Vertices
      <3>1. Cardinality(Graph!Vertices) = NodeCount
        BY <2>1, FS_Interval DEF Graph!Vertices
      <3> QED
        BY <2>1, <3>1 DEF NextIsReady, LevelTyping
    <2>3. \A n \in Graph!Vertices : At(n) \in 1..Len(levels) /\ n \in levels[At(n)]
      BY <2>1 DEF PlacedSet
    <2>4. \A n \in Graph!Vertices : \A i \in 1..Len(levels) : n \in levels[i] => i = At(n)
      BY <2>1, <2>3 DEF LevelsAreLevels
    <2> HIDE DEF At
    <2>5. c \in [Graph!Vertices -> 0..NodeCount]
      BY <2>1, <2>2, <2>3
    <2>6. IsDepth(c)
      <3> SUFFICES ASSUME NEW n \in Graph!Vertices
                   PROVE  c[n] = IF Before(c, n) = {} THEN 0 ELSE Graph!Max(Before(c, n))
        BY DEF IsDepth
      <3>1. \A m \in Graph!Vertices : n \in Graph!Succ(m) => At(m) < At(n)
        <4> SUFFICES ASSUME NEW m \in Graph!Vertices, n \in Graph!Succ(m) PROVE At(m) < At(n)
          OBVIOUS
        <4>1. PICK k \in 1..(At(n) - 1) : m \in levels[k]
          BY <2>1, <2>3 DEF LevelsAreLevels
        <4>2. k \in 1..Len(levels)
          BY <2>2, <2>3
        <4> QED
          BY <2>3, <2>4, <4>1, <4>2
      <3>2. \A x \in Before(c, n) : x \in Int /\ x <= c[n]
        BY <2>2, <2>3, <3>1 DEF Before
      <3>3. CASE At(n) = 1
        <4>1. Before(c, n) = {}
          BY <2>3, <3>1, <3>3 DEF Before
        <4> QED
          BY <3>3, <4>1
      <3>4. CASE At(n) # 1
        <4>1. PICK m \in levels[At(n) - 1] : n \in Graph!Succ(m)
          BY <2>1, <2>2, <2>3, <3>4 DEF LevelsAreLevels
        <4>2. At(n) - 1 \in 1..Len(levels) /\ m \in Graph!Vertices
          BY <2>2, <2>3, <3>4, <4>1
        <4>3. At(m) = At(n) - 1
          BY <2>4, <4>1, <4>2
        <4>4. c[n] \in Before(c, n)
          BY <2>3, <4>1, <4>2, <4>3 DEF Before
        <4>5. c[n] \in Int
          BY <2>2, <2>3
        <4> HIDE DEF c
        <4>6. Graph!Max(Before(c, n)) = c[n]
          BY <3>2, <4>4, <4>5, GreatestIsMax
        <4> QED
          BY <4>4, <4>6
      <3> QED
        BY <3>3, <3>4
    <2>7. Graph!Depth \in [Graph!Vertices -> 0..NodeCount] /\ IsDepth(Graph!Depth)
      <3> HIDE DEF c
      <3>1. \E d \in [Graph!Vertices -> 0..NodeCount] : IsDepth(d)
        BY <2>5, <2>6
      <3> QED
        BY <3>1 DEF Graph!Depth, IsDepth, Before
    <2>8. \A n \in Graph!Vertices : Graph!Depth[n] = c[n]
      <3> HIDE DEF c
      <3> QED
        BY <2>1, <2>6, <2>7, DepthIsUnique
    <2>9. \A n \in Graph!Vertices : Graph!Depth[n] + 1 = At(n)
      BY <2>2, <2>3, <2>8
    <2> QED
      BY <2>3, <2>4, <2>9
  <1> QED
    BY SearchStart, SearchStep, <1>1, PTL DEF Graph!Spec
=============================================================================
