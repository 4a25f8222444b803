--------------------------- MODULE FlowStoreProofs ---------------------------
(***************************************************************************)
(* The files of the flows.                                                 *)
(*                                                                         *)
(* One flow (module FlowStore), for any number of saves and deletes: as    *)
(* long as no two saves of it overlap, its file is whole at every moment   *)
(* and keeps its old version until a rename.  The invariant behind it ties *)
(* the one save under way to the inode it writes: the temporary name       *)
(* refers to it, its bytes are what the save has got to, and no request    *)
(* that has yet to open a file finds its inode in use.                     *)
(*                                                                         *)
(* The service (module FlowService), for any flows, runs, requests dropped *)
(* and restarts: what a deleted flow leaves, what the prunes of runs that  *)
(* end together leave, when a trigger fires.  The invariant has an account *)
(* of every run whose flow is gone; of every listing a prune works on,     *)
(* which of the others know it; of every trigger, that it is not ahead.    *)
(***************************************************************************)
EXTENDS FlowFiles, Sequences, FiniteSetTheorems, WellFoundedInduction, TLAPS

Fresh == \A s \in Savers : at[s] \in {"idle", "checking", "reading", "opening"} => file # s /\ temp # s

Alone == \A s, r \in Busy : s = r

Progress == \A s \in Savers :
    /\ at[s] \in {"writing", "orphaned"} => fd[s] # None /\ fd[s] = temp /\ content[fd[s]] = "empty"
    /\ at[s] = "renaming" => fd[s] # None /\ fd[s] = temp /\ content[fd[s]] = s

Quiet == ~overlapped => Alone /\ Progress /\ ~Torn

Opened == \A s \in Savers : at[s] \in {"writing", "orphaned"} => fd[s] \in Savers

IInv == TypeOK /\ Fresh /\ Opened /\ Quiet

(* The invariant holds at first. *)
LEMMA InitIInv == Init => IInv
  BY RequestsAssumption DEF Init, IInv, TypeOK, Fresh, Opened, Quiet, Alone, Progress, Torn, Busy, Stages

(* The types, and the part of the invariant that holds with overlaps too.   *)
LEMMA TypingStep == TypeOK /\ Fresh /\ Opened /\ [Next]_vars => TypeOK' /\ Fresh' /\ Opened'
<1> SUFFICES ASSUME TypeOK, Fresh, Opened, [Next]_vars PROVE TypeOK' /\ Fresh' /\ Opened'
  OBVIOUS
<1> USE RequestsAssumption DEF TypeOK, Fresh, Opened, Stages, Goes, disk
<1>1. ASSUME NEW s \in Savers, StartSave(s) PROVE TypeOK' /\ Fresh' /\ Opened'
  BY <1>1 DEF StartSave
<1>2. ASSUME NEW s \in Savers, ReadOld(s) PROVE TypeOK' /\ Fresh' /\ Opened'
  BY <1>2 DEF ReadOld
<1>3. ASSUME NEW s \in Savers, OpenTemp(s) PROVE TypeOK' /\ Fresh' /\ Opened'
  BY <1>3 DEF OpenTemp
<1>4. ASSUME NEW s \in Savers, WriteTemp(s) PROVE TypeOK' /\ Fresh' /\ Opened'
  BY <1>4 DEF WriteTemp
<1>5. ASSUME NEW s \in Savers, WriteFails(s) PROVE TypeOK' /\ Fresh' /\ Opened'
  BY <1>5 DEF WriteFails
<1>6. ASSUME NEW s \in Savers, Rename(s) PROVE TypeOK' /\ Fresh' /\ Opened'
  BY <1>6 DEF Rename
<1>7. ASSUME NEW s \in Savers, RenameFails(s) PROVE TypeOK' /\ Fresh' /\ Opened'
  BY <1>7 DEF RenameFails
<1>8. ASSUME NEW s \in Savers, CleanUp(s) PROVE TypeOK' /\ Fresh' /\ Opened'
  BY <1>8 DEF CleanUp
<1>9. ASSUME NEW s \in Savers, FindOld(s) PROVE TypeOK' /\ Fresh' /\ Opened'
  BY <1>9 DEF FindOld
<1>10. ASSUME NEW s \in Savers, Abandon(s) PROVE TypeOK' /\ Fresh' /\ Opened'
  BY <1>10 DEF Abandon
<1>11. ASSUME NEW s \in Savers, OrphanWrites(s) PROVE TypeOK' /\ Fresh' /\ Opened'
  BY <1>11 DEF OrphanWrites
<1>12. ASSUME NEW d \in Deleters, FindDoomed(d) \/ Remove(d) PROVE TypeOK' /\ Fresh' /\ Opened'
  BY <1>12 DEF FindDoomed, Remove
<1>13. CASE Crash \/ UNCHANGED vars
  BY <1>13 DEF Crash, vars
<1>14. QED
  BY <1>1, <1>2, <1>3, <1>4, <1>5, <1>6, <1>7, <1>8, <1>9, <1>10, <1>11, <1>12, <1>13
     DEF Next, SaveStep

(* Once two saves have overlapped, the ghost says so for ever.              *)
LEMMA OverlapStays == TypeOK /\ [Next]_vars /\ ~overlapped' => ~overlapped
<1> SUFFICES ASSUME TypeOK, [Next]_vars, overlapped PROVE overlapped'
  BY DEF TypeOK
<1>1. ASSUME NEW s \in Savers, StartSave(s) PROVE overlapped'
  BY <1>1 DEF StartSave, TypeOK
<1>2. ASSUME NEW s \in Savers, SaveStep(s) \/ Abandon(s) PROVE overlapped'
  BY <1>2 DEF SaveStep, FindOld, ReadOld, OpenTemp, WriteTemp, WriteFails, Rename, RenameFails,
              CleanUp, OrphanWrites, Abandon
<1>3. ASSUME NEW d \in Deleters, FindDoomed(d) \/ Remove(d) PROVE overlapped'
  BY <1>3 DEF FindDoomed, Remove
<1>4. CASE Crash \/ UNCHANGED vars
  BY <1>4 DEF Crash, vars
<1>5. QED
  BY <1>1, <1>2, <1>3, <1>4 DEF Next

(* A save that is the only one under way meets nobody in its files.         *)
LEMMA QuietStep == IInv /\ [Next]_vars => Quiet'
<1> SUFFICES ASSUME IInv, [Next]_vars, ~overlapped' PROVE Alone' /\ Progress' /\ ~Torn'
  BY DEF Quiet
<1>0. ~overlapped /\ Alone /\ Progress /\ ~Torn /\ TypeOK /\ Fresh
  BY OverlapStays DEF IInv, Quiet
<1> USE <1>0, RequestsAssumption DEF TypeOK, Fresh, Alone, Progress, Torn, Busy, Goes, disk
<1>1. ASSUME NEW s \in Savers, StartSave(s) PROVE Alone' /\ Progress' /\ ~Torn'
  BY <1>1 DEF StartSave
<1>2. ASSUME NEW s \in Savers, ReadOld(s) PROVE Alone' /\ Progress' /\ ~Torn'
  BY <1>2 DEF ReadOld
<1>3. ASSUME NEW s \in Savers, OpenTemp(s) PROVE Alone' /\ Progress' /\ ~Torn'
  BY <1>3 DEF OpenTemp
<1>4. ASSUME NEW s \in Savers, WriteTemp(s) PROVE Alone' /\ Progress' /\ ~Torn'
  BY <1>4 DEF WriteTemp
<1>5. ASSUME NEW s \in Savers, WriteFails(s) PROVE Alone' /\ Progress' /\ ~Torn'
  BY <1>5 DEF WriteFails
<1>6. ASSUME NEW s \in Savers, Rename(s) PROVE Alone' /\ Progress' /\ ~Torn'
  BY <1>6 DEF Rename
<1>7. ASSUME NEW s \in Savers, RenameFails(s) PROVE Alone' /\ Progress' /\ ~Torn'
  BY <1>7 DEF RenameFails
<1>8. ASSUME NEW s \in Savers, CleanUp(s) PROVE Alone' /\ Progress' /\ ~Torn'
  BY <1>8 DEF CleanUp
<1>9. ASSUME NEW s \in Savers, FindOld(s) PROVE Alone' /\ Progress' /\ ~Torn'
  BY <1>9 DEF FindOld
<1>10. ASSUME NEW s \in Savers, Abandon(s) PROVE Alone' /\ Progress' /\ ~Torn'
  BY <1>10 DEF Abandon
<1>11. ASSUME NEW s \in Savers, OrphanWrites(s) PROVE Alone' /\ Progress' /\ ~Torn'
  BY <1>11 DEF OrphanWrites
<1>12. ASSUME NEW d \in Deleters, FindDoomed(d) \/ Remove(d) PROVE Alone' /\ Progress' /\ ~Torn'
  BY <1>12 DEF FindDoomed, Remove
<1>13. CASE Crash \/ UNCHANGED vars
  BY <1>13 DEF Crash, vars
<1>14. QED
  BY <1>1, <1>2, <1>3, <1>4, <1>5, <1>6, <1>7, <1>8, <1>9, <1>10, <1>11, <1>12, <1>13
     DEF Next, SaveStep

(* IInv is an invariant of the specification.                               *)
THEOREM Invariance == Spec => []IInv
<1>1. IInv /\ [Next]_vars => IInv'
  BY TypingStep, QuietStep DEF IInv
<1>2. QED
  BY InitIInv, <1>1, PTL DEF Spec

(* Every variable keeps its type, and the file and its temporary name never *)
(* share an inode (write_json_atomic, L264-276).                            *)
THEOREM TypeCorrect == Spec => []TypeOK
<1>1. IInv => TypeOK
  BY DEF IInv
<1>2. QED
  BY Invariance, <1>1, PTL

(* Without overlapping saves the file is whole at every moment, whatever    *)
(* fails, goes away or crashes, and no save misses its temporary file (L4). *)
THEOREM WholeFile == Spec => []WholeWithoutOverlap
<1>1. IInv => WholeWithoutOverlap
  BY DEF IInv, Quiet, Progress, WholeWithoutOverlap
<1>2. QED
  BY Invariance, <1>1, PTL

(* ... and only a rename or a delete ever changes what readers see.         *)
THEOREM OldVersionStays == Spec => OldVersionUntilRename
<1> DEFINE Step == (~overlapped' /\ file # None /\ file' = file) => content'[file] = content[file]
<1>1. IInv /\ [Next]_vars => [Step]_vars
  <2> SUFFICES ASSUME IInv, Next, ~overlapped', file # None, file' = file
               PROVE content'[file] = content[file]
    OBVIOUS
  <2>0. ~overlapped /\ Progress /\ TypeOK
    BY OverlapStays DEF IInv, Quiet
  <2> USE <2>0 DEF TypeOK, Progress, Goes, disk
  <2>1. ASSUME NEW s \in Savers, OpenTemp(s) PROVE content'[file] = content[file]
    BY <2>1 DEF OpenTemp, IInv, Fresh
  <2>2. ASSUME NEW s \in Savers, WriteTemp(s) PROVE content'[file] = content[file]
    BY <2>2 DEF WriteTemp
  <2>3. ASSUME NEW s \in Savers, WriteFails(s) PROVE content'[file] = content[file]
    BY <2>3 DEF WriteFails
  <2>4. ASSUME NEW s \in Savers, \/ StartSave(s) \/ FindOld(s) \/ ReadOld(s) \/ Rename(s)
                                \/ RenameFails(s) \/ CleanUp(s) \/ Abandon(s)
        PROVE content'[file] = content[file]
    BY <2>4 DEF StartSave, FindOld, ReadOld, Rename, RenameFails, CleanUp, Abandon
  <2>7. ASSUME NEW s \in Savers, OrphanWrites(s) PROVE content'[file] = content[file]
    BY <2>7 DEF OrphanWrites
  <2>5. ASSUME NEW d \in Deleters, FindDoomed(d) \/ Remove(d) PROVE content'[file] = content[file]
    BY <2>5 DEF FindDoomed, Remove
  <2>6. CASE Crash
    BY <2>6 DEF Crash
  <2>8. QED
    BY <2>1, <2>2, <2>3, <2>4, <2>5, <2>6, <2>7 DEF Next, SaveStep
<1>2. QED
  BY Invariance, <1>1, PTL DEF Spec, OldVersionUntilRename

\* How a request that has come to a stage has ended.
EndOf(stage) == CASE stage = "saved" -> "done" [] stage = "failed" -> "failed" [] OTHER -> "open"

(* One request moves on: how the others ended stays.                        *)
LEMMA EndedMoves ==
  ASSUME TypeOK, NEW r \in Savers \cup Deleters, NEW to \in Stages, at' = [at EXCEPT ![r] = to]
  PROVE  Ended[r] = EndOf(at[r]) /\ Ended' = [Ended EXCEPT ![r] = EndOf(to)]
<1> HIDE DEF EndOf
<1>1. Ended = [q \in Savers \cup Deleters |-> EndOf(at[q])]
  BY DEF Ended, EndOf
<1>2. Ended' = [q \in Savers \cup Deleters |-> EndOf(at'[q])]
  BY DEF Ended, EndOf
<1>3. \A q \in Savers \cup Deleters : at'[q] = IF q = r THEN to ELSE at[q]
  BY DEF TypeOK
<1> QED
  BY <1>1, <1>2, <1>3

(* A request that moves on, and leaves what readers get, fails or stutters. *)
LEMMA NoEffect ==
  ASSUME TypeOK, NEW r \in Savers \cup Deleters, NEW from, NEW to \in Stages \ {"saved"},
         Goes(r, from, to), from \notin {"saved", "failed"}, Value' = Value, overlapped' = overlapped
  PROVE  Cell!Fail(r) \/ UNCHANGED Cell!vars
<1>1. Ended[r] = EndOf(from) /\ Ended' = [Ended EXCEPT ![r] = EndOf(to)]
  BY EndedMoves DEF Goes
<1>2. EndOf(from) = "open"
  BY DEF EndOf
<1>3. CASE to = "failed"
  <2>1. EndOf(to) = "failed"
    BY <1>3 DEF EndOf
  <2> QED
    BY <1>1, <1>2, <2>1 DEF Cell!Fail, Cell!Ends
<1>4. CASE to # "failed"
  <2>1. EndOf(to) = "open" /\ Ended = [q \in Savers \cup Deleters |-> Ended[q]]
    BY <1>4 DEF EndOf, Ended
  <2>2. Ended' = Ended
    BY <1>1, <1>2, <2>1
  <2> QED
    BY <2>2 DEF Cell!vars
<1> QED
  BY <1>3, <1>4

(* Every step but a rename and a removal leaves what readers get; those two *)
(* put there the version of the one that saves, or take away what is there. *)
LEMMA CellStep == IInv /\ [Next]_vars => [Cell!Next]_(Cell!vars)
<1> SUFFICES ASSUME IInv, [Next]_vars, ~overlapped' PROVE Cell!Next \/ UNCHANGED Cell!vars
  BY DEF Cell!Next, Cell!Breach
<1>0. ~overlapped /\ Progress /\ ~Torn /\ TypeOK /\ Fresh
  BY OverlapStays DEF IInv, Quiet
<1>1. overlapped' = overlapped
  BY <1>0, TypingStep DEF IInv, TypeOK
<1>2. ASSUME NEW s \in Savers, Cell!Fail(s) \/ UNCHANGED Cell!vars
      PROVE  Cell!Next \/ UNCHANGED Cell!vars
  BY <1>2 DEF Cell!Next
<1>3. ASSUME NEW s \in Savers, StartSave(s) \/ FindOld(s) \/ ReadOld(s) \/ RenameFails(s) \/ CleanUp(s) \/ Abandon(s)
      PROVE  Cell!Next \/ UNCHANGED Cell!vars
  <2>1. Value' = Value
    BY <1>3 DEF StartSave, FindOld, ReadOld, RenameFails, CleanUp, Abandon, disk, Value
  <2>2. \E from \in Stages \ {"saved", "failed"}, to \in Stages \ {"saved"} : Goes(s, from, to)
    BY <1>3 DEF StartSave, FindOld, ReadOld, RenameFails, CleanUp, Abandon, Stages
  <2> QED
    BY <1>0, <1>1, <1>2, <2>1, <2>2, NoEffect
<1>4. ASSUME NEW s \in Savers, OpenTemp(s) \/ WriteTemp(s) \/ WriteFails(s) \/ OrphanWrites(s)
      PROVE  Cell!Next \/ UNCHANGED Cell!vars
  <2>1. file' = file /\ (file # None => content'[file] = content[file])
    BY <1>0, <1>4 DEF OpenTemp, WriteTemp, WriteFails, OrphanWrites, TypeOK, Progress, Fresh, Goes
  <2>2. Value' = Value
    BY <2>1 DEF Value
  <2>3. \E from \in Stages \ {"saved", "failed"}, to \in Stages \ {"saved"} : Goes(s, from, to)
    BY <1>4 DEF OpenTemp, WriteTemp, WriteFails, OrphanWrites, Stages
  <2> QED
    BY <1>0, <1>1, <1>2, <2>2, <2>3, NoEffect
<1>5. ASSUME NEW s \in Savers, Rename(s)
      PROVE  Cell!Next
  <2>1. file' = temp /\ temp # None /\ content' = content /\ content[temp] = s
    BY <1>0, <1>5 DEF Rename, Progress, Goes
  <2>2. Value' = s
    BY <2>1 DEF Value
  <2>3. Ended[s] = "open" /\ Ended' = [Ended EXCEPT ![s] = "done"]
    BY <1>0, <1>5, EndedMoves DEF Rename, Goes, Stages, EndOf
  <2> QED
    BY <1>1, <2>2, <2>3 DEF Cell!Next, Cell!Save, Cell!Ends
<1>6. ASSUME NEW d \in Deleters, FindDoomed(d) \/ (file = None /\ Remove(d))
      PROVE  Cell!Next \/ UNCHANGED Cell!vars
  <2>1. Value' = Value
    BY <1>6 DEF FindDoomed, Remove, disk, Value
  <2>2. \E from \in Stages \ {"saved", "failed"}, to \in Stages \ {"saved"} : Goes(d, from, to)
    BY <1>6 DEF FindDoomed, Remove, Stages
  <2>3. Cell!Fail(d) \/ UNCHANGED Cell!vars
    BY <1>0, <1>1, <2>1, <2>2, NoEffect
  <2> QED
    BY <2>3 DEF Cell!Next
<1>7. ASSUME NEW d \in Deleters, file # None, Remove(d)
      PROVE  Cell!Next
  <2>1. Value # None /\ Value' = None
    BY <1>0, <1>7, RequestsAssumption DEF Remove, Value, Torn
  <2>2. Ended[d] = "open" /\ Ended' = [Ended EXCEPT ![d] = "done"]
    BY <1>0, <1>7, EndedMoves DEF Remove, Goes, Stages, EndOf
  <2> QED
    BY <1>1, <2>1, <2>2 DEF Cell!Next, Cell!Delete, Cell!Ends
<1>8. CASE Crash \/ UNCHANGED vars
  <2>1. Value' = Value /\ Ended' = Ended
    BY <1>8 DEF Crash, vars, disk, Value, Ended
  <2> QED
    BY <1>1, <2>1 DEF Cell!vars
<1> QED
  BY <1>3, <1>4, <1>5, <1>6, <1>7, <1>8 DEF Next, SaveStep

(* As long as saves do not overlap the store is a cell: what readers get is *)
(* one version, put there or taken away in one step by a request that is    *)
(* acknowledged, and by no other (store.rs L90-128, L262-277).              *)
THEOREM Refinement == Spec => ImplementsCell
<1>1. Init => Cell!Init
  BY RequestsAssumption DEF Init, Cell!Init, Value, Ended
<1>2. QED
  BY Invariance, <1>1, CellStep, PTL DEF Spec, ImplementsCell, Cell!Spec

-----------------------------------------------------------------------------
(* What the service is given.                                               *)
LEMMA Given == /\ Keep \in Nat /\ Keep > 0 /\ MaxRuns \in Nat /\ MaxTime \in Nat /\ MaxRestarts \in Nat
               /\ IsFiniteSet(Flows) /\ None \notin Defs
               /\ \A d \in Defs : d.keep \in BOOLEAN /\ Occurs(d.cron) \subseteq Int
  BY ServiceAssumption DEF Service!KeepAssumption, Service!DefType, Service!IsFiniteSet, IsFiniteSet

Runs == Service!Runs
Same(q) == run'[q] = run[q]
SameBut(q) == /\ run'[q].flow = run[q].flow /\ run'[q].keep = run[q].keep /\ run'[q].owned = run[q].owned

(* Functions on 1..n are sequences.                                         *)
LEMMA SequenceOf == ASSUME NEW S, NEW n \in Nat, NEW f \in [1..n -> S] PROVE f \in Seq(S) /\ Len(f) = n
  OBVIOUS

(* What a concatenation is made of.                                         *)
LEMMA JoinedForm ==
  ASSUME NEW S, NEW s \in Seq(S), NEW t \in Seq(S)
  PROVE  /\ s \o t \in Seq(S) /\ Len(s \o t) = Len(s) + Len(t)
         /\ \A q \in 1..Len(s) : (s \o t)[q] = s[q]
         /\ \A q \in (1..(Len(s) + Len(t))) \ (1..Len(s)) : q - Len(s) \in 1..Len(t) /\ (s \o t)[q] = t[q - Len(s)]
  OBVIOUS

(* One run changes.                                                         *)
LEMMA ReplaceForm ==
  ASSUME Service!TypeOK, NEW r \in Runs, NEW n \in Service!RunState, run' = [run EXCEPT ![r] = n]
  PROVE  /\ run' \in Seq(Service!RunState) /\ Len(run') = Len(run) /\ run'[r] = n
         /\ \A q \in Runs : q # r => Same(q)
  BY DEF Service!TypeOK, Runs, Service!Runs, Same

(* One run goes from a stage to the next.                                   *)
LEMMA MoveForm ==
  ASSUME Service!TypeOK, NEW r \in Runs, NEW from, NEW to \in Service!Stages,
         NEW l \in SUBSET (1..MaxRuns), Service!Move(r, from, to, l)
  PROVE  /\ run' \in Seq(Service!RunState) /\ Len(run') = Len(run)
         /\ \A q \in Runs : q # r => Same(q)
         /\ SameBut(r) /\ run'[r].stamp = run[r].stamp /\ run'[r].stage = to /\ run'[r].listing = l
         /\ run[r].stage = from
<1>1. run \in Seq(Service!RunState) /\ run[r] \in Service!RunState
  BY DEF Service!TypeOK, Runs, Service!Runs
<1>2. /\ [run[r] EXCEPT !.stage = to, !.listing = l] \in Service!RunState
      /\ [run[r] EXCEPT !.stage = to, !.listing = l].flow = run[r].flow
      /\ [run[r] EXCEPT !.stage = to, !.listing = l].keep = run[r].keep
      /\ [run[r] EXCEPT !.stage = to, !.listing = l].owned = run[r].owned
      /\ [run[r] EXCEPT !.stage = to, !.listing = l].stamp = run[r].stamp
      /\ [run[r] EXCEPT !.stage = to, !.listing = l].stage = to
      /\ [run[r] EXCEPT !.stage = to, !.listing = l].listing = l
  BY <1>1 DEF Service!RunState
<1> DEFINE n == [run[r] EXCEPT !.stage = to, !.listing = l]
<1>3. run' = [run EXCEPT ![r] = n] /\ run[r].stage = from
  BY DEF Service!Move
<1> HIDE DEF n
<1>4. n \in Service!RunState
  BY <1>2 DEF n
<1>5. /\ run' \in Seq(Service!RunState) /\ Len(run') = Len(run) /\ run'[r] = n
      /\ \A q \in Runs : q # r => Same(q)
  BY <1>3, <1>4, ReplaceForm
<1> QED  BY <1>2, <1>3, <1>5 DEF n, SameBut

(* A run writes its record.                                                 *)
LEMMA WriteForm ==
  ASSUME Service!TypeOK, NEW r \in Runs, Service!Now \in 0..MaxRuns,
         run' = [run EXCEPT ![r] = [run[r] EXCEPT !.stage = "written", !.stamp = Service!Now]]
  PROVE  /\ run' \in Seq(Service!RunState) /\ Len(run') = Len(run)
         /\ \A q \in Runs : q # r => Same(q)
         /\ SameBut(r) /\ run'[r].stamp = Service!Now /\ run'[r].stage = "written" /\ run'[r].listing = run[r].listing
<1>1. run \in Seq(Service!RunState) /\ run[r] \in Service!RunState
  BY DEF Service!TypeOK, Runs, Service!Runs
<1> DEFINE t == Service!Now
           n == [run[r] EXCEPT !.stage = "written", !.stamp = t]
<1> HIDE DEF t
<1>2. /\ n \in Service!RunState
      /\ n.flow = run[r].flow /\ n.keep = run[r].keep /\ n.owned = run[r].owned
      /\ n.stamp = t /\ n.stage = "written" /\ n.listing = run[r].listing
  <2>1. t \in 0..MaxRuns
    BY DEF t
  <2> QED  BY <1>1, <2>1 DEF Service!RunState, Service!Stages
<1>3. run' = [run EXCEPT ![r] = n]
  BY DEF t
<1> HIDE DEF n
<1>4. n \in Service!RunState
  BY <1>2
<1>5. /\ run' \in Seq(Service!RunState) /\ Len(run') = Len(run) /\ run'[r] = n
      /\ \A q \in Runs : q # r => Same(q)
  BY <1>3, <1>4, ReplaceForm
<1> QED  BY <1>2, <1>5 DEF t, SameBut

(* What begins: a run that has written and read nothing.                    *)
LEMMA StartedForm ==
  ASSUME NEW f \in Flows, NEW d \in Defs, NEW o \in BOOLEAN
  PROVE  /\ Service!Started(f, d, o) \in Service!RunState
         /\ Service!Started(f, d, o).flow = f /\ Service!Started(f, d, o).stage = "running"
         /\ Service!Started(f, d, o).stamp = 0 /\ Service!Started(f, d, o).listing = {}
<1>1. d.keep \in BOOLEAN /\ 0 \in 0..MaxRuns
  BY Given
<1> QED  BY <1>1 DEF Service!Started, Service!RunState, Service!Stages

\* Runs were started, at the end, and the others are as they were.
Grown == /\ run' \in Seq(Service!RunState) /\ Len(run) <= Len(run') /\ Len(run') <= MaxRuns
         /\ \A q \in Runs : Same(q)
         /\ \A q \in Service!Runs' \ Runs :
                run'[q].stage = "running" /\ run'[q].stamp = 0 /\ run'[q].listing = {}

(* One run is started.                                                      *)
LEMMA AppendForm ==
  ASSUME Service!TypeOK, NEW f \in Flows, NEW d \in Defs, NEW o \in BOOLEAN, Len(run) < MaxRuns,
         run' = Append(run, Service!Started(f, d, o))
  PROVE  Grown /\ Service!Runs' = Runs \cup {Len(run) + 1} /\ run'[Len(run) + 1].flow = f
<1> DEFINE n == Service!Started(f, d, o)
<1>1. run \in Seq(Service!RunState) /\ MaxRuns \in Nat
  BY Given DEF Service!TypeOK
<1>2. n \in Service!RunState /\ n.flow = f /\ n.stage = "running" /\ n.stamp = 0 /\ n.listing = {}
  BY StartedForm
<1> HIDE DEF n
<1>3. /\ run' \in Seq(Service!RunState) /\ Len(run') = Len(run) + 1 /\ run'[Len(run) + 1] = n
      /\ \A q \in 1..Len(run) : run'[q] = run[q]
  BY <1>1, <1>2 DEF n
<1>4. Service!Runs' = Runs \cup {Len(run) + 1}
  BY <1>1, <1>3 DEF Runs, Service!Runs
<1> QED  BY <1>1, <1>2, <1>3, <1>4 DEF Grown, Runs, Service!Runs, Same

(* A tick starts runs of flows it has read.                                 *)
LEMMA TickForm ==
  ASSUME Service!TypeOK, Service!TickFire
  PROVE  /\ Grown
         /\ \A q \in Service!Runs' \ Runs :
                /\ run'[q].flow \in Flows
                /\ flows[run'[q].flow] = None => q \in outlived'
         /\ outlived \subseteq outlived' /\ outlived' \subseteq outlived \cup (Service!Runs' \ Runs)
<1> DEFINE Dues == {f \in Flows : Service!Due(f)}
<1>1. PICK due \in Service!SetToSeqs(Dues) :
          /\ Len(run) + Len(due) <= MaxRuns
          /\ run' = run \o [i \in DOMAIN due |-> Service!Started(due[i], seen[due[i]], FALSE)]
          /\ outlived' = outlived \cup {Len(run) + i : i \in {j \in DOMAIN due : flows[due[j]] = None}}
  BY DEF Service!TickFire
<1>2. PICK n \in Nat : due \in [1..n -> Dues]
  <2>1. IsFiniteSet(Dues) /\ Cardinality(Dues) \in Nat
    BY Given, FS_Subset, FS_CardinalityType
  <2>2. due \in [1..Cardinality(Dues) -> Dues]
    BY <1>1 DEF Service!SetToSeqs, Service!Cardinality, Cardinality
  <2> QED  BY <2>1, <2>2
<1>3. \A f \in Dues : f \in Flows /\ seen[f] \in Defs
  <2>1. seen \in [Flows -> Defs \cup {None}]
    BY DEF Service!TypeOK, Service!TickFire
  <2> QED  BY <2>1 DEF Service!Due, Service!Scheduled
<1> DEFINE new == [i \in DOMAIN due |-> Service!Started(due[i], seen[due[i]], FALSE)]
<1>4. /\ new \in [1..n -> Service!RunState] /\ DOMAIN due = 1..n
      /\ \A i \in 1..n : /\ new[i].flow = due[i] /\ due[i] \in Flows /\ new[i].stage = "running"
                         /\ new[i].stamp = 0 /\ new[i].listing = {}
  BY <1>2, <1>3, StartedForm
<1>5. new \in Seq(Service!RunState) /\ Len(new) = n /\ due \in Seq(Dues) /\ Len(due) = n
  BY <1>2, <1>4, SequenceOf
<1>6. run \in Seq(Service!RunState) /\ run' = run \o new
  BY <1>1 DEF Service!TypeOK
<1> HIDE DEF new
<1>7. /\ run' \in Seq(Service!RunState) /\ Len(run') = Len(run) + n
      /\ \A q \in 1..Len(run) : run'[q] = run[q]
      /\ \A q \in (1..(Len(run) + n)) \ (1..Len(run)) : q - Len(run) \in 1..n /\ run'[q] = new[q - Len(run)]
  BY <1>5, <1>6, JoinedForm
<1>8. Grown
  <2>1. Len(run) + n <= MaxRuns /\ Len(run) \in Nat
    BY <1>1, <1>5, <1>6
  <2>2. Service!Runs' = 1..(Len(run) + n) /\ Runs = 1..Len(run)
    BY <1>7 DEF Runs, Service!Runs
  <2>3. \A q \in Service!Runs' \ Runs :
            run'[q].stage = "running" /\ run'[q].stamp = 0 /\ run'[q].listing = {}
    BY <1>4, <1>7, <2>2
  <2>4. \A q \in Runs : Same(q)
    BY <1>7, <2>2 DEF Same
  <2> QED  BY <1>7, <2>1, <2>3, <2>4 DEF Grown
<1>9. ASSUME NEW q \in Service!Runs' \ Runs
      PROVE  run'[q].flow \in Flows /\ (flows[run'[q].flow] = None => q \in outlived')
  <2> DEFINE i == q - Len(run)
  <2>1. i \in 1..n /\ run'[q] = new[i] /\ q = Len(run) + i
    BY <1>6, <1>7 DEF Runs, Service!Runs
  <2>2. run'[q].flow = due[i] /\ due[i] \in Flows
    BY <1>4, <2>1
  <2> HIDE DEF i
  <2> QED  BY <1>1, <1>4, <2>1, <2>2
<1>10. outlived \subseteq outlived' /\ outlived' \subseteq outlived \cup (Service!Runs' \ Runs)
  <2>1. \A i \in 1..n : Len(run) + i \in Service!Runs' \ Runs
    BY <1>6, <1>7 DEF Runs, Service!Runs
  <2> QED  BY <1>1, <1>4, <2>1
<1> QED  BY <1>8, <1>9, <1>10

-----------------------------------------------------------------------------
\* The stages of a run that has written nothing.
Before == {"running", "unrecorded"}

\* No record is written, and runs keep what they are of.
Steady == /\ run' \in Seq(Service!RunState) /\ Len(run) <= Len(run') /\ Len(run') <= MaxRuns
          /\ \A q \in Runs : /\ SameBut(q) /\ run'[q].stamp = run[q].stamp
                             /\ run'[q].stage \in Before <=> run[q].stage \in Before
          /\ \A q \in Service!Runs' \ Runs :
                run'[q].stage = "running" /\ run'[q].stamp = 0 /\ run'[q].listing = {}

\* Run r goes from a stage to the next.
Moves(r, from, to, l) ==
    /\ Steady /\ Len(run') = Len(run) /\ \A q \in Runs : q # r => Same(q)
    /\ run[r].stage = from /\ run'[r].stage = to /\ run'[r].listing = l

(* What such a step is made of.                                             *)
LEMMA MovesForm ==
  ASSUME Service!TypeOK, NEW r \in Runs, NEW from, NEW to \in Service!Stages,
         NEW l \in SUBSET (1..MaxRuns), Service!Move(r, from, to, l),
         from \in Before <=> to \in Before
  PROVE  Moves(r, from, to, l)
<1>1. run \in Seq(Service!RunState) /\ Len(run) <= MaxRuns
  BY DEF Service!TypeOK
<1>2. /\ run' \in Seq(Service!RunState) /\ Len(run') = Len(run)
      /\ \A q \in Runs : q # r => Same(q)
      /\ SameBut(r) /\ run'[r].stamp = run[r].stamp /\ run'[r].stage = to /\ run'[r].listing = l
      /\ run[r].stage = from
  BY MoveForm
<1>3. Service!Runs' = Runs
  BY <1>2 DEF Runs, Service!Runs
<1>4. \A q \in Runs : /\ SameBut(q) /\ run'[q].stamp = run[q].stamp
                      /\ run'[q].stage \in Before <=> run[q].stage \in Before
  BY <1>2 DEF Same, SameBut
<1> QED  BY <1>1, <1>2, <1>3, <1>4, Given DEF Moves, Steady

(* Runs that begin write nothing.                                           *)
LEMMA GrownIsSteady == ASSUME Service!TypeOK, Grown PROVE Steady
  BY DEF Grown, Steady, Same, SameBut

(* Nor does a step that leaves the runs alone.                              *)
LEMMA UnchangedIsSteady == ASSUME Service!TypeOK, UNCHANGED run PROVE Steady
  BY Given DEF Steady, SameBut, Runs, Service!Runs, Service!TypeOK

(* A restart leaves every run where a crash leaves it.                      *)
LEMMA RestartForm ==
  ASSUME Service!TypeOK, Service!Restart
  PROVE  /\ Steady /\ Len(run') = Len(run)
         /\ \A q \in Runs : run'[q].stage = Service!AfterCrash(run[q].stage) /\ run'[q].listing = {}
<1> DEFINE n(q) == [run[q] EXCEPT !.stage = Service!AfterCrash(run[q].stage), !.listing = {}]
<1>1. run \in Seq(Service!RunState) /\ Len(run) <= MaxRuns /\ Len(run) \in Nat
  BY DEF Service!TypeOK
<1>2. ASSUME NEW q \in Runs
      PROVE  /\ n(q) \in Service!RunState
             /\ n(q).flow = run[q].flow /\ n(q).keep = run[q].keep /\ n(q).owned = run[q].owned
             /\ n(q).stamp = run[q].stamp /\ n(q).stage = Service!AfterCrash(run[q].stage) /\ n(q).listing = {}
  <2> DEFINE c == Service!AfterCrash(run[q].stage)
  <2>1. run[q] \in Service!RunState
    BY <1>1 DEF Runs, Service!Runs
  <2>2. c \in Service!Stages
    BY <2>1 DEF Service!AfterCrash, Service!RunState, Service!Stages
  <2> HIDE DEF c
  <2> QED  BY <2>1, <2>2 DEF c, Service!RunState
<1>3. run' = [q \in Runs |-> n(q)]
  BY DEF Service!Restart, Runs
<1> HIDE DEF n
<1>4. run' \in [1..Len(run) -> Service!RunState] /\ \A q \in Runs : run'[q] = n(q)
  BY <1>2, <1>3 DEF Runs, Service!Runs
<1>5. run' \in Seq(Service!RunState) /\ Len(run') = Len(run)
  BY <1>1, <1>4, SequenceOf
<1>6. Service!Runs' = Runs
  BY <1>5 DEF Runs, Service!Runs
<1>7. \A q \in Runs : run[q].stage \in Service!Stages
  <2>1. \A q \in Runs : run[q] \in Service!RunState
    BY <1>1 DEF Runs, Service!Runs
  <2> QED  BY <2>1 DEF Service!RunState
<1>8. \A q \in Runs : Service!AfterCrash(run[q].stage) \in Before <=> run[q].stage \in Before
  BY <1>7 DEF Service!AfterCrash, Before, Service!Stages
<1> QED  BY <1>1, <1>2, <1>4, <1>5, <1>6, <1>8, Given DEF Steady, SameBut

(* Then the runs that wrote are the same.                                   *)
LEMMA SteadyForm ==
  ASSUME Service!TypeOK, Steady
  PROVE  Service!Written' = Service!Written /\ Runs \subseteq Service!Runs'
<1>1. Len(run) \in Nat /\ Len(run') \in Nat
  BY DEF Steady, Service!TypeOK
<1>2. Runs \subseteq Service!Runs'
  BY <1>1 DEF Steady, Runs, Service!Runs
<1>3. \A q \in Runs : run'[q].stamp = run[q].stamp
  BY Zenon DEF Steady
<1>4. \A q \in Service!Runs' \ Runs : ~(run'[q].stamp > 0)
  <2>1. \A q \in Service!Runs' \ Runs : run'[q].stamp = 0
    BY Zenon DEF Steady
  <2> QED  BY <2>1
<1> QED  BY <1>2, <1>3, <1>4 DEF Service!Written, Runs

\* Run r writes its record.
Writes(r) ==
    /\ run' \in Seq(Service!RunState) /\ Len(run') = Len(run) /\ \A q \in Runs : q # r => Same(q)
    /\ SameBut(r) /\ run[r].stage = "running" /\ run'[r].stage = "written"
    /\ run'[r].listing = run[r].listing /\ run'[r].stamp = Cardinality(Service!Written) + 1
    /\ history' = history \cup {r}
    /\ UNCHANGED <<flows, listed, deleting, seen, lastFired, fireTime, clock, restarts, outlived>>

\* The modification times: one for each record that was written, in their order.
Stamps == /\ \A r \in Runs : /\ run[r].stage \in Before <=> run[r].stamp = 0
                             /\ run[r].stamp <= Cardinality(Service!Written)
          /\ \A r, q \in Service!Written : run[r].stamp = run[q].stamp => r = q

(* The instance counts as this module does.                                 *)
LEMMA CardinalityIs == ASSUME NEW S PROVE Service!Cardinality(S) = Cardinality(S)
  BY DEF Service!Cardinality, Cardinality

(* A run that is under way has written nothing yet.                         *)
LEMMA BeforeWriting ==
  ASSUME Stamps, NEW r \in Runs, run[r].stage = "running"
  PROVE  r \notin Service!Written
<1>1. run[r].stage \in Before
  BY DEF Before
<1>2. run[r].stamp = 0
  BY <1>1, Zenon DEF Stamps
<1> QED  BY <1>2 DEF Service!Written

(* The runs that wrote are counted.                                         *)
LEMMA WrittenFinite ==
  ASSUME Service!TypeOK
  PROVE  /\ IsFiniteSet(Service!Written) /\ Cardinality(Service!Written) \in Nat
         /\ Service!Written \subseteq Runs /\ Runs \subseteq 1..MaxRuns
         /\ \A r \in Runs \ Service!Written :
                Cardinality(Service!Written \cup {r}) = Cardinality(Service!Written) + 1
                /\ Cardinality(Service!Written) + 1 <= MaxRuns
<1> DEFINE W == Service!Written
<1>1. Len(run) \in Nat /\ Len(run) <= MaxRuns
  BY DEF Service!TypeOK
<1>2. W \subseteq Runs /\ Runs = 1..Len(run)
  BY DEF Service!Written, Runs, Service!Runs
<1>3. IsFiniteSet(Runs) /\ Cardinality(Runs) = Len(run)
  <2> DEFINE n == Len(run)
  <2>1. n \in Nat /\ Runs = 1..n
    BY <1>1, <1>2
  <2> HIDE DEF n
  <2>2. IsFiniteSet(1..n) /\ Cardinality(1..n) = n
    BY <2>1, FS_Interval
  <2> QED  BY <2>1, <2>2 DEF n
<1>4. IsFiniteSet(W) /\ Cardinality(W) \in Nat
  BY <1>2, <1>3, FS_Subset, FS_CardinalityType
<1>5. ASSUME NEW r \in Runs \ W
      PROVE  Cardinality(W \cup {r}) = Cardinality(W) + 1 /\ Cardinality(W) + 1 <= MaxRuns
  <2>1. Cardinality(W \cup {r}) = Cardinality(W) + 1
    BY <1>4, <1>5, FS_AddElement
  <2>2. W \cup {r} \subseteq Runs
    BY <1>2, <1>5
  <2>3. Cardinality(W \cup {r}) <= Cardinality(Runs)
    BY <1>3, <2>2, FS_Subset
  <2> QED  BY <1>1, <1>3, <1>4, <2>1, <2>3, Given
<1> HIDE DEF W
<1>6. Runs \subseteq 1..MaxRuns
  BY <1>1, <1>2, Given
<1> QED  BY <1>2, <1>4, <1>5, <1>6 DEF W

(* The two ways in which the execution of a flow ends.                      *)
LEMMA RunEndsForm ==
  ASSUME Service!TypeOK, Stamps, NEW r \in Runs, Service!RunEnds(r)
  PROVE  \/ /\ Moves(r, "running", "unrecorded", {})
            /\ UNCHANGED <<history, flows, listed, deleting, seen, lastFired, fireTime, clock, restarts, outlived>>
         \/ Writes(r)
<1>1. UNCHANGED <<flows, listed, deleting, seen, lastFired, fireTime, clock, restarts, outlived>>
  BY DEF Service!RunEnds, Service!scheduler
<1>2. CASE Service!Move(r, "running", "unrecorded", {}) /\ UNCHANGED history
  <2>1. Moves(r, "running", "unrecorded", {})
    BY <1>2, MovesForm DEF Service!Stages, Before
  <2> QED  BY <1>1, <1>2, <2>1
<1>3. CASE /\ run[r].stage = "running" /\ run[r].keep
           /\ run' = [run EXCEPT ![r] = [run[r] EXCEPT !.stage = "written", !.stamp = Service!Now]]
           /\ history' = history \cup {r}
  <2>1. r \in Runs \ Service!Written
    BY <1>3, BeforeWriting
  <2>2. Service!Now = Cardinality(Service!Written) + 1
    <3>1. Service!Cardinality(Service!Written) = Cardinality(Service!Written)
      BY CardinalityIs
    <3> QED  BY <3>1 DEF Service!Now
  <2>3. Service!Now \in 0..MaxRuns
    <3>1. Cardinality(Service!Written) \in Nat /\ Cardinality(Service!Written) + 1 <= MaxRuns
      BY <2>1, WrittenFinite
    <3> QED  BY <2>2, <3>1, Given
  <2>4. /\ run' \in Seq(Service!RunState) /\ Len(run') = Len(run)
        /\ \A q \in Runs : q # r => Same(q)
        /\ SameBut(r) /\ run'[r].stamp = Service!Now /\ run'[r].stage = "written"
        /\ run'[r].listing = run[r].listing
    BY <1>3, <2>3, WriteForm
  <2> QED  BY <1>1, <1>3, <2>2, <2>4 DEF Writes
<1> QED  BY <1>2, <1>3 DEF Service!RunEnds

(* What is written then: one record more.                                   *)
LEMMA WritesForm ==
  ASSUME Service!TypeOK, Stamps, NEW r \in Runs, Writes(r)
  PROVE  /\ Service!Runs' = Runs /\ r \notin Service!Written
         /\ Service!Written' = Service!Written \cup {r}
         /\ Cardinality(Service!Written') = Cardinality(Service!Written) + 1
<1>1. Service!Runs' = Runs
  BY DEF Writes, Runs, Service!Runs
<1>2. r \notin Service!Written
  BY BeforeWriting DEF Writes
<1>3. run'[r].stamp > 0
  BY WrittenFinite DEF Writes
<1>4. Service!Written' = Service!Written \cup {r}
  BY <1>1, <1>3 DEF Service!Written, Writes, Same, Runs
<1> QED  BY <1>1, <1>2, <1>4, WrittenFinite

rest == <<flows, listed, deleting, seen, lastFired, fireTime, clock, restarts, outlived>>

\* What the steps of a run do.
Lists(r) == Moves(r, "written", "pruning", history) /\ UNCHANGED <<history, rest>>
Prunes(r) == /\ Moves(r, "pruning", "done", {}) /\ history' = history \ Service!Excess(run[r].listing)
             /\ UNCHANGED rest
Leaves(r) == /\ \/ Moves(r, "running", "unrecorded", {})
                \/ Moves(r, "written", "unpruned", {}) \/ Moves(r, "pruning", "unpruned", {})
             /\ UNCHANGED <<history, rest>>

(* A step of a run is one of these.                                         *)
LEMMA RunForms ==
  ASSUME Service!TypeOK, Stamps, NEW r \in Runs, Service!RunStep(r) \/ Service!Abandon(r)
  PROVE  Lists(r) \/ Prunes(r) \/ Leaves(r) \/ Writes(r)
<1>1. CASE Service!RunEnds(r)
  BY <1>1, RunEndsForm DEF Leaves, rest
<1>2. CASE Service!ListForPrune(r)
  <2>1. history \in SUBSET (1..MaxRuns)
    BY WrittenFinite DEF Service!TypeOK
  <2>2. Moves(r, "written", "pruning", history)
    BY <1>2, <2>1, MovesForm DEF Service!ListForPrune, Service!Stages, Before
  <2> QED  BY <1>2, <2>2 DEF Lists, rest, Service!ListForPrune, Service!scheduler
<1>3. CASE Service!Prune(r)
  <2>1. Moves(r, "pruning", "done", {})
    BY <1>3, MovesForm DEF Service!Prune, Service!Stages, Before
  <2> QED  BY <1>3, <2>1 DEF Prunes, rest, Service!Prune, Service!scheduler
<1>4. CASE Service!Abandon(r)
  <2>1. \/ Moves(r, "running", "unrecorded", {})
        \/ Moves(r, "written", "unpruned", {}) \/ Moves(r, "pruning", "unpruned", {})
    <3>1. CASE Service!Move(r, "running", "unrecorded", {})
      BY <3>1, MovesForm DEF Service!Stages, Before
    <3>2. CASE Service!Move(r, "written", "unpruned", {})
      BY <3>2, MovesForm DEF Service!Stages, Before
    <3>3. CASE Service!Move(r, "pruning", "unpruned", {})
      BY <3>3, MovesForm DEF Service!Stages, Before
    <3> QED  BY <1>4, <3>1, <3>2, <3>3 DEF Service!Abandon
  <2> QED  BY <1>4, <2>1 DEF Leaves, rest, Service!Abandon, Service!scheduler
<1> QED  BY <1>1, <1>2, <1>3, <1>4 DEF Service!RunStep

\* What starts a run, on request.
Begins(f) == /\ Grown /\ Service!Runs' = Runs \cup {Len(run) + 1} /\ run'[Len(run) + 1].flow = f
             /\ f \in Flows /\ flows[f] # None /\ UNCHANGED <<history, rest>>

(* A request that starts a run of a flow finds the flow.                    *)
LEMMA BeginForms ==
  ASSUME Service!TypeOK, NEW f \in Flows, Service!RunManually(f) \/ Service!Webhook(f)
  PROVE  Begins(f)
<1> DEFINE d == flows[f]
<1>1. d \in Defs /\ Len(run) < MaxRuns /\ d # None
  BY DEF Service!RunManually, Service!Webhook, Service!TypeOK
<1>2. PICK o \in BOOLEAN : run' = Append(run, Service!Started(f, d, o))
  BY DEF Service!RunManually, Service!Webhook
<1>3. UNCHANGED <<history, rest>>
  BY DEF Service!RunManually, Service!Webhook, rest, Service!scheduler
<1> HIDE DEF d
<1>4. Grown /\ Service!Runs' = Runs \cup {Len(run) + 1} /\ run'[Len(run) + 1].flow = f
  BY <1>1, <1>2, AppendForm
<1> QED  BY <1>1, <1>3, <1>4 DEF Begins, d

\* What the requests and the clock do besides.
Others == \/ \E f \in Flows : \/ \E d \in Defs : Service!SaveFlow(f, d)
                              \/ Service!DeleteFlow(f) \/ Service!ListRunsOf(f)
                              \/ Service!RemoveRunsOf(f) \/ Service!AbandonDelete(f)
          \/ Service!TickRead \/ Service!Pass \/ UNCHANGED Service!vars

(* The steps of the service.                                                *)
LEMMA Cases ==
  ASSUME Service!TypeOK, Stamps, [Service!Next]_(Service!vars)
  PROVE  \/ \E r \in Runs : Lists(r) \/ Prunes(r) \/ Leaves(r) \/ Writes(r)
         \/ \E f \in Flows : Begins(f)
         \/ Service!TickFire \/ Service!Restart \/ Others
<1>1. CASE \E r \in Service!Runs : Service!RunStep(r) \/ Service!Abandon(r)
  BY <1>1, RunForms DEF Runs
<1>2. CASE \E f \in Flows : Service!RunManually(f) \/ Service!Webhook(f)
  BY <1>2, BeginForms
<1> QED  BY <1>1, <1>2 DEF Service!Next, Others

(* They do not touch the runs, and add no record.                           *)
LEMMA OthersForm ==
  ASSUME Service!TypeOK, Others
  PROVE  UNCHANGED run /\ history' \subseteq history
  BY DEF Others, Service!SaveFlow, Service!DeleteFlow, Service!ListRunsOf, Service!RemoveRunsOf,
         Service!AbandonDelete, Service!TickRead, Service!Pass, Service!vars, Service!scheduler

(* A step writes one record, or none.                                       *)
LEMMA StepForm ==
  ASSUME Service!TypeOK, Stamps, [Service!Next]_(Service!vars)
  PROVE  (Steady /\ history' \subseteq history) \/ \E r \in Runs : Writes(r)
<1>1. CASE \E r \in Runs : Lists(r) \/ Prunes(r) \/ Leaves(r) \/ Writes(r)
  BY <1>1 DEF Lists, Prunes, Leaves, Moves, rest
<1>2. CASE \E f \in Flows : Begins(f)
  BY <1>2, GrownIsSteady DEF Begins
<1>3. CASE Service!TickFire
  <2>1. UNCHANGED history
    BY <1>3 DEF Service!TickFire
  <2> QED  BY <1>3, <2>1, TickForm, GrownIsSteady
<1>4. CASE Service!Restart
  BY <1>4, RestartForm DEF Service!Restart
<1>5. CASE Others
  BY <1>5, OthersForm, UnchangedIsSteady
<1> QED  BY <1>1, <1>2, <1>3, <1>4, <1>5, Cases

(* The modification times stay in order.                                    *)
LEMMA StampsStep ==
  ASSUME Service!TypeOK, Stamps, [Service!Next]_(Service!vars)
  PROVE  Stamps'
<1> DEFINE W == Service!Written
           R == Service!Runs
<1>0. Stamps' <=> /\ \A r \in R' : /\ run'[r].stage \in Before <=> run'[r].stamp = 0
                                   /\ run'[r].stamp <= Cardinality(W')
                  /\ \A r, q \in W' : run'[r].stamp = run'[q].stamp => r = q
  BY DEF Stamps, Runs, Before
<1>1. CASE Steady
  <2>1. W' = W /\ Runs \subseteq R' /\ W \subseteq Runs /\ Cardinality(W) \in Nat
    BY <1>1, SteadyForm, WrittenFinite
  <2>2. \A r \in Runs : /\ run'[r].stage \in Before <=> run[r].stage \in Before
                        /\ run'[r].stamp = run[r].stamp
    BY <1>1, Zenon DEF Steady
  <2>3. \A r \in R' \ Runs : run'[r].stage \in Before /\ run'[r].stamp = 0
    BY <1>1 DEF Steady, Before
  <2>4. \A r \in Runs : /\ run'[r].stage \in Before <=> run'[r].stamp = 0
                        /\ run'[r].stamp <= Cardinality(W)
    BY <2>2, Zenon DEF Stamps
  <2>5. \A r, q \in W : run'[r].stamp = run'[q].stamp => r = q
    BY <2>1, <2>2 DEF Stamps
  <2> HIDE DEF W, R
  <2> QED  BY <1>0, <2>1, <2>3, <2>4, <2>5
<1>2. ASSUME NEW r \in Runs, Writes(r) PROVE Stamps'
  <2> DEFINE c == Cardinality(W)
  <2>1. /\ R' = Runs /\ r \notin W /\ W' = W \cup {r} /\ Cardinality(W') = c + 1
        /\ c \in Nat /\ W \subseteq Runs
    BY <1>2, WritesForm, WrittenFinite
  <2>2. /\ \A q \in Runs : q # r => run'[q] = run[q]
        /\ run'[r].stamp = c + 1 /\ run'[r].stage = "written"
    BY <1>2 DEF Writes, Same
  <2>3. \A q \in Runs : /\ run[q].stage \in Before <=> run[q].stamp = 0
                        /\ run[q].stamp <= c
    BY DEF Stamps
  <2>4. \A q \in Runs : run[q].stamp \in Nat
    <3>1. \A q \in Runs : run[q] \in Service!RunState
      BY DEF Service!TypeOK, Runs, Service!Runs
    <3> QED  BY <3>1, Given DEF Service!RunState
  <2>5. \A q, p \in W : run[q].stamp = run[p].stamp => q = p
    BY DEF Stamps
  <2> HIDE DEF W, R, c
  <2>6. ~(run'[r].stage \in Before) /\ ~(run'[r].stamp = 0)
    BY <2>1, <2>2 DEF Before
  <2>7. \A q \in Runs : run'[q].stage \in Before <=> run'[q].stamp = 0
    BY <2>2, <2>3, <2>6, Zenon
  <2>8. \A q \in Runs : run'[q].stamp <= c + 1
    BY <2>1, <2>2, <2>3, <2>4
  <2>9. \A p, q \in W' : run'[p].stamp = run'[q].stamp => p = q
    BY <2>1, <2>2, <2>3, <2>4, <2>5
  <2> QED  BY <1>0, <2>1, <2>7, <2>8, <2>9
<1> QED  BY <1>1, <1>2, StepForm

(* The types.                                                               *)
LEMMA RunTypeStep ==
  ASSUME Service!TypeOK, Stamps, [Service!Next]_(Service!vars)
  PROVE  /\ Len(run') <= MaxRuns /\ run' \in Seq(Service!RunState)
         /\ history' \subseteq Service!Written' /\ Service!Written \subseteq Service!Written'
         /\ Runs \subseteq Service!Runs'
<1>1. Len(run) <= MaxRuns /\ history \subseteq Service!Written
  BY DEF Service!TypeOK
<1>2. CASE Steady /\ history' \subseteq history
  BY <1>1, <1>2, SteadyForm DEF Steady
<1>3. ASSUME NEW r \in Runs, Writes(r)
      PROVE  /\ Len(run') <= MaxRuns /\ run' \in Seq(Service!RunState)
             /\ history' \subseteq Service!Written' /\ Service!Written \subseteq Service!Written'
             /\ Runs \subseteq Service!Runs'
  BY <1>1, <1>3, WritesForm DEF Writes
<1> QED  BY <1>2, <1>3, StepForm

FilesOK == /\ flows \in [Flows -> Defs \cup {None}] /\ deleting \subseteq Flows
           /\ listed \in [Flows -> (SUBSET Service!Written) \cup {None}]
           /\ seen \in [Flows -> Defs \cup {None}] \cup {None}

TimesOK == /\ lastFired \in [Flows -> (0..MaxTime) \cup {None}] /\ fireTime \in [Flows -> -1..MaxTime]
           /\ clock \in 0..MaxTime /\ restarts \in 0..MaxRestarts

(* The types, in parts.                                                     *)
LEMMA TypeIs ==
  Service!TypeOK <=> /\ Len(run) <= MaxRuns /\ run \in Seq(Service!RunState)
                     /\ history \subseteq Service!Written /\ outlived \subseteq Runs
                     /\ FilesOK /\ TimesOK
  BY DEF Service!TypeOK, FilesOK, TimesOK, Runs

(* The types of the flows and of their deletions.                           *)
LEMMA FilesOKStep ==
  ASSUME Service!TypeOK, Stamps, [Service!Next]_(Service!vars)
  PROVE  FilesOK'
<1> DEFINE W == Service!Written
<1>0. FilesOK /\ history \subseteq W /\ W \subseteq W'
  BY TypeIs, RunTypeStep
<1>1. FilesOK' <=> /\ flows' \in [Flows -> Defs \cup {None}] /\ deleting' \subseteq Flows
                   /\ listed' \in [Flows -> (SUBSET W') \cup {None}]
                   /\ seen' \in [Flows -> Defs \cup {None}] \cup {None}
  BY DEF FilesOK
<1> HIDE DEF W
<1>2. listed \in [Flows -> (SUBSET W') \cup {None}]
  BY <1>0 DEF FilesOK, W
<1>3. CASE UNCHANGED <<flows, listed, deleting, seen>>
  BY <1>0, <1>1, <1>2, <1>3 DEF FilesOK
<1>4. CASE \E r \in Runs : Lists(r) \/ Prunes(r) \/ Leaves(r) \/ Writes(r)
  BY <1>3, <1>4 DEF Lists, Prunes, Leaves, Writes, rest
<1>5. CASE \E f \in Flows : Begins(f)
  BY <1>3, <1>5 DEF Begins, rest
<1>6. CASE Service!TickFire
  BY <1>0, <1>1, <1>2, <1>6 DEF FilesOK, Service!TickFire
<1>7. CASE Service!Restart
  BY <1>0, <1>1, <1>2, <1>7 DEF FilesOK, Service!Restart
<1>8. CASE Service!TickRead
  BY <1>0, <1>1, <1>2, <1>8 DEF FilesOK, Service!TickRead
<1>9. CASE Service!Pass \/ UNCHANGED Service!vars
  BY <1>3, <1>9 DEF Service!Pass, Service!vars, Service!scheduler
<1>10. ASSUME NEW f \in Flows, NEW d \in Defs, Service!SaveFlow(f, d) PROVE FilesOK'
  BY <1>0, <1>1, <1>2, <1>10 DEF FilesOK, Service!SaveFlow, Service!scheduler
<1>11. ASSUME NEW f \in Flows, Service!DeleteFlow(f) PROVE FilesOK'
  BY <1>0, <1>1, <1>2, <1>11 DEF FilesOK, Service!DeleteFlow, Service!scheduler
<1>12. ASSUME NEW f \in Flows, Service!ListRunsOf(f) PROVE FilesOK'
  <2>1. Service!RunsOf(f, history) \in SUBSET W'
    BY <1>0 DEF Service!RunsOf
  <2> QED  BY <1>0, <1>1, <1>2, <1>12, <2>1 DEF FilesOK, Service!ListRunsOf, Service!scheduler
<1>13. ASSUME NEW f \in Flows, Service!RemoveRunsOf(f) \/ Service!AbandonDelete(f) PROVE FilesOK'
  BY <1>0, <1>1, <1>2, <1>13 DEF FilesOK, Service!RemoveRunsOf, Service!AbandonDelete, Service!scheduler
<1> QED
  BY <1>4, <1>5, <1>6, <1>7, <1>8, <1>9, <1>10, <1>11, <1>12, <1>13, Cases DEF Others

(* The types of the triggers and of the clock.                              *)
LEMMA TimesOKStep ==
  ASSUME Service!TypeOK, Stamps, [Service!Next]_(Service!vars)
  PROVE  TimesOK'
<1>0. TimesOK /\ MaxTime \in Nat /\ MaxRestarts \in Nat
  BY TypeIs, Given
<1>1. TimesOK' <=> /\ lastFired' \in [Flows -> (0..MaxTime) \cup {None}] /\ fireTime' \in [Flows -> -1..MaxTime]
                   /\ clock' \in 0..MaxTime /\ restarts' \in 0..MaxRestarts
  BY DEF TimesOK
<1>2. CASE UNCHANGED <<lastFired, fireTime, clock, restarts>>
  BY <1>0, <1>1, <1>2 DEF TimesOK
<1>3. CASE \/ \E r \in Runs : Lists(r) \/ Prunes(r) \/ Leaves(r) \/ Writes(r)
           \/ \E f \in Flows : Begins(f)
  BY <1>2, <1>3 DEF Lists, Prunes, Leaves, Writes, Begins, rest
<1>4. CASE Service!TickFire
  <2>1. \A f \in Flows : Service!Reference(f) \in (0..MaxTime) \cup {None}
    BY <1>0 DEF TimesOK, Service!Reference
  <2>2. \A f \in Flows : clock \in 0..MaxTime /\ lastFired[f] \in (0..MaxTime) \cup {None} /\ fireTime[f] \in -1..MaxTime
    BY <1>0 DEF TimesOK
  <2>3. /\ lastFired' = [f \in Flows |-> IF Service!Due(f) THEN clock
                                ELSE IF Service!Scheduled(f) THEN Service!Reference(f) ELSE lastFired[f]]
        /\ fireTime' = [f \in Flows |-> IF Service!Due(f) THEN clock ELSE fireTime[f]]
        /\ UNCHANGED <<clock, restarts>>
    BY <1>4 DEF Service!TickFire
  <2>4. lastFired' \in [Flows -> (0..MaxTime) \cup {None}]
    BY <2>1, <2>2, <2>3
  <2>5. fireTime' \in [Flows -> -1..MaxTime]
    BY <1>0, <2>2, <2>3
  <2> QED  BY <1>0, <1>1, <2>3, <2>4, <2>5 DEF TimesOK
<1>5. CASE Service!Restart
  <2>1. restarts' \in 0..MaxRestarts
    <3>1. restarts < MaxRestarts /\ restarts' = restarts + 1
      BY <1>5, Zenon DEF Service!Restart
    <3>2. restarts \in 0..MaxRestarts /\ MaxRestarts \in Nat
      BY <1>0 DEF TimesOK
    <3> HIDE <1>5
    <3> QED  BY <3>1, <3>2
  <2>2. lastFired' \in [Flows -> (0..MaxTime) \cup {None}]
    BY <1>5 DEF Service!Restart
  <2>3. UNCHANGED <<clock, fireTime>>
    BY <1>5 DEF Service!Restart
  <2> QED  BY <1>0, <1>1, <2>1, <2>2, <2>3 DEF TimesOK
<1>6. CASE Service!Pass
  BY <1>0, <1>1, <1>6 DEF TimesOK, Service!Pass, Service!scheduler
<1>7. CASE Others /\ ~Service!Pass
  BY <1>2, <1>7 DEF Others, Service!SaveFlow, Service!DeleteFlow, Service!ListRunsOf, Service!RemoveRunsOf,
         Service!AbandonDelete, Service!TickRead, Service!vars, Service!scheduler
<1> QED  BY <1>3, <1>4, <1>5, <1>6, <1>7, Cases

(* The ghost names runs.                                                    *)
LEMMA OutlivedStep ==
  ASSUME Service!TypeOK, Stamps, [Service!Next]_(Service!vars)
  PROVE  outlived' \subseteq Service!Runs'
<1>0. outlived \subseteq Runs /\ Runs \subseteq Service!Runs'
  BY TypeIs, RunTypeStep
<1>1. CASE UNCHANGED outlived
  BY <1>0, <1>1
<1>2. CASE \/ \E r \in Runs : Lists(r) \/ Prunes(r) \/ Leaves(r) \/ Writes(r)
           \/ \E f \in Flows : Begins(f)
  BY <1>1, <1>2 DEF Lists, Prunes, Leaves, Writes, Begins, rest
<1>3. CASE Service!TickFire
  BY <1>0, <1>3, TickForm
<1>4. CASE Service!Restart
  BY <1>0, <1>4 DEF Service!Restart, Service!RunsOf, Runs
<1>5. ASSUME NEW f \in Flows, Service!ListRunsOf(f) \/ Service!AbandonDelete(f)
      PROVE  outlived' \subseteq Service!Runs'
  BY <1>0, <1>5 DEF Service!ListRunsOf, Service!AbandonDelete, Service!RunsOf, Service!InFlight, Runs
<1>6. CASE /\ Others
           /\ ~\E f \in Flows : Service!ListRunsOf(f) \/ Service!AbandonDelete(f)
  BY <1>1, <1>6 DEF Others, Service!SaveFlow, Service!DeleteFlow, Service!RemoveRunsOf,
         Service!TickRead, Service!Pass, Service!vars, Service!scheduler
<1> QED  BY <1>2, <1>3, <1>4, <1>5, <1>6, Cases

(* All types.                                                               *)
LEMMA TypeStep ==
  ASSUME Service!TypeOK, Stamps, [Service!Next]_(Service!vars)
  PROVE  Service!TypeOK'
<1>1. Service!TypeOK' <=> /\ Len(run') <= MaxRuns /\ run' \in Seq(Service!RunState)
                          /\ history' \subseteq Service!Written' /\ outlived' \subseteq Service!Runs'
                          /\ FilesOK' /\ TimesOK'
  BY DEF Service!TypeOK, FilesOK, TimesOK
<1> QED  BY <1>1, RunTypeStep, FilesOKStep, TimesOKStep, OutlivedStep

-----------------------------------------------------------------------------
\* What delete_runs_of has read is of the flow that is being deleted.
Listings == \A f \in Flows : listed[f] # None =>
               f \in deleting /\ \A r \in listed[f] : run[r].flow = f

\* A run whose flow is gone: its history is yet to be listed, or the run outlived
\* that, or it writes no more and its record is on the list.
Accounted(r) ==
    LET f == run[r].flow
    IN  flows[f] = None =>
            \/ r \in outlived
            \/ f \in deleting /\ listed[f] = None
            \/ /\ run[r].stage # "running"
               /\ r \in history => f \in deleting /\ r \in listed[f]

Orphans == \A r \in Runs : Accounted(r)

(* Listings, step by step.                                                  *)
LEMMA ListingsStep ==
  ASSUME Service!TypeOK, Stamps, Listings, [Service!Next]_(Service!vars)
  PROVE  Listings'
<1>0. Listings' <=> \A f \in Flows : listed'[f] # None =>
                        f \in deleting' /\ \A r \in listed'[f] : run'[r].flow = f
  BY DEF Listings
<1>1. \A r \in Runs : run'[r].flow = run[r].flow
  BY StepForm DEF Steady, SameBut, Writes, Same
<1>2. \A f \in Flows : listed[f] # None =>
          f \in deleting /\ listed[f] \subseteq Runs /\ \A r \in listed[f] : run'[r].flow = f
  BY <1>1, WrittenFinite DEF Listings, Service!TypeOK
<1>3. CASE UNCHANGED <<listed, deleting>>
  BY <1>0, <1>2, <1>3
<1>4. CASE \/ \E r \in Runs : Lists(r) \/ Prunes(r) \/ Leaves(r) \/ Writes(r)
           \/ \E f \in Flows : Begins(f)
  BY <1>3, <1>4 DEF Lists, Prunes, Leaves, Writes, Begins, rest
<1>5. CASE Service!TickFire
  BY <1>3, <1>5 DEF Service!TickFire
<1>6. CASE Service!Restart
  BY <1>0, <1>6 DEF Service!Restart
<1>7. ASSUME NEW f \in Flows, Service!DeleteFlow(f) PROVE Listings'
  BY <1>0, <1>2, <1>7 DEF Service!DeleteFlow, Service!scheduler
<1>8. ASSUME NEW f \in Flows, Service!ListRunsOf(f) PROVE Listings'
  <2>1. /\ f \in deleting /\ deleting' = deleting
        /\ listed' = [listed EXCEPT ![f] = Service!RunsOf(f, history)]
        /\ listed \in [Flows -> (SUBSET Service!Written) \cup {None}]
    BY <1>8 DEF Service!ListRunsOf, Service!TypeOK
  <2>2. \A r \in Service!RunsOf(f, history) : run'[r].flow = f
    BY <1>1, WrittenFinite DEF Service!RunsOf, Service!TypeOK
  <2> QED  BY <1>0, <1>2, <2>1, <2>2
<1>9. ASSUME NEW f \in Flows, Service!RemoveRunsOf(f) \/ Service!AbandonDelete(f) PROVE Listings'
  <2>1. /\ deleting' = deleting \ {f} /\ listed' = [listed EXCEPT ![f] = None]
        /\ listed \in [Flows -> (SUBSET Service!Written) \cup {None}]
    BY <1>9 DEF Service!RemoveRunsOf, Service!AbandonDelete, Service!TypeOK
  <2> QED  BY <1>0, <1>2, <2>1
<1>10. CASE Others /\ ~\E f \in Flows : \/ Service!DeleteFlow(f) \/ Service!ListRunsOf(f)
                                        \/ Service!RemoveRunsOf(f) \/ Service!AbandonDelete(f)
  BY <1>3, <1>10 DEF Others, Service!SaveFlow, Service!TickRead, Service!Pass, Service!vars, Service!scheduler
<1> QED  BY <1>4, <1>5, <1>6, <1>7, <1>8, <1>9, <1>10, Cases

\* What a prune works on are records that were written.
Reads == \A r \in Runs : run[r].listing \subseteq Service!Written

(* Listings, and what is written, step by step.                             *)
LEMMA ReadsStep ==
  ASSUME Service!TypeOK, Stamps, Reads, [Service!Next]_(Service!vars)
  PROVE  Reads'
<1> DEFINE W == Service!Written
<1>0. /\ W \subseteq W' /\ history \subseteq W /\ \A q \in Runs : run[q].listing \subseteq W
      /\ Reads' <=> \A q \in Service!Runs' : run'[q].listing \subseteq W'
  BY RunTypeStep DEF Reads, Service!TypeOK, Runs
<1> HIDE DEF W
<1>1. ASSUME NEW r \in Runs, NEW from, NEW to, NEW l \in SUBSET W, Moves(r, from, to, l) PROVE Reads'
  <2>1. Service!Runs' = Runs /\ run'[r].listing = l /\ \A q \in Runs : q # r => run'[q] = run[q]
    BY <1>1 DEF Moves, Same, Runs, Service!Runs
  <2> QED  BY <1>0, <2>1
<1>2. ASSUME NEW r \in Runs, Lists(r) \/ Prunes(r) \/ Leaves(r) PROVE Reads'
  BY <1>0, <1>1, <1>2 DEF Lists, Prunes, Leaves
<1>3. ASSUME NEW r \in Runs, Writes(r) PROVE Reads'
  <2>1. /\ Service!Runs' = Runs /\ run'[r].listing = run[r].listing
        /\ \A q \in Runs : q # r => run'[q] = run[q]
    BY <1>3, WritesForm DEF Writes, Same
  <2> QED  BY <1>0, <2>1
<1>4. CASE Grown
  <2>1. \A q \in Runs : run'[q] = run[q]
    BY <1>4 DEF Grown, Same
  <2>2. \A q \in Service!Runs' \ Runs : run'[q].listing = {}
    BY <1>4 DEF Grown
  <2> QED  BY <1>0, <2>1, <2>2
<1>5. CASE Service!Restart
  <2>1. Service!Runs' = Runs /\ \A q \in Runs : run'[q].listing = {}
    BY <1>5, RestartForm DEF Runs, Service!Runs
  <2> QED  BY <1>0, <2>1
<1>6. CASE Others
  <2>1. Service!Runs' = Runs /\ run' = run
    BY <1>6, OthersForm DEF Runs, Service!Runs
  <2> QED  BY <1>0, <2>1
<1> QED  BY <1>2, <1>3, <1>4, <1>5, <1>6, Cases, TickForm DEF Begins

(* The record written last is no excess of any listing.                     *)
LEMMA LatestIsKept ==
  ASSUME Service!TypeOK, Stamps, Listings, Reads, [Service!Next]_(Service!vars),
         NEW r \in history \ history', \A q \in Runs : run[q].stamp <= run[r].stamp
  PROVE  run[r].flow \in deleting
<1>0. r \in Runs
  BY WrittenFinite DEF Service!TypeOK
<1>1. CASE \E q \in Runs : Lists(q) \/ Leaves(q) \/ Writes(q)
  BY <1>1 DEF Lists, Leaves, Writes
<1>2. ASSUME NEW q \in Runs, Prunes(q) PROVE FALSE
  <2> DEFINE l == run[q].listing
             newer == {p \in l : run[p].stamp > run[r].stamp}
  <2>1. r \in Service!Excess(l)
    BY <1>2 DEF Prunes
  <2>2. Service!Cardinality(newer) >= Keep
    BY <2>1 DEF Service!Excess
  <2>3. \A p \in Runs : run[p].stamp \in Nat
    <3>1. \A p \in Runs : run[p] \in Service!RunState
      BY DEF Service!TypeOK, Runs, Service!Runs
    <3> QED  BY <3>1, Given DEF Service!RunState
  <2>4. newer = {}
    <3>1. l \subseteq Runs
      BY WrittenFinite DEF Reads
    <3> QED  BY <1>0, <2>3, <3>1
  <2> HIDE DEF newer
  <2>5. Service!Cardinality(newer) = 0
    BY <2>4, CardinalityIs, FS_EmptySet
  <2> QED  BY <2>2, <2>5, Given
<1>3. CASE \E f \in Flows : Begins(f)
  BY <1>3 DEF Begins
<1>4. CASE Service!TickFire \/ Service!Restart
  BY <1>4 DEF Service!TickFire, Service!Restart
<1>5. ASSUME NEW f \in Flows, Service!RemoveRunsOf(f) PROVE run[r].flow \in deleting
  BY <1>5 DEF Service!RemoveRunsOf, Listings
<1>6. CASE Others /\ ~\E f \in Flows : Service!RemoveRunsOf(f)
  BY <1>6 DEF Others, Service!SaveFlow, Service!DeleteFlow, Service!ListRunsOf,
         Service!AbandonDelete, Service!TickRead, Service!Pass, Service!vars
<1> QED  BY <1>1, <1>2, <1>3, <1>4, <1>5, <1>6, Cases

\* A step that leaves the files of the flows and their deletions alone.
Aside(r) == /\ UNCHANGED <<flows, deleting, listed>> /\ outlived \subseteq outlived'
            /\ run'[r].flow = run[r].flow /\ (r \in history' => r \in history)
            /\ run'[r].stage = "running" => run[r].stage = "running"

(* Such a step settles no account anew.                                     *)
LEMMA AsideForm == ASSUME NEW r, Accounted(r), Aside(r) PROVE Accounted(r)'
  BY DEF Accounted, Aside

(* The orphans, step by step.                                               *)
LEMMA OrphansStep ==
  ASSUME Service!TypeOK, Stamps, Listings, Orphans, [Service!Next]_(Service!vars)
  PROVE  Orphans'
<1>0. /\ \A r \in Runs : Accounted(r) /\ run[r].flow \in Flows
      /\ Orphans' <=> \A r \in Service!Runs' : Accounted(r)'
      /\ flows \in [Flows -> Defs \cup {None}] /\ deleting \subseteq Flows
      /\ listed \in [Flows -> (SUBSET Service!Written) \cup {None}]
      /\ history \subseteq Runs
  <2>1. \A r \in Runs : run[r] \in Service!RunState
    BY DEF Service!TypeOK, Runs, Service!Runs
  <2>2. history \subseteq Runs
    BY WrittenFinite DEF Service!TypeOK
  <2> QED  BY <2>1, <2>2 DEF Orphans, Runs, Service!RunState, Service!TypeOK
<1>1. ASSUME NEW r \in Runs, NEW from, NEW to \in Service!Stages \ {"running"}, NEW l,
             Moves(r, from, to, l), UNCHANGED rest, history' \subseteq history
      PROVE  Orphans'
  <2>1. Service!Runs' = Runs /\ run'[r].stage # "running" /\ \A q \in Runs : q # r => run'[q] = run[q]
    BY <1>1 DEF Moves, Same, Runs, Service!Runs
  <2>2. \A q \in Runs : run'[q].flow = run[q].flow
    BY <1>1 DEF Moves, Steady, SameBut
  <2>3. \A q \in Runs : Aside(q)
    BY <1>1, <2>1, <2>2 DEF Aside, rest
  <2> QED  BY <1>0, <2>1, <2>3, AsideForm
<1>2. ASSUME NEW r \in Runs, Lists(r) \/ Prunes(r) \/ Leaves(r) PROVE Orphans'
  BY <1>1, <1>2 DEF Lists, Prunes, Leaves, Service!Stages
<1>3. ASSUME NEW r \in Runs, Writes(r) PROVE Orphans'
  <2>1. /\ Service!Runs' = Runs /\ run'[r].stage # "running" /\ run[r].stage = "running"
        /\ run'[r].flow = run[r].flow
        /\ \A q \in Runs : q # r => run'[q] = run[q]
        /\ history' = history \cup {r} /\ UNCHANGED <<flows, deleting, listed, outlived>>
    BY <1>3, WritesForm DEF Writes, Same, SameBut
  <2>2. \A q \in Runs : q # r => Aside(q)
    BY <2>1 DEF Aside
  <2>3. Accounted(r)'
    BY <1>0, <2>1 DEF Accounted
  <2> QED  BY <1>0, <2>1, <2>2, <2>3, AsideForm
<1>4. ASSUME NEW f \in Flows, Begins(f) PROVE Orphans'
  <2> PICK n : n = Len(run) + 1
    OBVIOUS
  <2>1. /\ Service!Runs' = Runs \cup {n} /\ run'[n].flow = f /\ flows'[f] # None
        /\ \A q \in Runs : run'[q] = run[q]
        /\ UNCHANGED <<flows, deleting, listed, outlived, history>>
    BY <1>4 DEF Begins, Grown, Same, rest
  <2>2. \A q \in Runs : Aside(q)
    BY <2>1 DEF Aside
  <2>3. Accounted(n)'
    BY <2>1 DEF Accounted
  <2> QED  BY <1>0, <2>1, <2>2, <2>3, AsideForm
<1>5. CASE Service!TickFire
  <2>1. UNCHANGED <<flows, deleting, listed, history>>
    BY <1>5 DEF Service!TickFire
  <2>2. /\ \A q \in Runs : run'[q] = run[q]
        /\ \A q \in Service!Runs' \ Runs : flows[run'[q].flow] = None => q \in outlived'
        /\ outlived \subseteq outlived'
    BY <1>5, TickForm DEF Grown, Same
  <2>3. \A q \in Runs : Aside(q)
    BY <2>1, <2>2 DEF Aside
  <2>4. \A q \in Service!Runs' \ Runs : Accounted(q)'
    BY <2>1, <2>2 DEF Accounted
  <2> QED  BY <1>0, <2>3, <2>4, AsideForm
<1>6. CASE Service!Restart
  <2>1. /\ Service!Runs' = Runs
        /\ \A q \in Runs : run'[q].flow = run[q].flow /\ run'[q].stage = Service!AfterCrash(run[q].stage)
    BY <1>6, RestartForm DEF Steady, SameBut, Runs, Service!Runs
  <2>2. /\ UNCHANGED <<flows, history>> /\ outlived \subseteq outlived'
        /\ \A q \in Runs : run[q].flow \in deleting => q \in outlived'
    <3>1. /\ UNCHANGED <<flows, history>>
          /\ outlived' = outlived \cup UNION {Service!RunsOf(f, Service!Runs) : f \in deleting}
      BY <1>6 DEF Service!Restart
    <3>2. ASSUME NEW q \in Runs, run[q].flow \in deleting PROVE q \in outlived'
      <4>1. q \in Service!RunsOf(run[q].flow, Service!Runs)
        BY <3>2 DEF Service!RunsOf, Runs
      <4> QED  BY <3>1, <3>2, <4>1
    <3> QED  BY <3>1, <3>2
  <2>3. \A q \in Runs : run'[q].stage # "running"
    BY <2>1 DEF Service!AfterCrash
  <2>4. \A q \in Runs : Accounted(q)'
    BY <1>0, <2>1, <2>2, <2>3 DEF Accounted
  <2> QED  BY <1>0, <2>1, <2>4
<1>7. ASSUME Others PROVE Orphans'
  <2>1. Service!Runs' = Runs /\ run' = run /\ history' \subseteq history
    BY <1>7, OthersForm DEF Runs, Service!Runs
  <2>2. CASE UNCHANGED <<flows, deleting, listed, outlived>>
    <3>1. \A q \in Runs : Aside(q)
      BY <2>1, <2>2 DEF Aside
    <3> QED  BY <1>0, <2>1, <3>1, AsideForm
  <2>3. ASSUME NEW f \in Flows, NEW d \in Defs, Service!SaveFlow(f, d) PROVE Orphans'
    <3>1. flows' = [flows EXCEPT ![f] = d] /\ d # None /\ UNCHANGED <<deleting, listed, outlived, history>>
      BY <2>3, Given DEF Service!SaveFlow
    <3>2. \A q \in Runs : Accounted(q)'
      BY <1>0, <2>1, <3>1 DEF Accounted
    <3> QED  BY <1>0, <2>1, <3>2
  <2>4. ASSUME NEW f \in Flows, Service!DeleteFlow(f) PROVE Orphans'
    <3>1. /\ flows' = [flows EXCEPT ![f] = None] /\ f \notin deleting /\ deleting' = deleting \cup {f}
          /\ UNCHANGED <<listed, outlived, history>>
      BY <2>4 DEF Service!DeleteFlow
    <3>2. listed[f] = None
      BY <3>1 DEF Listings
    <3>3. \A q \in Runs : Accounted(q)'
      BY <1>0, <2>1, <3>1, <3>2 DEF Accounted
    <3> QED  BY <1>0, <2>1, <3>3
  <2>5. ASSUME NEW f \in Flows, Service!ListRunsOf(f) PROVE Orphans'
    <3>1. /\ f \in deleting /\ listed' = [listed EXCEPT ![f] = Service!RunsOf(f, history)]
          /\ outlived' = outlived \cup Service!RunsOf(f, Service!InFlight)
          /\ UNCHANGED <<flows, deleting, history>>
      BY <2>5 DEF Service!ListRunsOf
    <3>2. ASSUME NEW q \in Runs PROVE Accounted(q)'
      <4>1. CASE run[q].flow # f
        BY <1>0, <2>1, <3>1, <4>1 DEF Accounted
      <4>2. CASE run[q].flow = f /\ run[q].stage = "running"
        BY <2>1, <3>1, <4>2 DEF Accounted, Service!RunsOf, Service!InFlight, Runs
      <4>3. CASE run[q].flow = f /\ run[q].stage # "running"
        <5>1. q \in history => q \in listed'[f]
          BY <1>0, <3>1, <4>3 DEF Service!RunsOf
        <5> QED  BY <2>1, <3>1, <4>3, <5>1 DEF Accounted
      <4> QED  BY <4>1, <4>2, <4>3
    <3> QED  BY <1>0, <2>1, <3>2
  <2>6. ASSUME NEW f \in Flows, Service!RemoveRunsOf(f) PROVE Orphans'
    <3>1. /\ f \in deleting /\ listed[f] # None /\ listed' = [listed EXCEPT ![f] = None]
          /\ deleting' = deleting \ {f} /\ history' = history \ listed[f] /\ UNCHANGED <<flows, outlived>>
      BY <2>6 DEF Service!RemoveRunsOf
    <3>2. ASSUME NEW q \in Runs PROVE Accounted(q)'
      <4>1. CASE run[q].flow # f
        BY <1>0, <2>1, <3>1, <4>1 DEF Accounted
      <4>2. CASE run[q].flow = f
        BY <1>0, <2>1, <3>1, <4>2 DEF Accounted
      <4> QED  BY <4>1, <4>2
    <3> QED  BY <1>0, <2>1, <3>2
  <2>7. ASSUME NEW f \in Flows, Service!AbandonDelete(f) PROVE Orphans'
    <3>1. /\ listed' = [listed EXCEPT ![f] = None] /\ deleting' = deleting \ {f}
          /\ outlived' = outlived \cup Service!RunsOf(f, Runs) /\ UNCHANGED <<flows, history>>
      BY <2>7 DEF Service!AbandonDelete, Runs
    <3>2. ASSUME NEW q \in Runs PROVE Accounted(q)'
      <4>1. CASE run[q].flow # f
        BY <1>0, <2>1, <3>1, <4>1 DEF Accounted
      <4>2. CASE run[q].flow = f
        BY <2>1, <3>1, <4>2 DEF Accounted, Service!RunsOf
      <4> QED  BY <4>1, <4>2
    <3> QED  BY <1>0, <2>1, <3>2
  <2>8. CASE Service!TickRead \/ Service!Pass \/ UNCHANGED Service!vars
    BY <2>2, <2>8 DEF Service!TickRead, Service!Pass, Service!vars
  <2> QED  BY <1>7, <2>3, <2>4, <2>5, <2>6, <2>7, <2>8 DEF Others
<1> QED  BY <1>2, <1>3, <1>4, <1>5, <1>6, <1>7, Cases

-----------------------------------------------------------------------------
\* No trigger is ahead of the clock, nor of what the scheduler remembers of it.
Fires == \A f \in Flows : /\ fireTime[f] <= clock
                          /\ lastFired[f] # None => fireTime[f] <= lastFired[f]

(* The triggers, step by step.                                              *)
LEMMA FiresStep ==
  ASSUME Service!TypeOK, Stamps, Fires, [Service!Next]_(Service!vars)
  PROVE  Fires'
<1>0. /\ Fires' <=> \A f \in Flows : /\ fireTime'[f] <= clock'
                                     /\ lastFired'[f] # None => fireTime'[f] <= lastFired'[f]
      /\ \A f \in Flows : /\ fireTime[f] \in Int /\ clock \in Int /\ lastFired[f] \in Int \cup {None}
                          /\ fireTime[f] <= clock
                          /\ lastFired[f] # None => fireTime[f] <= lastFired[f]
  BY DEF Fires, Service!TypeOK
<1>1. CASE UNCHANGED <<lastFired, fireTime, clock>>
  BY <1>0, <1>1
<1>2. CASE \/ \E r \in Runs : Lists(r) \/ Prunes(r) \/ Leaves(r) \/ Writes(r)
           \/ \E f \in Flows : Begins(f)
  BY <1>1, <1>2 DEF Lists, Prunes, Leaves, Writes, Begins, rest
<1>3. CASE Service!TickFire
  <2>1. /\ lastFired' = [f \in Flows |-> IF Service!Due(f) THEN clock
                                ELSE IF Service!Scheduled(f) THEN Service!Reference(f) ELSE lastFired[f]]
        /\ fireTime' = [f \in Flows |-> IF Service!Due(f) THEN clock ELSE fireTime[f]]
        /\ clock' = clock
    BY <1>3 DEF Service!TickFire
  <2>2. ASSUME NEW f \in Flows
        PROVE  fireTime'[f] <= clock' /\ (lastFired'[f] # None => fireTime'[f] <= lastFired'[f])
    <3>1. CASE Service!Due(f)
      BY <1>0, <2>1, <3>1
    <3>2. CASE ~Service!Due(f) /\ Service!Scheduled(f)
      BY <1>0, <2>1, <3>2 DEF Service!Reference
    <3>3. CASE ~Service!Due(f) /\ ~Service!Scheduled(f)
      BY <1>0, <2>1, <3>3
    <3> QED  BY <3>1, <3>2, <3>3
  <2> QED  BY <1>0, <2>2
<1>4. CASE Service!Restart
  <2>1. lastFired' = [f \in Flows |-> None] /\ UNCHANGED <<clock, fireTime>>
    BY <1>4 DEF Service!Restart
  <2> QED  BY <1>0, <2>1
<1>5. CASE Service!Pass
  <2>1. clock' = clock + 1 /\ UNCHANGED <<lastFired, fireTime>>
    BY <1>5 DEF Service!Pass, Service!scheduler
  <2> QED  BY <1>0, <2>1
<1>6. CASE Others /\ ~Service!Pass
  BY <1>1, <1>6 DEF Others, Service!SaveFlow, Service!DeleteFlow, Service!ListRunsOf, Service!RemoveRunsOf,
         Service!AbandonDelete, Service!TickRead, Service!vars, Service!scheduler
<1> QED  BY <1>2, <1>3, <1>4, <1>5, <1>6, Cases

(* What a trigger fires for has come since it fired last.                   *)
LEMMA FiresOnce ==
  ASSUME Service!TypeOK, Stamps, Fires, [Service!Next]_(Service!vars),
         NEW f \in Flows, fireTime'[f] # fireTime[f]
  PROVE  \E o \in Occurs(seen[f].cron) : fireTime[f] < o /\ o <= fireTime'[f]
<1>1. CASE UNCHANGED fireTime
  BY <1>1
<1>2. CASE \/ \E r \in Runs : Lists(r) \/ Prunes(r) \/ Leaves(r) \/ Writes(r)
           \/ \E g \in Flows : Begins(g)
  BY <1>1, <1>2 DEF Lists, Prunes, Leaves, Writes, Begins, rest
<1>3. CASE Service!TickFire
  <2>1. /\ fireTime' = [g \in Flows |-> IF Service!Due(g) THEN clock ELSE fireTime[g]]
        /\ seen # None
    BY <1>3 DEF Service!TickFire
  <2>2. Service!Due(f) /\ fireTime'[f] = clock
    BY <2>1
  <2>3. seen[f] \in Defs
    BY <2>1, <2>2 DEF Service!TypeOK, Service!Due, Service!Scheduled
  <2>4. PICK o \in Occurs(seen[f].cron) : Service!Reference(f) < o /\ o <= clock
    BY <2>2 DEF Service!Due
  <2>5. o \in Int
    BY <2>3, <2>4, Given
  <2>6. /\ fireTime[f] \in Int /\ clock \in Int /\ lastFired[f] \in Int \cup {None}
        /\ fireTime[f] <= clock /\ (lastFired[f] # None => fireTime[f] <= lastFired[f])
    BY DEF Fires, Service!TypeOK
  <2>7. Service!Reference(f) \in Int /\ fireTime[f] <= Service!Reference(f)
    BY <2>6 DEF Service!Reference
  <2>8. fireTime[f] < o
    BY <2>4, <2>5, <2>6, <2>7
  <2> QED  BY <2>2, <2>4, <2>8
<1>4. CASE Service!Restart
  BY <1>1, <1>4 DEF Service!Restart
<1>5. CASE Others
  BY <1>1, <1>5 DEF Others, Service!SaveFlow, Service!DeleteFlow, Service!ListRunsOf, Service!RemoveRunsOf,
         Service!AbandonDelete, Service!TickRead, Service!Pass, Service!vars, Service!scheduler
<1> QED  BY <1>2, <1>3, <1>4, <1>5, Cases

-----------------------------------------------------------------------------
(* A set of numbers has a least one.                                        *)
LEMMA LeastOfNaturals ==
  ASSUME NEW S \in SUBSET Nat, S # {}
  PROVE  \E x \in S : \A y \in S : x <= y
  <1> DEFINE R == OpToRel(<, Nat)
  <1>1. \A x, y \in Nat : x < y => <<x, y>> \in R
    BY DEF OpToRel
  <1>2. IsWellFoundedOn(R, Nat)
    BY NatLessThanWellFounded
  <1> HIDE DEF R
  <1>3. PICK x \in S : \A y \in S : ~(<<y, x>> \in R)
    BY <1>2, WFMin
  <1>4. \A y \in S : x <= y
    <2> SUFFICES ASSUME NEW y \in S, ~(x <= y) PROVE FALSE
      OBVIOUS
    <2>1. x \in Nat /\ y \in Nat
      OBVIOUS
    <2>2. y < x
      BY <2>1
    <2> QED  BY <1>1, <1>3, <2>1, <2>2
  <1> QED  BY <1>4

(* A prune leaves no more than Keep runs of its listing: all the others that *)
(* stay are newer than the oldest of them, and fewer than Keep are.         *)
LEMMA KeptAreFew ==
  ASSUME Service!TypeOK, Stamps, NEW l \in SUBSET Service!Written
  PROVE  IsFiniteSet(l) /\ Cardinality(l \ Service!Excess(l)) \in Nat /\ Cardinality(l \ Service!Excess(l)) <= Keep
<1> DEFINE kept == l \ Service!Excess(l)
           newer(r) == {q \in l : run[q].stamp > run[r].stamp}
<1>1. IsFiniteSet(l) /\ IsFiniteSet(kept) /\ l \subseteq Runs /\ kept \subseteq l
  BY WrittenFinite, FS_Subset
<1>2. \A p \in Runs : run[p].stamp \in Nat
  <2>1. \A p \in Runs : run[p] \in Service!RunState
    BY DEF Service!TypeOK, Runs, Service!Runs
  <2> QED  BY <2>1, Given DEF Service!RunState
<1>3. ASSUME NEW r \in kept
      PROVE  IsFiniteSet(newer(r)) /\ Cardinality(newer(r)) \in Nat /\ Cardinality(newer(r)) < Keep
  <2>1. IsFiniteSet(newer(r)) /\ Cardinality(newer(r)) \in Nat
    BY <1>1, FS_Subset, FS_CardinalityType
  <2>2. ~(Service!Cardinality(newer(r)) >= Keep)
    BY DEF Service!Excess
  <2>3. Service!Cardinality(newer(r)) = Cardinality(newer(r))
    BY CardinalityIs
  <2> HIDE DEF newer
  <2> QED  BY <2>1, <2>2, <2>3, Given
<1>4. CASE kept = {}
  BY <1>1, <1>4, FS_EmptySet, Given
<1>5. CASE kept # {}
  <2>1. PICK m \in kept : \A q \in kept : run[m].stamp <= run[q].stamp
    <3> DEFINE times == {run[q].stamp : q \in kept}
    <3>1. times \in SUBSET Nat /\ times # {}
      BY <1>1, <1>2, <1>5
    <3>2. PICK t \in times : \A u \in times : t <= u
      BY <3>1, LeastOfNaturals
    <3> QED  BY <3>2
  <2>2. kept \ {m} \subseteq newer(m)
    <3> SUFFICES ASSUME NEW q \in kept, q # m PROVE run[q].stamp > run[m].stamp
      BY <1>1
    <3>1. run[q].stamp # run[m].stamp
      BY <1>1 DEF Stamps
    <3> QED  BY <1>1, <1>2, <2>1, <3>1
  <2>3. Cardinality(kept) = Cardinality(kept \ {m}) + 1 /\ Cardinality(kept \ {m}) \in Nat
    <3> HIDE DEF kept, newer
    <3>1. IsFiniteSet(kept \ {m}) /\ Cardinality(kept \ {m}) = Cardinality(kept) - 1
      BY <1>1, <2>1, FS_RemoveElement
    <3>2. Cardinality(kept) \in Nat /\ Cardinality(kept \ {m}) \in Nat
      BY <1>1, <3>1, FS_CardinalityType
    <3> QED  BY <3>1, <3>2
  <2>4. Cardinality(kept \ {m}) <= Cardinality(newer(m))
    BY <1>3, <2>2, FS_Subset
  <2>5. Cardinality(newer(m)) \in Nat /\ Cardinality(newer(m)) < Keep
    BY <1>3
  <2> HIDE DEF kept, newer
  <2>6. Cardinality(kept) \in Nat /\ Cardinality(kept) <= Keep
    BY <2>3, <2>4, <2>5, Given
  <2> QED  BY <1>1, <2>6 DEF kept
<1> QED  BY <1>4, <1>5

Pruning(r) == run[r].stage = "pruning"

\* Listings are ordered: of two prunes under way, one knows of the other, or has
\* listed before, and what is still there of its listing is in the other's.
Ordered ==
    \A r \in history : Pruning(r) =>
        /\ r \in run[r].listing
        /\ \A q \in history : Pruning(q) =>
               r \in run[q].listing \/ run[q].listing \cap history \subseteq run[r].listing

\* Some listing L that was pruned: no more than Keep of it are left, what was
\* written since is not pruned for yet, and those that prune for it know L.
PrunedTo(L) ==
    /\ Cardinality(history \cap L) <= Keep
    /\ history \ L \subseteq Service!Unpruned
    /\ \A r \in history \ L : Pruning(r) => L \cap history \subseteq run[r].listing

Tidy == Ordered /\ \E L \in SUBSET Service!Written : PrunedTo(L)

\* Nothing is written, and no prune begins or ends.
NoPrune == /\ history' \subseteq history /\ Service!Written' = Service!Written
           /\ \A q \in history' : /\ Pruning(q)' => Pruning(q) /\ run'[q].listing = run[q].listing
                                  /\ q \in Service!Unpruned => q \in Service!Unpruned'

(* Then what was left of a listing is at most less.                         *)
LEMMA NoPruneKeepsTidy ==
  ASSUME Service!TypeOK, Tidy, NoPrune
  PROVE  Tidy'
<1>1. Ordered'
  BY DEF Tidy, Ordered, NoPrune, Pruning
<1>2. PICK L \in SUBSET Service!Written : PrunedTo(L)
  BY DEF Tidy
<1>3. L \in SUBSET Service!Written'
  BY DEF NoPrune
<1>4. Cardinality(history' \cap L) <= Keep
  <2>1. history' \cap L \subseteq history \cap L /\ IsFiniteSet(history \cap L)
    BY WrittenFinite, FS_Subset DEF NoPrune
  <2>2. IsFiniteSet(history' \cap L) /\ Cardinality(history' \cap L) <= Cardinality(history \cap L)
    BY <2>1, FS_Subset
  <2>3. Cardinality(history' \cap L) \in Nat /\ Cardinality(history \cap L) \in Nat
    BY <2>1, <2>2, FS_CardinalityType
  <2>4. Cardinality(history \cap L) <= Keep
    BY <1>2 DEF PrunedTo
  <2> QED  BY <2>2, <2>3, <2>4, Given
<1>5. PrunedTo(L)'
  BY <1>2, <1>4 DEF PrunedTo, NoPrune, Pruning
<1> QED  BY <1>1, <1>3, <1>5 DEF Tidy

(* The steps of that kind.                                                  *)
LEMMA Frames ==
  ASSUME Service!TypeOK, Stamps, Tidy,
         \/ \E r \in Runs : Leaves(r)
         \/ Grown /\ UNCHANGED history
         \/ Service!Restart \/ Others
  PROVE  NoPrune
<1>0. history \subseteq Runs
  BY WrittenFinite DEF Service!TypeOK
<1>1. ASSUME NEW r \in Runs, Leaves(r) PROVE NoPrune
  <2>1. /\ history' = history /\ Service!Runs' = Runs /\ Steady
        /\ \A q \in Runs : q # r => run'[q] = run[q]
        /\ run'[r].stage \in {"unrecorded", "unpruned"}
        /\ run'[r].stage = "unrecorded" => run[r].stage = "running"
    BY <1>1 DEF Leaves, Moves, Same, Runs, Service!Runs
  <2>2. Service!Written' = Service!Written
    BY <2>1, SteadyForm
  <2> QED  BY <1>0, <2>1, <2>2 DEF NoPrune, Pruning, Service!Unpruned, Runs
<1>2. CASE Grown /\ UNCHANGED history
  <2>1. Runs \subseteq Service!Runs' /\ Service!Written' = Service!Written
    BY <1>2, GrownIsSteady, SteadyForm
  <2>2. \A q \in Runs : run'[q] = run[q]
    BY <1>2 DEF Grown, Same
  <2> QED  BY <1>0, <1>2, <2>1, <2>2 DEF NoPrune, Pruning, Service!Unpruned, Runs
<1>3. CASE Service!Restart
  <2>1. /\ Service!Written' = Service!Written /\ Service!Runs' = Runs
        /\ \A q \in Runs : run'[q].stage = Service!AfterCrash(run[q].stage)
    BY <1>3, RestartForm, SteadyForm DEF Runs, Service!Runs
  <2>2. history' = history
    BY <1>3 DEF Service!Restart
  <2>3. \A q \in Runs : /\ run'[q].stage # "pruning"
                        /\ q \in Service!Unpruned => q \in Service!Unpruned'
    <3> SUFFICES ASSUME NEW q \in Runs
                 PROVE  run'[q].stage # "pruning" /\ (q \in Service!Unpruned => q \in Service!Unpruned')
      OBVIOUS
    <3>1. run[q].stage \in Service!Stages
      <4>1. run[q] \in Service!RunState
        BY DEF Service!TypeOK, Runs, Service!Runs
      <4> QED  BY <4>1 DEF Service!RunState
    <3> QED  BY <2>1, <3>1 DEF Service!AfterCrash, Service!Stages, Service!Unpruned
  <2> QED  BY <1>0, <2>1, <2>2, <2>3 DEF NoPrune, Pruning
<1>4. CASE Others
  <2>1. run' = run /\ history' \subseteq history
    BY <1>4, OthersForm
  <2>2. Service!Written' = Service!Written /\ Service!Unpruned' = Service!Unpruned
    BY <2>1 DEF Service!Written, Service!Unpruned, Service!Runs
  <2> QED  BY <2>1, <2>2 DEF NoPrune, Pruning
<1> QED  BY <1>1, <1>2, <1>3, <1>4

(* A record that is written is on no listing yet.                           *)
LEMMA WritesKeepsTidy ==
  ASSUME Service!TypeOK, Stamps, Reads, Tidy, NEW r \in Runs, Writes(r)
  PROVE  Tidy'
<1>1. /\ Service!Runs' = Runs /\ r \notin Service!Written /\ Service!Written' = Service!Written \cup {r}
      /\ history' = history \cup {r} /\ history \subseteq Service!Written /\ Service!Written \subseteq Runs
      /\ run'[r].stage = "written" /\ \A q \in Runs : q # r => run'[q] = run[q]
      /\ \A q \in Runs : run[q].listing \subseteq Service!Written
  BY WritesForm, WrittenFinite DEF Writes, Same, Reads, Service!TypeOK
<1>2. Ordered'
  BY <1>1 DEF Tidy, Ordered, Pruning
<1>3. PICK L \in SUBSET Service!Written : PrunedTo(L)
  BY DEF Tidy
<1>4. history' \cap L = history \cap L
  BY <1>1
<1>5. PrunedTo(L)'
  <2>1. Cardinality(history' \cap L) <= Keep
    BY <1>3, <1>4 DEF PrunedTo
  <2>2. history' \ L \subseteq Service!Unpruned'
    BY <1>1, <1>3 DEF PrunedTo, Service!Unpruned, Runs
  <2>3. \A q \in history' \ L : Pruning(q)' => L \cap history' \subseteq run'[q].listing
    BY <1>1, <1>3, <1>4 DEF PrunedTo, Pruning
  <2> QED  BY <2>1, <2>2, <2>3 DEF PrunedTo
<1> QED  BY <1>1, <1>2, <1>3, <1>5 DEF Tidy

(* A new listing has all that is there.                                     *)
LEMMA ListsKeepsTidy ==
  ASSUME Service!TypeOK, Stamps, Reads, Tidy, NEW r \in Runs, Lists(r)
  PROVE  Tidy'
<1>1. /\ Service!Runs' = Runs /\ Service!Written' = Service!Written /\ history' = history /\ history \subseteq Runs
      /\ run[r].stage = "written" /\ run'[r].stage = "pruning" /\ run'[r].listing = history
      /\ \A q \in Runs : q # r => run'[q] = run[q]
  BY SteadyForm, WrittenFinite DEF Lists, Moves, Same, Service!TypeOK, Runs, Service!Runs
<1>2. Ordered'
  BY <1>1 DEF Tidy, Ordered, Pruning
<1>3. PICK L \in SUBSET Service!Written : PrunedTo(L)
  BY DEF Tidy
<1>4. PrunedTo(L)'
  <2>1. Cardinality(history' \cap L) <= Keep
    BY <1>1, <1>3 DEF PrunedTo
  <2>2. history' \ L \subseteq Service!Unpruned'
    BY <1>1, <1>3 DEF PrunedTo, Service!Unpruned, Runs
  <2>3. \A q \in history' \ L : Pruning(q)' => L \cap history' \subseteq run'[q].listing
    BY <1>1, <1>3 DEF PrunedTo, Pruning
  <2> QED  BY <2>1, <2>2, <2>3 DEF PrunedTo
<1> QED  BY <1>1, <1>2, <1>3, <1>4 DEF Tidy

(* A prune ends: if it had listed before the last one that ended, it knew   *)
(* nothing newer; else its listing is the one to go by from now on.         *)
LEMMA PrunesKeepsTidy ==
  ASSUME Service!TypeOK, Stamps, Reads, Tidy, NEW r \in Runs, Prunes(r)
  PROVE  Tidy'
<1> DEFINE l == run[r].listing
<1>1. /\ Service!Runs' = Runs /\ Service!Written' = Service!Written /\ history' = history \ Service!Excess(l)
      /\ run[r].stage = "pruning" /\ run'[r].stage = "done"
      /\ \A q \in Runs : q # r => run'[q] = run[q]
  BY SteadyForm DEF Prunes, Moves, Same, Runs, Service!Runs
<1>2. history \subseteq Runs /\ history \subseteq Service!Written /\ l \subseteq Service!Written
  BY WrittenFinite DEF Service!TypeOK, Reads
<1>3. Ordered'
  BY <1>1, <1>2 DEF Tidy, Ordered, Pruning
<1>4. PICK L \in SUBSET Service!Written : PrunedTo(L)
  BY DEF Tidy
<1>5. CASE r \in history \ L
  <2>1. Cardinality(history' \cap l) <= Keep
    <3> DEFINE K == l \ Service!Excess(l)
    <3>1. IsFiniteSet(l) /\ Cardinality(K) \in Nat /\ Cardinality(K) <= Keep
      BY <1>2, KeptAreFew
    <3>2. history' \cap l \subseteq K /\ IsFiniteSet(K)
      BY <1>1, <3>1, FS_Subset
    <3> HIDE DEF K
    <3>3. IsFiniteSet(history' \cap l) /\ Cardinality(history' \cap l) <= Cardinality(K)
      BY <3>2, FS_Subset
    <3>4. Cardinality(history' \cap l) \in Nat
      BY <3>3, FS_CardinalityType
    <3> QED  BY <3>1, <3>3, <3>4, Given
  <2>2. r \in l /\ L \cap history \subseteq l
    BY <1>1, <1>4, <1>5 DEF PrunedTo, Tidy, Ordered, Pruning
  <2>3. history' \ l \subseteq Service!Unpruned'
    BY <1>1, <1>2, <1>4, <2>2 DEF PrunedTo, Service!Unpruned, Runs
  <2>4. \A q \in history' \ l : Pruning(q)' => l \cap history' \subseteq run'[q].listing
    BY <1>1, <1>2, <1>5, <2>2 DEF Tidy, Ordered, Pruning
  <2>5. PICK N : N = l
    OBVIOUS
  <2>6. PrunedTo(N)'
    BY <2>1, <2>3, <2>4, <2>5 DEF PrunedTo
  <2> QED  BY <1>1, <1>2, <1>3, <2>5, <2>6 DEF Tidy
<1>6. CASE r \notin history \ L
  <2>1. Cardinality(history' \cap L) <= Keep
    <3>1. history' \cap L \subseteq history \cap L /\ IsFiniteSet(history \cap L)
      BY <1>1, WrittenFinite, FS_Subset
    <3>2. IsFiniteSet(history' \cap L) /\ Cardinality(history' \cap L) <= Cardinality(history \cap L)
      BY <3>1, FS_Subset
    <3>3. Cardinality(history' \cap L) \in Nat /\ Cardinality(history \cap L) \in Nat
      BY <3>1, <3>2, FS_CardinalityType
    <3>4. Cardinality(history \cap L) <= Keep
      BY <1>4 DEF PrunedTo
    <3> QED  BY <3>2, <3>3, <3>4, Given
  <2>2. history' \ L \subseteq Service!Unpruned'
    BY <1>1, <1>2, <1>4, <1>6 DEF PrunedTo, Service!Unpruned, Runs
  <2>3. \A q \in history' \ L : Pruning(q)' => L \cap history' \subseteq run'[q].listing
    BY <1>1, <1>2, <1>4 DEF PrunedTo, Pruning
  <2>4. PrunedTo(L)'
    BY <2>1, <2>2, <2>3 DEF PrunedTo
  <2> QED  BY <1>1, <1>3, <1>4, <2>4 DEF Tidy
<1> QED  BY <1>5, <1>6

(* The listings, through every step.                                        *)
LEMMA TidyStep ==
  ASSUME Service!TypeOK, Stamps, Reads, Tidy, [Service!Next]_(Service!vars)
  PROVE  Tidy'
<1>1. CASE \E r \in Runs : Lists(r) \/ Prunes(r) \/ Writes(r)
  BY <1>1, ListsKeepsTidy, PrunesKeepsTidy, WritesKeepsTidy
<1>2. CASE \/ \E r \in Runs : Leaves(r)
           \/ Grown /\ UNCHANGED history
           \/ Service!Restart \/ Others
  BY <1>2, Frames, NoPruneKeepsTidy
<1>3. CASE \E f \in Flows : Begins(f)
  BY <1>2, <1>3 DEF Begins
<1>4. CASE Service!TickFire
  BY <1>2, <1>4, TickForm DEF Service!TickFire
<1> QED  BY <1>1, <1>2, <1>3, <1>4, Cases

(* What is on no list that was pruned is of a run that has not pruned.      *)
LEMMA TidyIsBounded ==
  ASSUME Service!TypeOK, Tidy
  PROVE  Service!HistoryBounded
<1>1. PICK L \in SUBSET Service!Written : PrunedTo(L)
  BY DEF Tidy
<1> DEFINE A == history \cap L
           B == history \ L
           U == Service!Unpruned
<1>2. IsFiniteSet(history) /\ IsFiniteSet(A) /\ IsFiniteSet(B) /\ IsFiniteSet(U)
  <2>1. IsFiniteSet(Service!Written) /\ IsFiniteSet(1..MaxRuns) /\ Runs \subseteq 1..MaxRuns
    BY WrittenFinite, Given, FS_Interval
  <2>2. history \subseteq Service!Written /\ A \subseteq history /\ B \subseteq history /\ U \subseteq 1..MaxRuns
    BY <2>1 DEF Service!TypeOK, Service!Unpruned, Runs
  <2> HIDE DEF A, B, U
  <2>3. IsFiniteSet(history) /\ IsFiniteSet(U)
    BY <2>1, <2>2, FS_Subset
  <2> QED  BY <2>2, <2>3, FS_Subset
<1>3. /\ Cardinality(A) \in Nat /\ Cardinality(B) \in Nat /\ Cardinality(U) \in Nat /\ Cardinality(history) \in Nat
      /\ Cardinality(A \cap B) \in Nat
  <2>1. IsFiniteSet(A \cap B)
    BY <1>2, FS_Subset
  <2> HIDE DEF A, B, U
  <2> QED  BY <1>2, <2>1, FS_CardinalityType
<1>4. Cardinality(history) = Cardinality(A) + Cardinality(B) - Cardinality(A \cap B)
  <2>1. history = A \cup B
    OBVIOUS
  <2> HIDE DEF A, B
  <2> QED  BY <1>2, <2>1, FS_Union
<1>5. Cardinality(A) <= Keep /\ B \subseteq U
  BY <1>1 DEF PrunedTo
<1>6. Service!Cardinality(history) = Cardinality(history) /\ Service!Cardinality(U) = Cardinality(U)
  BY CardinalityIs
<1> HIDE DEF A, B, U
<1>7. Cardinality(B) <= Cardinality(U)
  BY <1>2, <1>5, FS_Subset
<1>8. Cardinality(history) <= Keep + Cardinality(U)
  BY <1>3, <1>4, <1>5, <1>7, Given
<1> QED  BY <1>6, <1>8 DEF Service!HistoryBounded, U

-----------------------------------------------------------------------------
ServiceInv == /\ Service!TypeOK /\ Stamps /\ Reads
              /\ Listings /\ Orphans /\ Fires /\ Tidy

(* The invariant of the service holds at first: there is nothing.           *)
LEMMA ServiceStarts == Service!Init => ServiceInv
<1> SUFFICES ASSUME Service!Init PROVE ServiceInv
  OBVIOUS
<1>1. /\ flows = [f \in Flows |-> None] /\ history = {} /\ run = <<>> /\ listed = [f \in Flows |-> None]
      /\ deleting = {} /\ seen = None /\ lastFired = [f \in Flows |-> None] /\ clock = 0 /\ restarts = 0
      /\ fireTime = [f \in Flows |-> -1] /\ outlived = {}
  BY DEF Service!Init
<1>2. Runs = {} /\ Service!Runs = {} /\ Service!Written = {} /\ Len(run) = 0
  BY <1>1 DEF Runs, Service!Runs, Service!Written
<1>3. Service!TypeOK
  <2>1. Len(run) <= MaxRuns /\ run \in Seq(Service!RunState)
    BY <1>1, Given
  <2>2. FilesOK
    BY <1>1 DEF FilesOK
  <2>3. TimesOK
    BY <1>1, Given DEF TimesOK
  <2> QED  BY <1>1, <1>2, <2>1, <2>2, <2>3, TypeIs
<1>4. Stamps /\ Reads /\ Orphans
  BY <1>2 DEF Stamps, Reads, Orphans
<1>5. Listings /\ Fires
  BY <1>1 DEF Listings, Fires
<1>6. Tidy
  <2>1. Cardinality({}) = 0
    BY FS_EmptySet
  <2>2. PrunedTo({})
    BY <1>1, <2>1, Given DEF PrunedTo
  <2> QED  BY <1>1, <2>2 DEF Tidy, Ordered
<1> QED  BY <1>3, <1>4, <1>5, <1>6 DEF ServiceInv

(* And every step keeps it.                                                 *)
LEMMA ServiceInvariance == ServiceInv /\ [Service!Next]_(Service!vars) => ServiceInv'
<1> SUFFICES ASSUME ServiceInv, [Service!Next]_(Service!vars) PROVE ServiceInv'
  OBVIOUS
<1>1. Service!TypeOK /\ Stamps /\ Reads /\ Listings /\ Orphans /\ Fires /\ Tidy
  BY DEF ServiceInv
<1>2. Service!TypeOK' /\ Stamps' /\ Reads'
  BY <1>1, TypeStep, StampsStep, ReadsStep
<1>3. Listings' /\ Orphans'
  BY <1>1, ListingsStep, OrphansStep
<1>4. Fires' /\ Tidy'
  BY <1>1, FiresStep, TidyStep
<1> QED  BY <1>2, <1>3, <1>4 DEF ServiceInv

(* The types of the service, with the bounds on runs, time and restarts.    *)
THEOREM ServiceIsTyped == Service!Spec => []Service!TypeOK
<1>1. ServiceInv => Service!TypeOK
  BY DEF ServiceInv
<1> QED  BY ServiceStarts, ServiceInvariance, <1>1, PTL DEF Service!Spec

(* For any flows, runs, requests that are dropped and restarts: a flow that *)
(* is gone leaves records only of runs that were in flight when its history *)
(* was listed for deletion, or whose delete was cut short.                  *)
THEOREM OrphansAreOfFlight == Service!Spec => []OrphansWereInFlight
<1>1. ServiceInv => OrphansWereInFlight
  <2> SUFFICES ASSUME ServiceInv, NEW r \in history, flows[run[r].flow] = None, run[r].flow \notin deleting
               PROVE  r \in outlived
    BY DEF OrphansWereInFlight, Service!OrphansWereInFlight
  <2>1. r \in Runs
    BY WrittenFinite DEF ServiceInv, Service!TypeOK
  <2> QED  BY <2>1 DEF ServiceInv, Orphans, Accounted
<1> QED  BY ServiceStarts, ServiceInvariance, <1>1, PTL DEF Service!Spec

(* However many prunes overlap: the record written last goes away only with *)
(* its flow.                                                                *)
THEOREM TheLatestStays == Service!Spec => LatestStays
<1> DEFINE Kept == \A r \in history \ history' :
                      (\A q \in Service!Runs : run[q].stamp <= run[r].stamp) => run[r].flow \in deleting
<1>1. ServiceInv /\ [Service!Next]_(Service!vars) => [Kept]_(Service!vars)
  BY LatestIsKept DEF ServiceInv, Runs
<1>2. LatestStays <=> [][Kept]_(Service!vars)
  BY DEF LatestStays, Service!LatestStays
<1> HIDE DEF Kept
<1> QED  BY ServiceStarts, ServiceInvariance, <1>1, <1>2, PTL DEF Service!Spec

(* However many prunes overlap, and with requests dropped between the write *)
(* and the prune: the history has no more runs beyond Keep than there are   *)
(* runs that wrote and did not prune.                                       *)
THEOREM HistoryIsBounded == Service!Spec => []Service!HistoryBounded
<1>1. ServiceInv => Service!HistoryBounded
  BY TidyIsBounded DEF ServiceInv
<1> QED  BY ServiceStarts, ServiceInvariance, <1>1, PTL DEF Service!Spec

(* For any cron expressions, saves of the flow and restarts: a trigger      *)
(* fires only for an occurrence that came after it fired last.              *)
THEOREM TriggersFireOnce == Service!Spec => OncePerOccurrence
<1> DEFINE Once == \A f \in Flows : fireTime'[f] # fireTime[f] =>
                      \E o \in Occurs(seen[f].cron) : fireTime[f] < o /\ o <= fireTime'[f]
<1>1. ServiceInv /\ [Service!Next]_(Service!vars) => [Once]_(Service!vars)
  BY FiresOnce DEF ServiceInv
<1>2. OncePerOccurrence <=> [][Once]_(Service!vars)
  BY DEF OncePerOccurrence, Service!OncePerOccurrence
<1> HIDE DEF Once
<1> QED  BY ServiceStarts, ServiceInvariance, <1>1, <1>2, PTL DEF Service!Spec
=============================================================================
