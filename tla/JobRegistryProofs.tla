------------------------- MODULE JobRegistryProofs --------------------------
(***************************************************************************)
(* Proofs about JobRegistry, for any finite set of jobs and any cap: its   *)
(* invariants, what a cancel in the queue promises, and that it implements *)
(* JobLifecycle; and about Downloads, for any set of downloads of a model: *)
(* what their status tells of its files.                                   *)
(***************************************************************************)
EXTENDS Background, FiniteSetTheorems, TLAPS

\* TypeOK without the upper bound on permits, which follows from IInv.
Typing == /\ registry \subseteq Jobs
          /\ status \in [Jobs -> JobStatus]
          /\ token \in [Jobs -> BOOLEAN]
          /\ task \in [Jobs -> TaskState]
          /\ outcome \in [Jobs -> {"none", "ok", "err"}]
          /\ permits \in Nat
          /\ waiters \in Seq(Jobs)
          /\ aged \subseteq Jobs
          /\ canceller \in [Jobs -> {"idle", "signalled", "acked", "refused"}]
          /\ watcher \in [Jobs -> {"none", "open", "told"}]

\* The cancel handler sets the token before it looks at the record.
SignalledHasToken ==
    \A j \in Jobs : canceller[j] \in {"signalled", "acked"} => token[j]

(* The inductive invariant: typing, conservation of the permits, and what   *)
(* makes an acknowledged cancel stick.                                      *)
IInv == Typing /\ PermitsConserved /\ SignalledHasToken /\ AckedNeverError

-----------------------------------------------------------------------------
(* Holders is a finite set whatever the tasks do: Cardinality is a number.  *)
LEMMA HoldersFinite == IsFiniteSet(Holders) /\ Cardinality(Holders) \in Nat
  <1>1. Holders \subseteq Jobs
    BY DEF Holders
  <1>2. IsFiniteSet(Holders)
    BY <1>1, JobsAssumption, FS_Subset
  <1> QED
    BY <1>2, FS_CardinalityType

(* A task that enters the permit-holding part of its life adds one holder.  *)
LEMMA TakesPermit ==
  ASSUME Typing, NEW j \in Jobs, NEW from, NEW to,
         from \notin Holding, to \in Holding, Goto(j, from, to)
  PROVE  Cardinality(Holders') = Cardinality(Holders) + 1
  <1>1. j \notin Holders /\ Holders' = Holders \cup {j}
    BY DEF Typing, Holders, Goto
  <1> QED
    BY <1>1, HoldersFinite, FS_AddElement

(* A task that leaves it removes one holder.                                *)
LEMMA GivesPermitBack ==
  ASSUME Typing, NEW j \in Jobs, NEW from, NEW to,
         from \in Holding, to \notin Holding, Goto(j, from, to)
  PROVE  Cardinality(Holders') = Cardinality(Holders) - 1
  <1>1. j \in Holders /\ Holders' = Holders \ {j}
    BY DEF Typing, Holders, Goto
  <1> QED
    BY <1>1, HoldersFinite, FS_RemoveElement

(* Any other move of a task leaves the holders as they are.                 *)
LEMMA KeepsPermit ==
  ASSUME Typing, NEW j \in Jobs, NEW from, NEW to,
         (from \in Holding) <=> (to \in Holding), Goto(j, from, to)
  PROVE  Holders' = Holders
  BY DEF Typing, Holders, Goto

(* Typing is preserved by every step.                                       *)
LEMMA TypingStep == Typing /\ [Next]_vars => Typing'
  <1> SUFFICES ASSUME Typing, [Next]_vars
               PROVE  Typing'
    OBVIOUS
  <1> USE DEF Typing, JobStatus, TaskState, Terminal, Goto
  <1>1. ASSUME NEW j \in Jobs, TaskStep(j)
        PROVE  Typing'
    <2>1. CASE Enqueue(j)
      BY <2>1 DEF Enqueue
    <2>2. CASE Admit(j)
      BY <2>2 DEF Admit
    <2>3. CASE CancelledBeforeStart(j)
      BY <2>3 DEF CancelledBeforeStart
    <2>4. CASE PassTokenCheck(j)
      BY <2>4 DEF PassTokenCheck
    <2>5. CASE MarkRunning(j)
      BY <2>5 DEF MarkRunning
    <2>6. CASE RecordOutcome(j)
      BY <2>6 DEF RecordOutcome, FinalStatus, TellWatcher
    <2>7. CASE PruneAndEnd(j)
      BY <2>7 DEF PruneAndEnd, Prunable
    <2> QED
      BY <1>1, <2>1, <2>2, <2>3, <2>4, <2>5, <2>6, <2>7 DEF TaskStep
  <1>2. ASSUME NEW j \in Jobs, WorkEnds(j)
        PROVE  Typing'
    BY <1>2 DEF WorkEnds, WorkReturns, WorkPanics
  <1>3. ASSUME NEW j \in Jobs, ClientStep(j)
        PROVE  Typing'
    BY <1>3 DEF ClientStep, Spawn, CancelSignal, CancelReply, Subscribe
  <1>4. ASSUME NEW j \in Jobs, Age(j)
        PROVE  Typing'
    BY <1>4 DEF Age
  <1>5. CASE UNCHANGED vars
    BY <1>5 DEF vars
  <1> QED
    BY <1>1, <1>2, <1>3, <1>4, <1>5 DEF Next

(* No step loses or makes up a permit: the heart is that every action moves *)
(* `permits` and the set of holders in opposite directions.                 *)
LEMMA PermitsStep ==
  Typing /\ PermitsConserved /\ [Next]_vars => PermitsConserved'
  <1> SUFFICES ASSUME Typing, PermitsConserved, [Next]_vars
               PROVE  PermitsConserved'
    OBVIOUS
  <1> USE DEF PermitsConserved, Holding
  <1>0. /\ permits \in Nat /\ MaxConcurrent \in Nat
        /\ Cardinality(Holders) \in Nat
    BY HoldersFinite, MaxConcurrentAssumption DEF Typing
  <1>1. ASSUME NEW j \in Jobs, TaskStep(j)
        PROVE  PermitsConserved'
    <2>1. CASE Enqueue(j) \/ PassTokenCheck(j) \/ MarkRunning(j) \/ RecordOutcome(j)
      <3>1. Holders' = Holders /\ permits' = permits
        BY <2>1, KeepsPermit DEF Enqueue, PassTokenCheck, MarkRunning, RecordOutcome
      <3> QED
        BY <3>1
    <2>2. CASE Admit(j)
      <3>1. Cardinality(Holders') = Cardinality(Holders) + 1
        BY <2>2, TakesPermit DEF Admit
      <3> QED
        BY <1>0, <2>2, <3>1 DEF Admit
    <2>3. CASE CancelledBeforeStart(j)
      <3>1. Cardinality(Holders') = Cardinality(Holders) - 1
        BY <2>3, GivesPermitBack DEF CancelledBeforeStart
      <3> QED
        BY <1>0, <2>3, <3>1 DEF CancelledBeforeStart
    <2>4. CASE PruneAndEnd(j)
      <3>1. Cardinality(Holders') = Cardinality(Holders) - 1
        BY <2>4, GivesPermitBack DEF PruneAndEnd
      <3> QED
        BY <1>0, <2>4, <3>1 DEF PruneAndEnd
    <2> QED
      BY <1>1, <2>1, <2>2, <2>3, <2>4 DEF TaskStep
  <1>2. ASSUME NEW j \in Jobs, WorkEnds(j)
        PROVE  PermitsConserved'
    <2>1. CASE WorkReturns(j)
      <3>1. Holders' = Holders /\ permits' = permits
        BY <2>1, KeepsPermit DEF WorkReturns
      <3> QED
        BY <3>1
    <2>2. CASE WorkPanics(j)
      <3>1. Cardinality(Holders') = Cardinality(Holders) - 1
        BY <2>2, GivesPermitBack DEF WorkPanics
      <3> QED
        BY <1>0, <2>2, <3>1 DEF WorkPanics
    <2> QED
      BY <1>2, <2>1, <2>2 DEF WorkEnds
  <1>3. ASSUME NEW j \in Jobs, ClientStep(j)
        PROVE  PermitsConserved'
    <2>1. CASE Spawn(j)
      <3>1. Holders' = Holders /\ permits' = permits
        BY <2>1, KeepsPermit DEF Spawn
      <3> QED
        BY <3>1
    <2>2. CASE CancelSignal(j) \/ CancelReply(j) \/ Subscribe(j)
      BY <2>2 DEF CancelSignal, CancelReply, Subscribe, Holders
    <2> QED
      BY <1>3, <2>1, <2>2 DEF ClientStep
  <1>4. ASSUME NEW j \in Jobs, Age(j)
        PROVE  PermitsConserved'
    BY <1>4 DEF Age, Holders
  <1>5. CASE UNCHANGED vars
    BY <1>5 DEF vars, Holders
  <1> QED
    BY <1>1, <1>2, <1>3, <1>4, <1>5 DEF Next

(* Once the token is set it stays set, and the token is what the task looks *)
(* at when it publishes an error: an acknowledged cancel sticks.            *)
LEMMA CancelStep ==
  Typing /\ SignalledHasToken /\ AckedNeverError /\ [Next]_vars
    => SignalledHasToken' /\ AckedNeverError'
  <1> SUFFICES ASSUME Typing, SignalledHasToken, AckedNeverError, [Next]_vars
               PROVE  SignalledHasToken' /\ AckedNeverError'
    OBVIOUS
  <1> USE DEF Typing, SignalledHasToken, AckedNeverError
  <1>1. ASSUME NEW j \in Jobs, TaskStep(j)
        PROVE  SignalledHasToken' /\ AckedNeverError'
    <2>1. CASE RecordOutcome(j)
      BY <2>1 DEF RecordOutcome, FinalStatus
    <2>2. CASE CancelledBeforeStart(j) \/ MarkRunning(j)
      BY <2>2 DEF CancelledBeforeStart, MarkRunning
    <2>3. CASE Enqueue(j) \/ Admit(j) \/ PassTokenCheck(j) \/ PruneAndEnd(j)
      BY <2>3 DEF Enqueue, Admit, PassTokenCheck, PruneAndEnd
    <2> QED
      BY <1>1, <2>1, <2>2, <2>3 DEF TaskStep
  <1>2. ASSUME NEW j \in Jobs, WorkEnds(j)
        PROVE  SignalledHasToken' /\ AckedNeverError'
    BY <1>2 DEF WorkEnds, WorkReturns, WorkPanics
  <1>3. ASSUME NEW j \in Jobs, ClientStep(j)
        PROVE  SignalledHasToken' /\ AckedNeverError'
    <2>1. CASE Spawn(j)
      BY <2>1 DEF Spawn
    <2>2. CASE CancelSignal(j)
      BY <2>2 DEF CancelSignal
    <2>3. CASE CancelReply(j)
      BY <2>3 DEF CancelReply
    <2>4. CASE Subscribe(j)
      BY <2>4 DEF Subscribe
    <2> QED
      BY <1>3, <2>1, <2>2, <2>3, <2>4 DEF ClientStep
  <1>4. ASSUME NEW j \in Jobs, Age(j)
        PROVE  SignalledHasToken' /\ AckedNeverError'
    BY <1>4 DEF Age
  <1>5. CASE UNCHANGED vars
    BY <1>5 DEF vars
  <1> QED
    BY <1>1, <1>2, <1>3, <1>4, <1>5 DEF Next

-----------------------------------------------------------------------------
(* The invariant of the registry holds as the daemon starts.                *)
LEMMA InitIInv == Init => IInv
  <1> SUFFICES ASSUME Init PROVE IInv
    OBVIOUS
  <1>1. Typing
    BY MaxConcurrentAssumption DEF Init, Typing, JobStatus, TaskState
  <1>2. Holders = {}
    BY DEF Init, Holders, Holding
  <1>3. PermitsConserved
    BY <1>2, FS_EmptySet, MaxConcurrentAssumption DEF Init, PermitsConserved
  <1>4. SignalledHasToken /\ AckedNeverError
    BY DEF Init, SignalledHasToken, AckedNeverError
  <1> QED
    BY <1>1, <1>3, <1>4 DEF IInv

(* IInv is an invariant of the registry.                                    *)
THEOREM Invariance == Spec => []IInv
  <1>1. Init => IInv
    BY InitIInv
  <1>2. IInv /\ [Next]_vars => IInv'
    BY TypingStep, PermitsStep, CancelStep DEF IInv
  <1> QED
    BY <1>1, <1>2, PTL DEF Spec

(* Every variable keeps its type, and there are never fewer than zero nor   *)
(* more than MaxConcurrent permits (jobs.rs L88-94).                        *)
THEOREM TypeCorrect == Spec => []TypeOK
  <1>1. IInv => TypeOK
    BY HoldersFinite, MaxConcurrentAssumption
    DEF IInv, Typing, PermitsConserved, TypeOK
  <1> QED
    BY <1>1, Invariance, PTL

(* No permit is lost or made up on any path out of a job.                   *)
THEOREM PermitConservation == Spec => []PermitsConserved
  <1>1. IInv => PermitsConserved
    BY DEF IInv
  <1> QED
    BY <1>1, Invariance, PTL

(* A cancel request that was acknowledged never ends in Error.              *)
THEOREM AckedCancelSticks == Spec => []AckedNeverError
  <1>1. IInv => AckedNeverError
    BY DEF IInv
  <1> QED
    BY <1>1, Invariance, PTL

-----------------------------------------------------------------------------
\* A job whose cancel came while it was queued: it may still get its permit, only
\* to give it back.
StoppedInQueue(j) == token[j] /\ task[j] \in {"spawned", "waiting", "admitted", "ended"}

(* No step of any task or client gets such a job out of there.              *)
LEMMA StoppedStep ==
  ASSUME NEW j \in Jobs, Typing, StoppedInQueue(j), [Next]_vars
  PROVE  StoppedInQueue(j)'
  <1> USE DEF Typing, StoppedInQueue, Goto
  <1>1. ASSUME NEW k \in Jobs, TaskStep(k)
        PROVE  StoppedInQueue(j)'
    <2>1. CASE Enqueue(k) \/ Admit(k) \/ CancelledBeforeStart(k)
      BY <2>1 DEF Enqueue, Admit, CancelledBeforeStart
    <2>2. CASE PassTokenCheck(k) \/ MarkRunning(k)
      BY <2>2 DEF PassTokenCheck, MarkRunning
    <2>3. CASE RecordOutcome(k) \/ PruneAndEnd(k)
      BY <2>3 DEF RecordOutcome, PruneAndEnd
    <2> QED
      BY <1>1, <2>1, <2>2, <2>3 DEF TaskStep
  <1>2. ASSUME NEW k \in Jobs, WorkEnds(k) \/ ClientStep(k) \/ Age(k)
        PROVE  StoppedInQueue(j)'
    BY <1>2 DEF WorkEnds, WorkReturns, WorkPanics, ClientStep, Spawn, CancelSignal, CancelReply,
                Subscribe, Age
  <1>3. CASE UNCHANGED vars
    BY <1>3 DEF vars
  <1> QED
    BY <1>1, <1>2, <1>3 DEF Next

(* A cancellation that arrives while the job waits for its permit keeps its *)
(* work from ever running (L149-155).                                       *)
THEOREM CancelInQueueSticks == Spec => CancelledInQueueNeverRuns
  <1> SUFFICES ASSUME NEW j \in Jobs
               PROVE  Spec => [](token[j] /\ task[j] \in {"spawned", "waiting"}
                                   => [](task[j] # "working"))
    BY DEF CancelledInQueueNeverRuns
  <1>1. token[j] /\ task[j] \in {"spawned", "waiting"} => StoppedInQueue(j)
    BY DEF StoppedInQueue
  <1>2. IInv /\ StoppedInQueue(j) /\ [Next]_vars => StoppedInQueue(j)'
    BY StoppedStep DEF IInv
  <1>3. StoppedInQueue(j) => task[j] # "working"
    BY DEF StoppedInQueue
  <1> QED
    BY <1>1, <1>2, <1>3, Invariance, PTL DEF Spec

-----------------------------------------------------------------------------
\* What a record shows of the task that writes it, and where the record is.
RecordFollowsTask ==
    \A j \in Jobs :
        /\ task[j] \in {"none", "spawned", "waiting", "admitted", "starting"} => status[j] = "Queued"
        /\ task[j] \in {"working", "returned", "panicked"} => status[j] = "Running"
        /\ task[j] \in {"pruning", "ended"} => status[j] \in Terminal
        /\ task[j] = "none" => j \notin registry /\ ~token[j]
        /\ task[j] # "none" /\ status[j] \notin Terminal => j \in registry

(* Every step keeps the record in line with the task: only the task itself  *)
(* writes it, and only a terminal one is pruned.                            *)
LEMMA RecordStep ==
  Typing /\ RecordFollowsTask /\ [Next]_vars => RecordFollowsTask'
  <1> SUFFICES ASSUME Typing, RecordFollowsTask, [Next]_vars
               PROVE  RecordFollowsTask'
    OBVIOUS
  <1> USE DEF Typing, RecordFollowsTask, Goto, Terminal
  <1>1. ASSUME NEW j \in Jobs, TaskStep(j)
        PROVE  RecordFollowsTask'
    <2>1. CASE Enqueue(j) \/ Admit(j) \/ PassTokenCheck(j)
      BY <2>1 DEF Enqueue, Admit, PassTokenCheck
    <2>2. CASE CancelledBeforeStart(j)
      BY <2>2 DEF CancelledBeforeStart
    <2>3. CASE MarkRunning(j)
      BY <2>3 DEF MarkRunning
    <2>4. CASE RecordOutcome(j)
      BY <2>4 DEF RecordOutcome, FinalStatus
    <2>5. CASE PruneAndEnd(j)
      BY <2>5 DEF PruneAndEnd, Prunable
    <2> QED
      BY <1>1, <2>1, <2>2, <2>3, <2>4, <2>5 DEF TaskStep
  <1>2. ASSUME NEW j \in Jobs, WorkEnds(j)
        PROVE  RecordFollowsTask'
    BY <1>2 DEF WorkEnds, WorkReturns, WorkPanics
  <1>3. ASSUME NEW j \in Jobs, ClientStep(j)
        PROVE  RecordFollowsTask'
    BY <1>3 DEF ClientStep, Spawn, CancelSignal, CancelReply, Subscribe
  <1>4. ASSUME NEW j \in Jobs, Age(j)
        PROVE  RecordFollowsTask'
    BY <1>4 DEF Age
  <1>5. CASE UNCHANGED vars
    BY <1>5 DEF vars
  <1> QED
    BY <1>1, <1>2, <1>3, <1>4, <1>5 DEF Next

\* What GET /jobs/{id} shows, as the refinement mapping of Lifecycle has it.
View == [j \in Jobs |-> IF j \in registry THEN status[j]
                        ELSE IF task[j] = "none" THEN "Absent" ELSE "Forgotten"]

(* A step of the registry is a step of the lifecycle or none at all.        *)
LEMMA LifecycleStep ==
  Typing /\ RecordFollowsTask /\ [Next]_vars => [Lifecycle!Next]_(Lifecycle!vars)
  <1> SUFFICES ASSUME Typing, RecordFollowsTask, [Next]_vars
               PROVE  Lifecycle!Next \/ UNCHANGED Lifecycle!vars
    OBVIOUS
  <1> DEFINE asked == {k \in Jobs : token[k]}
  <1> USE DEF Typing, RecordFollowsTask, Goto
  <1>0. ASSUME View' = View, asked' = asked
        PROVE  UNCHANGED Lifecycle!vars
    BY <1>0 DEF View, Lifecycle!vars
  <1>1. ASSUME NEW j \in Jobs, TaskStep(j)
        PROVE  Lifecycle!Next \/ UNCHANGED Lifecycle!vars
    <2>1. CASE Enqueue(j) \/ Admit(j) \/ PassTokenCheck(j)
      <3>1. View' = View /\ asked' = asked
        BY <2>1 DEF Enqueue, Admit, PassTokenCheck, View
      <3> QED
        BY <3>1, <1>0
    <2>2. CASE CancelledBeforeStart(j)
      <3>1. Lifecycle!Drop(j)
        BY <2>2 DEF CancelledBeforeStart, Lifecycle!Drop, Lifecycle!Becomes, Terminal
      <3> QED
        BY <3>1 DEF Lifecycle!Next
    <2>3. CASE MarkRunning(j)
      <3>1. Lifecycle!Start(j)
        BY <2>3 DEF MarkRunning, Lifecycle!Start, Lifecycle!Becomes, Terminal
      <3> QED
        BY <3>1 DEF Lifecycle!Next
    <2>4. CASE RecordOutcome(j)
      <3>1. FinalStatus(j) \in Terminal
        BY DEF FinalStatus, Terminal
      <3>2. /\ FinalStatus(j) = "Cancelled" => token[j]
            /\ FinalStatus(j) = "Error" => ~token[j]
        BY DEF FinalStatus
      <3>3. Lifecycle!End(j)
        BY <2>4, <3>1, <3>2 DEF RecordOutcome, Lifecycle!End, Lifecycle!Becomes, Terminal, Lifecycle!Terminal
      <3> QED
        BY <3>3 DEF Lifecycle!Next
    <2>5. CASE PruneAndEnd(j)
      <3>1. PICK gone \in SUBSET Jobs : gone = Prunable
        BY DEF Prunable
      <3>2. Lifecycle!Forget(gone)
        BY <2>5, <3>1 DEF PruneAndEnd, Prunable, Lifecycle!Forget, Lifecycle!Terminal, Terminal
      <3> QED
        BY <3>2 DEF Lifecycle!Next
    <2> QED
      BY <1>1, <2>1, <2>2, <2>3, <2>4, <2>5 DEF TaskStep
  <1>2. ASSUME NEW j \in Jobs, WorkEnds(j) \/ Age(j)
        PROVE  Lifecycle!Next \/ UNCHANGED Lifecycle!vars
    <2>1. View' = View /\ asked' = asked
      BY <1>2 DEF WorkEnds, WorkReturns, WorkPanics, Age, View
    <2> QED
      BY <2>1, <1>0
  <1>3. ASSUME NEW j \in Jobs, ClientStep(j)
        PROVE  Lifecycle!Next \/ UNCHANGED Lifecycle!vars
    <2>1. CASE Spawn(j)
      <3>1. Lifecycle!Submit(j)
        BY <2>1 DEF Spawn, Lifecycle!Submit, Lifecycle!Becomes
      <3> QED
        BY <3>1 DEF Lifecycle!Next
    <2>2. CASE CancelSignal(j)
      <3>1. Lifecycle!Ask(j)
        BY <2>2 DEF CancelSignal, Lifecycle!Ask, JobStatus
      <3> QED
        BY <3>1 DEF Lifecycle!Next
    <2>3. CASE CancelReply(j) \/ Subscribe(j)
      <3>1. View' = View /\ asked' = asked
        BY <2>3 DEF CancelReply, Subscribe, View
      <3> QED
        BY <3>1, <1>0
    <2> QED
      BY <1>3, <2>1, <2>2, <2>3 DEF ClientStep
  <1>4. CASE UNCHANGED vars
    <2>1. View' = View /\ asked' = asked
      BY <1>4 DEF vars, View
    <2> QED
      BY <2>1, <1>0
  <1> QED
    BY <1>1, <1>2, <1>3, <1>4 DEF Next

(* The registry implements JobLifecycle: what clients see moves forward     *)
(* only, a terminal status is for good, only terminal jobs are forgotten,   *)
(* and Cancelled and Error agree with what was asked (jobs.rs L86-260).     *)
THEOREM Refinement == Spec => ImplementsLifecycle
  <1>1. Init => RecordFollowsTask /\ Lifecycle!Init
    BY DEF Init, RecordFollowsTask, Lifecycle!Init
  <1>2. IInv /\ RecordFollowsTask /\ [Next]_vars => RecordFollowsTask'
    BY RecordStep DEF IInv
  <1>3. IInv /\ RecordFollowsTask /\ [Next]_vars => [Lifecycle!Next]_(Lifecycle!vars)
    BY LifecycleStep DEF IInv
  <1> QED
    BY <1>1, <1>2, <1>3, Invariance, PTL DEF Spec, ImplementsLifecycle, Lifecycle!Spec

-----------------------------------------------------------------------------
(* The downloads of one model, for any jobs and any number of files.        *)

Downloading(j) == pc[j] \in {"file", "stream", "rename"}

\* What an inode is named for: the job that made it, at a file it has opened.
InodesAreOpened ==
    \A j \in Jobs, f \in Catalog!Files : temp[f] = j \/ target[f] = j =>
        \/ f < file[j]
        \/ f = file[j] /\ pc[j] \notin {"none", "start", "file"}

\* A ".part" file is never the file it will replace.
PartIsAnother == \A f \in Catalog!Files : temp[f] # None => temp[f] # target[f]

\* A job that has removed the directory has nothing in it ever after.
CancelledLeftNothing ==
    \A j \in Jobs : pc[j] = "cancel" \/ state[j] = "cancelled" =>
        \A f \in Catalog!Files : temp[f] # j /\ target[f] # j

\* The end a status tells is told by the job, once, at its end.
StatusFollowsJob ==
    \A j \in Jobs : /\ state[j] \in {"cancelled", "completed"} => pc[j] \in {"settled", "over"}
                    /\ pc[j] = "none" => j \notin crowded

\* Of the jobs that are not crowded, one at a time is alive, and it is alone.
AliveAlone ==
    /\ \A j, k \in Jobs : Catalog!Alive(j) /\ Catalog!Alive(k) /\ j # k => j \in crowded
    /\ \A j, k \in Jobs : pc[j] # "none" /\ j \notin crowded /\ Catalog!Alive(k) => k \notin crowded

\* A cancelled job has removed the directory; this cannot be undone.
Removed == \E k \in Jobs : pc[k] = "cancel" \/ state[k] = "cancelled" \/ k \in late

Whole(f) == target[f] # None /\ content[target[f]][f] = "whole"

\* The ".part" file of the one that streams is its own.
OwnPart(j) == inode[j] # None /\ temp[file[j]] = inode[j] /\ owner[inode[j]][file[j]] = j

DiskOf(j) ==
    /\ Downloading(j) => \A f \in Catalog!Files : f < file[j] => Whole(f)
    /\ pc[j] \in {"stream", "rename"} => OwnPart(j)
    /\ pc[j] = "rename" => content[inode[j]][file[j]] = "whole"
    /\ pc[j] = "complete" \/ state[j] = "completed" => \A f \in Catalog!Files : Whole(f)

DiskFollowsJob == ~Removed => \A j \in Jobs \ crowded : DiskOf(j)

\* A job that has not started is at its first file.
NothingDone == \A j \in Jobs : pc[j] \in {"none", "start"} => file[j] = 1

\* What is known of the inode a job writes.
WritesSomething == \A j \in Jobs : pc[j] \in {"stream", "rename"} => inode[j] \in Jobs

(* The inductive invariant of the downloads: the status tells the disk      *)
(* because an inode is never both a part and a file, a job that removed the *)
(* directory makes no inode any more, and who is not crowded was alone.     *)
DownloadsInv == /\ Catalog!TypeOK /\ InodesAreOpened /\ PartIsAnother /\ CancelledLeftNothing
                /\ StatusFollowsJob /\ AliveAlone /\ NothingDone /\ WritesSomething /\ DiskFollowsJob

(* DownloadsInv holds as the daemon starts.                                 *)
LEMMA DownloadsStart == Catalog!Init => DownloadsInv
  <1> SUFFICES ASSUME Catalog!Init PROVE DownloadsInv
    OBVIOUS
  <1> USE DEF Catalog!Init
  <1>0. 1 \in Catalog!Files
    BY CatalogAssumption DEF Catalog!Files, Catalog!DownloadsAssumption
  <1>1. Catalog!TypeOK
    BY <1>0 DEF Catalog!TypeOK, Catalog!PC, Catalog!Terminal
  <1>2. InodesAreOpened /\ PartIsAnother /\ CancelledLeftNothing
    BY CatalogAssumption DEF InodesAreOpened, PartIsAnother, CancelledLeftNothing, Catalog!DownloadsAssumption
  <1>3. StatusFollowsJob /\ AliveAlone /\ NothingDone /\ WritesSomething
    BY DEF StatusFollowsJob, AliveAlone, NothingDone, WritesSomething, Catalog!Alive
  <1>4. DiskFollowsJob
    BY DEF DiskFollowsJob, DiskOf, Downloading
  <1> QED
    BY <1>1, <1>2, <1>3, <1>4 DEF DownloadsInv

\* A job comes to its next file and does not open it ...
NotOpened(j) ==
    /\ pc[j] = "file" /\ \E p \in {"wipe", "fail"} : pc' = [pc EXCEPT ![j] = p]
    /\ \E s \in {state[j], "running"} : state' = [state EXCEPT ![j] = s]
    /\ UNCHANGED <<file, canCancel, flag, stop, inode, owner, content, temp, target, crowded, late>>

\* ... or makes or empties the part i of file f.
Opened(j, f, i) ==
    /\ pc[j] = "file" /\ f = file[j] /\ i = IF temp[f] = None THEN j ELSE temp[f]
    /\ pc' = [pc EXCEPT ![j] = "stream"] /\ state' = [state EXCEPT ![j] = "running"]
    /\ temp' = [temp EXCEPT ![f] = i] /\ inode' = [inode EXCEPT ![j] = i]
    /\ owner' = [owner EXCEPT ![i][f] = j] /\ content' = [content EXCEPT ![i][f] = "torn"]
    /\ UNCHANGED <<file, canCancel, flag, stop, target, crowded, late>>

(* What Open does, as one of the two.                                       *)
LEMMA OpenForms ==
  ASSUME Catalog!TypeOK, NEW j \in Jobs, Catalog!Open(j)
  PROVE  NotOpened(j) \/ \E f \in Catalog!Files, i \in Jobs : Opened(j, f, i)
  <1> USE DEF Catalog!TypeOK, Catalog!Go, Catalog!Show, Catalog!inodes
  <1> DEFINE f == file[j]
             i == IF temp[f] = None THEN j ELSE temp[f]
  <1>1. f \in Catalog!Files /\ i \in Jobs
    OBVIOUS
  <1>2. CASE flag[j] = "up" /\ pc' = [pc EXCEPT ![j] = "wipe"] /\ UNCHANGED <<state, inode, owner, content, temp>>
    <2>1. state' = [state EXCEPT ![j] = state[j]]
      BY <1>2
    <2> QED
      BY <1>2, <2>1 DEF Catalog!Open, NotOpened
  <1>3. CASE pc' = [pc EXCEPT ![j] = "fail"] /\ state' = [state EXCEPT ![j] = "running"] /\ UNCHANGED <<inode, owner, content, temp>>
    BY <1>3 DEF Catalog!Open, NotOpened
  <1>4. CASE /\ pc' = [pc EXCEPT ![j] = "stream"] /\ state' = [state EXCEPT ![j] = "running"]
             /\ temp' = [temp EXCEPT ![f] = i] /\ inode' = [inode EXCEPT ![j] = i]
             /\ owner' = [owner EXCEPT ![i][f] = j] /\ content' = [content EXCEPT ![i][f] = "torn"]
    BY <1>1, <1>4 DEF Catalog!Open, Opened
  <1> QED
    BY <1>2, <1>3, <1>4 DEF Catalog!Open

\* A stream ends without a file, its part left or removed ...
StreamEnds(j) ==
    /\ pc[j] = "stream" /\ \/ pc' = [pc EXCEPT ![j] = "fail"] /\ temp' = temp
                           \/ pc' = [pc EXCEPT ![j] = "wipe"] /\ temp' = [temp EXCEPT ![file[j]] = None]
    /\ UNCHANGED <<file, state, canCancel, flag, stop, inode, owner, content, target, crowded, late>>

\* ... or with what it has written, which is whole if nobody emptied the file.
StreamedAll(j, c) ==
    /\ pc[j] = "stream" /\ pc' = [pc EXCEPT ![j] = "rename"]
    /\ content' = [content EXCEPT ![inode[j]][file[j]] = c]
    /\ c \in {"torn", "whole"} /\ (owner[inode[j]][file[j]] = j => c = "whole")
    /\ UNCHANGED <<file, state, canCancel, flag, stop, inode, owner, temp, target, crowded, late>>

(* What Stream does, as one of the two.                                     *)
LEMMA StreamForms ==
  ASSUME Catalog!TypeOK, WritesSomething, NEW j \in Jobs, Catalog!Stream(j)
  PROVE  StreamEnds(j) \/ \E c \in {"torn", "whole"} : StreamedAll(j, c)
  <1> USE DEF Catalog!TypeOK, Catalog!Go
  <1>1. CASE pc' = [pc EXCEPT ![j] = "wipe"] /\ temp' = [temp EXCEPT ![file[j]] = None] /\ UNCHANGED content
    BY <1>1 DEF Catalog!Stream, StreamEnds
  <1>2. CASE pc' = [pc EXCEPT ![j] = "fail"] /\ UNCHANGED <<content, temp>>
    BY <1>2 DEF Catalog!Stream, StreamEnds
  <1>3. CASE Catalog!Written(j) /\ pc' = [pc EXCEPT ![j] = "rename"] /\ UNCHANGED temp
    <2>1. inode[j] \in Jobs /\ file[j] \in Catalog!Files
      BY DEF WritesSomething, Catalog!Stream
    <2>2. content[inode[j]][file[j]] \in {"torn", "whole"}
      BY <2>1
    <2>3. PICK c \in {"whole"} \cup IF owner[inode[j]][file[j]] = j THEN {} ELSE {content[inode[j]][file[j]]} :
            content' = [content EXCEPT ![inode[j]][file[j]] = c]
      BY <1>3 DEF Catalog!Written
    <2> QED
      BY <1>3, <2>2, <2>3 DEF Catalog!Stream, StreamedAll
  <1> QED
    BY <1>1, <1>2, <1>3 DEF Catalog!Stream

\* The part takes the file's name, and the next file is up, or the end.
Renamed(j, f, i) ==
    /\ pc[j] = "rename" /\ f = file[j] /\ i = temp[f]
    /\ target' = [target EXCEPT ![f] = i] /\ temp' = [temp EXCEPT ![f] = None]
    /\ \/ f = FileCount /\ pc' = [pc EXCEPT ![j] = "complete"] /\ file' = file
       \/ f # FileCount /\ pc' = [pc EXCEPT ![j] = "file"] /\ file' = [file EXCEPT ![j] = f + 1]
    /\ UNCHANGED <<state, canCancel, flag, stop, inode, owner, content, crowded, late>>

\* Somebody has taken the part away.
NotRenamed(j) ==
    /\ pc[j] = "rename" /\ temp[file[j]] = None /\ pc' = [pc EXCEPT ![j] = "fail"]
    /\ UNCHANGED <<file, state, canCancel, flag, stop, inode, owner, content, temp, target, crowded, late>>

(* What Rename does, as one of the two.                                     *)
LEMMA RenameForms ==
  ASSUME Catalog!TypeOK, NEW j \in Jobs, Catalog!Rename(j)
  PROVE  NotRenamed(j) \/ \E f \in Catalog!Files, i \in Jobs : Renamed(j, f, i)
  <1> USE DEF Catalog!TypeOK, Catalog!Rename, Catalog!Go, Catalog!inodes, Catalog!disk
  <1>1. CASE temp[file[j]] = None
    BY <1>1 DEF NotRenamed
  <1>2. CASE temp[file[j]] # None
    <2>1. file[j] \in Catalog!Files /\ temp[file[j]] \in Jobs
      BY <1>2
    <2>2. Renamed(j, file[j], temp[file[j]])
      BY <1>2 DEF Renamed
    <2> QED
      BY <2>1, <2>2
  <1> QED
    BY <1>1, <1>2

(* A step keeps the types. *)
LEMMA DownloadsTyping ==
  DownloadsInv /\ Catalog!Next => Catalog!TypeOK'
  <1> SUFFICES ASSUME DownloadsInv, NEW j \in Jobs, Catalog!Create(j) \/ Catalog!Step(j) \/ Catalog!Client(j)
               PROVE  Catalog!TypeOK'
    BY DEF Catalog!Next
  <1> USE CatalogAssumption DEF DownloadsInv, Catalog!TypeOK, Catalog!DownloadsAssumption
  <1>1. CASE Catalog!Create(j)
    BY <1>1
    DEF Catalog!Create, Catalog!Go, Catalog!Show, Catalog!inodes, Catalog!disk, Catalog!PC, Catalog!Terminal, Catalog!Files, Catalog!Outcome
  <1>2. CASE Catalog!Start(j)
    BY <1>2
    DEF Catalog!Start, Catalog!Go, Catalog!Show, Catalog!inodes, Catalog!disk, Catalog!PC, Catalog!Terminal, Catalog!Files, Catalog!Outcome
  <1>3. CASE Catalog!Open(j)
    <2>1. CASE NotOpened(j)
      BY <2>1 DEF NotOpened, Catalog!PC, Catalog!Terminal, Catalog!Files, Catalog!Outcome
    <2>2. ASSUME NEW f \in Catalog!Files, NEW i \in Jobs, Opened(j, f, i) PROVE Catalog!TypeOK'
      BY <2>2 DEF Opened, Catalog!PC, Catalog!Terminal, Catalog!Files, Catalog!Outcome
    <2> QED
      BY <1>3, <2>1, <2>2, OpenForms
  <1>4. CASE Catalog!Stream(j)
    <2>1. CASE StreamEnds(j)
      <3>1. CASE pc' = [pc EXCEPT ![j] = "fail"] /\ temp' = temp
        BY <2>1, <3>1 DEF StreamEnds, Catalog!PC, Catalog!Terminal, Catalog!Files, Catalog!Outcome
      <3>2. CASE pc' = [pc EXCEPT ![j] = "wipe"] /\ temp' = [temp EXCEPT ![file[j]] = None]
        BY <2>1, <3>2 DEF StreamEnds, Catalog!PC, Catalog!Terminal, Catalog!Files, Catalog!Outcome
      <3> QED
        BY <2>1, <3>1, <3>2 DEF StreamEnds
    <2>2. ASSUME NEW c \in {"torn", "whole"}, StreamedAll(j, c) PROVE Catalog!TypeOK'
      BY <2>2 DEF StreamedAll, Catalog!PC, Catalog!Terminal, Catalog!Files, Catalog!Outcome
    <2> QED
      BY <1>4, <2>1, <2>2, StreamForms
  <1>5. CASE Catalog!Rename(j)
    <2>1. CASE NotRenamed(j)
      BY <2>1 DEF NotRenamed, Catalog!PC, Catalog!Terminal, Catalog!Files, Catalog!Outcome
    <2>2. ASSUME NEW f \in Catalog!Files, NEW i \in Jobs, Renamed(j, f, i) PROVE Catalog!TypeOK'
      <3>1. CASE f = FileCount /\ pc' = [pc EXCEPT ![j] = "complete"] /\ file' = file
        BY <2>2, <3>1 DEF Renamed, Catalog!PC, Catalog!Terminal, Catalog!Files, Catalog!Outcome
      <3>2. CASE f # FileCount /\ pc' = [pc EXCEPT ![j] = "file"] /\ file' = [file EXCEPT ![j] = f + 1]
        BY <2>2, <3>2 DEF Renamed, Catalog!PC, Catalog!Terminal, Catalog!Files, Catalog!Outcome
      <3> QED
        BY <2>2, <3>1, <3>2 DEF Renamed
    <2> QED
      BY <1>5, <2>1, <2>2, RenameForms
  <1>6. CASE Catalog!Wipe(j)
    BY <1>6
    DEF Catalog!Wipe, Catalog!Go, Catalog!disk, Catalog!inodes, Catalog!PC, Catalog!Terminal, Catalog!Files, Catalog!Outcome
  <1>7. CASE Catalog!Settle(j)
    BY <1>7
    DEF Catalog!Settle, Catalog!Go, Catalog!Show, Catalog!Outcome, Catalog!inodes, Catalog!disk, Catalog!PC, Catalog!Terminal, Catalog!Files, Catalog!Outcome
  <1>8. CASE Catalog!Forget(j)
    BY <1>8
    DEF Catalog!Forget, Catalog!Go, Catalog!inodes, Catalog!disk, Catalog!PC, Catalog!Terminal, Catalog!Files, Catalog!Outcome
  <1>9. CASE Catalog!Ask(j)
    BY <1>9
    DEF Catalog!Ask, Catalog!inodes, Catalog!disk, Catalog!PC, Catalog!Terminal, Catalog!Files, Catalog!Outcome
  <1>10. CASE Catalog!Raise(j)
    BY <1>10
    DEF Catalog!Raise, Catalog!inodes, Catalog!disk, Catalog!PC, Catalog!Terminal, Catalog!Files, Catalog!Outcome
  <1>11. CASE Catalog!Cancelling(j)
    BY <1>11
    DEF Catalog!Cancelling, Catalog!Show, Catalog!inodes, Catalog!disk, Catalog!PC, Catalog!Terminal, Catalog!Files, Catalog!Outcome
  <1> QED
    BY <1>1, <1>2, <1>3, <1>4, <1>5, <1>6, <1>7, <1>8, <1>9, <1>10, <1>11 DEF Catalog!Step, Catalog!Client

(* An inode is made at the file its maker has just opened, never before. *)
LEMMA InodesStep ==
  DownloadsInv /\ Catalog!Next => InodesAreOpened'
  <1> SUFFICES ASSUME DownloadsInv, NEW j \in Jobs, Catalog!Create(j) \/ Catalog!Step(j) \/ Catalog!Client(j)
               PROVE  InodesAreOpened'
    BY DEF Catalog!Next
  <1> USE CatalogAssumption DEF DownloadsInv, Catalog!TypeOK, Catalog!DownloadsAssumption
  <1>1. CASE Catalog!Create(j)
    BY <1>1
    DEF Catalog!Create, Catalog!Go, Catalog!Show, Catalog!inodes, Catalog!disk, InodesAreOpened, Catalog!Files
  <1>2. CASE Catalog!Start(j)
    BY <1>2
    DEF Catalog!Start, Catalog!Go, Catalog!Show, Catalog!inodes, Catalog!disk, InodesAreOpened, Catalog!Files
  <1>3. CASE Catalog!Open(j)
    <2>1. CASE NotOpened(j)
      BY <2>1 DEF NotOpened, InodesAreOpened, Catalog!Files
    <2>2. ASSUME NEW f \in Catalog!Files, NEW i \in Jobs, Opened(j, f, i) PROVE InodesAreOpened'
      BY <2>2 DEF Opened, InodesAreOpened, Catalog!Files
    <2> QED
      BY <1>3, <2>1, <2>2, OpenForms
  <1>4. CASE Catalog!Stream(j)
    <2>1. CASE StreamEnds(j)
      <3>1. CASE pc' = [pc EXCEPT ![j] = "fail"] /\ temp' = temp
        BY <2>1, <3>1 DEF StreamEnds, InodesAreOpened, Catalog!Files
      <3>2. CASE pc' = [pc EXCEPT ![j] = "wipe"] /\ temp' = [temp EXCEPT ![file[j]] = None]
        BY <2>1, <3>2 DEF StreamEnds, InodesAreOpened, Catalog!Files
      <3> QED
        BY <2>1, <3>1, <3>2 DEF StreamEnds
    <2>2. ASSUME NEW c \in {"torn", "whole"}, StreamedAll(j, c) PROVE InodesAreOpened'
      BY <2>2 DEF StreamedAll, InodesAreOpened, Catalog!Files
    <2> QED
      BY <1>4, <2>1, <2>2, StreamForms
  <1>5. CASE Catalog!Rename(j)
    <2>1. CASE NotRenamed(j)
      BY <2>1 DEF NotRenamed, InodesAreOpened, Catalog!Files
    <2>2. ASSUME NEW f \in Catalog!Files, NEW i \in Jobs, Renamed(j, f, i) PROVE InodesAreOpened'
      <3>1. CASE f = FileCount /\ pc' = [pc EXCEPT ![j] = "complete"] /\ file' = file
        BY <2>2, <3>1 DEF Renamed, InodesAreOpened, Catalog!Files
      <3>2. CASE f # FileCount /\ pc' = [pc EXCEPT ![j] = "file"] /\ file' = [file EXCEPT ![j] = f + 1]
        BY <2>2, <3>2 DEF Renamed, InodesAreOpened, Catalog!Files
      <3> QED
        BY <2>2, <3>1, <3>2 DEF Renamed
    <2> QED
      BY <1>5, <2>1, <2>2, RenameForms
  <1>6. CASE Catalog!Wipe(j)
    BY <1>6 DEF Catalog!Wipe, Catalog!Go, Catalog!disk, Catalog!inodes, InodesAreOpened, Catalog!Files
  <1>7. CASE Catalog!Settle(j)
    BY <1>7
    DEF Catalog!Settle, Catalog!Go, Catalog!Show, Catalog!Outcome, Catalog!inodes, Catalog!disk, InodesAreOpened, Catalog!Files
  <1>8. CASE Catalog!Forget(j)
    BY <1>8 DEF Catalog!Forget, Catalog!Go, Catalog!inodes, Catalog!disk, InodesAreOpened, Catalog!Files
  <1>9. CASE Catalog!Ask(j)
    BY <1>9 DEF Catalog!Ask, Catalog!inodes, Catalog!disk, InodesAreOpened, Catalog!Files
  <1>10. CASE Catalog!Raise(j)
    BY <1>10 DEF Catalog!Raise, Catalog!inodes, Catalog!disk, InodesAreOpened, Catalog!Files
  <1>11. CASE Catalog!Cancelling(j)
    BY <1>11
    DEF Catalog!Cancelling, Catalog!Show, Catalog!inodes, Catalog!disk, InodesAreOpened, Catalog!Files
  <1> QED
    BY <1>1, <1>2, <1>3, <1>4, <1>5, <1>6, <1>7, <1>8, <1>9, <1>10, <1>11 DEF Catalog!Step, Catalog!Client

(* A part is the file no more once it is renamed; a new one is a new inode. *)
LEMMA PartStep ==
  DownloadsInv /\ Catalog!Next => PartIsAnother'
  <1> SUFFICES ASSUME DownloadsInv, NEW j \in Jobs, Catalog!Create(j) \/ Catalog!Step(j) \/ Catalog!Client(j)
               PROVE  PartIsAnother'
    BY DEF Catalog!Next
  <1> USE CatalogAssumption DEF DownloadsInv, Catalog!TypeOK, Catalog!DownloadsAssumption
  <1>1. CASE Catalog!Create(j)
    BY <1>1
    DEF Catalog!Create, Catalog!Go, Catalog!Show, Catalog!inodes, Catalog!disk, PartIsAnother, InodesAreOpened
  <1>2. CASE Catalog!Start(j)
    BY <1>2
    DEF Catalog!Start, Catalog!Go, Catalog!Show, Catalog!inodes, Catalog!disk, PartIsAnother, InodesAreOpened
  <1>3. CASE Catalog!Open(j)
    <2>1. CASE NotOpened(j)
      BY <2>1 DEF NotOpened, PartIsAnother, InodesAreOpened
    <2>2. ASSUME NEW f \in Catalog!Files, NEW i \in Jobs, Opened(j, f, i) PROVE PartIsAnother'
      <3>1. temp' = [temp EXCEPT ![f] = i] /\ target' = target
        BY <2>2 DEF Opened
      <3>2. target[f] # i
        BY <2>2 DEF Opened, PartIsAnother, InodesAreOpened, Catalog!Files
      <3> QED
        BY <3>1, <3>2 DEF PartIsAnother
    <2> QED
      BY <1>3, <2>1, <2>2, OpenForms
  <1>4. CASE Catalog!Stream(j)
    <2>1. CASE StreamEnds(j)
      <3>1. CASE pc' = [pc EXCEPT ![j] = "fail"] /\ temp' = temp
        BY <2>1, <3>1 DEF StreamEnds, PartIsAnother, InodesAreOpened
      <3>2. CASE pc' = [pc EXCEPT ![j] = "wipe"] /\ temp' = [temp EXCEPT ![file[j]] = None]
        BY <2>1, <3>2 DEF StreamEnds, PartIsAnother, InodesAreOpened
      <3> QED
        BY <2>1, <3>1, <3>2 DEF StreamEnds
    <2>2. ASSUME NEW c \in {"torn", "whole"}, StreamedAll(j, c) PROVE PartIsAnother'
      BY <2>2 DEF StreamedAll, PartIsAnother, InodesAreOpened
    <2> QED
      BY <1>4, <2>1, <2>2, StreamForms
  <1>5. CASE Catalog!Rename(j)
    <2>1. CASE NotRenamed(j)
      BY <2>1 DEF NotRenamed, PartIsAnother, InodesAreOpened
    <2>2. ASSUME NEW f \in Catalog!Files, NEW i \in Jobs, Renamed(j, f, i) PROVE PartIsAnother'
      <3>1. CASE f = FileCount /\ pc' = [pc EXCEPT ![j] = "complete"] /\ file' = file
        BY <2>2, <3>1 DEF Renamed, PartIsAnother, InodesAreOpened
      <3>2. CASE f # FileCount /\ pc' = [pc EXCEPT ![j] = "file"] /\ file' = [file EXCEPT ![j] = f + 1]
        BY <2>2, <3>2 DEF Renamed, PartIsAnother, InodesAreOpened
      <3> QED
        BY <2>2, <3>1, <3>2 DEF Renamed
    <2> QED
      BY <1>5, <2>1, <2>2, RenameForms
  <1>6. CASE Catalog!Wipe(j)
    BY <1>6 DEF Catalog!Wipe, Catalog!Go, Catalog!disk, Catalog!inodes, PartIsAnother, InodesAreOpened
  <1>7. CASE Catalog!Settle(j)
    BY <1>7
    DEF Catalog!Settle, Catalog!Go, Catalog!Show, Catalog!Outcome, Catalog!inodes, Catalog!disk, PartIsAnother, InodesAreOpened
  <1>8. CASE Catalog!Forget(j)
    BY <1>8 DEF Catalog!Forget, Catalog!Go, Catalog!inodes, Catalog!disk, PartIsAnother, InodesAreOpened
  <1>9. CASE Catalog!Ask(j)
    BY <1>9 DEF Catalog!Ask, Catalog!inodes, Catalog!disk, PartIsAnother, InodesAreOpened
  <1>10. CASE Catalog!Raise(j)
    BY <1>10 DEF Catalog!Raise, Catalog!inodes, Catalog!disk, PartIsAnother, InodesAreOpened
  <1>11. CASE Catalog!Cancelling(j)
    BY <1>11
    DEF Catalog!Cancelling, Catalog!Show, Catalog!inodes, Catalog!disk, PartIsAnother, InodesAreOpened
  <1> QED
    BY <1>1, <1>2, <1>3, <1>4, <1>5, <1>6, <1>7, <1>8, <1>9, <1>10, <1>11 DEF Catalog!Step, Catalog!Client

(* Who removed the directory makes nothing in it any more. *)
LEMMA CancelledStep ==
  DownloadsInv /\ Catalog!Next => CancelledLeftNothing'
  <1> SUFFICES ASSUME DownloadsInv, NEW j \in Jobs, Catalog!Create(j) \/ Catalog!Step(j) \/ Catalog!Client(j)
               PROVE  CancelledLeftNothing'
    BY DEF Catalog!Next
  <1> USE CatalogAssumption DEF DownloadsInv, Catalog!TypeOK, Catalog!DownloadsAssumption
  <1>1. CASE Catalog!Create(j)
    BY <1>1
    DEF Catalog!Create, Catalog!Go, Catalog!Show, Catalog!inodes, Catalog!disk, CancelledLeftNothing, StatusFollowsJob, InodesAreOpened
  <1>2. CASE Catalog!Start(j)
    BY <1>2
    DEF Catalog!Start, Catalog!Go, Catalog!Show, Catalog!inodes, Catalog!disk, CancelledLeftNothing, StatusFollowsJob, InodesAreOpened
  <1>3. CASE Catalog!Open(j)
    <2>1. CASE NotOpened(j)
      BY <2>1 DEF NotOpened, CancelledLeftNothing, StatusFollowsJob, InodesAreOpened
    <2>2. ASSUME NEW f \in Catalog!Files, NEW i \in Jobs, Opened(j, f, i) PROVE CancelledLeftNothing'
      BY <2>2 DEF Opened, CancelledLeftNothing, StatusFollowsJob, InodesAreOpened
    <2> QED
      BY <1>3, <2>1, <2>2, OpenForms
  <1>4. CASE Catalog!Stream(j)
    <2>1. CASE StreamEnds(j)
      <3>1. CASE pc' = [pc EXCEPT ![j] = "fail"] /\ temp' = temp
        BY <2>1, <3>1 DEF StreamEnds, CancelledLeftNothing, StatusFollowsJob, InodesAreOpened
      <3>2. CASE pc' = [pc EXCEPT ![j] = "wipe"] /\ temp' = [temp EXCEPT ![file[j]] = None]
        BY <2>1, <3>2 DEF StreamEnds, CancelledLeftNothing, StatusFollowsJob, InodesAreOpened
      <3> QED
        BY <2>1, <3>1, <3>2 DEF StreamEnds
    <2>2. ASSUME NEW c \in {"torn", "whole"}, StreamedAll(j, c) PROVE CancelledLeftNothing'
      BY <2>2 DEF StreamedAll, CancelledLeftNothing, StatusFollowsJob, InodesAreOpened
    <2> QED
      BY <1>4, <2>1, <2>2, StreamForms
  <1>5. CASE Catalog!Rename(j)
    <2>1. CASE NotRenamed(j)
      BY <2>1 DEF NotRenamed, CancelledLeftNothing, StatusFollowsJob, InodesAreOpened
    <2>2. ASSUME NEW f \in Catalog!Files, NEW i \in Jobs, Renamed(j, f, i) PROVE CancelledLeftNothing'
      <3>1. CASE f = FileCount /\ pc' = [pc EXCEPT ![j] = "complete"] /\ file' = file
        BY <2>2, <3>1 DEF Renamed, CancelledLeftNothing, StatusFollowsJob, InodesAreOpened
      <3>2. CASE f # FileCount /\ pc' = [pc EXCEPT ![j] = "file"] /\ file' = [file EXCEPT ![j] = f + 1]
        BY <2>2, <3>2 DEF Renamed, CancelledLeftNothing, StatusFollowsJob, InodesAreOpened
      <3> QED
        BY <2>2, <3>1, <3>2 DEF Renamed
    <2> QED
      BY <1>5, <2>1, <2>2, RenameForms
  <1>6. CASE Catalog!Wipe(j)
    BY <1>6
    DEF Catalog!Wipe, Catalog!Go, Catalog!disk, Catalog!inodes, CancelledLeftNothing, StatusFollowsJob, InodesAreOpened
  <1>7. CASE Catalog!Settle(j)
    BY <1>7
    DEF Catalog!Settle, Catalog!Go, Catalog!Show, Catalog!Outcome, Catalog!inodes, Catalog!disk, CancelledLeftNothing, StatusFollowsJob, InodesAreOpened
  <1>8. CASE Catalog!Forget(j)
    BY <1>8
    DEF Catalog!Forget, Catalog!Go, Catalog!inodes, Catalog!disk, CancelledLeftNothing, StatusFollowsJob, InodesAreOpened
  <1>9. CASE Catalog!Ask(j)
    BY <1>9
    DEF Catalog!Ask, Catalog!inodes, Catalog!disk, CancelledLeftNothing, StatusFollowsJob, InodesAreOpened
  <1>10. CASE Catalog!Raise(j)
    BY <1>10
    DEF Catalog!Raise, Catalog!inodes, Catalog!disk, CancelledLeftNothing, StatusFollowsJob, InodesAreOpened
  <1>11. CASE Catalog!Cancelling(j)
    BY <1>11
    DEF Catalog!Cancelling, Catalog!Show, Catalog!inodes, Catalog!disk, CancelledLeftNothing, StatusFollowsJob, InodesAreOpened
  <1> QED
    BY <1>1, <1>2, <1>3, <1>4, <1>5, <1>6, <1>7, <1>8, <1>9, <1>10, <1>11 DEF Catalog!Step, Catalog!Client

(* The end is told when the job is at its end. *)
LEMMA StatusStep ==
  DownloadsInv /\ Catalog!Next => StatusFollowsJob'
  <1> SUFFICES ASSUME DownloadsInv, NEW j \in Jobs, Catalog!Create(j) \/ Catalog!Step(j) \/ Catalog!Client(j)
               PROVE  StatusFollowsJob'
    BY DEF Catalog!Next
  <1> USE CatalogAssumption DEF DownloadsInv, Catalog!TypeOK, Catalog!DownloadsAssumption
  <1>1. CASE Catalog!Create(j)
    BY <1>1
    DEF Catalog!Create, Catalog!Go, Catalog!Show, Catalog!inodes, Catalog!disk, StatusFollowsJob, Catalog!PC
  <1>2. CASE Catalog!Start(j)
    BY <1>2
    DEF Catalog!Start, Catalog!Go, Catalog!Show, Catalog!inodes, Catalog!disk, StatusFollowsJob, Catalog!PC
  <1>3. CASE Catalog!Open(j)
    <2>1. CASE NotOpened(j)
      BY <2>1 DEF NotOpened, StatusFollowsJob, Catalog!PC
    <2>2. ASSUME NEW f \in Catalog!Files, NEW i \in Jobs, Opened(j, f, i) PROVE StatusFollowsJob'
      BY <2>2 DEF Opened, StatusFollowsJob, Catalog!PC
    <2> QED
      BY <1>3, <2>1, <2>2, OpenForms
  <1>4. CASE Catalog!Stream(j)
    <2>1. CASE StreamEnds(j)
      <3>1. CASE pc' = [pc EXCEPT ![j] = "fail"] /\ temp' = temp
        BY <2>1, <3>1 DEF StreamEnds, StatusFollowsJob, Catalog!PC
      <3>2. CASE pc' = [pc EXCEPT ![j] = "wipe"] /\ temp' = [temp EXCEPT ![file[j]] = None]
        BY <2>1, <3>2 DEF StreamEnds, StatusFollowsJob, Catalog!PC
      <3> QED
        BY <2>1, <3>1, <3>2 DEF StreamEnds
    <2>2. ASSUME NEW c \in {"torn", "whole"}, StreamedAll(j, c) PROVE StatusFollowsJob'
      BY <2>2 DEF StreamedAll, StatusFollowsJob, Catalog!PC
    <2> QED
      BY <1>4, <2>1, <2>2, StreamForms
  <1>5. CASE Catalog!Rename(j)
    <2>1. CASE NotRenamed(j)
      BY <2>1 DEF NotRenamed, StatusFollowsJob, Catalog!PC
    <2>2. ASSUME NEW f \in Catalog!Files, NEW i \in Jobs, Renamed(j, f, i) PROVE StatusFollowsJob'
      <3>1. CASE f = FileCount /\ pc' = [pc EXCEPT ![j] = "complete"] /\ file' = file
        BY <2>2, <3>1 DEF Renamed, StatusFollowsJob, Catalog!PC
      <3>2. CASE f # FileCount /\ pc' = [pc EXCEPT ![j] = "file"] /\ file' = [file EXCEPT ![j] = f + 1]
        BY <2>2, <3>2 DEF Renamed, StatusFollowsJob, Catalog!PC
      <3> QED
        BY <2>2, <3>1, <3>2 DEF Renamed
    <2> QED
      BY <1>5, <2>1, <2>2, RenameForms
  <1>6. CASE Catalog!Wipe(j)
    BY <1>6 DEF Catalog!Wipe, Catalog!Go, Catalog!disk, Catalog!inodes, StatusFollowsJob, Catalog!PC
  <1>7. CASE Catalog!Settle(j)
    BY <1>7
    DEF Catalog!Settle, Catalog!Go, Catalog!Show, Catalog!Outcome, Catalog!inodes, Catalog!disk, StatusFollowsJob, Catalog!PC
  <1>8. CASE Catalog!Forget(j)
    BY <1>8 DEF Catalog!Forget, Catalog!Go, Catalog!inodes, Catalog!disk, StatusFollowsJob, Catalog!PC
  <1>9. CASE Catalog!Ask(j)
    BY <1>9 DEF Catalog!Ask, Catalog!inodes, Catalog!disk, StatusFollowsJob, Catalog!PC
  <1>10. CASE Catalog!Raise(j)
    BY <1>10 DEF Catalog!Raise, Catalog!inodes, Catalog!disk, StatusFollowsJob, Catalog!PC
  <1>11. CASE Catalog!Cancelling(j)
    BY <1>11 DEF Catalog!Cancelling, Catalog!Show, Catalog!inodes, Catalog!disk, StatusFollowsJob, Catalog!PC
  <1> QED
    BY <1>1, <1>2, <1>3, <1>4, <1>5, <1>6, <1>7, <1>8, <1>9, <1>10, <1>11 DEF Catalog!Step, Catalog!Client

(* Who is made while another is alive crowds all that were made. *)
LEMMA AliveStep ==
  DownloadsInv /\ Catalog!Next => AliveAlone'
  <1> SUFFICES ASSUME DownloadsInv, NEW j \in Jobs, Catalog!Create(j) \/ Catalog!Step(j) \/ Catalog!Client(j)
               PROVE  AliveAlone'
    BY DEF Catalog!Next
  <1> USE CatalogAssumption DEF DownloadsInv, Catalog!TypeOK, Catalog!DownloadsAssumption
  <1>1. CASE Catalog!Create(j)
    BY <1>1
    DEF Catalog!Create, Catalog!Go, Catalog!Show, Catalog!inodes, Catalog!disk, AliveAlone, StatusFollowsJob, Catalog!Alive
  <1>2. CASE Catalog!Start(j)
    BY <1>2
    DEF Catalog!Start, Catalog!Go, Catalog!Show, Catalog!inodes, Catalog!disk, AliveAlone, StatusFollowsJob, Catalog!Alive
  <1>3. CASE Catalog!Open(j)
    <2>1. CASE NotOpened(j)
      BY <2>1 DEF NotOpened, AliveAlone, StatusFollowsJob, Catalog!Alive
    <2>2. ASSUME NEW f \in Catalog!Files, NEW i \in Jobs, Opened(j, f, i) PROVE AliveAlone'
      <3>1. pc[j] = "file" /\ pc' = [pc EXCEPT ![j] = "stream"] /\ crowded' = crowded
        BY <2>2 DEF Opened
      <3> QED
        BY <3>1 DEF AliveAlone, Catalog!Alive
    <2> QED
      BY <1>3, <2>1, <2>2, OpenForms
  <1>4. CASE Catalog!Stream(j)
    <2>1. CASE StreamEnds(j)
      <3>1. CASE pc' = [pc EXCEPT ![j] = "fail"] /\ temp' = temp
        BY <2>1, <3>1 DEF StreamEnds, AliveAlone, StatusFollowsJob, Catalog!Alive
      <3>2. CASE pc' = [pc EXCEPT ![j] = "wipe"] /\ temp' = [temp EXCEPT ![file[j]] = None]
        BY <2>1, <3>2 DEF StreamEnds, AliveAlone, StatusFollowsJob, Catalog!Alive
      <3> QED
        BY <2>1, <3>1, <3>2 DEF StreamEnds
    <2>2. ASSUME NEW c \in {"torn", "whole"}, StreamedAll(j, c) PROVE AliveAlone'
      BY <2>2 DEF StreamedAll, AliveAlone, StatusFollowsJob, Catalog!Alive
    <2> QED
      BY <1>4, <2>1, <2>2, StreamForms
  <1>5. CASE Catalog!Rename(j)
    <2>1. CASE NotRenamed(j)
      BY <2>1 DEF NotRenamed, AliveAlone, StatusFollowsJob, Catalog!Alive
    <2>2. ASSUME NEW f \in Catalog!Files, NEW i \in Jobs, Renamed(j, f, i) PROVE AliveAlone'
      <3>1. CASE f = FileCount /\ pc' = [pc EXCEPT ![j] = "complete"] /\ file' = file
        BY <2>2, <3>1 DEF Renamed, AliveAlone, StatusFollowsJob, Catalog!Alive
      <3>2. CASE f # FileCount /\ pc' = [pc EXCEPT ![j] = "file"] /\ file' = [file EXCEPT ![j] = f + 1]
        BY <2>2, <3>2 DEF Renamed, AliveAlone, StatusFollowsJob, Catalog!Alive
      <3> QED
        BY <2>2, <3>1, <3>2 DEF Renamed
    <2> QED
      BY <1>5, <2>1, <2>2, RenameForms
  <1>6. CASE Catalog!Wipe(j)
    BY <1>6
    DEF Catalog!Wipe, Catalog!Go, Catalog!disk, Catalog!inodes, AliveAlone, StatusFollowsJob, Catalog!Alive
  <1>7. CASE Catalog!Settle(j)
    BY <1>7
    DEF Catalog!Settle, Catalog!Go, Catalog!Show, Catalog!Outcome, Catalog!inodes, Catalog!disk, AliveAlone, StatusFollowsJob, Catalog!Alive
  <1>8. CASE Catalog!Forget(j)
    BY <1>8
    DEF Catalog!Forget, Catalog!Go, Catalog!inodes, Catalog!disk, AliveAlone, StatusFollowsJob, Catalog!Alive
  <1>9. CASE Catalog!Ask(j)
    BY <1>9 DEF Catalog!Ask, Catalog!inodes, Catalog!disk, AliveAlone, StatusFollowsJob, Catalog!Alive
  <1>10. CASE Catalog!Raise(j)
    BY <1>10 DEF Catalog!Raise, Catalog!inodes, Catalog!disk, AliveAlone, StatusFollowsJob, Catalog!Alive
  <1>11. CASE Catalog!Cancelling(j)
    BY <1>11
    DEF Catalog!Cancelling, Catalog!Show, Catalog!inodes, Catalog!disk, AliveAlone, StatusFollowsJob, Catalog!Alive
  <1> QED
    BY <1>1, <1>2, <1>3, <1>4, <1>5, <1>6, <1>7, <1>8, <1>9, <1>10, <1>11 DEF Catalog!Step, Catalog!Client

(* A job that streams has opened a file. *)
LEMMA WritesStep ==
  DownloadsInv /\ Catalog!Next => WritesSomething'
  <1> SUFFICES ASSUME DownloadsInv, NEW j \in Jobs, Catalog!Create(j) \/ Catalog!Step(j) \/ Catalog!Client(j)
               PROVE  WritesSomething'
    BY DEF Catalog!Next
  <1> USE CatalogAssumption DEF DownloadsInv, Catalog!TypeOK, Catalog!DownloadsAssumption
  <1>1. CASE Catalog!Create(j)
    BY <1>1 DEF Catalog!Create, Catalog!Go, Catalog!Show, Catalog!inodes, Catalog!disk, WritesSomething
  <1>2. CASE Catalog!Start(j)
    BY <1>2 DEF Catalog!Start, Catalog!Go, Catalog!Show, Catalog!inodes, Catalog!disk, WritesSomething
  <1>3. CASE Catalog!Open(j)
    <2>1. CASE NotOpened(j)
      BY <2>1 DEF NotOpened, WritesSomething
    <2>2. ASSUME NEW f \in Catalog!Files, NEW i \in Jobs, Opened(j, f, i) PROVE WritesSomething'
      BY <2>2 DEF Opened, WritesSomething
    <2> QED
      BY <1>3, <2>1, <2>2, OpenForms
  <1>4. CASE Catalog!Stream(j)
    <2>1. CASE StreamEnds(j)
      <3>1. CASE pc' = [pc EXCEPT ![j] = "fail"] /\ temp' = temp
        BY <2>1, <3>1 DEF StreamEnds, WritesSomething
      <3>2. CASE pc' = [pc EXCEPT ![j] = "wipe"] /\ temp' = [temp EXCEPT ![file[j]] = None]
        BY <2>1, <3>2 DEF StreamEnds, WritesSomething
      <3> QED
        BY <2>1, <3>1, <3>2 DEF StreamEnds
    <2>2. ASSUME NEW c \in {"torn", "whole"}, StreamedAll(j, c) PROVE WritesSomething'
      BY <2>2 DEF StreamedAll, WritesSomething
    <2> QED
      BY <1>4, <2>1, <2>2, StreamForms
  <1>5. CASE Catalog!Rename(j)
    <2>1. CASE NotRenamed(j)
      BY <2>1 DEF NotRenamed, WritesSomething
    <2>2. ASSUME NEW f \in Catalog!Files, NEW i \in Jobs, Renamed(j, f, i) PROVE WritesSomething'
      <3>1. CASE f = FileCount /\ pc' = [pc EXCEPT ![j] = "complete"] /\ file' = file
        BY <2>2, <3>1 DEF Renamed, WritesSomething
      <3>2. CASE f # FileCount /\ pc' = [pc EXCEPT ![j] = "file"] /\ file' = [file EXCEPT ![j] = f + 1]
        BY <2>2, <3>2 DEF Renamed, WritesSomething
      <3> QED
        BY <2>2, <3>1, <3>2 DEF Renamed
    <2> QED
      BY <1>5, <2>1, <2>2, RenameForms
  <1>6. CASE Catalog!Wipe(j)
    BY <1>6 DEF Catalog!Wipe, Catalog!Go, Catalog!disk, Catalog!inodes, WritesSomething
  <1>7. CASE Catalog!Settle(j)
    BY <1>7
    DEF Catalog!Settle, Catalog!Go, Catalog!Show, Catalog!Outcome, Catalog!inodes, Catalog!disk, WritesSomething
  <1>8. CASE Catalog!Forget(j)
    BY <1>8 DEF Catalog!Forget, Catalog!Go, Catalog!inodes, Catalog!disk, WritesSomething
  <1>9. CASE Catalog!Ask(j)
    BY <1>9 DEF Catalog!Ask, Catalog!inodes, Catalog!disk, WritesSomething
  <1>10. CASE Catalog!Raise(j)
    BY <1>10 DEF Catalog!Raise, Catalog!inodes, Catalog!disk, WritesSomething
  <1>11. CASE Catalog!Cancelling(j)
    BY <1>11 DEF Catalog!Cancelling, Catalog!Show, Catalog!inodes, Catalog!disk, WritesSomething
  <1> QED
    BY <1>1, <1>2, <1>3, <1>4, <1>5, <1>6, <1>7, <1>8, <1>9, <1>10, <1>11 DEF Catalog!Step, Catalog!Client

(* A job that has not started has done nothing. *)
LEMMA NothingDoneStep ==
  DownloadsInv /\ Catalog!Next => NothingDone'
  <1> SUFFICES ASSUME DownloadsInv, NEW j \in Jobs, Catalog!Create(j) \/ Catalog!Step(j) \/ Catalog!Client(j)
               PROVE  NothingDone'
    BY DEF Catalog!Next
  <1> USE CatalogAssumption DEF DownloadsInv, Catalog!TypeOK, Catalog!DownloadsAssumption
  <1>1. CASE Catalog!Create(j)
    BY <1>1 DEF Catalog!Create, Catalog!Go, Catalog!Show, Catalog!inodes, Catalog!disk, NothingDone
  <1>2. CASE Catalog!Start(j)
    BY <1>2 DEF Catalog!Start, Catalog!Go, Catalog!Show, Catalog!inodes, Catalog!disk, NothingDone
  <1>3. CASE Catalog!Open(j)
    <2>1. CASE NotOpened(j)
      BY <2>1 DEF NotOpened, NothingDone
    <2>2. ASSUME NEW f \in Catalog!Files, NEW i \in Jobs, Opened(j, f, i) PROVE NothingDone'
      BY <2>2 DEF Opened, NothingDone
    <2> QED
      BY <1>3, <2>1, <2>2, OpenForms
  <1>4. CASE Catalog!Stream(j)
    <2>1. CASE StreamEnds(j)
      <3>1. CASE pc' = [pc EXCEPT ![j] = "fail"] /\ temp' = temp
        BY <2>1, <3>1 DEF StreamEnds, NothingDone
      <3>2. CASE pc' = [pc EXCEPT ![j] = "wipe"] /\ temp' = [temp EXCEPT ![file[j]] = None]
        BY <2>1, <3>2 DEF StreamEnds, NothingDone
      <3> QED
        BY <2>1, <3>1, <3>2 DEF StreamEnds
    <2>2. ASSUME NEW c \in {"torn", "whole"}, StreamedAll(j, c) PROVE NothingDone'
      BY <2>2 DEF StreamedAll, NothingDone
    <2> QED
      BY <1>4, <2>1, <2>2, StreamForms
  <1>5. CASE Catalog!Rename(j)
    <2>1. CASE NotRenamed(j)
      BY <2>1 DEF NotRenamed, NothingDone
    <2>2. ASSUME NEW f \in Catalog!Files, NEW i \in Jobs, Renamed(j, f, i) PROVE NothingDone'
      <3>1. CASE f = FileCount /\ pc' = [pc EXCEPT ![j] = "complete"] /\ file' = file
        BY <2>2, <3>1 DEF Renamed, NothingDone
      <3>2. CASE f # FileCount /\ pc' = [pc EXCEPT ![j] = "file"] /\ file' = [file EXCEPT ![j] = f + 1]
        BY <2>2, <3>2 DEF Renamed, NothingDone
      <3> QED
        BY <2>2, <3>1, <3>2 DEF Renamed
    <2> QED
      BY <1>5, <2>1, <2>2, RenameForms
  <1>6. CASE Catalog!Wipe(j)
    BY <1>6 DEF Catalog!Wipe, Catalog!Go, Catalog!disk, Catalog!inodes, NothingDone
  <1>7. CASE Catalog!Settle(j)
    BY <1>7
    DEF Catalog!Settle, Catalog!Go, Catalog!Show, Catalog!Outcome, Catalog!inodes, Catalog!disk, NothingDone
  <1>8. CASE Catalog!Forget(j)
    BY <1>8 DEF Catalog!Forget, Catalog!Go, Catalog!inodes, Catalog!disk, NothingDone
  <1>9. CASE Catalog!Ask(j)
    BY <1>9 DEF Catalog!Ask, Catalog!inodes, Catalog!disk, NothingDone
  <1>10. CASE Catalog!Raise(j)
    BY <1>10 DEF Catalog!Raise, Catalog!inodes, Catalog!disk, NothingDone
  <1>11. CASE Catalog!Cancelling(j)
    BY <1>11 DEF Catalog!Cancelling, Catalog!Show, Catalog!inodes, Catalog!disk, NothingDone
  <1> QED
    BY <1>1, <1>2, <1>3, <1>4, <1>5, <1>6, <1>7, <1>8, <1>9, <1>10, <1>11 DEF Catalog!Step, Catalog!Client

(* That the directory was removed is not undone by a step. *)
LEMMA RemovedStep ==
  DownloadsInv /\ Catalog!Next /\ Removed => Removed'
  <1> SUFFICES ASSUME DownloadsInv, Removed, NEW j \in Jobs, Catalog!Create(j) \/ Catalog!Step(j) \/ Catalog!Client(j)
               PROVE  Removed'
    BY DEF Catalog!Next
  <1> USE CatalogAssumption DEF DownloadsInv, Catalog!TypeOK, Catalog!DownloadsAssumption
  <1>1. CASE Catalog!Create(j)
    BY <1>1
    DEF Catalog!Create, Catalog!Go, Catalog!Show, Catalog!inodes, Catalog!disk, Removed, StatusFollowsJob, Catalog!PC, Catalog!Terminal
  <1>2. CASE Catalog!Start(j)
    BY <1>2
    DEF Catalog!Start, Catalog!Go, Catalog!Show, Catalog!inodes, Catalog!disk, Removed, StatusFollowsJob, Catalog!PC, Catalog!Terminal
  <1>3. CASE Catalog!Open(j)
    <2>1. CASE NotOpened(j)
      BY <2>1 DEF NotOpened, Removed, StatusFollowsJob, Catalog!PC, Catalog!Terminal
    <2>2. ASSUME NEW f \in Catalog!Files, NEW i \in Jobs, Opened(j, f, i) PROVE Removed'
      BY <2>2 DEF Opened, Removed, StatusFollowsJob, Catalog!PC, Catalog!Terminal
    <2> QED
      BY <1>3, <2>1, <2>2, OpenForms
  <1>4. CASE Catalog!Stream(j)
    <2>1. CASE StreamEnds(j)
      <3>1. CASE pc' = [pc EXCEPT ![j] = "fail"] /\ temp' = temp
        BY <2>1, <3>1 DEF StreamEnds, Removed, StatusFollowsJob, Catalog!PC, Catalog!Terminal
      <3>2. CASE pc' = [pc EXCEPT ![j] = "wipe"] /\ temp' = [temp EXCEPT ![file[j]] = None]
        BY <2>1, <3>2 DEF StreamEnds, Removed, StatusFollowsJob, Catalog!PC, Catalog!Terminal
      <3> QED
        BY <2>1, <3>1, <3>2 DEF StreamEnds
    <2>2. ASSUME NEW c \in {"torn", "whole"}, StreamedAll(j, c) PROVE Removed'
      BY <2>2 DEF StreamedAll, Removed, StatusFollowsJob, Catalog!PC, Catalog!Terminal
    <2> QED
      BY <1>4, <2>1, <2>2, StreamForms
  <1>5. CASE Catalog!Rename(j)
    <2>1. CASE NotRenamed(j)
      BY <2>1 DEF NotRenamed, Removed, StatusFollowsJob, Catalog!PC, Catalog!Terminal
    <2>2. ASSUME NEW f \in Catalog!Files, NEW i \in Jobs, Renamed(j, f, i) PROVE Removed'
      <3>1. CASE f = FileCount /\ pc' = [pc EXCEPT ![j] = "complete"] /\ file' = file
        BY <2>2, <3>1 DEF Renamed, Removed, StatusFollowsJob, Catalog!PC, Catalog!Terminal
      <3>2. CASE f # FileCount /\ pc' = [pc EXCEPT ![j] = "file"] /\ file' = [file EXCEPT ![j] = f + 1]
        BY <2>2, <3>2 DEF Renamed, Removed, StatusFollowsJob, Catalog!PC, Catalog!Terminal
      <3> QED
        BY <2>2, <3>1, <3>2 DEF Renamed
    <2> QED
      BY <1>5, <2>1, <2>2, RenameForms
  <1>6. CASE Catalog!Wipe(j)
    BY <1>6
    DEF Catalog!Wipe, Catalog!Go, Catalog!disk, Catalog!inodes, Removed, StatusFollowsJob, Catalog!PC, Catalog!Terminal
  <1>7. CASE Catalog!Settle(j)
    <2>1. late' = late /\ \E p \in DOMAIN Catalog!Outcome : pc[j] = p /\ state' = [state EXCEPT ![j] = Catalog!Outcome[p]]
      BY <1>7 DEF Catalog!Settle, Catalog!Show
    <2>2. PICK k \in Jobs : pc[k] = "cancel" \/ state[k] = "cancelled" \/ k \in late
      BY DEF Removed
    <2>3. CASE pc[k] = "cancel" /\ k = j
      <3>1. state'[j] = "cancelled"
        BY <2>1, <2>3 DEF Catalog!Outcome
      <3> QED
        BY <3>1 DEF Removed
    <2>4. CASE k # j
      <3>1. pc'[k] = pc[k] /\ state'[k] = state[k]
        BY <1>7, <2>4 DEF Catalog!Settle, Catalog!Show, Catalog!Go
      <3> QED
        BY <2>1, <2>2, <3>1 DEF Removed
    <2>5. CASE state[k] = "cancelled" /\ k = j
      BY <2>1, <2>5 DEF StatusFollowsJob, Catalog!Outcome
    <2> QED
      BY <2>1, <2>2, <2>3, <2>4, <2>5 DEF Removed
  <1>8. CASE Catalog!Forget(j)
    BY <1>8
    DEF Catalog!Forget, Catalog!Go, Catalog!inodes, Catalog!disk, Removed, StatusFollowsJob, Catalog!PC, Catalog!Terminal
  <1>9. CASE Catalog!Ask(j)
    BY <1>9
    DEF Catalog!Ask, Catalog!inodes, Catalog!disk, Removed, StatusFollowsJob, Catalog!PC, Catalog!Terminal
  <1>10. CASE Catalog!Raise(j)
    BY <1>10
    DEF Catalog!Raise, Catalog!inodes, Catalog!disk, Removed, StatusFollowsJob, Catalog!PC, Catalog!Terminal
  <1>11. CASE Catalog!Cancelling(j)
    BY <1>11
    DEF Catalog!Cancelling, Catalog!Show, Catalog!inodes, Catalog!disk, Removed, StatusFollowsJob, Catalog!PC, Catalog!Terminal
  <1> QED
    BY <1>1, <1>2, <1>3, <1>4, <1>5, <1>6, <1>7, <1>8, <1>9, <1>10, <1>11 DEF Catalog!Step, Catalog!Client

(* A file that is whole stays so as long as nobody removes the directory:   *)
(* who streams writes another inode, and what it renames is whole.          *)
LEMMA WholeKept ==
  ASSUME DownloadsInv, ~Removed, ~Removed', NEW j \in Jobs \ crowded, Catalog!Step(j),
         NEW g \in Catalog!Files, Whole(g)
  PROVE  Whole(g)'
  <1> USE DEF DownloadsInv, Catalog!TypeOK
  <1>1. DiskOf(j)
    BY DEF DiskFollowsJob
  <1>2. CASE Catalog!Open(j)
    <2>1. CASE NotOpened(j)
      BY <2>1 DEF NotOpened, Whole
    <2>2. ASSUME NEW f \in Catalog!Files, NEW i \in Jobs, Opened(j, f, i) PROVE Whole(g)'
      <3>1. target[f] # i
        BY <2>2, CatalogAssumption
        DEF Opened, PartIsAnother, InodesAreOpened, Catalog!Files, Catalog!DownloadsAssumption
      <3>2. target' = target /\ content' = [content EXCEPT ![i][f] = "torn"]
        BY <2>2 DEF Opened
      <3>3. target[g] \in Jobs /\ ~(target[g] = i /\ g = f)
        BY <3>1 DEF Whole
      <3>4. content'[target[g]][g] = content[target[g]][g]
        BY <3>2, <3>3
      <3> QED
        BY <3>2, <3>4 DEF Whole
    <2> QED
      BY <1>2, <2>1, <2>2, OpenForms
  <1>3. CASE Catalog!Stream(j)
    <2>1. CASE StreamEnds(j)
      BY <2>1 DEF StreamEnds, Whole
    <2>2. ASSUME NEW c \in {"torn", "whole"}, StreamedAll(j, c) PROVE Whole(g)'
      <3>1. inode[j] \in Jobs /\ temp[file[j]] = inode[j] /\ file[j] \in Catalog!Files
        BY <2>2, <1>1 DEF StreamedAll, DiskOf, OwnPart, WritesSomething
      <3>2. target[file[j]] # inode[j]
        BY <3>1, CatalogAssumption DEF PartIsAnother, Catalog!DownloadsAssumption
      <3>3. target' = target /\ content' = [content EXCEPT ![inode[j]][file[j]] = c]
        BY <2>2 DEF StreamedAll
      <3>4. target[g] \in Jobs /\ ~(target[g] = inode[j] /\ g = file[j])
        BY <3>2 DEF Whole
      <3>5. content'[target[g]][g] = content[target[g]][g]
        BY <3>1, <3>3, <3>4
      <3> QED
        BY <3>3, <3>5 DEF Whole
    <2> QED
      BY <1>3, <2>1, <2>2, StreamForms
  <1>4. CASE Catalog!Rename(j)
    <2>1. CASE NotRenamed(j)
      BY <2>1 DEF NotRenamed, Whole
    <2>2. ASSUME NEW f \in Catalog!Files, NEW i \in Jobs, Renamed(j, f, i) PROVE Whole(g)'
      <3>1. i = inode[j] /\ content[i][f] = "whole"
        BY <2>2, <1>1 DEF Renamed, DiskOf, OwnPart
      <3>2. target' = [target EXCEPT ![f] = i] /\ content' = content
        BY <2>2 DEF Renamed
      <3> QED
        BY <3>1, <3>2, CatalogAssumption DEF Whole, Catalog!DownloadsAssumption
    <2> QED
      BY <1>4, <2>1, <2>2, RenameForms
  <1>5. CASE Catalog!Wipe(j)
    <2>1. pc'[j] = "cancel"
      BY <1>5 DEF Catalog!Wipe, Catalog!Go
    <2> QED
      BY <2>1 DEF Removed
  <1>6. CASE Catalog!Start(j) \/ Catalog!Settle(j) \/ Catalog!Forget(j)
    <2>1. target' = target /\ content' = content
      BY <1>6 DEF Catalog!Start, Catalog!Settle, Catalog!Forget, Catalog!inodes, Catalog!disk
    <2> QED
      BY <2>1 DEF Whole
  <1> QED
    BY <1>2, <1>3, <1>4, <1>5, <1>6 DEF Catalog!Step

(* What the disk has of a job that is alone follows its own steps.          *)
LEMMA OwnStep ==
  ASSUME DownloadsInv, ~Removed, ~Removed', NEW j \in Jobs \ crowded, Catalog!Step(j)
  PROVE  DiskOf(j)'
  <1> USE DEF DownloadsInv, Catalog!TypeOK
  <1>1. DiskOf(j)
    BY DEF DiskFollowsJob
  <1>2. \A g \in Catalog!Files : Whole(g) => Whole(g)'
    BY WholeKept
  <1>3. CASE Catalog!Open(j)
    <2>1. CASE NotOpened(j)
      <3>1. pc'[j] \in {"wipe", "fail"} /\ state'[j] # "completed"
        BY <2>1 DEF NotOpened, StatusFollowsJob
      <3> QED
        BY <3>1 DEF DiskOf, Downloading
    <2>2. ASSUME NEW f \in Catalog!Files, NEW i \in Jobs, Opened(j, f, i) PROVE DiskOf(j)'
      <3>1. pc'[j] = "stream" /\ state'[j] = "running" /\ pc[j] = "file" /\ file' = file /\ f = file[j]
        BY <2>2 DEF Opened
      <3>2. inode'[j] = i /\ temp'[f] = i /\ owner'[i][f] = j
        BY <2>2 DEF Opened
      <3>3. OwnPart(j)'
        BY <3>1, <3>2, CatalogAssumption DEF OwnPart, Catalog!DownloadsAssumption
      <3> QED
        BY <1>1, <1>2, <3>1, <3>3 DEF DiskOf, Downloading
    <2> QED
      BY <1>3, <2>1, <2>2, OpenForms
  <1>4. CASE Catalog!Stream(j)
    <2>1. CASE StreamEnds(j)
      <3>1. pc'[j] \in {"wipe", "fail"} /\ state'[j] # "completed"
        BY <2>1 DEF StreamEnds, StatusFollowsJob
      <3> QED
        BY <3>1 DEF DiskOf, Downloading
    <2>2. ASSUME NEW c \in {"torn", "whole"}, StreamedAll(j, c) PROVE DiskOf(j)'
      <3>1. pc'[j] = "rename" /\ state'[j] # "completed" /\ pc[j] = "stream" /\ inode[j] \in Jobs /\ file[j] \in Catalog!Files
        BY <2>2 DEF StreamedAll, StatusFollowsJob, WritesSomething
      <3>2. UNCHANGED <<file, inode, temp, owner>> /\ OwnPart(j)
        BY <2>2, <1>1, <3>1 DEF StreamedAll, DiskOf
      <3>3. OwnPart(j)'
        BY <3>2 DEF OwnPart
      <3>4. content'[inode[j]][file[j]] = "whole"
        BY <2>2, <3>1, <3>2 DEF StreamedAll, OwnPart
      <3> QED
        BY <1>1, <1>2, <3>1, <3>2, <3>3, <3>4 DEF DiskOf, Downloading
    <2> QED
      BY <1>4, <2>1, <2>2, StreamForms
  <1>5. CASE Catalog!Rename(j)
    <2>1. CASE NotRenamed(j)
      <3>1. pc'[j] = "fail" /\ state'[j] # "completed"
        BY <2>1 DEF NotRenamed, StatusFollowsJob
      <3> QED
        BY <3>1 DEF DiskOf, Downloading
    <2>2. ASSUME NEW f \in Catalog!Files, NEW i \in Jobs, Renamed(j, f, i) PROVE DiskOf(j)'
      <3>1. pc[j] = "rename" /\ f = file[j] /\ state'[j] # "completed"
        BY <2>2 DEF Renamed, StatusFollowsJob
      <3>2. i = inode[j] /\ content[i][f] = "whole"
        BY <2>2, <1>1 DEF Renamed, DiskOf, OwnPart
      <3>3. target'[f] = i /\ content' = content
        BY <2>2 DEF Renamed
      <3>4. Whole(f)'
        BY <3>2, <3>3, CatalogAssumption DEF Whole, Catalog!DownloadsAssumption
      <3>5. \A g \in Catalog!Files : g < f => Whole(g)'
        BY <1>1, <1>2, <3>1 DEF DiskOf, Downloading
      <3>6. CASE f = FileCount /\ pc' = [pc EXCEPT ![j] = "complete"]
        <4>1. \A g \in Catalog!Files : Whole(g)'
          BY <3>4, <3>5, <3>6, CatalogAssumption DEF Catalog!Files, Catalog!DownloadsAssumption
        <4>2. pc'[j] = "complete"
          BY <3>6
        <4> QED
          BY <4>1, <4>2 DEF DiskOf, Downloading
      <3>7. CASE pc' = [pc EXCEPT ![j] = "file"] /\ file' = [file EXCEPT ![j] = f + 1]
        <4>1. pc'[j] = "file" /\ file'[j] = f + 1
          BY <3>7
        <4>2. \A g \in Catalog!Files : g < f + 1 => Whole(g)'
          BY <3>4, <3>5 DEF Catalog!Files
        <4> QED
          BY <4>1, <4>2, <3>1 DEF DiskOf, Downloading
      <3> QED
        BY <2>2, <3>6, <3>7 DEF Renamed
    <2> QED
      BY <1>5, <2>1, <2>2, RenameForms
  <1>6. CASE Catalog!Start(j)
    <2>1. pc'[j] \in {"file", "fail"} /\ state'[j] = "running" /\ file' = file
      BY <1>6 DEF Catalog!Start, Catalog!Go, Catalog!Show
    <2>2. file[j] = 1
      BY <1>6 DEF Catalog!Start, NothingDone
    <2> QED
      BY <2>1, <2>2 DEF DiskOf, Downloading, Catalog!Files
  <1>7. CASE Catalog!Wipe(j)
    <2>1. pc'[j] = "cancel"
      BY <1>7 DEF Catalog!Wipe, Catalog!Go
    <2> QED
      BY <2>1 DEF Removed
  <1>8. CASE Catalog!Settle(j)
    <2>1. pc'[j] = "settled" /\ pc[j] \in DOMAIN Catalog!Outcome /\ state'[j] = Catalog!Outcome[pc[j]]
      BY <1>8 DEF Catalog!Settle, Catalog!Go, Catalog!Show
    <2>2. state'[j] = "completed" => pc[j] = "complete"
      BY <2>1 DEF Catalog!Outcome
    <2> QED
      BY <1>1, <1>2, <2>1, <2>2 DEF DiskOf, Downloading
  <1>9. CASE Catalog!Forget(j)
    <2>1. pc'[j] = "over" /\ state' = state
      BY <1>9 DEF Catalog!Forget, Catalog!Go
    <2> QED
      BY <1>1, <1>2, <2>1 DEF DiskOf, Downloading
  <1> QED
    BY <1>3, <1>4, <1>5, <1>6, <1>7, <1>8, <1>9 DEF Catalog!Step

(* What the disk has of a job that is alone is not another's to change.     *)
LEMMA DiskStep ==
  DownloadsInv /\ Catalog!Next => DiskFollowsJob'
  <1> SUFFICES ASSUME DownloadsInv, ~Removed', NEW k \in Jobs \ crowded',
                      NEW j \in Jobs, Catalog!Create(j) \/ Catalog!Step(j) \/ Catalog!Client(j)
               PROVE  DiskOf(k)'
    BY DEF DiskFollowsJob, Catalog!Next
  <1> USE DEF DownloadsInv, Catalog!TypeOK
  <1>0. ~Removed
    <2>1. Catalog!Next
      BY DEF Catalog!Next
    <2> QED
      BY <2>1, RemovedStep
  <1>1. CASE Catalog!Step(j)
    <2>1. crowded' = crowded /\ Catalog!Alive(j)
      BY <1>1, <1>0
      DEF Catalog!Step, Catalog!Start, Catalog!Open, Catalog!Stream, Catalog!Rename, Catalog!Wipe,
           Catalog!Settle, Catalog!Forget, Catalog!Alive, Catalog!Outcome
    <2>2. CASE k = j
      BY <1>0, <1>1, <2>1, <2>2, OwnStep
    <2>3. CASE k # j
      <3>1. DiskOf(k)
        BY <1>0, <2>1 DEF DiskFollowsJob
      <3>2. ~Catalog!Alive(k)
        BY <2>1, <2>3 DEF AliveAlone
      <3>3. pc'[k] = pc[k] /\ state'[k] = state[k]
        BY <1>1, <2>3
        DEF Catalog!Step, Catalog!Start, Catalog!Open, Catalog!Stream, Catalog!Rename, Catalog!Wipe,
             Catalog!Settle, Catalog!Forget, Catalog!Go, Catalog!Show
      <3>4. CASE state[k] = "completed"
        <4>1. pc[k] # "none" /\ pc[k] \in {"settled", "over"}
          BY <3>4 DEF StatusFollowsJob
        <4>2. j \notin crowded
          BY <2>1, <4>1 DEF AliveAlone
        <4>3. \A g \in Catalog!Files : Whole(g) => Whole(g)'
          BY <1>0, <1>1, <4>2, WholeKept
        <4> QED
          BY <3>1, <3>3, <3>4, <4>1, <4>3 DEF DiskOf, Downloading
      <3>5. CASE state[k] # "completed"
        BY <3>2, <3>3, <3>5 DEF DiskOf, Downloading, Catalog!Alive
      <3> QED
        BY <3>4, <3>5
    <2> QED
      BY <2>2, <2>3
  <1>2. CASE Catalog!Client(j)
    <2>1. UNCHANGED <<pc, file, inode, owner, content, temp, target, crowded>>
      BY <1>2 DEF Catalog!Client, Catalog!Ask, Catalog!Raise, Catalog!Cancelling, Catalog!inodes, Catalog!disk
    <2>2. DiskOf(k)
      BY <1>0, <2>1 DEF DiskFollowsJob
    <2>3. state'[k] = "completed" => state[k] = "completed"
      BY <1>2 DEF Catalog!Client, Catalog!Ask, Catalog!Raise, Catalog!Cancelling, Catalog!Show
    <2> QED
      BY <2>1, <2>2, <2>3 DEF DiskOf, Downloading, OwnPart, Whole
  <1>3. CASE Catalog!Create(j)
    <2>1. UNCHANGED <<file, inode, owner, content, temp, target>> /\ crowded \subseteq crowded'
      BY <1>3 DEF Catalog!Create, Catalog!inodes, Catalog!disk, StatusFollowsJob
    <2>2. DiskOf(k)
      BY <1>0, <2>1 DEF DiskFollowsJob
    <2>3. pc' = [pc EXCEPT ![j] = "start"] /\ state' = [state EXCEPT ![j] = "queued"]
      BY <1>3 DEF Catalog!Create, Catalog!Go, Catalog!Show
    <2>4. CASE k = j
      <3>1. pc'[k] = "start" /\ state'[k] = "queued"
        BY <2>3, <2>4
      <3> QED
        BY <3>1 DEF DiskOf, Downloading
    <2>5. CASE k # j
      <3>1. pc'[k] = pc[k] /\ state'[k] = state[k]
        BY <2>3, <2>5
      <3> QED
        BY <2>1, <2>2, <3>1 DEF DiskOf, Downloading, OwnPart, Whole
    <2> QED
      BY <2>4, <2>5
  <1> QED
    BY <1>1, <1>2, <1>3

(* What a download's status says is so on the disk, for any downloads of    *)
(* one model and any number of files: every file is whole if it is          *)
(* complete and no two were at the directory at once since it began, and    *)
(* nothing it made is left if it was cancelled (catalog.rs L364-569).       *)
THEOREM StatusesTellTheDisk == Catalog!Spec => []StatusTellsDisk
  <1>1. DownloadsInv /\ [Catalog!Next]_(Catalog!vars) => DownloadsInv'
    <2> SUFFICES ASSUME DownloadsInv, [Catalog!Next]_(Catalog!vars) PROVE DownloadsInv'
      OBVIOUS
    <2>1. CASE Catalog!Next
      <3>1. Catalog!TypeOK' /\ InodesAreOpened' /\ PartIsAnother' /\ CancelledLeftNothing'
        BY <2>1, DownloadsTyping, InodesStep, PartStep, CancelledStep
      <3>2. StatusFollowsJob' /\ AliveAlone' /\ NothingDone' /\ WritesSomething' /\ DiskFollowsJob'
        BY <2>1, StatusStep, AliveStep, NothingDoneStep, WritesStep, DiskStep
      <3> QED
        BY <3>1, <3>2 DEF DownloadsInv
    <2>2. CASE UNCHANGED Catalog!vars
      BY <2>2
      DEF Catalog!vars, Catalog!inodes, Catalog!disk, DownloadsInv, Catalog!TypeOK, InodesAreOpened, PartIsAnother,
           CancelledLeftNothing, StatusFollowsJob, AliveAlone, NothingDone, WritesSomething, DiskFollowsJob, DiskOf,
           Removed, Downloading, OwnPart, Whole, Catalog!Alive
    <2> QED
      BY <2>1, <2>2
  <1>2. DownloadsInv => StatusTellsDisk
    <2> SUFFICES ASSUME DownloadsInv, NEW j \in Jobs
                 PROVE  /\ state[j] = "completed" /\ ~Catalog!Disturbed(j) =>
                               \A f \in Catalog!Files : target[f] # None /\ content[target[f]][f] = "whole"
                        /\ state[j] = "cancelled" => \A f \in Catalog!Files : temp[f] # j /\ target[f] # j
      BY DEF StatusTellsDisk, Catalog!StatusTellsDisk
    <2>1. ~Catalog!Disturbed(j) => ~Removed /\ j \notin crowded
      BY DEF Catalog!Disturbed, Removed
    <2> QED
      BY <2>1 DEF DownloadsInv, DiskFollowsJob, DiskOf, Whole, CancelledLeftNothing
  <1> QED
    BY DownloadsStart, <1>1, <1>2, PTL DEF Catalog!Spec
=============================================================================
