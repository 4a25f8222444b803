------------------------ MODULE ExecSchedulerProofs -------------------------
(***************************************************************************)
(* For any finite set of calls, any domains and any limits: the            *)
(* dispatcher's counters are exactly the slots taken, and so never more    *)
(* tasks run than the limits allow.  A slot is freed by a message, so the  *)
(* argument is about the channel: a completion is sent once for each       *)
(* started task, and until it is received its task still holds its slot.   *)
(* And no call is overtaken by one that both the channel's order and the   *)
(* heap's put behind it, because what is sent earlier arrives earlier.     *)
(***************************************************************************)
EXTENDS ExecScheduler, FiniteSetTheorems, TLAPS

\* Nothing is in the channel twice.
SentOnce == \A i, j \in 1..Len(channel) : channel[i] = channel[j] => i = j

\* A completion in the channel is that of a task whose slot is still counted.
CompletedHolds == \A i \in 1..Len(channel) :
    channel[i].kind = "Completed" => run[channel[i].task] = "completed"

\* A call is submitted once: before it is in the channel it is nowhere, in the
\* channel it is not in the queue, and in the queue it has not been started.
EnqueuedIsNew == \A i \in 1..Len(channel) :
    channel[i].kind = "Enqueue" =>
        /\ run[channel[i].task] = "idle"
        /\ channel[i].task \notin queue
        /\ caller[channel[i].task] \notin {"new", "numbered"}

QueuedIsNew == \A t \in queue : run[t] = "idle" /\ caller[t] \notin {"new", "numbered"}
UnsentIsNew == \A t \in Tasks : caller[t] \in {"new", "numbered"} => run[t] = "idle"

Messages == SentOnce /\ CompletedHolds /\ EnqueuedIsNew /\ QueuedIsNew /\ UnsentIsNew

IInv == TypeOK /\ Messages /\ CountsExact

-----------------------------------------------------------------------------
(* The occupied slots are a finite set: their Cardinality is a number.      *)
LEMMA OccupiedFinite ==
  /\ IsFiniteSet(Occupied) /\ Cardinality(Occupied) \in Nat
  /\ \A d \in Domains : IsFiniteSet(OccupiedIn(d)) /\ Cardinality(OccupiedIn(d)) \in Nat
  <1>1. Occupied \subseteq Tasks /\ \A d \in Domains : OccupiedIn(d) \subseteq Tasks
    BY DEF Occupied, OccupiedIn
  <1>2. IsFiniteSet(Occupied) /\ \A d \in Domains : IsFiniteSet(OccupiedIn(d))
    BY <1>1, TasksAssumption, FS_Subset
  <1> QED
    BY <1>2, FS_CardinalityType

(* A started task takes one slot, of its domain and of the total.           *)
LEMMA TakesSlot ==
  ASSUME TypeOK, CountsExact, NEW t \in Tasks, run[t] = "idle",
         run' = [run EXCEPT ![t] = "running"],
         total' = total + 1, active' = [active EXCEPT ![domain[t]] = @ + 1],
         domain' = domain
  PROVE  CountsExact'
  <1>1. t \notin Occupied /\ Occupied' = Occupied \cup {t}
    BY DEF Occupied, TypeOK
  <1>2. total' = Cardinality(Occupied')
    BY <1>1, OccupiedFinite, FS_AddElement DEF CountsExact
  <1>3. ASSUME NEW d \in Domains PROVE active'[d] = Cardinality(OccupiedIn(d)')
    <2>1. CASE d = domain[t]
      <3>1. t \notin OccupiedIn(d) /\ OccupiedIn(d)' = OccupiedIn(d) \cup {t}
        BY <1>1, <2>1 DEF OccupiedIn, TypeOK
      <3>2. Cardinality(OccupiedIn(d)') = Cardinality(OccupiedIn(d)) + 1
        BY <3>1, OccupiedFinite, FS_AddElement
      <3> QED
        BY <3>2, <2>1 DEF CountsExact, TypeOK
    <2>2. CASE d # domain[t]
      <3>1. OccupiedIn(d)' = OccupiedIn(d)
        BY <1>1, <2>2 DEF OccupiedIn, TypeOK
      <3> QED
        BY <3>1, <2>2 DEF CountsExact, TypeOK
    <2> QED
      BY <2>1, <2>2
  <1> QED
    BY <1>2, <1>3 DEF CountsExact

(* A received completion frees one slot, and saturating_sub never saturates.*)
LEMMA FreesSlot ==
  ASSUME TypeOK, CountsExact, NEW t \in Tasks, run[t] = "completed",
         run' = [run EXCEPT ![t] = "freed"],
         total' = MinusOne(total), active' = [active EXCEPT ![domain[t]] = MinusOne(@)],
         domain' = domain
  PROVE  CountsExact'
  <1>1. t \in Occupied /\ Occupied' = Occupied \ {t}
    BY DEF Occupied, TypeOK
  <1>2. Cardinality(Occupied') = Cardinality(Occupied) - 1 /\ Cardinality(Occupied') \in Nat
    <2>1. Cardinality(Occupied') = Cardinality(Occupied) - 1
      BY <1>1, OccupiedFinite, FS_RemoveElement
    <2>2. IsFiniteSet(Occupied')
      BY <1>1, OccupiedFinite, FS_Subset
    <2> QED
      BY <2>1, <2>2, FS_CardinalityType
  <1>3. total' = Cardinality(Occupied')
    BY <1>2 DEF CountsExact, MinusOne, TypeOK
  <1>4. ASSUME NEW d \in Domains PROVE active'[d] = Cardinality(OccupiedIn(d)')
    <2>1. CASE d = domain[t]
      <3>1. t \in OccupiedIn(d) /\ OccupiedIn(d)' = OccupiedIn(d) \ {t}
        BY <1>1, <2>1 DEF OccupiedIn, TypeOK
      <3>2. Cardinality(OccupiedIn(d)') = Cardinality(OccupiedIn(d)) - 1
        BY <3>1, OccupiedFinite, FS_RemoveElement
      <3>3. Cardinality(OccupiedIn(d)') \in Nat
        BY <3>1, OccupiedFinite, FS_Subset, FS_CardinalityType
      <3> QED
        BY <3>2, <3>3, <2>1 DEF CountsExact, MinusOne, TypeOK
    <2>2. CASE d # domain[t]
      <3>1. OccupiedIn(d)' = OccupiedIn(d)
        BY <1>1, <2>2 DEF OccupiedIn, TypeOK
      <3> QED
        BY <3>1, <2>2 DEF CountsExact, TypeOK
    <2> QED
      BY <2>1, <2>2
  <1> QED
    BY <1>3, <1>4 DEF CountsExact

(* Every other step keeps the slots and the counters.                       *)
LEMMA KeepsSlots ==
  ASSUME CountsExact, Occupied' = Occupied, total' = total, active' = active, domain' = domain
  PROVE  CountsExact'
  <1>1. \A d \in Domains : OccupiedIn(d)' = OccupiedIn(d)
    BY DEF OccupiedIn
  <1> QED
    BY <1>1 DEF CountsExact

-----------------------------------------------------------------------------
(* The invariant holds at first.                                            *)
LEMMA InitIInv == Init => IInv
  <1> SUFFICES ASSUME Init PROVE IInv
    OBVIOUS
  <1>1. TypeOK
    <2>1. channel \in Seq(Message)
      BY DEF Init
    <2>2. /\ caller \in [Tasks -> CallerState] /\ run \in [Tasks -> RunState]
          /\ sequence \in [Tasks -> Nat] /\ nextSeq \in Nat /\ queue \subseteq Tasks
      BY DEF Init, CallerState, RunState
    <2>3. /\ total \in 0..TotalLimit /\ active \in [Domains -> Nat]
          /\ \A d \in Domains : active[d] <= Limit[d]
      BY LimitsAssumption DEF Init
    <2> QED
      BY <2>1, <2>2, <2>3 DEF Init, TypeOK
  <1>4. Messages
    <2>1. 1..Len(channel) = {}
      BY DEF Init
    <2>2. SentOnce /\ CompletedHolds /\ EnqueuedIsNew
      BY <2>1 DEF SentOnce, CompletedHolds, EnqueuedIsNew
    <2>3. QueuedIsNew /\ UnsentIsNew
      BY DEF Init, QueuedIsNew, UnsentIsNew
    <2> QED
      BY <2>2, <2>3 DEF Messages
  <1>2. Occupied = {} /\ \A d \in Domains : OccupiedIn(d) = {}
    BY DEF Init, Occupied, OccupiedIn
  <1>3. CountsExact
    BY <1>2, FS_EmptySet DEF Init, CountsExact
  <1> QED
    BY <1>1, <1>3, <1>4 DEF IInv

(* A message put at the end of the channel, and one taken from its head.    *)
LEMMA Appended ==
  ASSUME TypeOK, NEW m \in Message, channel' = Append(channel, m)
  PROVE  /\ channel' \in Seq(Message) /\ Len(channel') = Len(channel) + 1
         /\ \A i \in 1..Len(channel) : channel'[i] = channel[i]
         /\ channel'[Len(channel')] = m
         /\ \A i \in 1..Len(channel') : channel'[i] \in Message
         /\ \A i \in 1..Len(channel') : i \in 1..Len(channel) \/ i = Len(channel')
  BY DEF TypeOK

(* What is in the channel is a message of a task.                           *)
LEMMA SentByTasks ==
  ASSUME TypeOK, NEW i \in 1..Len(channel)
  PROVE  channel[i] \in Message /\ channel[i].task \in Tasks
  <1>1. channel[i] \in Message
    BY DEF TypeOK
  <1> QED
    BY <1>1 DEF Message

(* What is left when the first message is taken.                            *)
LEMMA Received ==
  ASSUME TypeOK, channel # <<>>, channel' = Tail(channel)
  PROVE  /\ channel' \in Seq(Message) /\ Len(channel') = Len(channel) - 1
         /\ \A i \in 1..Len(channel') : i + 1 \in 1..Len(channel) /\ channel'[i] = channel[i + 1]
         /\ \A i \in 1..Len(channel') : channel'[i] \in Message
         /\ 1 \in 1..Len(channel) /\ Head(channel) = channel[1] /\ channel[1] \in Message
  BY DEF TypeOK

-----------------------------------------------------------------------------
(* One step of the dispatcher.                                              *)
LEMMA DispatchStep == IInv /\ Dispatch => IInv'
<1> SUFFICES ASSUME IInv, Dispatch PROVE IInv'
  OBVIOUS
<1> USE DEF IInv
<1>1. CASE ReceiveEnqueue
  <2> DEFINE t == Head(channel).task
  <2> USE <1>1 DEF ReceiveEnqueue
  <2>0. channel[1] = Head(channel) /\ t \in Tasks
    BY Received DEF Message
  <2>1. TypeOK'
    BY Received, <2>0 DEF TypeOK, call
  <2>2. run[t] = "idle" /\ caller[t] \notin {"new", "numbered"}
    BY Received, <2>0 DEF Messages, EnqueuedIsNew
  <2>3. SentOnce'
    BY Received DEF Messages, SentOnce
  <2>4. CompletedHolds'
    BY Received DEF Messages, CompletedHolds
  <2>5. ASSUME NEW i \in 1..Len(channel'), channel'[i].kind = "Enqueue" PROVE channel'[i].task # t
    <3>1. channel'[i] = channel[i + 1] /\ i + 1 \in 1..Len(channel) /\ i + 1 # 1
      BY Received
    <3>2. channel[i + 1] \in Message /\ channel[1] \in Message
      BY <3>1, Received DEF TypeOK
    <3>3. channel[i + 1] # channel[1]
      BY <3>1, Received DEF Messages, SentOnce
    <3> QED
      BY <3>1, <3>2, <3>3, <2>5, <2>0 DEF Message
  <2>6. EnqueuedIsNew'
    BY Received, <2>5, <2>0 DEF Messages, EnqueuedIsNew
  <2>7. QueuedIsNew' /\ UnsentIsNew'
    BY <2>2 DEF Messages, QueuedIsNew, UnsentIsNew
  <2>8. CountsExact'
    BY KeepsSlots DEF Occupied, call
  <2> QED
    BY <2>1, <2>3, <2>4, <2>6, <2>7, <2>8 DEF Messages
<1>2. CASE ReceiveCompleted
  <2> DEFINE t == Head(channel).task
  <2> USE <1>2 DEF ReceiveCompleted
  <2>0. channel[1] = Head(channel) /\ t \in Tasks
    BY Received DEF Message
  <2>1. run[t] = "completed" /\ run' = [run EXCEPT ![t] = "freed"]
    BY Received, <2>0 DEF Messages, CompletedHolds
  <2>2. TypeOK'
    <3>1. \A d \in Domains : active'[d] \in Nat /\ active'[d] <= Limit[d]
      <4> SUFFICES ASSUME NEW d \in Domains PROVE active'[d] \in Nat /\ active'[d] <= Limit[d]
        OBVIOUS
      <4>1. active[d] \in Nat /\ active[d] <= Limit[d] /\ Limit[d] \in Nat
        BY LimitsAssumption DEF TypeOK
      <4>2. active'[d] = active[d] \/ active'[d] = MinusOne(active[d])
        BY DEF TypeOK
      <4> QED
        BY <4>1, <4>2 DEF MinusOne
    <3>2. active' \in [Domains -> Nat]
      BY <3>1 DEF TypeOK
    <3>3. total' \in 0..TotalLimit
      BY LimitsAssumption DEF TypeOK, MinusOne
    <3>4. run' \in [Tasks -> RunState] /\ channel' \in Seq(Message)
      BY <2>0, <2>1, Received DEF TypeOK, RunState
    <3> QED
      BY <3>1, <3>2, <3>3, <3>4 DEF TypeOK, call
  <2>3. SentOnce'
    BY Received DEF Messages, SentOnce
  <2>4. ASSUME NEW i \in 1..Len(channel'), channel'[i].kind = "Completed" PROVE channel'[i].task # t
    <3>1. channel'[i] = channel[i + 1] /\ i + 1 \in 1..Len(channel) /\ i + 1 # 1
      BY Received
    <3>2. channel[i + 1] \in Message /\ channel[1] \in Message
      BY <3>1, Received DEF TypeOK
    <3>3. channel[i + 1] # channel[1]
      BY <3>1, Received DEF Messages, SentOnce
    <3> QED
      BY <3>1, <3>2, <3>3, <2>4, <2>0 DEF Message
  <2>5. CompletedHolds'
    <3> SUFFICES ASSUME NEW i \in 1..Len(channel'), channel'[i].kind = "Completed"
                 PROVE  run'[channel'[i].task] = "completed"
      BY DEF CompletedHolds
    <3>1. channel'[i] = channel[i + 1] /\ i + 1 \in 1..Len(channel) /\ channel'[i] \in Message
      BY Received
    <3>2. run[channel'[i].task] = "completed"
      BY <3>1 DEF Messages, CompletedHolds
    <3> QED
      BY <3>1, <3>2, <2>1, <2>4 DEF TypeOK, Message
  <2>6. EnqueuedIsNew'
    <3> SUFFICES ASSUME NEW i \in 1..Len(channel'), channel'[i].kind = "Enqueue"
                 PROVE  /\ run'[channel'[i].task] = "idle" /\ channel'[i].task \notin queue
                        /\ caller[channel'[i].task] \notin {"new", "numbered"}
      BY DEF EnqueuedIsNew
    <3>1. channel'[i] = channel[i + 1] /\ i + 1 \in 1..Len(channel)
      BY Received
    <3>2. /\ run[channel'[i].task] = "idle" /\ channel'[i].task \notin queue
          /\ caller[channel'[i].task] \notin {"new", "numbered"}
      BY <3>1 DEF Messages, EnqueuedIsNew
    <3>3. channel'[i].task # t
      BY <3>2, <2>1
    <3> QED
      BY <3>2, <3>3, <2>1
  <2>7. QueuedIsNew' /\ UnsentIsNew'
    BY <2>1 DEF Messages, QueuedIsNew, UnsentIsNew, TypeOK
  <2>8. CountsExact'
    BY <2>0, <2>1, FreesSlot DEF call
  <2> QED
    BY <2>2, <2>3, <2>5, <2>6, <2>7, <2>8 DEF Messages
<1>3. CASE Filled
  <2>1. TypeOK' /\ Messages'
    <3>1. TypeOK'
      BY <1>3 DEF Filled, TypeOK, call
    <3>2. UNCHANGED <<channel, caller, queue, run>>
      BY <1>3 DEF Filled
    <3>3. SentOnce' /\ CompletedHolds' /\ EnqueuedIsNew' /\ QueuedIsNew' /\ UnsentIsNew'
      BY <3>2 DEF Messages, SentOnce, CompletedHolds, EnqueuedIsNew, QueuedIsNew, UnsentIsNew
    <3> QED
      BY <3>1, <3>3 DEF Messages
  <2>2. CountsExact'
    BY <1>3, KeepsSlots DEF Filled, Occupied, call
  <2> QED
    BY <2>1, <2>2
<1>4. ASSUME NEW t \in Tasks, Start(t) PROVE IInv'
  <2> USE <1>4 DEF Start
  <2>1. t \in queue /\ active[domain[t]] < Limit[domain[t]] /\ run[t] = "idle"
           /\ caller[t] \notin {"new", "numbered"}
    BY DEF IsNext, Runnable, HasRoom, Messages, QueuedIsNew
  <2>2. TypeOK'
    <3>1. \A d \in Domains : active'[d] \in Nat /\ active'[d] <= Limit[d]
      <4> SUFFICES ASSUME NEW d \in Domains PROVE active'[d] \in Nat /\ active'[d] <= Limit[d]
        OBVIOUS
      <4>1. active[d] \in Nat /\ active[d] <= Limit[d] /\ Limit[d] \in Nat
        BY LimitsAssumption DEF TypeOK
      <4>2. CASE d = domain[t]
        BY <4>1, <4>2, <2>1 DEF TypeOK
      <4>3. CASE d # domain[t]
        BY <4>1, <4>3 DEF TypeOK
      <4> QED
        BY <4>2, <4>3
    <3>2. active' \in [Domains -> Nat]
      BY <3>1 DEF TypeOK
    <3> QED
      BY <2>1, <3>1, <3>2, LimitsAssumption DEF TypeOK, RunState, call
  <2>3. SentOnce' /\ CompletedHolds'
    BY <2>1 DEF Messages, SentOnce, CompletedHolds, TypeOK
  <2>4. EnqueuedIsNew'
    BY <2>1 DEF Messages, EnqueuedIsNew, TypeOK
  <2>5. QueuedIsNew' /\ UnsentIsNew'
    BY <2>1 DEF Messages, QueuedIsNew, UnsentIsNew, TypeOK
  <2>6. CountsExact'
    BY <2>1, TakesSlot DEF call
  <2> QED
    BY <2>2, <2>3, <2>4, <2>5, <2>6 DEF Messages
<1> QED
  BY <1>1, <1>2, <1>3, <1>4 DEF Dispatch

(* One step of a call or of the task it started.                            *)
LEMMA TaskStep ==
  ASSUME IInv, NEW t \in Tasks,
         TakeNumber(t) \/ SendEnqueue(t) \/ CallerGone(t) \/ Reply(t) \/ SendCompleted(t) \/ TaskPanics(t)
  PROVE  IInv'
<1> USE DEF IInv
<1>1. CASE TakeNumber(t)
  <2>1. TypeOK'
    BY <1>1 DEF TakeNumber, TypeOK, CallerState, dispatcher
  <2>2. Messages'
    BY <1>1 DEF TakeNumber, TypeOK, dispatcher, Messages, SentOnce, CompletedHolds, EnqueuedIsNew,
                QueuedIsNew, UnsentIsNew
  <2>3. CountsExact'
    BY <1>1, KeepsSlots DEF TakeNumber, Occupied, dispatcher
  <2> QED
    BY <2>1, <2>2, <2>3
<1>2. CASE SendEnqueue(t)
  <2> DEFINE m == [kind |-> "Enqueue", task |-> t]
  <2> USE <1>2 DEF SendEnqueue
  <2>0. m \in Message /\ m.kind = "Enqueue" /\ m.task = t /\ channel' = Append(channel, m)
    BY DEF Message
  <2>1. TypeOK'
    BY <2>0, Appended DEF TypeOK, CallerState, dispatcher, call
  <2>2. \A i \in 1..Len(channel) : channel[i] # m
    BY DEF Messages, EnqueuedIsNew
  <2>3. SentOnce'
    <3> SUFFICES ASSUME NEW i \in 1..Len(channel'), NEW j \in 1..Len(channel'),
                        channel'[i] = channel'[j]
                 PROVE  i = j
      BY DEF SentOnce
    <3>1. /\ i \in 1..Len(channel) => channel'[i] = channel[i] /\ channel'[i] # m
          /\ j \in 1..Len(channel) => channel'[j] = channel[j] /\ channel'[j] # m
      BY <2>0, <2>2, Appended
    <3>2. /\ i \in 1..Len(channel) \/ (i = Len(channel') /\ channel'[i] = m)
          /\ j \in 1..Len(channel) \/ (j = Len(channel') /\ channel'[j] = m)
      BY <2>0, Appended
    <3> QED
      BY <3>1, <3>2 DEF Messages, SentOnce
  <2>4. CompletedHolds'
    BY <2>0, Appended DEF Messages, CompletedHolds, TypeOK
  <2>5. t \notin queue /\ run[t] = "idle"
    BY DEF Messages, QueuedIsNew, UnsentIsNew
  <2>6. EnqueuedIsNew'
    <3> SUFFICES ASSUME NEW i \in 1..Len(channel'), channel'[i].kind = "Enqueue"
                 PROVE  /\ run'[channel'[i].task] = "idle" /\ channel'[i].task \notin queue'
                        /\ caller'[channel'[i].task] \notin {"new", "numbered"}
      BY DEF EnqueuedIsNew
    <3>0. run' = run /\ queue' = queue /\ caller' = [caller EXCEPT ![t] = "waiting"]
      BY DEF dispatcher
    <3>1. CASE i = Len(channel')
      BY <3>0, <3>1, <2>0, <2>5, Appended DEF TypeOK
    <3>2. CASE i \in 1..Len(channel)
      <4>1. channel'[i] = channel[i] /\ channel[i] \in Message
        BY <3>2, <2>0, Appended
      <4>2. /\ run[channel[i].task] = "idle" /\ channel[i].task \notin queue
            /\ caller[channel[i].task] \notin {"new", "numbered"}
        BY <3>2, <4>1 DEF Messages, EnqueuedIsNew
      <4> QED
        BY <3>0, <4>1, <4>2 DEF TypeOK, Message
    <3> QED
      BY <3>1, <3>2, <2>0, Appended
  <2>7. QueuedIsNew' /\ UnsentIsNew'
    BY <2>5 DEF Messages, QueuedIsNew, UnsentIsNew, TypeOK, dispatcher
  <2>8. CountsExact'
    BY KeepsSlots DEF Occupied, dispatcher, call
  <2> QED
    BY <2>1, <2>3, <2>4, <2>6, <2>7, <2>8 DEF Messages
<1>3. CASE CallerGone(t)
  <2>1. TypeOK'
    BY <1>3 DEF CallerGone, TypeOK, CallerState, dispatcher, call
  <2>2. Messages'
    BY <1>3 DEF CallerGone, TypeOK, dispatcher, Messages, SentOnce, CompletedHolds, EnqueuedIsNew,
                QueuedIsNew, UnsentIsNew
  <2>3. CountsExact'
    BY <1>3, KeepsSlots DEF CallerGone, Occupied, dispatcher, call
  <2> QED
    BY <2>1, <2>2, <2>3
<1>4. CASE Reply(t) \/ TaskPanics(t)
  <2> USE <1>4 DEF Reply, TaskPanics
  <2>0. run[t] = "running"
    OBVIOUS
  <2>1. TypeOK'
    BY DEF TypeOK, CallerState, RunState, dispatcher, call
  <2>2. \A u \in Tasks : /\ (u # t => run'[u] = run[u]) /\ run'[t] \in {"replied", "panicked"}
                         /\ caller'[u] \in {"new", "numbered"} => caller[u] \in {"new", "numbered"}
                         /\ caller[u] \notin {"new", "numbered"} => caller'[u] \notin {"new", "numbered"}
    BY DEF TypeOK
  <2>3. SentOnce'
    BY DEF Messages, SentOnce
  <2>4. CompletedHolds'
    <3> SUFFICES ASSUME NEW i \in 1..Len(channel), channel[i].kind = "Completed"
                 PROVE  run'[channel[i].task] = "completed"
      BY DEF CompletedHolds
    <3>1. channel[i].task \in Tasks
      BY SentByTasks
    <3>2. run[channel[i].task] = "completed"
      BY DEF Messages, CompletedHolds
    <3> QED
      BY <3>1, <3>2, <2>0, <2>2
  <2>5. EnqueuedIsNew'
    <3> SUFFICES ASSUME NEW i \in 1..Len(channel), channel[i].kind = "Enqueue"
                 PROVE  /\ run'[channel[i].task] = "idle" /\ channel[i].task \notin queue
                        /\ caller'[channel[i].task] \notin {"new", "numbered"}
      BY DEF EnqueuedIsNew, dispatcher
    <3>1. channel[i].task \in Tasks
      BY SentByTasks
    <3>2. /\ run[channel[i].task] = "idle" /\ channel[i].task \notin queue
          /\ caller[channel[i].task] \notin {"new", "numbered"}
      BY DEF Messages, EnqueuedIsNew
    <3> QED
      BY <3>1, <3>2, <2>0, <2>2
  <2>6. QueuedIsNew' /\ UnsentIsNew'
    BY <2>0, <2>2 DEF Messages, QueuedIsNew, UnsentIsNew, TypeOK, dispatcher
  <2>7. Occupied' = Occupied
    BY <2>0, <2>2 DEF Occupied
  <2>8. CountsExact'
    BY <2>7, KeepsSlots DEF dispatcher, call
  <2> QED
    BY <2>1, <2>3, <2>4, <2>5, <2>6, <2>8 DEF Messages
<1>5. CASE SendCompleted(t)
  <2> DEFINE m == [kind |-> "Completed", task |-> t]
  <2> USE <1>5 DEF SendCompleted
  <2>0. m \in Message /\ m.kind = "Completed" /\ m.task = t /\ channel' = Append(channel, m)
    BY DEF Message
  <2>1. TypeOK'
    BY <2>0, Appended DEF TypeOK, RunState, dispatcher, call
  <2>2. \A i \in 1..Len(channel) : channel[i] # m
    BY DEF Messages, CompletedHolds
  <2>3. SentOnce'
    <3> SUFFICES ASSUME NEW i \in 1..Len(channel'), NEW j \in 1..Len(channel'),
                        channel'[i] = channel'[j]
                 PROVE  i = j
      BY DEF SentOnce
    <3>1. /\ i \in 1..Len(channel) => channel'[i] = channel[i] /\ channel'[i] # m
          /\ j \in 1..Len(channel) => channel'[j] = channel[j] /\ channel'[j] # m
      BY <2>0, <2>2, Appended
    <3>2. /\ i \in 1..Len(channel) \/ (i = Len(channel') /\ channel'[i] = m)
          /\ j \in 1..Len(channel) \/ (j = Len(channel') /\ channel'[j] = m)
      BY <2>0, Appended
    <3> QED
      BY <3>1, <3>2 DEF Messages, SentOnce
  <2>4. CompletedHolds'
    BY <2>0, Appended DEF Messages, CompletedHolds, TypeOK, Message
  <2>5. EnqueuedIsNew'
    BY <2>0, Appended DEF Messages, EnqueuedIsNew, TypeOK, Message, dispatcher
  <2>6. QueuedIsNew' /\ UnsentIsNew'
    BY DEF Messages, QueuedIsNew, UnsentIsNew, TypeOK, dispatcher
  <2>7. CountsExact'
    BY KeepsSlots DEF Occupied, TypeOK, dispatcher, call
  <2> QED
    BY <2>1, <2>3, <2>4, <2>5, <2>6, <2>7 DEF Messages
<1> QED
  BY <1>1, <1>2, <1>3, <1>4, <1>5

-----------------------------------------------------------------------------
(* IInv is an invariant of the specification.                               *)
THEOREM Invariance == Spec => []IInv
<1>1. IInv /\ [Next]_vars => IInv'
  <2>1. IInv /\ Next => IInv'
    BY DispatchStep, TaskStep DEF Next
  <2>2. IInv /\ UNCHANGED vars => IInv'
    <3> SUFFICES ASSUME IInv, UNCHANGED vars PROVE IInv'
      OBVIOUS
    <3>1. TypeOK'
      BY DEF vars, IInv, TypeOK
    <3>2. Messages'
      BY DEF vars, IInv, Messages, SentOnce, CompletedHolds, EnqueuedIsNew, QueuedIsNew, UnsentIsNew
    <3>3. CountsExact'
      BY KeepsSlots DEF vars, IInv, Occupied
    <3> QED
      BY <3>1, <3>2, <3>3 DEF IInv
  <2> QED
    BY <2>1, <2>2
<1> QED
  BY InitIInv, <1>1, PTL DEF Spec

(* Every variable keeps its type; the total and each domain's count never   *)
(* exceed their limits.                                                     *)
THEOREM TypeCorrect == Spec => []TypeOK
<1>1. IInv => TypeOK
  BY DEF IInv
<1> QED
  BY Invariance, <1>1, PTL

(* The counters are exactly the slots taken, so saturating_sub never hides  *)
(* an underflow and no completion is counted twice.                         *)
THEOREM CountersExact == Spec => []CountsExact
<1>1. IInv => CountsExact
  BY DEF IInv
<1> QED
  BY Invariance, <1>1, PTL

(* Never more tasks run than the limits allow, in total and in each domain. *)
THEOREM LimitsHold == Spec => []LimitsRespected
<1>1. IInv => LimitsRespected
  <2> SUFFICES ASSUME IInv PROVE LimitsRespected
    OBVIOUS
  <2> DEFINE Running == {t \in Tasks : run[t] = "running"}
  <2>1. Cardinality(Running) <= Cardinality(Occupied) /\ Cardinality(Running) \in Nat
    <3>1. Running \subseteq Occupied
      BY DEF Occupied
    <3> QED
      BY <3>1, OccupiedFinite, FS_Subset, FS_CardinalityType
  <2>2. ASSUME NEW d \in Domains
        PROVE  Cardinality(RunningIn(d)) <= Cardinality(OccupiedIn(d)) /\ Cardinality(RunningIn(d)) \in Nat
    <3>1. RunningIn(d) \subseteq OccupiedIn(d)
      BY DEF Occupied, OccupiedIn, RunningIn
    <3> QED
      BY <3>1, OccupiedFinite, FS_Subset, FS_CardinalityType
  <2>3. Cardinality(Running) <= TotalLimit
    BY <2>1, LimitsAssumption DEF IInv, CountsExact, TypeOK
  <2>4. ASSUME NEW d \in Domains PROVE Cardinality(RunningIn(d)) <= Limit[d]
    BY <2>2, LimitsAssumption, OccupiedFinite DEF IInv, CountsExact, TypeOK
  <2> QED
    BY <2>3, <2>4 DEF LimitsRespected
<1> QED
  BY Invariance, <1>1, PTL

-----------------------------------------------------------------------------
\* The numbers that fetch_add gave out: below the next one, and nobody's twice.
Numbered ==
    /\ \A t \in Tasks : caller[t] # "new" => sequence[t] < nextSeq
    /\ \A t, u \in Tasks : caller[t] # "new" /\ caller[u] # "new" /\ sequence[t] = sequence[u] => t = u

(* Only a call that takes its number touches the numbers, and it takes one  *)
(* that nobody has.                                                         *)
LEMMA NumberedStep ==
  ASSUME TypeOK, Numbered, [Next]_vars
  PROVE  Numbered'
<1>1. CASE \E t \in Tasks : TakeNumber(t)
  BY <1>1 DEF TakeNumber, TypeOK, Numbered
<1>2. ASSUME UNCHANGED <<sequence, nextSeq>>, \A t \in Tasks : caller'[t] # "new" => caller[t] # "new"
      PROVE  Numbered'
  BY <1>2 DEF TypeOK, Numbered
<1>3. CASE Dispatch
  <2>1. UNCHANGED <<sequence, nextSeq, caller>>
    BY <1>3 DEF Dispatch, ReceiveEnqueue, ReceiveCompleted, Filled, Start, call
  <2> QED
    BY <1>2, <2>1
<1>4. ASSUME NEW t \in Tasks, SendEnqueue(t) \/ CallerGone(t) \/ Reply(t) \/ SendCompleted(t) \/ TaskPanics(t)
      PROVE  Numbered'
  <2>1. UNCHANGED <<sequence, nextSeq>>
    BY <1>4 DEF SendEnqueue, CallerGone, Reply, SendCompleted, TaskPanics, call
  <2>2. \A u \in Tasks : caller'[u] # "new" => caller[u] # "new"
    BY <1>4 DEF SendEnqueue, CallerGone, Reply, SendCompleted, TaskPanics, TypeOK
  <2> QED
    BY <1>2, <2>1, <2>2
<1>5. CASE UNCHANGED vars
  BY <1>5, <1>2 DEF vars
<1> QED
  BY <1>1, <1>3, <1>4, <1>5 DEF Next

(* The heap order has a first element among those that may start: the one   *)
(* that has the fewest before it.                                           *)
LEMMA FirstExists ==
  ASSUME TypeOK, QueuedIsNew, Numbered, Runnable # {}
  PROVE  \E t \in queue : IsNext(t)
<1> DEFINE Ahead(t) == {u \in Runnable : Before(u, t)}
           Fronts == {Ahead(t) : t \in Runnable}
<1>1. Runnable \subseteq Tasks /\ IsFiniteSet(Runnable)
  <2>1. Runnable \subseteq Tasks
    BY DEF Runnable, TypeOK
  <2> QED
    BY <2>1, TasksAssumption, FS_Subset
<1>2. \A t \in Tasks : priority[t] \in Int /\ sequence[t] \in Nat
  BY PrioritiesAssumption DEF TypeOK
<1>3. Fronts \subseteq FiniteSubsetsOf(Runnable) /\ Fronts # {}
  <2>1. Fronts \subseteq SUBSET Runnable /\ Fronts # {}
    OBVIOUS
  <2> HIDE DEF Fronts
  <2> QED
    BY <1>1, <2>1, FS_FiniteSubsetsOfFinite
<1>4. PICK A \in Fronts : \A B \in Fronts : ~ (<<B, A>> \in StrictSubsetOrdering(Runnable))
  <2> HIDE DEF Fronts
  <2> QED
    BY <1>1, <1>3, FS_StrictSubsetOrderingWellFounded, WFMin
<1>5. PICK t \in Runnable : A = Ahead(t)
  BY <1>4
<1>6. ASSUME NEW u \in Runnable, u # t
      PROVE  Before(t, u)
  <2>1. Before(t, u) \/ Before(u, t)
    <3>1. t \in queue /\ u \in queue
      BY DEF Runnable
    <3>2. sequence[t] # sequence[u]
      BY <1>1, <1>6, <3>1 DEF QueuedIsNew, Numbered
    <3> QED
      BY <1>1, <1>2, <3>2 DEF Before
  <2>2. ASSUME Before(u, t) PROVE FALSE
    <3>1. Ahead(u) \subseteq Ahead(t)
      BY <1>1, <1>2, <2>2 DEF Before
    <3>2. u \in Ahead(t) /\ u \notin Ahead(u)
      BY <1>1, <1>2, <2>2 DEF Before
    <3>3. Ahead(u) \in Fronts
      OBVIOUS
    <3>4. Ahead(u) \in SUBSET Runnable /\ Ahead(t) \in SUBSET Runnable
      OBVIOUS
    <3> HIDE DEF Ahead, Fronts
    <3>5. <<Ahead(u), Ahead(t)>> \in StrictSubsetOrdering(Runnable)
      BY <3>1, <3>2, <3>4 DEF StrictSubsetOrdering
    <3> QED
      BY <3>3, <3>5, <1>4, <1>5
  <2> QED
    BY <2>1, <2>2
<1>7. IsNext(t)
  BY <1>6 DEF IsNext
<1> QED
  BY <1>7 DEF Runnable

(* No step but the end of the dispatcher's inner loop can leave a slot idle *)
(* at its recv(): the others leave the queue and the counts alone there.    *)
LEMMA CapacityStep ==
  ASSUME IInv, Numbered, NoIdleCapacity, [Next]_vars
  PROVE  NoIdleCapacity'
<1>1. CASE ReceiveEnqueue \/ ReceiveCompleted \/ \E t \in Tasks : Start(t)
  BY <1>1 DEF ReceiveEnqueue, ReceiveCompleted, Start, NoIdleCapacity
<1>2. CASE Filled
  <2>1. Runnable' = Runnable
    BY <1>2 DEF Filled, Runnable, HasRoom, call
  <2>2. total >= TotalLimit \/ Runnable = {}
    BY <1>2, FirstExists DEF Filled, IInv, Messages
  <2> QED
    BY <1>2, <2>1, <2>2 DEF Filled, NoIdleCapacity
<1>3. ASSUME NEW t \in Tasks,
             TakeNumber(t) \/ SendEnqueue(t) \/ CallerGone(t) \/ Reply(t) \/ SendCompleted(t) \/ TaskPanics(t)
      PROVE  NoIdleCapacity'
  BY <1>3 DEF TakeNumber, SendEnqueue, CallerGone, Reply, SendCompleted, TaskPanics, call, dispatcher,
              NoIdleCapacity, Runnable, HasRoom
<1>4. CASE UNCHANGED vars
  BY <1>4 DEF vars, NoIdleCapacity, Runnable, HasRoom
<1> QED
  BY <1>1, <1>2, <1>3, <1>4 DEF Next, Dispatch

(* The dispatcher never goes back to recv() with a slot free and a task     *)
(* that could use it (L233-254).                                            *)
THEOREM CapacityIsUsed == Spec => []NoIdleCapacity
<1>1. Init => Numbered /\ NoIdleCapacity
  BY DEF Init, Numbered, NoIdleCapacity, Runnable
<1>2. IInv /\ Numbered /\ NoIdleCapacity /\ [Next]_vars => Numbered' /\ NoIdleCapacity'
  BY NumberedStep, CapacityStep DEF IInv
<1> QED
  BY <1>1, <1>2, Invariance, PTL DEF Spec

-----------------------------------------------------------------------------
Arrived(t) == t \in queue \/ run[t] # "idle"
Enqueued(t) == [kind |-> "Enqueue", task |-> t]

\* What was sent arrives, and in the order of sending; so do the calls that
\* were sent before a given one.
EarlierIsSent == \A t \in Tasks : /\ earlier[t] # {} => Sent(t)
                                  /\ \A u \in earlier[t] : Sent(u) /\ domain[u] = domain[t]
Delivered == \A t \in Tasks :
    Sent(t) => Arrived(t) \/ \E i \in 1..Len(channel) : channel[i] = Enqueued(t)
InOrder == \A t \in Tasks : \A u \in earlier[t] :
    /\ Arrived(t) => Arrived(u)
    /\ \A i, j \in 1..Len(channel) : channel[i] = Enqueued(u) /\ channel[j] = Enqueued(t) => i < j

SendOrder == EarlierIsSent /\ Delivered /\ InOrder

(* A step that leaves the channel alone, and starts only what has arrived,  *)
(* keeps the order.                                                         *)
LEMMA KeepsOrder ==
  ASSUME SendOrder, channel' = channel, earlier' = earlier, domain' = domain,
         \A t \in Tasks : (Sent(t)' <=> Sent(t)) /\ (Arrived(t)' <=> Arrived(t)),
         earlier \in [Tasks -> SUBSET Tasks]
  PROVE  SendOrder'
<1>1. EarlierIsSent'
  BY DEF SendOrder, EarlierIsSent
<1>2. Delivered'
  BY DEF SendOrder, Delivered, Enqueued
<1>3. InOrder'
  BY DEF SendOrder, InOrder, Enqueued
<1> QED
  BY <1>1, <1>2, <1>3 DEF SendOrder

(* A message is sent: it is the last in the channel, and if it is a call,   *)
(* every call of its domain sent so far is before it or has arrived.        *)
LEMMA OrderSent ==
  ASSUME IInv, SendOrder, NEW t \in Tasks, SendEnqueue(t) \/ SendCompleted(t)
  PROVE  SendOrder'
<1> USE DEF IInv
<1>1. CASE SendEnqueue(t)
  <2> USE <1>1 DEF SendEnqueue, dispatcher
  <2>0. Enqueued(t) \in Message /\ channel' = Append(channel, Enqueued(t))
    BY DEF Message, Enqueued
  <2>1. /\ ~Sent(t) /\ earlier[t] = {} /\ ~Arrived(t)
        /\ \A i \in 1..Len(channel) : channel[i] # Enqueued(t)
    <3>1. ~Sent(t) /\ earlier[t] = {}
      BY DEF Sent, SendOrder, EarlierIsSent
    <3>2. ~Arrived(t)
      BY DEF Arrived, Messages, QueuedIsNew, UnsentIsNew
    <3>3. \A i \in 1..Len(channel) : channel[i] # Enqueued(t)
      BY DEF Messages, EnqueuedIsNew, Enqueued
    <3> QED
      BY <3>1, <3>2, <3>3
  <2>2. /\ \A u \in Tasks : Sent(u)' <=> Sent(u) \/ u = t
        /\ \A u \in Tasks : Arrived(u)' <=> Arrived(u)
        /\ \A u \in Tasks \ {t} : earlier'[u] = earlier[u]
        /\ earlier'[t] = {u \in Tasks : Sent(u) /\ domain[u] = domain[t]}
    BY DEF Sent, Arrived, TypeOK
  <2>3. EarlierIsSent'
    BY <2>1, <2>2 DEF SendOrder, EarlierIsSent, TypeOK
  <2>4. Len(channel') \in 1..Len(channel') /\ \A i \in 1..Len(channel) : i \in 1..Len(channel') /\ i < Len(channel')
    BY <2>0, Appended DEF TypeOK
  <2>5. Delivered'
    <3> SUFFICES ASSUME NEW u \in Tasks, Sent(u)'
                 PROVE  Arrived(u)' \/ \E i \in 1..Len(channel') : channel'[i] = Enqueued(u)
      BY DEF Delivered, Enqueued
    <3>1. CASE u = t
      BY <3>1, <2>0, <2>4, Appended
    <3>2. CASE u # t
      BY <3>2, <2>0, <2>2, <2>4, Appended DEF SendOrder, Delivered
    <3> QED
      BY <3>1, <3>2
  <2>6. InOrder'
    <3> SUFFICES ASSUME NEW w \in Tasks, NEW u \in earlier'[w]
                 PROVE  /\ Arrived(w)' => Arrived(u)'
                        /\ \A i, j \in 1..Len(channel') :
                              channel'[i] = Enqueued(u) /\ channel'[j] = Enqueued(w) => i < j
      BY DEF InOrder, Enqueued
    <3>0. u \in Tasks /\ u # t
      BY <2>1, <2>2 DEF SendOrder, EarlierIsSent, TypeOK
    <3>1. ASSUME NEW i \in 1..Len(channel'), channel'[i] = Enqueued(u)
          PROVE  i \in 1..Len(channel) /\ channel[i] = Enqueued(u)
      <4>1. Enqueued(u) # Enqueued(t)
        BY <3>0 DEF Enqueued
      <4> QED
        BY <4>1, <3>1, <2>0, Appended
    <3>2. CASE w = t
      <4>1. ASSUME NEW j \in 1..Len(channel'), channel'[j] = Enqueued(t) PROVE j = Len(channel')
        BY <4>1, <2>0, <2>1, Appended
      <4> QED
        BY <3>1, <3>2, <4>1, <2>1, <2>2, <2>4
    <3>3. CASE w # t
      <4>1. ASSUME NEW j \in 1..Len(channel'), channel'[j] = Enqueued(w)
            PROVE  j \in 1..Len(channel) /\ channel[j] = Enqueued(w)
        <5>1. Enqueued(w) # Enqueued(t)
          BY <3>3 DEF Enqueued
        <5> QED
          BY <5>1, <4>1, <2>0, Appended
      <4>2. u \in earlier[w]
        BY <3>3, <2>2
      <4> QED
        BY <3>0, <3>1, <4>1, <4>2, <2>2 DEF SendOrder, InOrder
    <3> QED
      BY <3>2, <3>3
  <2> QED
    BY <2>3, <2>5, <2>6 DEF SendOrder
<1>2. CASE SendCompleted(t)
  <2> DEFINE m == [kind |-> "Completed", task |-> t]
  <2> USE <1>2 DEF SendCompleted, dispatcher, call
  <2>0. m \in Message /\ channel' = Append(channel, m) /\ \A u : m # Enqueued(u)
    BY DEF Message, Enqueued
  <2>1. \A u \in Tasks : (Sent(u)' <=> Sent(u)) /\ (Arrived(u)' <=> Arrived(u))
    BY DEF Sent, Arrived, TypeOK
  <2> HIDE DEF m
  <2>2. \A u : \A i \in 1..Len(channel') :
           channel'[i] = Enqueued(u) => i \in 1..Len(channel) /\ channel[i] = Enqueued(u)
    BY <2>0, Appended
  <2>3. \A i \in 1..Len(channel) : i \in 1..Len(channel') /\ channel'[i] = channel[i]
    BY <2>0, Appended DEF TypeOK
  <2>4. EarlierIsSent'
    BY <2>1 DEF SendOrder, EarlierIsSent, TypeOK
  <2>5. Delivered'
    BY <2>1, <2>3 DEF SendOrder, Delivered, Enqueued
  <2>6. InOrder'
    <3> SUFFICES ASSUME NEW w \in Tasks, NEW u \in earlier[w]
                 PROVE  /\ Arrived(w)' => Arrived(u)'
                        /\ \A i, j \in 1..Len(channel') :
                              channel'[i] = Enqueued(u) /\ channel'[j] = Enqueued(w) => i < j
      BY DEF InOrder, Enqueued
    <3>1. u \in Tasks
      BY DEF TypeOK
    <3> QED
      BY <3>1, <2>1, <2>2 DEF SendOrder, InOrder
  <2> QED
    BY <2>4, <2>5, <2>6 DEF SendOrder
<1> QED
  BY <1>1, <1>2

(* A message is received: if it is a call, those sent before it are no      *)
(* longer in the channel, and so have arrived.                              *)
LEMMA OrderReceived ==
  ASSUME IInv, SendOrder, ReceiveEnqueue \/ ReceiveCompleted
  PROVE  SendOrder'
<1> DEFINE t == Head(channel).task
<1> USE DEF IInv
<1>0. /\ channel # <<>> /\ channel' = Tail(channel)
      /\ UNCHANGED <<caller, earlier, domain>> /\ t \in Tasks
  <2>1. channel # <<>> /\ channel' = Tail(channel) /\ UNCHANGED <<caller, earlier, domain>>
    BY DEF ReceiveEnqueue, ReceiveCompleted, call
  <2> QED
    BY <2>1, Received DEF Message
<1>1. /\ \A u \in Tasks : Sent(u)' <=> Sent(u)
      /\ \A u \in Tasks : Arrived(u) => Arrived(u)'
      /\ \A u \in Tasks : Arrived(u)' => Arrived(u) \/ channel[1] = Enqueued(u)
      /\ \A u \in Tasks : channel[1] = Enqueued(u) => Arrived(u)'
  <2>1. \A u \in Tasks : Sent(u)' <=> Sent(u)
    BY <1>0 DEF Sent
  <2>2. CASE ReceiveEnqueue
    <3>1. channel[1] = Enqueued(t) /\ queue' = queue \cup {t} /\ run' = run
      BY <2>2, <1>0, Received DEF ReceiveEnqueue, Message, Enqueued
    <3>2. \A u : channel[1] = Enqueued(u) => u = t
      BY <1>0, Received DEF Enqueued
    <3> QED
      BY <2>1, <3>1, <3>2 DEF Arrived
  <2>3. CASE ReceiveCompleted
    <3>1. channel[1].kind = "Completed" /\ run[t] = "completed"
      BY <2>3, <1>0, Received DEF ReceiveCompleted, Messages, CompletedHolds
    <3>2. \A u \in Tasks : channel[1] # Enqueued(u) /\ (Arrived(u)' <=> Arrived(u))
      BY <2>3, <3>1 DEF ReceiveCompleted, Arrived, Enqueued, TypeOK
    <3> QED
      BY <2>1, <3>2
  <2> QED
    BY <2>2, <2>3
<1>2. \A i \in 1..Len(channel') : i + 1 \in 1..Len(channel) /\ channel'[i] = channel[i + 1]
  BY <1>0, Received
<1>3. \A i \in 1..Len(channel) : i = 1 \/ (i - 1 \in 1..Len(channel') /\ channel'[i - 1] = channel[i])
  BY <1>0, Received DEF TypeOK
<1>4. 1 \in 1..Len(channel) /\ Len(channel) \in Nat
  BY <1>0, Received DEF TypeOK
<1>5. EarlierIsSent'
  BY <1>0, <1>1 DEF SendOrder, EarlierIsSent, TypeOK
<1>6. Delivered'
  <2> SUFFICES ASSUME NEW u \in Tasks, Sent(u), ~Arrived(u)'
               PROVE  \E i \in 1..Len(channel') : channel'[i] = Enqueued(u)
    BY <1>1 DEF Delivered, Enqueued
  <2>1. PICK i \in 1..Len(channel) : channel[i] = Enqueued(u)
    BY <1>1 DEF SendOrder, Delivered
  <2> QED
    BY <2>1, <1>1, <1>3
<1>7. InOrder'
  <2> SUFFICES ASSUME NEW w \in Tasks, NEW u \in earlier[w]
               PROVE  /\ Arrived(w)' => Arrived(u)'
                      /\ \A i, j \in 1..Len(channel') :
                            channel'[i] = Enqueued(u) /\ channel'[j] = Enqueued(w) => i < j
    BY <1>0 DEF InOrder, Enqueued
  <2>1. u \in Tasks /\ Sent(u)
    BY DEF SendOrder, EarlierIsSent, TypeOK
  <2>2. ASSUME Arrived(w)' PROVE Arrived(u)'
    <3>1. CASE Arrived(w)
      BY <3>1, <2>1, <1>1 DEF SendOrder, InOrder
    <3>2. CASE channel[1] = Enqueued(w)
      <4>1. ~ \E i \in 1..Len(channel) : channel[i] = Enqueued(u)
        BY <3>2, <1>4 DEF SendOrder, InOrder
      <4>2. Arrived(u)
        BY <4>1, <2>1 DEF SendOrder, Delivered
      <4> QED
        BY <4>2, <2>1, <1>1
    <3> QED
      BY <2>2, <3>1, <3>2, <1>1
  <2>3. ASSUME NEW i \in 1..Len(channel'), NEW j \in 1..Len(channel'),
               channel'[i] = Enqueued(u), channel'[j] = Enqueued(w)
        PROVE  i < j
    <3>1. i + 1 < j + 1
      BY <2>3, <1>2 DEF SendOrder, InOrder
    <3> QED
      BY <3>1
  <2> QED
    BY <2>2, <2>3
<1> QED
  BY <1>5, <1>6, <1>7 DEF SendOrder

(* Every step keeps the order of sending.                                   *)
LEMMA SendOrderStep ==
  ASSUME IInv, SendOrder, [Next]_vars
  PROVE  SendOrder'
<1> USE DEF IInv
<1>1. CASE Filled \/ UNCHANGED vars
  <2>1. UNCHANGED <<channel, earlier, domain, caller, queue, run>>
    BY <1>1 DEF Filled, call, vars
  <2> QED
    BY <2>1, KeepsOrder DEF Sent, Arrived, TypeOK
<1>2. ASSUME NEW t \in Tasks, Start(t) PROVE SendOrder'
  <2>1. t \in queue /\ UNCHANGED <<channel, earlier, domain, caller>>
    BY <1>2 DEF Start, IsNext, Runnable, call
  <2>2. \A u \in Tasks : Arrived(u)' <=> Arrived(u)
    BY <1>2, <2>1 DEF Start, Arrived, TypeOK
  <2> QED
    BY <2>1, <2>2, KeepsOrder DEF Sent, TypeOK
<1>3. ASSUME NEW t \in Tasks, TakeNumber(t) \/ CallerGone(t) \/ Reply(t) \/ TaskPanics(t)
      PROVE  SendOrder'
  <2>1. UNCHANGED <<channel, earlier, domain, queue>>
    BY <1>3 DEF TakeNumber, CallerGone, Reply, TaskPanics, call, dispatcher
  <2>2. \A u \in Tasks : (Sent(u)' <=> Sent(u)) /\ (run'[u] = "idle" <=> run[u] = "idle")
    BY <1>3 DEF TakeNumber, CallerGone, Reply, TaskPanics, Sent, TypeOK
  <2> QED
    BY <2>1, <2>2, KeepsOrder DEF Arrived, TypeOK
<1> QED
  BY <1>1, <1>2, <1>3, OrderSent, OrderReceived DEF Next, Dispatch

(* A task that starts leaves behind in the heap nobody that both orders put *)
(* before it: who was sent earlier has arrived, and has room if it has; and *)
(* who is started stays started.                                            *)
LEMMA OvertakingStep ==
  ASSUME IInv, SendOrder, NoOvertaking, [Next]_vars
  PROVE  NoOvertaking'
<1> USE DEF IInv
<1>1. ASSUME UNCHANGED <<earlier, priority>>,
             \A t \in Tasks : run'[t] # "idle" => run[t] # "idle" /\ sequence'[t] = sequence[t],
             \A t \in Tasks : run[t] # "idle" => run'[t] # "idle",
             \A t \in Tasks : Sent(t) => sequence'[t] = sequence[t]
      PROVE  NoOvertaking'
  <2> SUFFICES ASSUME NEW t \in Tasks, run'[t] # "idle", NEW u \in earlier[t], Behind(t, u)'
               PROVE  run'[u] # "idle"
    BY <1>1 DEF NoOvertaking
  <2>1. u \in Tasks /\ Sent(u)
    BY DEF SendOrder, EarlierIsSent, TypeOK
  <2>2. Behind(t, u)
    BY <1>1, <2>1 DEF Behind
  <2> QED
    BY <1>1, <2>1, <2>2 DEF NoOvertaking
<1>2. ASSUME NEW t \in Tasks, Start(t) PROVE NoOvertaking'
  <2>0. /\ UNCHANGED <<earlier, priority, sequence>> /\ IsNext(t)
        /\ \A w \in Tasks : run'[w] = IF w = t THEN "running" ELSE run[w]
    BY <1>2 DEF Start, call, TypeOK
  <2> SUFFICES ASSUME NEW w \in Tasks, run'[w] # "idle", NEW u \in earlier[w], Behind(w, u)
               PROVE  run'[u] # "idle"
    BY <2>0 DEF NoOvertaking, Behind
  <2>1. u \in Tasks /\ domain[u] = domain[w]
    BY DEF SendOrder, EarlierIsSent, TypeOK
  <2>2. CASE w # t
    BY <2>0, <2>1, <2>2 DEF NoOvertaking
  <2>3. CASE w = t
    <3>1. t \in queue /\ HasRoom(domain[t])
      BY <2>0 DEF IsNext, Runnable
    <3>2. u \in queue \/ run[u] # "idle"
      BY <3>1, <2>3 DEF SendOrder, InOrder, Arrived
    <3>3. ASSUME u \in queue, u # t PROVE FALSE
      <4>1. u \in Runnable
        BY <3>1, <3>3, <2>1, <2>3 DEF Runnable
      <4>2. Before(t, u)
        BY <4>1, <3>3, <2>0 DEF IsNext
      <4>3. /\ priority[t] \in Int /\ priority[u] \in Int
            /\ sequence[t] \in Nat /\ sequence[u] \in Nat
        BY <2>1, PrioritiesAssumption DEF TypeOK
      <4> QED
        BY <4>2, <4>3, <2>3 DEF Before, Behind
    <3> QED
      BY <3>2, <3>3, <2>0, <2>1
  <2> QED
    BY <2>2, <2>3
<1>3. CASE ReceiveEnqueue \/ ReceiveCompleted \/ Filled \/ UNCHANGED vars
  <2>1. UNCHANGED <<earlier, priority, sequence>>
    BY <1>3 DEF ReceiveEnqueue, ReceiveCompleted, Filled, call, vars
  <2>2. \A t \in Tasks : run'[t] = "idle" <=> run[t] = "idle"
    <3>1. CASE ReceiveCompleted
      <4>1. Head(channel) = channel[1] /\ 1 \in 1..Len(channel)
        BY <3>1, Received DEF ReceiveCompleted
      <4>2. run[Head(channel).task] = "completed"
        BY <3>1, <4>1 DEF ReceiveCompleted, Messages, CompletedHolds
      <4> QED
        BY <3>1, <4>2 DEF ReceiveCompleted, TypeOK
    <3>2. CASE ReceiveEnqueue \/ Filled \/ UNCHANGED vars
      BY <3>2 DEF ReceiveEnqueue, Filled, vars
    <3> QED
      BY <1>3, <3>1, <3>2
  <2> QED
    BY <2>1, <2>2, <1>1
<1>4. ASSUME NEW t \in Tasks, CallerGone(t) \/ Reply(t) \/ SendCompleted(t) \/ TaskPanics(t)
      PROVE  NoOvertaking'
  <2>1. UNCHANGED <<earlier, priority, sequence>>
    BY <1>4 DEF CallerGone, Reply, SendCompleted, TaskPanics, call
  <2>2. \A u \in Tasks : run'[u] = "idle" <=> run[u] = "idle"
    BY <1>4 DEF CallerGone, Reply, SendCompleted, TaskPanics, TypeOK
  <2> QED
    BY <2>1, <2>2, <1>1
<1>5. ASSUME NEW t \in Tasks, TakeNumber(t) PROVE NoOvertaking'
  <2>1. ~Sent(t) /\ run[t] = "idle" /\ UNCHANGED <<earlier, priority, run>>
    BY <1>5 DEF TakeNumber, Sent, Messages, UnsentIsNew
  <2>2. \A u \in Tasks : u # t => sequence'[u] = sequence[u]
    BY <1>5 DEF TakeNumber, TypeOK
  <2> QED
    BY <2>1, <2>2, <1>1
<1>6. ASSUME NEW t \in Tasks, SendEnqueue(t) PROVE NoOvertaking'
  <2>1. run[t] = "idle" /\ UNCHANGED <<priority, sequence, run>>
    BY <1>6 DEF SendEnqueue, Messages, UnsentIsNew
  <2>2. \A w \in Tasks : w # t => earlier'[w] = earlier[w]
    BY <1>6 DEF SendEnqueue, TypeOK
  <2> SUFFICES ASSUME NEW w \in Tasks, run[w] # "idle", NEW u \in earlier[w], Behind(w, u)
               PROVE  run[u] # "idle"
    BY <2>1, <2>2 DEF NoOvertaking, Behind
  <2> QED
    BY DEF NoOvertaking
<1> QED
  BY <1>2, <1>3, <1>4, <1>5, <1>6 DEF Next, Dispatch

(* A call sent after another of its domain, and behind it in the heap's     *)
(* order, is never started before it: numbers that reach the dispatcher out *)
(* of sequence let only those pass that were sent earlier (L176, L183).     *)
THEOREM OrderIsKept == Spec => []NoOvertaking
<1>1. Init => SendOrder /\ NoOvertaking
  <2> SUFFICES ASSUME Init PROVE SendOrder /\ NoOvertaking
    OBVIOUS
  <2>1. /\ \A t \in Tasks : ~Sent(t) /\ earlier[t] = {} /\ run[t] = "idle"
    BY DEF Init, Sent
  <2> QED
    BY <2>1 DEF SendOrder, EarlierIsSent, Delivered, InOrder, NoOvertaking
<1>2. IInv /\ SendOrder /\ NoOvertaking /\ [Next]_vars => SendOrder' /\ NoOvertaking'
  BY SendOrderStep, OvertakingStep
<1> QED
  BY <1>1, <1>2, Invariance, PTL DEF Spec
=============================================================================
