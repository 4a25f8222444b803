--------------------------- MODULE ApprovalProofs ---------------------------
(***************************************************************************)
(* For any number of calls and of clients: one decision per call counts,   *)
(* and `pending` holds exactly the calls that wait for one.  The invariant *)
(* behind both ties the entry in `pending` to the channel of its call: as  *)
(* long as the entry is there nobody was answered Ok and the channel is    *)
(* empty, so taking the entry out is what makes a decision the only one.   *)
(*                                                                         *)
(* Then the OODA controller, for any limits and any plans: no replan loses *)
(* or moves what was done, and the reason it gives is true; and a session, *)
(* for any number of runs: its transcript tells what each of them did.     *)
(***************************************************************************)
EXTENDS AgentControl, FiniteSetTheorems, WellFoundedInduction, TLAPS

Untouched(c) == c \notin pending /\ mail[c] = "none" /\ acks[c] = <<>>

\* A call that has not registered is in nobody's reach.
BeforeEntry == \A c \in Calls :
    stage[c] \in {"new", "started", "announced", "registering"} => Untouched(c)

\* The entry is the right to one acknowledged decision.
EntryUnused == \A c \in Calls : c \in pending => mail[c] = "none" /\ acks[c] = <<>>

\* The timeout fires only while the channel is empty, and nobody sends after.
ExpiredEmpty == \A c \in Calls : stage[c] = "expired" => mail[c] = "none"

OnlySettledEnd == \A c \in Calls : outcome[c] # "none" => stage[c] = "settled"

IInv == /\ TypeOK /\ BeforeEntry /\ EntryUnused /\ OnlySettledEnd /\ ExpiredEmpty
        /\ OneDecisionCounts /\ PendingIsWaiting

(* The invariant holds at first. *)
LEMMA InitIInv == Init => IInv
<1> SUFFICES ASSUME Init PROVE IInv
  OBVIOUS
<1>0. <<>> \in Seq(Decisions) /\ Len(<<>>) = 0
  OBVIOUS
<1>1. TypeOK
  BY <1>0 DEF Init, TypeOK, Stages, Outcomes
<1>2. BeforeEntry /\ EntryUnused /\ OnlySettledEnd /\ ExpiredEmpty
  BY DEF Init, BeforeEntry, EntryUnused, OnlySettledEnd, ExpiredEmpty, Untouched
<1>3. OneDecisionCounts
  <2>1. \A c \in Calls : mail[c] = "none" /\ acks[c] = <<>>
    BY DEF Init
  <2>2. \A c \in Calls : Len(acks[c]) <= 1
    <3> SUFFICES ASSUME NEW c \in Calls PROVE Len(acks[c]) <= 1
      OBVIOUS
    <3>1. Len(acks[c]) = 0
      BY <1>0, <2>1, Zenon
    <3>2. QED
      BY <3>1
  <2>3. QED
    BY <2>1, <2>2, Zenon DEF OneDecisionCounts
<1>4. PendingIsWaiting
  BY DEF Init, PendingIsWaiting
<1>5. QED
  BY <1>1, <1>2, <1>3, <1>4 DEF IInv

(* Every step keeps the types.                                              *)
LEMMA TypingStep == TypeOK /\ [Next]_vars => TypeOK'
<1> SUFFICES ASSUME TypeOK, [Next]_vars PROVE TypeOK'
  OBVIOUS
<1> USE DEF TypeOK, Stages, Outcomes, Decisions, given, Settle
<1>1. ASSUME NEW c \in Calls, StartRun(c) PROVE TypeOK'
  BY <1>1 DEF StartRun
<1>2. ASSUME NEW c \in Calls, Skip(c) PROVE TypeOK'
  BY <1>2 DEF Skip
<1>3. ASSUME NEW c \in Calls, Announce(c) PROVE TypeOK'
  BY <1>3 DEF Announce
<1>4. ASSUME NEW c \in Calls, ReadMode(c) PROVE TypeOK'
  BY <1>4 DEF ReadMode
<1>5. ASSUME NEW c \in Calls, Register(c) PROVE TypeOK'
  BY <1>5 DEF Register
<1>6. ASSUME NEW c \in Calls, NEW d \in Decisions, Resolve(c, d) PROVE TypeOK'
  BY <1>6 DEF Resolve
<1>7. ASSUME NEW c \in Calls, Receive(c) PROVE TypeOK'
  BY <1>7 DEF Receive
<1>8. ASSUME NEW c \in Calls, TimeOut(c) PROVE TypeOK'
  BY <1>8 DEF TimeOut
<1>9. ASSUME NEW c \in Calls, CleanUp(c) PROVE TypeOK'
  BY <1>9 DEF CleanUp
<1>10. ASSUME NEW c \in Calls, Drop(c) PROVE TypeOK'
  BY <1>10 DEF Drop
<1>11. ASSUME NEW m \in Modes, Configure(m) PROVE TypeOK'
  BY <1>11 DEF Configure
<1>12. CASE UNCHANGED vars
  BY <1>12 DEF vars
<1>13. QED
  BY <1>1, <1>2, <1>3, <1>4, <1>5, <1>6, <1>7, <1>8, <1>9, <1>10, <1>11, <1>12
     DEF Next, CallStep, Approve

\* OneDecisionCounts of one call.
One(c) == /\ Len(acks[c]) <= 1
          /\ mail[c] # "none" => acks[c] = <<mail[c]>>
          /\ (outcome[c] # "none" /\ mail[c] # "none") =>
                 outcome[c] = IF mail[c] = "Deny" THEN "denied" ELSE "allowed"

(* A call keeps it that is not answered, and ends only without a decision.  *)
LEMMA OneFrame ==
  ASSUME NEW c \in Calls, One(c), acks'[c] = acks[c], mail'[c] = mail[c],
         outcome'[c] = outcome[c] \/ mail[c] = "none"
  PROVE  One(c)'
<1>1. Len(acks'[c]) = Len(acks[c]) /\ <<mail'[c]>> = <<mail[c]>>
  BY Zenon
<1>2. QED
  BY <1>1, Zenon DEF One

Claims == /\ BeforeEntry /\ EntryUnused /\ OnlySettledEnd /\ ExpiredEmpty
          /\ OneDecisionCounts /\ PendingIsWaiting

(* The rest of the invariant: Resolve is the step that could break it, and  *)
(* it spends the entry that the others leave alone.                         *)
LEMMA ClaimsStep == IInv /\ [Next]_vars => Claims'
<1> SUFFICES ASSUME IInv, [Next]_vars PROVE Claims'
  OBVIOUS
<1>0. /\ TypeOK /\ BeforeEntry /\ EntryUnused /\ OnlySettledEnd /\ ExpiredEmpty
      /\ OneDecisionCounts /\ PendingIsWaiting
  BY DEF IInv
<1> USE <1>0 DEF TypeOK, Claims, BeforeEntry, EntryUnused, OnlySettledEnd, ExpiredEmpty, Untouched,
                 OneDecisionCounts, PendingIsWaiting, given, Settle
<1>1. ASSUME NEW c \in Calls, StartRun(c) PROVE Claims'
  BY <1>1 DEF StartRun
<1>2. ASSUME NEW c \in Calls, Skip(c) PROVE Claims'
  BY <1>2 DEF Skip
<1>3. ASSUME NEW c \in Calls, Announce(c) PROVE Claims'
  BY <1>3 DEF Announce
<1>4. ASSUME NEW c \in Calls, ReadMode(c) PROVE Claims'
  <2>1. BeforeEntry' /\ EntryUnused' /\ OnlySettledEnd' /\ ExpiredEmpty'
    BY <1>4 DEF ReadMode
  <2>2. PendingIsWaiting'
    BY <1>4 DEF ReadMode
  <2>3. OneDecisionCounts'
    <3>1. ASSUME NEW e \in Calls PROVE One(e)'
      <4>1. One(e)
        BY Zenon DEF One
      <4>2. acks'[e] = acks[e] /\ mail'[e] = mail[e]
        BY <1>4 DEF ReadMode
      <4>3. outcome'[e] = outcome[e] \/ mail[e] = "none"
        BY <1>4 DEF ReadMode
      <4>4. QED
        BY <4>1, <4>2, <4>3, OneFrame
    <3>2. QED
      BY <3>1, Zenon DEF One
  <2>4. QED
    BY <2>1, <2>2, <2>3
<1>5. ASSUME NEW c \in Calls, Register(c) PROVE Claims'
  BY <1>5 DEF Register
<1>6. ASSUME NEW c \in Calls, NEW d \in Decisions, Resolve(c, d) PROVE Claims'
  <2>1. c \in pending /\ mail[c] = "none" /\ acks[c] = <<>>
    BY <1>6 DEF Resolve
  <2>2. acks'[c] = <<d>> /\ Len(acks'[c]) = 1
    BY <1>6, <2>1 DEF Resolve
  <2>3. mail'[c] = IF stage[c] = "waiting" THEN d ELSE "none"
    BY <1>6, <2>1 DEF Resolve
  <2>4. \A e \in Calls \ {c} : acks'[e] = acks[e] /\ mail'[e] = mail[e] /\ (e \in pending' <=> e \in pending)
    BY <1>6 DEF Resolve
  <2>5. stage' = stage /\ outcome' = outcome /\ c \notin pending' /\ d # "none" /\ stage[c] # "settled"
    BY <1>6 DEF Resolve, Decisions
  <2>6. stage[c] \notin {"new", "started", "announced", "registering"} /\ outcome[c] = "none"
    BY <2>1, <2>5
  <2>7. BeforeEntry' /\ EntryUnused' /\ OnlySettledEnd' /\ ExpiredEmpty'
    BY <2>2, <2>3, <2>4, <2>5, <2>6
  <2>8. PendingIsWaiting'
    BY <2>2, <2>3, <2>4, <2>5, <2>6
  <2>9. OneDecisionCounts'
    <3>1. One(c)'
      <4>1. Len(acks'[c]) <= 1 /\ outcome'[c] = "none"
        BY <2>2, <2>5, <2>6
      <4>2. mail'[c] # "none" => mail'[c] = d
        BY <2>3
      <4>3. QED
        BY <4>1, <4>2, <2>2, Zenon DEF One
    <3>2. \A e \in Calls \ {c} : One(e)'
      BY <2>4, <2>5, OneFrame, Zenon DEF One
    <3>3. QED
      BY <3>1, <3>2, Zenon DEF One
  <2>10. QED
    BY <2>7, <2>8, <2>9
<1>7. ASSUME NEW c \in Calls, Receive(c) PROVE Claims'
  <2>1. BeforeEntry' /\ EntryUnused' /\ OnlySettledEnd' /\ ExpiredEmpty'
    BY <1>7 DEF Receive
  <2>2. PendingIsWaiting'
    BY <1>7 DEF Receive
  <2>3. OneDecisionCounts'
    <3>1. /\ acks' = acks /\ mail' = mail /\ mail[c] # "none"
          /\ outcome'[c] = IF mail[c] = "Deny" THEN "denied" ELSE "allowed"
          /\ \A e \in Calls \ {c} : outcome'[e] = outcome[e]
      BY <1>7 DEF Receive
    <3>2. One(c)'
      BY <3>1, Zenon DEF One
    <3>3. \A e \in Calls \ {c} : One(e)'
      BY <3>1, OneFrame, Zenon DEF One
    <3>4. QED
      BY <3>2, <3>3, Zenon DEF One
  <2>4. QED
    BY <2>1, <2>2, <2>3
<1>8. ASSUME NEW c \in Calls, TimeOut(c) PROVE Claims'
  BY <1>8 DEF TimeOut
<1>9. ASSUME NEW c \in Calls, CleanUp(c) PROVE Claims'
  <2>1. BeforeEntry' /\ EntryUnused' /\ OnlySettledEnd' /\ ExpiredEmpty'
    BY <1>9 DEF CleanUp
  <2>2. PendingIsWaiting'
    BY <1>9 DEF CleanUp
  <2>3. OneDecisionCounts'
    <3>1. ASSUME NEW e \in Calls PROVE One(e)'
      <4>1. One(e)
        BY Zenon DEF One
      <4>2. acks'[e] = acks[e] /\ mail'[e] = mail[e]
        BY <1>9 DEF CleanUp
      <4>3. outcome'[e] = outcome[e] \/ mail[e] = "none"
        BY <1>9 DEF CleanUp
      <4>4. QED
        BY <4>1, <4>2, <4>3, OneFrame
    <3>2. QED
      BY <3>1, Zenon DEF One
  <2>4. QED
    BY <2>1, <2>2, <2>3
<1>10. ASSUME NEW c \in Calls, Drop(c) PROVE Claims'
  BY <1>10 DEF Drop
<1>11. ASSUME NEW m \in Modes, Configure(m) PROVE Claims'
  BY <1>11 DEF Configure
<1>12. CASE UNCHANGED vars
  BY <1>12 DEF vars
<1>13. QED
  BY <1>1, <1>2, <1>3, <1>4, <1>5, <1>6, <1>7, <1>8, <1>9, <1>10, <1>11, <1>12
     DEF Next, CallStep, Approve

(* IInv is an invariant of the specification.                               *)
THEOREM Invariance == Spec => []IInv
<1>1. IInv /\ [Next]_vars => IInv'
  BY TypingStep, ClaimsStep DEF IInv, Claims
<1>2. QED
  BY InitIInv, <1>1, PTL DEF Spec

(* The types of the approval service.                                       *)
THEOREM TypeCorrect == Spec => []TypeOK
  BY Invariance, PTL DEF IInv

(* resolve() acknowledges at most one decision per call, and a call that    *)
(* was waiting when it was given ends by it.                                *)
THEOREM OneDecision == Spec => []OneDecisionCounts
  BY Invariance, PTL DEF IInv

(* `pending` is exact for waiting and for settled calls.                    *)
THEOREM PendingExact == Spec => []PendingIsWaiting
  BY Invariance, PTL DEF IInv

-----------------------------------------------------------------------------
(***************************************************************************)
(* The controller.  What is settled comes before what waits: a revision    *)
(* that keeps the settled steps in their order leaves each in its place.   *)
(***************************************************************************)

(* A set of naturals has a least one.                                       *)
LEMMA LeastOfNaturals ==
  ASSUME NEW S \in SUBSET Nat, S # {}
  PROVE  \E x \in S : \A y \in S : x <= y
  <1> DEFINE R == OpToRel(<, Nat)
  <1>1. \A x, y \in Nat : x < y => <<x, y>> \in R
    BY DEF OpToRel
  <1>2. IsWellFoundedOn(R, Nat)
    BY NatLessThanWellFounded
  <1> HIDE DEF R
  <1>3. PICK x \in S : \A y \in S : ~(<<y, x>> \in R)
    BY <1>2, WFMin
  <1>4. \A y \in S : x <= y
    <2> SUFFICES ASSUME NEW y \in S, ~(x <= y) PROVE FALSE
      OBVIOUS
    <2>1. x \in Nat /\ y \in Nat
      OBVIOUS
    <2>2. y < x
      BY <2>1
    <2> QED
      BY <1>1, <1>3, <2>1, <2>2
  <1> QED
    BY <1>4

(* The controller counts as FiniteSets does.                                *)
LEMMA OodaCardinality == \A S : Ooda!Cardinality(S) = Cardinality(S)
  BY DEF Ooda!Cardinality, Cardinality

(* The steps at the first n positions of a plan are its first n steps.      *)
LEMMA OnlyPrefix ==
  ASSUME NEW p \in Seq(Ooda!PlanStep), NEW n \in 0..Len(p)
  PROVE  Ooda!Only(p, 1..n) = [k \in 1..n |-> p[k]]
  <1>1. n \in Nat
    OBVIOUS
  <1>2. \A m \in Nat : Ooda!Cardinality(1..m) = m
    BY OodaCardinality, FS_Interval, SMT
  <1>3. ASSUME NEW k \in 1..n
        PROVE  (CHOOSE i \in 1..n : Ooda!Cardinality({j \in 1..n : j <= i}) = k) = k
    <2>1. \A i \in 1..n : {j \in 1..n : j <= i} = 1..i
      BY <1>1
    <2>2. \A i \in 1..n : Ooda!Cardinality({j \in 1..n : j <= i}) = i
      <3> SUFFICES ASSUME NEW i \in 1..n PROVE Ooda!Cardinality({j \in 1..n : j <= i}) = i
        OBVIOUS
      <3>1. {j \in 1..n : j <= i} = 1..i /\ i \in Nat
        BY <2>1, <1>1
      <3>2. Ooda!Cardinality(1..i) = i
        BY <3>1, <1>2
      <3> QED
        BY <3>1, <3>2
    <2> QED
      BY <2>2
  <1>4. Ooda!Only(p, 1..n) =
          [k \in 1..n |-> p[CHOOSE i \in 1..n : Ooda!Cardinality({j \in 1..n : j <= i}) = k]]
    BY <1>1, <1>2 DEF Ooda!Only
  <1> QED
    BY <1>3, <1>4

(* The step run() takes next is the first of those that wait.               *)
LEMMA NextIsFirst ==
  ASSUME Ooda!TypeOK, Ooda!PendingIn(plan) # {}
  PROVE  /\ Ooda!NextPending \in Ooda!PendingIn(plan)
         /\ \A j \in Ooda!PendingIn(plan) : Ooda!NextPending <= j
  <1>1. Ooda!PendingIn(plan) \subseteq Nat
    BY DEF Ooda!TypeOK, Ooda!PendingIn
  <1>2. \E i \in Ooda!PendingIn(plan) : \A j \in Ooda!PendingIn(plan) : i <= j
    BY <1>1, LeastOfNaturals
  <1> QED
    BY <1>2 DEF Ooda!NextPending

(* A step of a revision waits, and has been tried as often as one like it.  *)
LEMMA RelistedWaits ==
  ASSUME NEW p \in Seq(Ooda!PlanStep), NEW d \in Descriptions
  PROVE  Ooda!Relisted(p, d) \in Ooda!PlanStep /\ Ooda!Relisted(p, d).status = "Pending"
  <1> DEFINE same == {i \in DOMAIN p : p[i].what = d}
             first == CHOOSE i \in same : \A j \in same : i <= j
             tried == IF same = {} THEN 0 ELSE p[first].attempts
  <1>1. tried \in Nat
    <2>1. CASE same = {}
      BY <2>1
    <2>2. CASE same # {}
      <3>1. same \in SUBSET Nat
        OBVIOUS
      <3>2. \E i \in same : \A j \in same : i <= j
        BY <3>1, <2>2, LeastOfNaturals
      <3>3. first \in same
        BY <3>2
      <3> HIDE DEF first
      <3>4. p[first] \in Ooda!PlanStep
        BY <3>3
      <3>5. p[first].attempts \in Nat
        BY <3>4 DEF Ooda!PlanStep
      <3> QED
        BY <2>2, <3>5
    <2> QED
      BY <2>1, <2>2
  <1>2. Ooda!Relisted(p, d) = [what |-> d, status |-> "Pending", attempts |-> tried]
    BY DEF Ooda!Relisted, Ooda!NewStep
  <1> HIDE DEF tried
  <1> QED
    BY <1>1, <1>2 DEF Ooda!PlanStep, Ooda!StepStatus

(* Any answer is a sequence of descriptions, of at most max_steps.          *)
LEMMA AnswersAreShort ==
  ASSUME NEW a \in Ooda!Answers, MaxSteps \in Nat
  PROVE  a \in Seq(Descriptions) /\ Len(a) <= MaxSteps
  BY DEF Ooda!Answers, Ooda!BoundedSeq, Ooda!SeqOf

(* What a revision leaves: the first n steps, which are what was settled,   *)
(* and after them only steps that wait, within max_steps.                   *)
LEMMA RevisionKeeps ==
  ASSUME NEW p \in Seq(Ooda!PlanStep), MaxSteps \in Nat, Len(p) <= MaxSteps,
         NEW n \in 0..Len(p), Ooda!SettledIn(p) = 1..n,
         NEW a \in Seq(Descriptions), a # <<>>, NEW q, q = Ooda!Revised(p, a)
  PROVE  /\ q \in Seq(Ooda!PlanStep) /\ Len(q) <= MaxSteps /\ n <= Len(q)
         /\ \A i \in 1..n : q[i] = p[i]
         /\ \A i \in (n + 1)..Len(q) : q[i].status = "Pending"
         /\ MaxSteps > 0 => q # <<>>
  <1> DEFINE kept == [k \in 1..n |-> p[k]]
             rest == [i \in DOMAIN a |-> Ooda!Relisted(p, a[i])]
             all == kept \o rest
             top == IF Len(all) < MaxSteps THEN Len(all) ELSE MaxSteps
  <1>1. q = SubSeq(all, 1, top)
    BY OnlyPrefix DEF Ooda!Revised
  <1>2. kept \in Seq(Ooda!PlanStep) /\ Len(kept) = n /\ \A k \in 1..n : kept[k] = p[k]
    OBVIOUS
  <1>3. /\ rest \in Seq(Ooda!PlanStep) /\ Len(rest) = Len(a)
        /\ \A i \in 1..Len(a) : rest[i].status = "Pending"
    <2>1. \A i \in DOMAIN a : rest[i] \in Ooda!PlanStep /\ rest[i].status = "Pending"
      BY RelistedWaits
    <2>2. DOMAIN a = 1..Len(a) /\ Len(a) \in Nat
      OBVIOUS
    <2>3. rest \in [1..Len(a) -> Ooda!PlanStep]
      BY <2>1, <2>2
    <2> HIDE DEF rest
    <2> QED
      BY <2>1, <2>2, <2>3
  <1> HIDE DEF kept, rest
  <1>4. /\ all \in Seq(Ooda!PlanStep) /\ Len(all) = n + Len(a)
        /\ \A i \in 1..n : all[i] = p[i]
        /\ \A i \in (n + 1)..Len(all) : all[i].status = "Pending"
    <2>1. all \in Seq(Ooda!PlanStep) /\ Len(all) = n + Len(a)
      BY <1>2, <1>3
    <2>2. \A i \in 1..n : all[i] = p[i]
      BY <1>2, <1>3
    <2>3. \A i \in (n + 1)..Len(all) : i - n \in 1..Len(a) /\ all[i] = rest[i - n]
      BY <1>2, <1>3, <2>1
    <2>4. \A i \in (n + 1)..Len(all) : all[i].status = "Pending"
      BY <2>3, <1>3
    <2> QED
      BY <2>1, <2>2, <2>4
  <1> HIDE DEF all
  <1>5. top \in Nat /\ top <= Len(all) /\ top <= MaxSteps /\ n <= top /\ (MaxSteps > 0 => top > 0)
    <2>1. Len(a) > 0 /\ Len(a) \in Nat /\ n \in Nat
      OBVIOUS
    <2> QED
      BY <1>4, <2>1
  <1> HIDE DEF top
  <1>6. q \in Seq(Ooda!PlanStep) /\ Len(q) = top /\ \A i \in 1..top : q[i] = all[i]
    <2>1. SubSeq(all, 1, top) = [i \in 1..top |-> all[i]]
      BY <1>4, <1>5
    <2> QED
      BY <1>1, <1>4, <1>5, <2>1
  <1> QED
    BY <1>4, <1>5, <1>6


\* A reason is given when the run stops, and an empty plan stops it at once.
ReasonMeansStopped == stopReason # "none" => phase = "stopped"
EmptyIsNew == phase = "loop" /\ plan = <<>> => cycle = 0
OrientedOnce == phase = "orient" => plan = <<>> /\ cycle = 0

OodaInv == /\ Ooda!TypeOK /\ Ooda!ActSeesAllDoneWork /\ Ooda!StopIsEarned
           /\ ReasonMeansStopped /\ EmptyIsNew /\ OrientedOnce

\* What was settled stays where it was, and nothing else of what follows is.
Kept == /\ \A i \in DOMAIN plan : Ooda!Settled(plan[i]) => i \in DOMAIN plan' /\ plan'[i] = plan[i]
        /\ \A i \in DOMAIN plan' : Ooda!Settled(plan'[i]) => i \in DOMAIN plan /\ plan'[i] = plan[i]

(* While a step waits, what is settled is what comes before the first one   *)
(* that does.                                                               *)
LEMMA SettledIsPrefix ==
  ASSUME Ooda!TypeOK, Ooda!ActSeesAllDoneWork, Ooda!PendingIn(plan) # {}
  PROVE  /\ Ooda!NextPending - 1 \in 0..Len(plan)
         /\ Ooda!SettledIn(plan) = 1..(Ooda!NextPending - 1)
  <1> DEFINE k == Ooda!NextPending
  <1>1. k \in DOMAIN plan /\ ~Ooda!Settled(plan[k]) /\ \A j \in DOMAIN plan : ~Ooda!Settled(plan[j]) => k <= j
    BY NextIsFirst DEF Ooda!PendingIn
  <1> HIDE DEF k
  <1>2. Len(plan) \in Nat /\ DOMAIN plan = 1..Len(plan)
    BY DEF Ooda!TypeOK
  <1>3. \A i \in DOMAIN plan : Ooda!Settled(plan[i]) <=> i < k
    BY <1>1, <1>2 DEF Ooda!ActSeesAllDoneWork
  <1>4. Ooda!SettledIn(plan) = 1..(k - 1) /\ k - 1 \in 0..Len(plan)
    BY <1>1, <1>2, <1>3 DEF Ooda!SettledIn
  <1> QED
    BY <1>4 DEF k

\* What a replan makes of the plan.
PlanRevised == /\ plan # <<>> /\ plan' # <<>> /\ plan' \in Seq(Ooda!PlanStep) /\ Len(plan') <= MaxSteps
               /\ Kept
               /\ \A i, j \in DOMAIN plan' : i < j /\ Ooda!Settled(plan'[j]) => Ooda!Settled(plan'[i])

(* A revision keeps what is settled, in front.                              *)
LEMMA RevisionForm ==
  ASSUME OodaInv, Ooda!PendingIn(plan) # {}, NEW a \in Ooda!Answers, plan' = Ooda!Revised(plan, a)
  PROVE  PlanRevised
  <1> DEFINE n == Ooda!NextPending - 1
  <1>0. Ooda!TypeOK /\ Ooda!ActSeesAllDoneWork /\ MaxSteps \in Nat
    BY OodaAssumption DEF OodaInv, Ooda!LimitsAssumption
  <1>1. n \in 0..Len(plan) /\ Ooda!SettledIn(plan) = 1..n
    BY <1>0, SettledIsPrefix
  <1>2. plan # <<>> /\ plan \in Seq(Ooda!PlanStep) /\ Len(plan) <= MaxSteps
    BY <1>0 DEF Ooda!TypeOK, Ooda!PendingIn
  <1>3. a \in Seq(Descriptions)
    BY <1>0, AnswersAreShort
  <1> HIDE DEF n
  <1>4. CASE a = <<>>
    <2>1. plan' = plan
      BY <1>4 DEF Ooda!Revised
    <2> QED
      BY <2>1, <1>0, <1>2 DEF PlanRevised, Kept, Ooda!ActSeesAllDoneWork
  <1>5. CASE a # <<>>
    <2>1. /\ plan' \in Seq(Ooda!PlanStep) /\ Len(plan') <= MaxSteps /\ n <= Len(plan') /\ plan' # <<>>
          /\ \A i \in 1..n : plan'[i] = plan[i]
          /\ \A i \in (n + 1)..Len(plan') : plan'[i].status = "Pending"
      <3>1. PICK p, q, m : p = plan /\ q = plan' /\ m = n
        OBVIOUS
      <3>2. /\ p \in Seq(Ooda!PlanStep) /\ Len(p) <= MaxSteps /\ MaxSteps > 0 /\ MaxSteps \in Nat
            /\ m \in 0..Len(p) /\ Ooda!SettledIn(p) = 1..m /\ q = Ooda!Revised(p, a)
        BY <3>1, <1>0, <1>1, <1>2
      <3>3. /\ q \in Seq(Ooda!PlanStep) /\ Len(q) <= MaxSteps /\ m <= Len(q) /\ q # <<>>
            /\ \A i \in 1..m : q[i] = p[i]
            /\ \A i \in (m + 1)..Len(q) : q[i].status = "Pending"
        BY <3>2, <1>3, <1>5, RevisionKeeps
      <3> QED
        BY <3>1, <3>3
    <2>2. \A i \in DOMAIN plan : Ooda!Settled(plan[i]) <=> i \in 1..n
      BY <1>1 DEF Ooda!SettledIn
    <2>3. DOMAIN plan' = 1..Len(plan') /\ Len(plan') \in Nat /\ n \in Nat /\ DOMAIN plan = 1..Len(plan)
      BY <2>1, <1>1, <1>2
    <2>4. \A i \in DOMAIN plan' : Ooda!Settled(plan'[i]) <=> i \in 1..n
      BY <2>1, <2>2, <2>3, <1>1 DEF Ooda!Settled
    <2>5. Kept
      BY <2>1, <2>2, <2>3, <2>4, <1>1 DEF Kept
    <2> QED
      BY <1>2, <2>1, <2>3, <2>4, <2>5 DEF PlanRevised
  <1> QED
    BY <1>4, <1>5

\* What an attempt at a step makes of the plan.
PlanTried(i) == /\ i \in DOMAIN plan /\ ~Ooda!Settled(plan[i])
                /\ \A j \in DOMAIN plan : ~Ooda!Settled(plan[j]) => i <= j
                /\ \E s \in Ooda!PlanStep :
                       /\ plan' = [plan EXCEPT ![i] = s]
                       /\ s.status = "Failed" => s.attempts >= MaxAttempts

(* An attempt is at the first step that waits, which may be given up after  *)
(* its last one.                                                            *)
LEMMA AttemptForm ==
  ASSUME OodaInv, Ooda!Execute
  PROVE  PlanTried(Ooda!NextPending)
  <1> DEFINE i == Ooda!NextPending
             s == plan[i]
  <1>0. Ooda!TypeOK /\ Ooda!PendingIn(plan) # {} /\ MaxAttempts \in Nat
    BY OodaAssumption DEF OodaInv, Ooda!LimitsAssumption, Ooda!Execute, Ooda!GoesOn
  <1>1. i \in DOMAIN plan /\ ~Ooda!Settled(plan[i]) /\ \A j \in DOMAIN plan : ~Ooda!Settled(plan[j]) => i <= j
    BY <1>0, NextIsFirst DEF Ooda!PendingIn
  <1>2. plan' = [plan EXCEPT ![i] = Ooda!AfterSuccess(s)] \/ plan' = [plan EXCEPT ![i] = Ooda!AfterFailure(s)]
    BY <1>1 DEF Ooda!Execute, Ooda!Succeeds, Ooda!Fails
  <1> HIDE DEF i
  <1>3. s \in Ooda!PlanStep
    BY <1>0, <1>1 DEF Ooda!TypeOK
  <1> HIDE DEF s
  <1>4. /\ s.attempts + 1 \in Nat /\ {"Done", "Failed", "Pending"} \subseteq Ooda!StepStatus
        /\ Ooda!AfterSuccess(s) = [s EXCEPT !.attempts = s.attempts + 1, !.status = "Done"]
        /\ Ooda!AfterFailure(s) = [s EXCEPT !.attempts = s.attempts + 1,
                !.status = IF s.attempts + 1 >= MaxAttempts THEN "Failed" ELSE "Pending"]
    BY <1>3 DEF Ooda!AfterSuccess, Ooda!AfterFailure, Ooda!PlanStep, Ooda!StepStatus
  <1>5. /\ Ooda!AfterSuccess(s) \in Ooda!PlanStep /\ Ooda!AfterSuccess(s).status = "Done"
        /\ Ooda!AfterFailure(s) \in Ooda!PlanStep
        /\ Ooda!AfterFailure(s).status = "Failed" => Ooda!AfterFailure(s).attempts >= MaxAttempts
    <2> DEFINE n == s.attempts + 1
               u == IF n >= MaxAttempts THEN "Failed" ELSE "Pending"
    <2>1. n \in Nat /\ u \in Ooda!StepStatus /\ (u = "Failed" => n >= MaxAttempts)
      BY <1>4
    <2>2. /\ Ooda!AfterSuccess(s) = [s EXCEPT !.attempts = n, !.status = "Done"]
          /\ Ooda!AfterFailure(s) = [s EXCEPT !.attempts = n, !.status = u]
      BY <1>4
    <2>0. PICK q : q = s
      OBVIOUS
    <2>5. q \in Ooda!PlanStep /\ "Done" \in Ooda!StepStatus
      BY <1>3, <1>4, <2>0
    <2> HIDE DEF n, u
    <2>6. /\ [q EXCEPT !.attempts = n, !.status = "Done"] \in Ooda!PlanStep
          /\ [q EXCEPT !.attempts = n, !.status = "Done"].status = "Done"
      BY <2>1, <2>5 DEF Ooda!PlanStep
    <2>7. /\ [q EXCEPT !.attempts = n, !.status = u] \in Ooda!PlanStep
          /\ [q EXCEPT !.attempts = n, !.status = u].status = u
          /\ [q EXCEPT !.attempts = n, !.status = u].attempts = n
      BY <2>1, <2>5 DEF Ooda!PlanStep
    <2>3. /\ Ooda!AfterSuccess(s) \in Ooda!PlanStep /\ Ooda!AfterSuccess(s).status = "Done"
      BY <2>0, <2>2, <2>6
    <2>4. /\ Ooda!AfterFailure(s) \in Ooda!PlanStep /\ Ooda!AfterFailure(s).status = u
          /\ Ooda!AfterFailure(s).attempts = n
      BY <2>0, <2>2, <2>7
    <2> QED
      BY <2>1, <2>3, <2>4
  <1>6. PlanTried(i)
    <2>1. \E r \in Ooda!PlanStep : plan' = [plan EXCEPT ![i] = r] /\ (r.status = "Failed" => r.attempts >= MaxAttempts)
      BY <1>2, <1>5
    <2> QED
      BY <1>1, <2>1 DEF PlanTried
  <1> QED
    BY <1>6 DEF i


(* The controller's invariant holds at first.                               *)
LEMMA OodaStarts == Ooda!Init => OodaInv
<1> SUFFICES ASSUME Ooda!Init PROVE OodaInv
  OBVIOUS
<1>0. MaxCycles \in Nat /\ MaxSteps \in Nat /\ MaxReplans \in Nat
  BY OodaAssumption DEF Ooda!LimitsAssumption
<1>1. plan = <<>> /\ plan \in Seq(Ooda!PlanStep) /\ Len(plan) = 0 /\ DOMAIN plan = {}
  BY DEF Ooda!Init
<1>2. Ooda!TypeOK
  <2>1. cycle = 0 /\ replans = 0 /\ toolCalls = 0 /\ calls = 0 /\ phase = "orient" /\ stopReason = "none"
    BY DEF Ooda!Init
  <2>2. lastFailure \in BOOLEAN /\ late \in BOOLEAN /\ brokenDown \in BOOLEAN
    BY DEF Ooda!Init
  <2>3. cycle \in 0..MaxCycles /\ replans \in 0..MaxReplans /\ Len(plan) <= MaxSteps
    BY <1>0, <1>1, <2>1
  <2> QED
    BY <1>1, <2>1, <2>2, <2>3 DEF Ooda!TypeOK
<1>3. Ooda!FailedIn(plan) = {}
  BY <1>1 DEF Ooda!FailedIn
<1> QED
  BY <1>1, <1>2, <1>3
  DEF OodaInv, Ooda!Init, Ooda!ActSeesAllDoneWork, Ooda!StopIsEarned, ReasonMeansStopped, EmptyIsNew, OrientedOnce

(* The first plan has only steps that wait.                                 *)
LEMMA OodaOrients == ASSUME OodaInv, Ooda!Orient PROVE OodaInv'
<1>0. Ooda!TypeOK /\ stopReason = "none" /\ MaxSteps \in Nat
  BY OodaAssumption DEF OodaInv, Ooda!Orient, ReasonMeansStopped, Ooda!LimitsAssumption
<1>1. UNCHANGED <<cycle, replans, toolCalls, lastFailure, late, stopReason, calls, brokenDown>>
  BY DEF Ooda!Orient, Ooda!counters, Ooda!ghosts
<1>2. CASE UNCHANGED plan
  <2>1. phase' \in {"loop", "error"} /\ plan = <<>> /\ cycle = 0
    BY DEF Ooda!Orient, OodaInv, OrientedOnce
  <2>2. Ooda!TypeOK'
    BY <1>0, <1>1, <1>2, <2>1 DEF Ooda!TypeOK
  <2> QED
    BY <1>0, <1>1, <1>2, <2>1, <2>2 DEF OodaInv, Ooda!ActSeesAllDoneWork, Ooda!StopIsEarned,
       ReasonMeansStopped, EmptyIsNew, OrientedOnce, Ooda!FailedIn
<1>3. ASSUME NEW a \in Ooda!Answers, plan' = [i \in DOMAIN a |-> Ooda!NewStep(a[i], 0)]
      PROVE  OodaInv'
  <2>1. a \in Seq(Descriptions) /\ Len(a) <= MaxSteps
    BY <1>0, AnswersAreShort
  <2>2. /\ plan' \in Seq(Ooda!PlanStep) /\ Len(plan') <= MaxSteps
        /\ \A i \in DOMAIN plan' : plan'[i].status = "Pending"
    <3>1. DOMAIN a = 1..Len(a) /\ Len(a) \in Nat /\ \A i \in DOMAIN a : a[i] \in Descriptions
      BY <2>1
    <3>2. \A i \in DOMAIN a : /\ Ooda!NewStep(a[i], 0) \in Ooda!PlanStep
                             /\ Ooda!NewStep(a[i], 0).status = "Pending"
      BY <3>1 DEF Ooda!NewStep, Ooda!PlanStep, Ooda!StepStatus
    <3>3. plan' \in [1..Len(a) -> Ooda!PlanStep] /\ \A i \in 1..Len(a) : plan'[i].status = "Pending"
      BY <1>3, <3>1, <3>2
    <3> QED
      BY <2>1, <3>1, <3>3
  <2>3. phase' \in {"loop", "error"} /\ cycle = 0
    BY DEF Ooda!Orient, OodaInv, OrientedOnce
  <2>4. Ooda!TypeOK'
    BY <1>0, <1>1, <2>2, <2>3 DEF Ooda!TypeOK
  <2>5. Ooda!FailedIn(plan)' = {} /\ \A i \in DOMAIN plan' : ~Ooda!Settled(plan'[i])
    BY <2>2 DEF Ooda!FailedIn, Ooda!Settled
  <2> QED
    BY <1>0, <1>1, <2>2, <2>3, <2>4, <2>5
    DEF OodaInv, Ooda!ActSeesAllDoneWork, Ooda!StopIsEarned, Ooda!Settled,
       ReasonMeansStopped, EmptyIsNew, OrientedOnce, Ooda!FailedIn
<1> QED
  BY <1>2, <1>3 DEF Ooda!Orient

(* The reason given is true of the plan as it stands.                       *)
LEMMA OodaStops == ASSUME OodaInv, Ooda!Stop PROVE OodaInv'
<1>0. UNCHANGED <<plan, cycle, replans, toolCalls, lastFailure, late, calls, brokenDown>>
  BY DEF Ooda!Stop, Ooda!counters, Ooda!ghosts
<1>1. phase' = "stopped" /\ stopReason' = Ooda!Reason
  BY DEF Ooda!Stop
<1>2. Ooda!TypeOK'
  <2>1. Ooda!Reason \in Ooda!StopReason
    BY DEF Ooda!Reason, Ooda!StopReason
  <2> QED
    BY <1>0, <1>1, <2>1 DEF OodaInv, Ooda!TypeOK
<1>3. /\ Ooda!Reason \in {"Completed", "CompletedWithFailures", "EmptyPlan"} => Ooda!PendingIn(plan) = {}
      /\ Ooda!Reason = "Completed" => plan # <<>> /\ Ooda!FailedIn(plan) = {}
      /\ Ooda!Reason = "CompletedWithFailures" => Ooda!FailedIn(plan) # {}
      /\ Ooda!Reason = "EmptyPlan" => plan = <<>>
  <2>1. toolCalls \in Int /\ cycle \in Int /\ MaxToolCalls \in Int /\ MaxCycles \in Int
    BY OodaAssumption DEF OodaInv, Ooda!TypeOK, Ooda!LimitsAssumption
  <2>2. Ooda!OutOfBounds => Ooda!Reason \in {"Deadline", "MaxToolCalls", "MaxCycles"}
    BY <2>1 DEF Ooda!Reason, Ooda!OutOfBounds
  <2>3. ~Ooda!OutOfBounds => Ooda!PendingIn(plan) = {} /\ ~late /\ toolCalls < MaxToolCalls /\ cycle < MaxCycles
    BY <2>1 DEF Ooda!Stop, Ooda!GoesOn, Ooda!OutOfBounds
  <2>4. ~Ooda!OutOfBounds /\ plan = <<>> => Ooda!Reason = "EmptyPlan"
    BY <2>1, <2>3 DEF Ooda!Reason
  <2>5. ~Ooda!OutOfBounds /\ plan # <<>> =>
            Ooda!Reason = IF Ooda!FailedIn(plan) # {} THEN "CompletedWithFailures" ELSE "Completed"
    BY <2>1, <2>3 DEF Ooda!Reason
  <2> QED
    BY <2>2, <2>3, <2>4, <2>5
<1>4. Ooda!StopIsEarned'
  <2>1. \A i \in DOMAIN plan : plan[i].status \in {"Pending", "Done", "Failed"}
    <3>1. \A i \in DOMAIN plan : plan[i] \in Ooda!PlanStep
      BY DEF OodaInv, Ooda!TypeOK
    <3> QED
      BY <3>1 DEF Ooda!PlanStep, Ooda!StepStatus
  <2>2. Ooda!Reason = "Completed" => plan # <<>> /\ \A i \in DOMAIN plan : plan[i].status = "Done"
    BY <1>3, <2>1 DEF Ooda!PendingIn, Ooda!FailedIn, Ooda!Settled
  <2>3. Ooda!Reason = "EmptyPlan" => cycle = 0
    BY <1>3 DEF OodaInv, EmptyIsNew, Ooda!Stop
  <2>4. Ooda!FailedIn(plan)' = Ooda!FailedIn(plan) /\ Ooda!PendingIn(plan)' = Ooda!PendingIn(plan)
    BY <1>0 DEF Ooda!PendingIn, Ooda!FailedIn
  <2>5. \A i \in Ooda!FailedIn(plan) : plan[i].attempts >= MaxAttempts
    BY DEF OodaInv, Ooda!StopIsEarned
  <2> QED
    BY <1>0, <1>1, <1>3, <2>2, <2>3, <2>4, <2>5 DEF Ooda!StopIsEarned
<1> QED
  BY <1>0, <1>1, <1>2, <1>4 DEF OodaInv, Ooda!ActSeesAllDoneWork, ReasonMeansStopped, EmptyIsNew, OrientedOnce

(* A revision leaves the settled steps in front.                            *)
LEMMA OodaReplans == ASSUME OodaInv, Ooda!Replan PROVE OodaInv'
<1>0. /\ Ooda!TypeOK /\ stopReason = "none" /\ phase = "loop" /\ Ooda!PendingIn(plan) # {}
      /\ cycle < MaxCycles /\ replans < MaxReplans /\ MaxCycles \in Nat /\ MaxReplans \in Nat
  BY OodaAssumption
  DEF OodaInv, Ooda!Replan, Ooda!GoesOn, Ooda!WantsReplan, Ooda!OutOfBounds, ReasonMeansStopped,
     Ooda!LimitsAssumption, Ooda!TypeOK
<1>1. /\ UNCHANGED <<toolCalls, late, stopReason, calls, brokenDown>>
      /\ cycle' = cycle + 1 /\ replans' = replans + 1
      /\ lastFailure' \in BOOLEAN /\ phase' \in {"loop", "error"}
  BY <1>0 DEF Ooda!Replan, Ooda!ghosts, Ooda!TypeOK
<1>2. CASE UNCHANGED plan
  <2>1. plan # <<>>
    BY <1>0 DEF Ooda!PendingIn, Ooda!TypeOK
  <2>2. Ooda!TypeOK'
    BY <1>0, <1>1, <1>2 DEF Ooda!TypeOK
  <2> QED
    BY <1>0, <1>1, <1>2, <2>1, <2>2 DEF OodaInv, Ooda!ActSeesAllDoneWork, Ooda!StopIsEarned,
       ReasonMeansStopped, EmptyIsNew, OrientedOnce, Ooda!FailedIn
<1>3. CASE PlanRevised
  <2>1. Ooda!TypeOK'
    BY <1>0, <1>1, <1>3 DEF Ooda!TypeOK, PlanRevised
  <2>2. \A i \in Ooda!FailedIn(plan)' : plan'[i].attempts >= MaxAttempts
    BY <1>3 DEF PlanRevised, Kept, Ooda!FailedIn, Ooda!Settled, OodaInv, Ooda!StopIsEarned
  <2> QED
    BY <1>0, <1>1, <1>3, <2>1, <2>2 DEF OodaInv, Ooda!ActSeesAllDoneWork, Ooda!StopIsEarned,
       ReasonMeansStopped, EmptyIsNew, OrientedOnce, PlanRevised
<1> QED
  BY <1>0, <1>2, <1>3, RevisionForm DEF Ooda!Replan

(* An attempt may settle the first step that waits.                         *)
LEMMA OodaExecutes == ASSUME OodaInv, Ooda!Execute PROVE OodaInv'
<1>0. /\ Ooda!TypeOK /\ stopReason = "none" /\ phase = "loop" /\ cycle < MaxCycles
      /\ MaxCycles \in Nat /\ CallsPerStep \in Nat
  BY OodaAssumption DEF OodaInv, Ooda!Execute, Ooda!GoesOn, Ooda!OutOfBounds, ReasonMeansStopped,
     Ooda!LimitsAssumption, Ooda!TypeOK
<1>1. UNCHANGED <<phase, replans, late, stopReason>> /\ cycle' = cycle + 1
  BY DEF Ooda!Execute
<1>2. toolCalls' \in Nat /\ calls' \in Nat /\ lastFailure' \in BOOLEAN /\ brokenDown' \in BOOLEAN
  <2>1. toolCalls \in Nat /\ calls \in Nat /\ brokenDown \in BOOLEAN
    BY <1>0 DEF Ooda!TypeOK
  <2>2. PICK n \in 0..CallsPerStep :
            /\ calls' = calls + n
            /\ Ooda!Succeeds(Ooda!NextPending, n) \/ Ooda!Fails(Ooda!NextPending)
    BY DEF Ooda!Execute
  <2>3. CASE Ooda!Succeeds(Ooda!NextPending, n)
    <3>1. toolCalls' = toolCalls + n /\ lastFailure' = FALSE /\ brokenDown' = brokenDown
      BY <2>3 DEF Ooda!Succeeds
    <3>2. toolCalls' \in Nat /\ calls' \in Nat
      BY <1>0, <2>1, <2>2, <3>1
    <3>3. lastFailure' \in BOOLEAN /\ brokenDown' \in BOOLEAN
      BY <2>1, <3>1, Zenon
    <3> QED
      BY <3>2, <3>3
  <2>4. CASE Ooda!Fails(Ooda!NextPending)
    <3>1. toolCalls' = toolCalls /\ lastFailure' = TRUE /\ brokenDown' \in {brokenDown, TRUE}
      BY <2>4 DEF Ooda!Fails
    <3>2. toolCalls' \in Nat /\ calls' \in Nat
      BY <1>0, <2>1, <2>2, <3>1
    <3>3. lastFailure' \in BOOLEAN /\ brokenDown' \in BOOLEAN
      BY <2>1, <3>1, Zenon
    <3> QED
      BY <3>2, <3>3
  <2> QED
    BY <2>2, <2>3, <2>4
<1>3. PICK i : PlanTried(i)
  BY AttemptForm
<1>4. PICK s \in Ooda!PlanStep : plan' = [plan EXCEPT ![i] = s] /\ (s.status = "Failed" => s.attempts >= MaxAttempts)
  BY <1>3 DEF PlanTried
<1>5. /\ i \in DOMAIN plan /\ ~Ooda!Settled(plan[i]) /\ \A j \in DOMAIN plan : ~Ooda!Settled(plan[j]) => i <= j
      /\ plan \in Seq(Ooda!PlanStep) /\ Len(plan) <= MaxSteps
  BY <1>0, <1>3 DEF PlanTried, Ooda!TypeOK
<1>6. /\ plan' \in Seq(Ooda!PlanStep) /\ Len(plan') = Len(plan) /\ DOMAIN plan' = DOMAIN plan
      /\ plan'[i] = s /\ \A j \in DOMAIN plan \ {i} : plan'[j] = plan[j]
  BY <1>4, <1>5
<1>7. Ooda!TypeOK'
  BY <1>0, <1>1, <1>2, <1>5, <1>6 DEF Ooda!TypeOK
<1>8. Ooda!ActSeesAllDoneWork'
  <2> SUFFICES ASSUME NEW j \in DOMAIN plan, NEW k \in DOMAIN plan, j < k, Ooda!Settled(plan'[k])
               PROVE  Ooda!Settled(plan'[j])
    BY <1>6 DEF Ooda!ActSeesAllDoneWork
  <2>1. j \in Nat /\ k \in Nat /\ i \in Nat
    BY <1>5
  <2>2. CASE k = i
    <3>1. j # i /\ Ooda!Settled(plan[j])
      BY <2>1, <2>2, <1>5
    <3> QED
      BY <3>1, <1>6
  <2>3. CASE k # i
    <3>1. Ooda!Settled(plan[k])
      BY <2>3, <1>6
    <3>2. Ooda!Settled(plan[j])
      BY <3>1 DEF OodaInv, Ooda!ActSeesAllDoneWork
    <3> QED
      BY <3>2, <1>5, <1>6
  <2> QED
    BY <2>2, <2>3
<1>9. \A j \in Ooda!FailedIn(plan)' : plan'[j].attempts >= MaxAttempts
  BY <1>4, <1>6 DEF Ooda!FailedIn, OodaInv, Ooda!StopIsEarned
<1>10. plan' # <<>>
  BY <1>5, <1>6
<1> QED
  BY <1>0, <1>1, <1>7, <1>8, <1>9, <1>10
  DEF OodaInv, Ooda!StopIsEarned, ReasonMeansStopped, EmptyIsNew, OrientedOnce

(* Every step of the controller and of its clock keeps the invariant.       *)
LEMMA OodaInvariance == OodaInv /\ [Ooda!Next]_Ooda!vars => OodaInv'
<1> SUFFICES ASSUME OodaInv, [Ooda!Next]_Ooda!vars PROVE OodaInv'
  OBVIOUS
<1>1. CASE Ooda!Expire
  <2>1. UNCHANGED <<phase, plan, cycle, replans, toolCalls, lastFailure, stopReason, calls, brokenDown>> /\ late' = TRUE
    BY <1>1 DEF Ooda!Expire, Ooda!counters, Ooda!ghosts
  <2> QED
    BY <2>1
    DEF OodaInv, Ooda!TypeOK, Ooda!ActSeesAllDoneWork, Ooda!StopIsEarned, ReasonMeansStopped, EmptyIsNew, OrientedOnce,
       Ooda!FailedIn, Ooda!PendingIn
<1>2. CASE UNCHANGED Ooda!vars
  <2>1. UNCHANGED <<phase, plan, cycle, replans, toolCalls, lastFailure, late, stopReason, calls, brokenDown>>
    BY <1>2 DEF Ooda!vars, Ooda!counters, Ooda!ghosts
  <2> QED
    BY <2>1
    DEF OodaInv, Ooda!TypeOK, Ooda!ActSeesAllDoneWork, Ooda!StopIsEarned, ReasonMeansStopped, EmptyIsNew, OrientedOnce,
       Ooda!FailedIn, Ooda!PendingIn
<1> QED
  BY <1>1, <1>2, OodaOrients, OodaStops, OodaReplans, OodaExecutes DEF Ooda!Next, Ooda!Controller, Ooda!Over

(* A run takes its steps in the order of the plan: what is settled comes    *)
(* before what waits, so that a step is shown all that was done.            *)
THEOREM OodaSeesAllDoneWork == Ooda!Spec => []Ooda!ActSeesAllDoneWork
<1>1. OodaInv => Ooda!ActSeesAllDoneWork
  BY DEF OodaInv
<1> QED
  BY OodaStarts, OodaInvariance, <1>1, PTL DEF Ooda!Spec

(* The reason a run gives is true of it, and a step is only called failed   *)
(* after all of its attempts.                                               *)
THEOREM OodaStopIsEarned == Ooda!Spec => []Ooda!StopIsEarned
<1>1. OodaInv => Ooda!StopIsEarned
  BY DEF OodaInv
<1> QED
  BY OodaStarts, OodaInvariance, <1>1, PTL DEF Ooda!Spec

(* No replan loses, changes or moves what was executed, and nothing else    *)
(* does.                                                                    *)
THEOREM OodaKeepsTheSettled == Ooda!Spec => SettledIsKept
<1> DEFINE Stays == \A i \in DOMAIN plan : Ooda!Settled(plan[i]) => i \in DOMAIN plan' /\ plan'[i] = plan[i]
<1>1. OodaInv /\ [Ooda!Next]_Ooda!vars => [Stays]_Ooda!vars
  <2> SUFFICES ASSUME OodaInv, Ooda!Next PROVE Stays
    OBVIOUS
  <2>1. CASE UNCHANGED plan
    BY <2>1
  <2>2. CASE Ooda!Orient
    <3>1. plan = <<>>
      BY <2>2 DEF OodaInv, OrientedOnce, Ooda!Orient
    <3> QED
      BY <3>1
  <2>3. CASE Ooda!Replan
    <3>1. PlanRevised \/ UNCHANGED plan
      BY <2>3, RevisionForm DEF Ooda!Replan, Ooda!GoesOn
    <3> QED
      BY <2>1, <3>1 DEF PlanRevised, Kept
  <2>4. CASE Ooda!Execute
    <3>1. PICK i : PlanTried(i)
      BY <2>4, AttemptForm
    <3>2. PICK s \in Ooda!PlanStep : plan' = [plan EXCEPT ![i] = s]
      BY <3>1 DEF PlanTried
    <3> QED
      BY <3>1, <3>2 DEF PlanTried, OodaInv, Ooda!TypeOK
  <2> QED
    BY <2>1, <2>2, <2>3, <2>4 DEF Ooda!Next, Ooda!Controller, Ooda!Stop, Ooda!Expire, Ooda!Over, Ooda!vars
<1>2. SettledIsKept <=> [][Stays]_Ooda!vars
  BY DEF SettledIsKept, Ooda!SettledIsKept
<1> QED
  BY OodaStarts, OodaInvariance, <1>1, <1>2, PTL DEF Ooda!Spec

(* The calls counted never go back, and exceed max_tool_calls by less than  *)
(* those of one step.                                                       *)
THEOREM OodaOverrunIsOneStep == Ooda!Spec => Ooda!OverrunIsOneStep
<1> DEFINE Counts == toolCalls' >= toolCalls /\ (toolCalls' > toolCalls => toolCalls' < MaxToolCalls + CallsPerStep)
<1>1. OodaInv /\ [Ooda!Next]_Ooda!vars => [Counts]_Ooda!vars
  <2> SUFFICES ASSUME OodaInv, Ooda!Next PROVE Counts
    OBVIOUS
  <2>0. toolCalls \in Nat /\ CallsPerStep \in Nat /\ MaxToolCalls \in Nat
    BY OodaAssumption DEF OodaInv, Ooda!TypeOK, Ooda!LimitsAssumption
  <2>1. CASE UNCHANGED toolCalls
    BY <2>0, <2>1
  <2>2. CASE Ooda!Execute
    <3>1. toolCalls < MaxToolCalls
      BY <2>0, <2>2 DEF Ooda!Execute, Ooda!GoesOn, Ooda!OutOfBounds
    <3>2. \E n \in 0..CallsPerStep : toolCalls' = toolCalls + n \/ toolCalls' = toolCalls
      BY <2>2 DEF Ooda!Execute, Ooda!Succeeds, Ooda!Fails
    <3> QED
      BY <2>0, <3>1, <3>2
  <2> QED
    BY <2>1, <2>2 DEF Ooda!Next, Ooda!Controller, Ooda!Orient, Ooda!Replan, Ooda!Stop, Ooda!Expire, Ooda!Over,
       Ooda!vars, Ooda!counters
<1>2. Ooda!OverrunIsOneStep <=> [][Counts]_Ooda!vars
  BY DEF Ooda!OverrunIsOneStep
<1> QED
  BY OodaStarts, OodaInvariance, <1>1, <1>2, PTL DEF Ooda!Spec

-----------------------------------------------------------------------------
(***************************************************************************)
(* The session.  While a run is not shared, no other run and no listener   *)
(* but its own is alive: what its listener has written and what it has yet *)
(* to read are then, in order, what the run did.                           *)
(***************************************************************************)

Alive(r) == Session!Busy(r) \/ listener[r] = "on"

\* Two that are alive at once have met.
Apart == \A q, r \in Session!Runs : q # r /\ Alive(q) /\ Alive(r) => q \in shared /\ r \in shared

\* A listener hears of another run only if they met.
OwnEvents == \A q \in Session!Runs : listener[q] = "on" =>
                 \A i \in DOMAIN queue[q] : queue[q][i][2] = q \/ {q, queue[q][i][2]} \subseteq shared

\* No listener writes before its run has asked, or once it has answered or failed.
Quiet == \A r \in Session!Runs :
    run[r].pc \in {"idle", "user", "answer", "retry", "done", "failed"} => listener[r] # "on"

\* A classic run, which is what a run is before it begins, has no listener.
ClassicIsAlone == \A r \in Session!Runs :
    /\ Session!At(r, "idle") => run[r].variant = "classic"
    /\ run[r].variant = "classic" => listener[r] = "none" /\ run[r].pc \notin {"user", "join", "decide"}

\* What a listener that has s to read will write.
Heard(e) == <<e[1], e[3]>>
Ends(s) == Len(s) > 0 /\ Session!Stops(s[Len(s)])
Unread(s) == [i \in 1..(IF Ends(s) THEN Len(s) - 1 ELSE Len(s)) |-> Heard(s[i])]
NoEnd(s) == \A i \in DOMAIN s : ~Session!Stops(s[i])
OneEnd(s) == Len(s) > 0 /\ \A i \in DOMAIN s : Session!Stops(s[i]) <=> i = Len(s)

\* The transcript of a run that is not shared: a classic run writes at its
\* end; the listener of another writes what is made, as far as it has read.
Tale(r) ==
    /\ run[r].variant = "classic" =>
           IF Session!At(r, "done") THEN told[r] = made[r] ELSE told[r] = <<>> /\ made[r] = <<>>
    /\ run[r].variant = "hermes" /\ r \notin lagged =>
           /\ run[r].pc # "decide"
           /\ run[r].pc \in {"user", "answer", "retry", "done", "failed"} => told[r] = made[r]
           /\ run[r].pc \in {"loop", "exec"} =>
                  listener[r] = "on" /\ NoEnd(queue[r]) /\ made[r] = told[r] \o Unread(queue[r])
           /\ run[r].pc = "join" =>
                  IF listener[r] = "on" THEN OneEnd(queue[r]) /\ made[r] = told[r] \o Unread(queue[r])
                                        ELSE told[r] = made[r]

Tales == \A r \in Session!Runs \ shared : Tale(r)

SessionInv == Session!TypeOK /\ Apart /\ OwnEvents /\ Quiet /\ ClassicIsAlone /\ Tales

(* What is told of an event.                                                *)
Words == {"user", "call", "result", "end", "lag", "assistant"} \X Nat

(* What is told of an event is a word.                                      *)
LEMMA HeardIsWords == \A e \in Session!Event : Heard(e) \in Words
  BY DEF Session!Event, Heard, Words

(* So is each thing a listener has yet to write.                            *)
LEMMA UnreadIsWords ==
  ASSUME NEW s \in Seq(Session!Event)
  PROVE  Unread(s) \in Seq(Words) /\ Len(Unread(s)) = IF Ends(s) THEN Len(s) - 1 ELSE Len(s)
  <1> DEFINE n == IF Ends(s) THEN Len(s) - 1 ELSE Len(s)
  <1>1. n \in Nat /\ n <= Len(s)
    BY DEF Ends
  <1>2. \A i \in 1..n : Heard(s[i]) \in Words
    BY <1>1, HeardIsWords
  <1>3. Unread(s) = [i \in 1..n |-> Heard(s[i])]
    BY DEF Unread
  <1> HIDE DEF n
  <1>4. Unread(s) \in Seq(Words) /\ Len(Unread(s)) = n
    BY <1>1, <1>2, <1>3
  <1> QED
    BY <1>4 DEF n

(* The first of what comes after is the last of what comes before.          *)
LEMMA CatHead == ASSUME NEW W, NEW t \in Seq(W), NEW u \in Seq(W), u # <<>>
                 PROVE  t \o u = Append(t, u[1]) \o Tail(u)
  OBVIOUS

(* What is emitted and noted is still to be read.                           *)
LEMMA UnreadGrows ==
  ASSUME NEW s \in Seq(Session!Event), NoEnd(s), NEW e \in Session!Event, ~Session!Stops(e),
         NEW t \in Seq(Words)
  PROVE  Append(t \o Unread(s), Heard(e)) = t \o Unread(Append(s, e)) /\ NoEnd(Append(s, e))
  <1>1. /\ Append(s, e) \in Seq(Session!Event) /\ Len(Append(s, e)) = Len(s) + 1 /\ Len(s) \in Nat
        /\ Append(s, e)[Len(s) + 1] = e /\ \A i \in 1..Len(s) : Append(s, e)[i] = s[i]
    OBVIOUS
  <1>2. ~Ends(s) /\ ~Ends(Append(s, e)) /\ NoEnd(Append(s, e))
    BY <1>1 DEF NoEnd, Ends
  <1>3. /\ Unread(s) = [i \in 1..Len(s) |-> Heard(s[i])]
        /\ Unread(Append(s, e)) = [i \in 1..(Len(s) + 1) |-> Heard(Append(s, e)[i])]
    BY <1>1, <1>2 DEF Unread
  <1>4. Unread(s) \in Seq(Words) /\ Heard(e) \in Words /\ Unread(Append(s, e)) \in Seq(Words)
    BY <1>1, UnreadIsWords, HeardIsWords
  <1>5. Unread(Append(s, e)) = Append(Unread(s), Heard(e))
    <2> DEFINE u == Unread(s)
               v == Unread(Append(s, e))
               x == Heard(e)
    <2>1. /\ u \in Seq(Words) /\ v \in Seq(Words) /\ x \in Words /\ Len(v) = Len(u) + 1
          /\ v[Len(u) + 1] = x /\ \A i \in 1..Len(u) : v[i] = u[i]
      BY <1>1, <1>3, <1>4
    <2> HIDE DEF u, v, x
    <2>2. v = Append(u, x)
      BY <2>1
    <2> QED
      BY <2>2 DEF u, v, x
  <1>6. Append(t \o Unread(s), Heard(e)) = t \o Append(Unread(s), Heard(e))
    <2> DEFINE u == Unread(s)
               x == Heard(e)
    <2>1. u \in Seq(Words) /\ x \in Words
      BY <1>4
    <2> HIDE DEF u, x
    <2>2. Append(t \o u, x) = t \o Append(u, x)
      BY <2>1
    <2> QED
      BY <2>2 DEF u, x
  <1> QED
    BY <1>2, <1>5, <1>6

(* An end is not written.                                                   *)
LEMMA UnreadEnds ==
  ASSUME NEW s \in Seq(Session!Event), NoEnd(s), NEW e \in Session!Event, Session!Stops(e)
  PROVE  Unread(Append(s, e)) = Unread(s) /\ OneEnd(Append(s, e))
  <1>1. /\ Append(s, e) \in Seq(Session!Event) /\ Len(Append(s, e)) = Len(s) + 1 /\ Len(s) \in Nat
        /\ Append(s, e)[Len(s) + 1] = e /\ \A i \in 1..Len(s) : Append(s, e)[i] = s[i]
    OBVIOUS
  <1>2. Ends(Append(s, e)) /\ ~Ends(s) /\ OneEnd(Append(s, e))
    BY <1>1 DEF Ends, NoEnd, OneEnd
  <1> QED
    BY <1>1, <1>2 DEF Unread

(* What is read is written.                                                 *)
LEMMA UnreadShrinks ==
  ASSUME NEW s \in Seq(Session!Event), s # <<>>, ~Session!Stops(s[1]), NEW t \in Seq(Words)
  PROVE  t \o Unread(s) = Append(t, Heard(s[1])) \o Unread(Tail(s))
  <1>1. /\ Tail(s) \in Seq(Session!Event) /\ Len(Tail(s)) = Len(s) - 1 /\ Len(s) \in Nat /\ Len(s) > 0
        /\ \A i \in 1..(Len(s) - 1) : Tail(s)[i] = s[i + 1]
    OBVIOUS
  <1>2. Ends(s) <=> Ends(Tail(s))
    <2>1. CASE Len(s) = 1
      <3>1. Len(Tail(s)) = 0 /\ ~Ends(s)
        BY <2>1, <1>1 DEF Ends
      <3> QED
        BY <3>1 DEF Ends
    <2>2. CASE Len(s) > 1
      <3>1. Len(s) - 1 \in 1..(Len(s) - 1) /\ (Len(s) - 1) + 1 = Len(s)
        BY <2>2, <1>1
      <3>2. Tail(s)[Len(s) - 1] = s[Len(s)]
        BY <3>1, <1>1
      <3> QED
        BY <2>2, <3>2, <1>1 DEF Ends
    <2> QED
      BY <1>1, <2>1, <2>2
  <1> DEFINE n == IF Ends(s) THEN Len(s) - 1 ELSE Len(s)
             u == Unread(s)
             v == Unread(Tail(s))
  <1>3. n \in Nat /\ n > 0 /\ n <= Len(s)
    BY <1>1 DEF Ends
  <1>4. u = [i \in 1..n |-> Heard(s[i])] /\ v = [i \in 1..(n - 1) |-> Heard(Tail(s)[i])]
    BY <1>1, <1>2 DEF Unread
  <1>5. /\ \A i \in 1..(n - 1) : v[i] = u[i + 1]
        /\ u[1] = Heard(s[1])
    BY <1>1, <1>3, <1>4
  <1>6. u \in Seq(Words) /\ Len(u) = n /\ v \in Seq(Words) /\ Len(v) = n - 1
    BY <1>1, <1>2, UnreadIsWords
  <1> HIDE DEF n, u, v
  <1>7. v = Tail(u) /\ u # <<>>
    BY <1>3, <1>5, <1>6
  <1>8. t \o u = Append(t, u[1]) \o Tail(u)
    BY <1>6, <1>7, CatHead
  <1>9. t \o u = Append(t, Heard(s[1])) \o v
    BY <1>5, <1>7, <1>8
  <1> QED
    BY <1>9 DEF u, v

(* Nothing is left before an end that is next.                              *)
LEMMA UnreadDone ==
  ASSUME NEW s \in Seq(Session!Event), OneEnd(s), Session!Stops(s[1]), NEW t \in Seq(Words)
  PROVE  t \o Unread(s) = t
  <1>1. Len(s) \in Nat /\ Len(s) > 0 /\ 1 \in DOMAIN s
    BY DEF OneEnd
  <1>2. Len(s) = 1 /\ Ends(s)
    BY <1>1 DEF OneEnd, Ends
  <1>3. Unread(s) = <<>>
    BY <1>2 DEF Unread
  <1> QED
    BY <1>3


(* A transcript is made of words.                                           *)
LEMMA LinesAreWords == \A t \in Seq(Session!Line) : t \in Seq(Words)
  <1>1. Session!Line \subseteq Words
    BY DEF Session!Line, Words
  <1> QED
    BY <1>1

\* Run r moves on to p, or to somewhere in P, and stays what it is.
MovesIn(r, P) == /\ run' \in [Session!Runs -> Session!RunState]
                 /\ run'[r].pc \in P /\ run'[r].variant = run[r].variant
                 /\ \A q \in Session!Runs \ {r} : run'[q] = run[q]

(* The ways a run moves.                                                    *)
LEMMA GoForm ==
  ASSUME Session!TypeOK, NEW r \in Session!Runs, NEW p \in Session!Places, Session!Go(r, p)
  PROVE  MovesIn(r, {p})
  <1> DEFINE s == [run[r] EXCEPT !.pc = p]
  <1>1. run[r] \in Session!RunState
    BY DEF Session!TypeOK
  <1>2. s \in Session!RunState /\ s.pc = p /\ s.variant = run[r].variant
    BY <1>1 DEF Session!RunState
  <1>3. run' = [run EXCEPT ![r] = s]
    BY DEF Session!Go
  <1> HIDE DEF s
  <1> QED
    BY <1>2, <1>3 DEF Session!TypeOK, MovesIn

(* A run ends and stays what it was.                                        *)
LEMMA EndForm ==
  ASSUME Session!TypeOK, NEW r \in Session!Runs, NEW p \in Session!Places, Session!End(r, p)
  PROVE  MovesIn(r, {p})
  <1> DEFINE v == run[r].variant
  <1>1. v \in Session!VariantNames
    BY DEF Session!TypeOK, Session!RunState
  <1> HIDE DEF v
  <1>2. Session!Idle \in Session!RunState
    BY DEF Session!Idle, Session!RunState, Session!Places, Session!VariantNames
  <1> DEFINE s == [Session!Idle EXCEPT !.pc = p, !.variant = v]
  <1>3. s \in Session!RunState /\ s.pc = p /\ s.variant = v
    BY <1>1, <1>2 DEF Session!RunState
  <1>4. run' = [run EXCEPT ![r] = s]
    BY DEF Session!End, v
  <1> HIDE DEF s
  <1>5. MovesIn(r, {p})
    BY <1>3, <1>4 DEF Session!TypeOK, MovesIn, v
  <1> QED
    BY <1>5

\* Where a loop that ends leaves the run.
After(r) == {p \in {"answer", "retry", "join", "decide"} :
                 /\ run[r].variant = "classic" <=> p \in {"answer", "retry"}
                 /\ run[r].variant = "hermes" => p = "join"}

(* A run returns from its loop.                                             *)
LEMMA ReturnForm ==
  ASSUME Session!TypeOK, NEW r \in Session!Runs, NEW out \in {"ok", "provider", "iterations"}, Session!Return(r, out)
  PROVE  MovesIn(r, After(r))
  <1> DEFINE i == run[r]
             pc == CASE i.variant = "classic" -> IF out = "ok" THEN "answer" ELSE "retry"
                     [] i.variant = "hermes" -> "join"
                     [] i.variant = "ooda" /\ (i.phase = "final" \/ (i.phase = "plan" /\ out # "ok")) -> "join"
                     [] OTHER -> "decide"
             o == IF i.phase = "final" THEN "ok" ELSE out
  <1>1. run' = [run EXCEPT ![r] = [run[r] EXCEPT !.pc = pc, !.out = o]]
    BY DEF Session!Return
  <1>2. i \in Session!RunState
    BY DEF Session!TypeOK
  <1>3. i.variant \in {"classic", "hermes", "ooda"}
    BY <1>2 DEF Session!RunState, Session!VariantNames
  <1>4. pc \in After(r) /\ After(r) \subseteq Session!Places /\ o \in {"ok", "provider", "iterations"}
    <2>0. o \in {"ok", "provider", "iterations"} /\ After(r) \subseteq Session!Places
      BY DEF After, Session!Places
    <2>1. CASE i.variant = "classic"
      <3>0. pc = IF out = "ok" THEN "answer" ELSE "retry"
        BY <2>1
      <3>1. pc = "answer" \/ pc = "retry"
        BY <3>0, Zenon
      <3> HIDE DEF pc, o
      <3> QED
        BY <2>0, <2>1, <3>1 DEF After
    <2>2. CASE i.variant = "hermes"
      BY <2>2 DEF After, Session!Places
    <2>3. CASE i.variant = "ooda"
      BY <2>3 DEF After, Session!Places
    <2> QED
      BY <2>0, <1>3, <2>1, <2>2, <2>3
  <1> HIDE DEF pc, o
  <1> DEFINE s == [run[r] EXCEPT !.pc = pc, !.out = o]
  <1>5. s \in Session!RunState /\ s.pc = pc /\ s.variant = run[r].variant
    BY <1>2, <1>4 DEF Session!RunState
  <1> HIDE DEF s
  <1>6. run' = [run EXCEPT ![r] = s]
    BY <1>1 DEF s
  <1> QED
    BY <1>4, <1>5, <1>6 DEF Session!TypeOK, MovesIn

\* Event e reaches the listeners that are on and have heard of no end.
Emitted(e) ==
    /\ queue' \in [Session!Runs -> Seq(Session!Event)]
    /\ \A q \in Session!Runs : \/ queue'[q] = queue[q]
                               \/ listener[q] = "on" /\ queue'[q] = Append(queue[q], e)
    /\ \A q \in Session!Runs : listener[q] = "on" /\ NoEnd(queue[q]) => queue'[q] = Append(queue[q], e)

(* Emit does what Emitted says.                                             *)
LEMMA EmitForm ==
  ASSUME Session!TypeOK, NEW e \in Session!Event, Session!Emit(e)
  PROVE  Emitted(e)
  <1>1. \A q \in Session!Runs : queue'[q] = IF listener[q] = "on" /\ NoEnd(queue[q]) THEN Append(queue[q], e) ELSE queue[q]
    BY DEF Session!Emit, NoEnd
  <1>2. \A q \in Session!Runs : queue[q] \in Seq(Session!Event) /\ Append(queue[q], e) \in Seq(Session!Event)
    BY DEF Session!TypeOK
  <1>3. queue' \in [Session!Runs -> Seq(Session!Event)]
    <2>1. queue' = [q \in Session!Runs |-> queue'[q]]
      BY DEF Session!Emit
    <2> QED
      BY <1>1, <1>2, <2>1
  <1> QED
    BY <1>1, <1>3 DEF Emitted


\* Nothing of run q changes.
Same(q) == /\ run'[q] = run[q] /\ listener'[q] = listener[q] /\ queue'[q] = queue[q]
           /\ told'[q] = told[q] /\ made'[q] = made[q] /\ (q \in lagged' <=> q \in lagged)

(* Its transcript is as true as it was when nothing of a run changes.       *)
LEMMA TaleFrame ==
  ASSUME NEW q \in Session!Runs, Same(q), Tale(q)
  PROVE  Tale(q)'
  BY DEF Same, Tale, Session!At, NoEnd, OneEnd, Unread, Ends, Heard, Session!Stops

(* Two that are alive at once have met while nobody comes to life.          *)
LEMMA ApartFrame ==
  ASSUME Apart, \A q \in Session!Runs : Alive(q)' => Alive(q), shared \subseteq shared'
  PROVE  Apart'
  BY DEF Apart

\* A step of run r, which is under way: of the other runs, their listeners
\* may get an event.
Steps(r) ==
    /\ Session!Busy(r) /\ MovesIn(r, Session!Places \ {"idle"}) /\ UNCHANGED <<lagged, shared>>
    /\ listener' \in [Session!Runs -> {"none", "on", "off"}]
    /\ told' \in [Session!Runs -> Seq(Session!Line)] /\ made' \in [Session!Runs -> Seq(Session!Line)]
    /\ \A q \in Session!Runs \ {r} : listener'[q] = listener[q] /\ told'[q] = told[q] /\ made'[q] = made[q]
    /\ \/ queue' = queue /\ listener' = listener
       \/ queue' = [queue EXCEPT ![r] = <<>>]
       \/ listener' = listener /\ \E e \in Session!Event : e[2] = r /\ Emitted(e)

(* What such a step has to do with the other runs.                          *)
LEMMA StepFrame ==
  ASSUME SessionInv, NEW r \in Session!Runs, Steps(r)
  PROVE  /\ Session!TypeOK' /\ Apart' /\ OwnEvents'
         /\ \A q \in Session!Runs \ {r} : q \notin shared => Same(q)
  <1>0. /\ Session!TypeOK /\ Apart /\ OwnEvents /\ Alive(r)
        /\ shared' = shared /\ lagged' = lagged
        /\ \A q \in Session!Runs \ {r} : run'[q] = run[q] /\ listener'[q] = listener[q]
    BY DEF SessionInv, Steps, Alive, MovesIn
  <1>1. queue' \in [Session!Runs -> Seq(Session!Event)]
    <2>1. <<>> \in Seq(Session!Event)
      OBVIOUS
    <2> QED
      BY <1>0, <2>1 DEF Steps, Emitted, Session!TypeOK
  <1>2. Session!TypeOK'
    BY <1>0, <1>1 DEF Session!TypeOK, Steps, MovesIn
  <1>3. \A q \in Session!Runs : Alive(q)' => Alive(q)
    <2> SUFFICES ASSUME NEW q \in Session!Runs, q # r PROVE Alive(q)' => Alive(q)
      BY <1>0
    <2> QED
      BY <1>0 DEF Alive, Session!Busy
  <1>4. Apart'
    BY <1>0, <1>3, ApartFrame
  <1>5. ASSUME NEW q \in Session!Runs, q # r, q \notin shared \/ r \notin shared
        PROVE  queue'[q] = queue[q]
    <2>1. listener[q] # "on"
      BY <1>0, <1>5 DEF Apart, Alive
    <2> QED
      BY <2>1, <1>0, <1>5 DEF Steps, Emitted, Session!TypeOK
  <1>6. OwnEvents'
    <2> SUFFICES ASSUME NEW q \in Session!Runs, listener'[q] = "on", NEW i \in DOMAIN queue'[q]
                 PROVE  queue'[q][i][2] = q \/ {q, queue'[q][i][2]} \subseteq shared
      BY <1>0 DEF OwnEvents
    <2>1. CASE queue'[q] = queue[q] /\ listener[q] = "on"
      BY <2>1, <1>0 DEF OwnEvents
    <2>2. CASE queue'[q] = <<>>
      BY <2>2
    <2>3. ASSUME NEW e \in Session!Event, e[2] = r, Emitted(e), listener' = listener
          PROVE  queue'[q][i][2] = q \/ {q, queue'[q][i][2]} \subseteq shared
      <3>1. CASE queue'[q] = queue[q]
        BY <2>1, <2>3, <3>1
      <3>2. CASE queue'[q] = Append(queue[q], e) /\ queue'[q] # queue[q]
        <4>1. queue[q] \in Seq(Session!Event)
          BY <1>0 DEF Session!TypeOK
        <4>2. (i \in DOMAIN queue[q] /\ queue'[q][i] = queue[q][i]) \/ queue'[q][i] = e
          BY <3>2, <4>1
        <4>3. q = r \/ {q, r} \subseteq shared
          BY <1>5, <3>2
        <4>4. listener[q] = "on"
          BY <2>3
        <4> QED
          BY <1>0, <2>3, <4>2, <4>3, <4>4 DEF OwnEvents
      <3> QED
        BY <2>3, <3>1, <3>2 DEF Emitted
    <2>4. CASE queue' = queue /\ listener' = listener
      BY <2>1, <2>4
    <2>5. CASE queue' = [queue EXCEPT ![r] = <<>>]
      <3>1. q = r => queue'[q] = <<>>
        BY <2>5, <1>0 DEF Session!TypeOK
      <3>2. q # r => queue'[q] = queue[q] /\ listener[q] = "on"
        BY <2>5, <1>0 DEF Session!TypeOK
      <3> QED
        BY <2>1, <2>2, <3>1, <3>2
    <2> QED
      BY <2>3, <2>4, <2>5 DEF Steps
  <1> QED
    BY <1>0, <1>2, <1>4, <1>5, <1>6 DEF Same, Steps

\* What else the invariant says of run r itself.
Private(r) == /\ run[r].pc \in {"idle", "user", "answer", "retry", "done", "failed"} => listener[r] # "on"
              /\ Session!At(r, "idle") => run[r].variant = "classic"
              /\ run[r].variant = "classic" => listener[r] = "none" /\ run[r].pc \notin {"user", "join", "decide"}
              /\ r \notin shared => Tale(r)

(* What is said of a run that does not change stays true.                   *)
LEMMA PrivateFrame ==
  ASSUME SessionInv, NEW q \in Session!Runs, Same(q) \/ (q \in shared' /\ run'[q] = run[q] /\ listener'[q] = listener[q]),
         shared \subseteq shared'
  PROVE  Private(q)'
  <1>1. Private(q) /\ (q \notin shared' => q \notin shared)
    BY DEF SessionInv, Private, Quiet, ClassicIsAlone, Tales
  <1>2. q \notin shared' => Tale(q)'
    BY <1>1, TaleFrame DEF Private
  <1>3. run'[q] = run[q] /\ listener'[q] = listener[q]
    BY DEF Same
  <1> QED
    BY <1>1, <1>2, <1>3 DEF Private, Session!At

(* So a step keeps the invariant that keeps what it says of its run.        *)
LEMMA StepKeeps ==
  ASSUME SessionInv, NEW r \in Session!Runs, Steps(r), Private(r)'
  PROVE  SessionInv'
  <1>1. /\ Session!TypeOK' /\ Apart' /\ OwnEvents' /\ shared' = shared
        /\ \A q \in Session!Runs \ {r} : q \notin shared => Same(q)
        /\ \A q \in Session!Runs \ {r} : run'[q] = run[q] /\ listener'[q] = listener[q]
    BY StepFrame DEF Steps, MovesIn
  <1>2. \A q \in Session!Runs \ {r} : Private(q)'
    BY <1>1, PrivateFrame
  <1> QED
    BY <1>1, <1>2 DEF SessionInv, Private, Quiet, ClassicIsAlone, Tales


(* What a step of r notes.                                                  *)
LEMMA NoteForm ==
  ASSUME Session!TypeOK, NEW r \in Session!Runs, NEW n \in Nat, NEW k \in {"user", "call", "result"}, Session!Note(r, k, n)
  PROVE  /\ made' \in [Session!Runs -> Seq(Session!Line)]
         /\ \A q \in Session!Runs \ {r} : made'[q] = made[q]
         /\ made'[r] = IF run[r].variant = "classic" \/ r \in shared THEN <<>> ELSE Append(made[r], <<k, n>>)
  <1> DEFINE v == IF run[r].variant = "classic" \/ r \in shared THEN <<>> ELSE Append(made[r], <<k, n>>)
  <1>1. made[r] \in Seq(Session!Line) /\ <<k, n>> \in Session!Line /\ <<>> \in Seq(Session!Line)
    BY DEF Session!TypeOK, Session!Line
  <1>2. v \in Seq(Session!Line)
    BY <1>1
  <1>3. made' = [made EXCEPT ![r] = v]
    BY DEF Session!Note
  <1> HIDE DEF v
  <1>4. /\ made' \in [Session!Runs -> Seq(Session!Line)] /\ made'[r] = v
        /\ \A q \in Session!Runs \ {r} : made'[q] = made[q]
    BY <1>2, <1>3 DEF Session!TypeOK
  <1> QED
    BY <1>4 DEF v

(* What a step of r writes.                                                 *)
LEMMA WriteForm ==
  ASSUME Session!TypeOK, NEW r \in Session!Runs, NEW n \in Nat, NEW k \in {"user", "call", "result"}, Session!Write(r, k, n)
  PROVE  /\ told' \in [Session!Runs -> Seq(Session!Line)]
         /\ \A q \in Session!Runs \ {r} : told'[q] = told[q]
         /\ told'[r] = IF r \in shared THEN <<>> ELSE Append(told[r], <<k, n>>)
  <1> DEFINE v == IF r \in shared THEN <<>> ELSE Append(told[r], <<k, n>>)
  <1>1. told[r] \in Seq(Session!Line) /\ <<k, n>> \in Session!Line /\ <<>> \in Seq(Session!Line)
    BY DEF Session!TypeOK, Session!Line
  <1>2. v \in Seq(Session!Line)
    BY <1>1
  <1>3. told' = [told EXCEPT ![r] = v]
    BY DEF Session!Write
  <1> HIDE DEF v
  <1>4. /\ told' \in [Session!Runs -> Seq(Session!Line)] /\ told'[r] = v
        /\ \A q \in Session!Runs \ {r} : told'[q] = told[q]
    BY <1>2, <1>3 DEF Session!TypeOK
  <1> QED
    BY <1>4 DEF v

(* Its parts, for the run that steps.                                       *)
LEMMA OwnPart ==
  ASSUME SessionInv, NEW r \in Session!Runs
  PROVE  /\ Session!TypeOK /\ Private(r) /\ run[r] \in Session!RunState /\ run[r].pc \in Session!Places
         /\ run[r].variant \in {"classic", "hermes", "ooda"}
         /\ told[r] \in Seq(Words) /\ made[r] \in Seq(Words) /\ queue[r] \in Seq(Session!Event)
  <1>1. Session!TypeOK /\ Private(r)
    BY DEF SessionInv, Private, Quiet, ClassicIsAlone, Tales
  <1>2. run[r] \in Session!RunState /\ queue[r] \in Seq(Session!Event) /\ told[r] \in Seq(Session!Line) /\ made[r] \in Seq(Session!Line)
    BY <1>1 DEF Session!TypeOK
  <1> QED
    BY <1>1, <1>2, LinesAreWords DEF Session!RunState, Session!VariantNames

(* A step that only moves the run.                                          *)
LEMMA OnlyMoves ==
  ASSUME SessionInv, NEW r \in Session!Runs, Session!Busy(r), NEW P, P \subseteq Session!Places \ {"idle"}, MovesIn(r, P),
         UNCHANGED <<listener, queue, told, made, lagged, shared>>
  PROVE  Steps(r)
  BY OwnPart DEF Steps, MovesIn, Session!TypeOK

(* A step that moves the run and emits e.                                   *)
LEMMA EmittingMoves ==
  ASSUME SessionInv, NEW r \in Session!Runs, Session!Busy(r), NEW P, P \subseteq Session!Places \ {"idle"}, MovesIn(r, P),
         NEW e \in Session!Event, e[2] = r, Emitted(e), made' \in [Session!Runs -> Seq(Session!Line)],
         \A q \in Session!Runs \ {r} : made'[q] = made[q], UNCHANGED <<listener, told, lagged, shared>>
  PROVE  Steps(r)
  BY OwnPart DEF Steps, MovesIn, Session!TypeOK

(* The question is written and the listener begins.                         *)
LEMMA SessionUser == ASSUME SessionInv, NEW r \in Session!Runs, Session!User(r) PROVE SessionInv'
  <1>0. /\ Session!TypeOK /\ Private(r) /\ told[r] \in Seq(Words) /\ run[r].variant \in {"classic", "hermes", "ooda"}
        /\ run[r].pc = "user" /\ Session!Busy(r) /\ UNCHANGED <<lagged, shared>>
    BY OwnPart DEF Session!User, Session!At, Session!Busy, Session!Over
  <1>1. MovesIn(r, {"loop"})
    BY <1>0, GoForm DEF Session!User, Session!Places
  <1>2. /\ told' \in [Session!Runs -> Seq(Session!Line)]
        /\ \A q \in Session!Runs \ {r} : told'[q] = told[q]
        /\ told'[r] = IF r \in shared THEN <<>> ELSE Append(told[r], <<"user", 0>>)
    BY <1>0, WriteForm DEF Session!User
  <1>3. /\ made' \in [Session!Runs -> Seq(Session!Line)]
        /\ \A q \in Session!Runs \ {r} : made'[q] = made[q]
        /\ made'[r] = IF run[r].variant = "classic" \/ r \in shared THEN <<>> ELSE Append(made[r], <<"user", 0>>)
    BY <1>0, NoteForm DEF Session!User
  <1>4. /\ listener' \in [Session!Runs -> {"none", "on", "off"}] /\ listener'[r] = "on"
        /\ \A q \in Session!Runs \ {r} : listener'[q] = listener[q]
        /\ queue' = [queue EXCEPT ![r] = <<>>] /\ queue'[r] = <<>>
    BY <1>0 DEF Session!User, Session!TypeOK
  <1>5. Steps(r)
    BY <1>0, <1>1, <1>2, <1>3, <1>4 DEF Steps, MovesIn, Session!Places
  <1>6. run'[r].pc = "loop" /\ run'[r].variant = run[r].variant /\ run[r].variant # "classic"
    BY <1>0, <1>1 DEF MovesIn, Private
  <1>7. Private(r)'
    <2>1. ASSUME r \notin shared, run[r].variant = "hermes", r \notin lagged
          PROVE  NoEnd(queue[r])' /\ made'[r] = told'[r] \o Unread(queue'[r])
      <3>1. told[r] = made[r]
        BY <1>0, <2>1 DEF Private, Tale
      <3>2. told'[r] = made'[r] /\ told'[r] \in Seq(Session!Line)
        BY <1>2, <1>3, <1>6, <2>1, <3>1
      <3>3. Unread(queue'[r]) = <<>> /\ NoEnd(queue[r])'
        BY <1>4 DEF Unread, Ends, NoEnd
      <3> QED
        BY <3>2, <3>3
    <2> QED
      BY <1>0, <1>4, <1>6, <2>1 DEF Private, Tale, Session!At
  <1> QED
    BY <1>5, <1>7, StepKeeps


(* A loop that ends says so to the listener that is on.                     *)
LEMMA SessionEnds ==
  ASSUME SessionInv, NEW r \in Session!Runs, Session!Text(r) \/ Session!Fail(r)
  PROVE  SessionInv'
  <1>0. /\ Session!TypeOK /\ Private(r) /\ told[r] \in Seq(Words) /\ queue[r] \in Seq(Session!Event)
        /\ run[r].variant \in {"classic", "hermes", "ooda"}
        /\ run[r].pc = "loop" /\ Session!Busy(r) /\ UNCHANGED <<listener, told, made, lagged, shared>>
    BY OwnPart DEF Session!Text, Session!Fail, Session!At, Session!Busy, Session!Over
  <1> DEFINE e == <<"end", r, 0>>
  <1>1. MovesIn(r, After(r)) /\ After(r) \subseteq Session!Places \ {"idle"}
    BY <1>0, ReturnForm DEF Session!Text, Session!Fail, After, Session!Places
  <1>2. e \in Session!Event /\ e[2] = r /\ Session!Stops(e)
    BY DEF Session!Event, Session!Stops
  <1>3. Emitted(e)
    BY <1>0, <1>2, EmitForm DEF Session!Text, Session!Fail
  <1> HIDE DEF e
  <1>4. Steps(r)
    BY <1>0, <1>1, <1>2, <1>3, EmittingMoves DEF Session!TypeOK
  <1>5. /\ run'[r].variant = run[r].variant /\ run'[r].pc \in {"answer", "retry", "join", "decide"}
        /\ run[r].variant = "classic" <=> run'[r].pc \in {"answer", "retry"}
        /\ run[r].variant = "hermes" => run'[r].pc = "join"
    BY <1>1 DEF MovesIn, After
  <1>6. ASSUME r \notin shared, run[r].variant = "hermes", r \notin lagged
        PROVE  listener[r] = "on" /\ OneEnd(queue'[r]) /\ made[r] = told[r] \o Unread(queue'[r])
    <2>1. listener[r] = "on" /\ NoEnd(queue[r]) /\ made[r] = told[r] \o Unread(queue[r])
      BY <1>0, <1>6 DEF Private, Tale
    <2>2. queue'[r] = Append(queue[r], e)
      BY <1>3, <2>1 DEF Emitted
    <2>3. Unread(Append(queue[r], e)) = Unread(queue[r]) /\ OneEnd(Append(queue[r], e))
      BY <1>0, <1>2, <2>1, UnreadEnds
    <2> QED
      BY <2>1, <2>2, <2>3
  <1>7. run[r].variant = "classic" => listener[r] = "none"
    BY <1>0 DEF Private
  <1>8. ~(r \in shared) /\ run[r].variant = "classic" => told[r] = <<>> /\ made[r] = <<>>
    BY <1>0 DEF Private, Tale, Session!At
  <1>9. Private(r)'
    BY <1>0, <1>5, <1>6, <1>7, <1>8 DEF Private, Tale, Session!At
  <1> QED
    BY <1>4, <1>9, StepKeeps

(* A tool event is emitted and noted.                                       *)
LEMMA SessionTells ==
  ASSUME SessionInv, NEW r \in Session!Runs, run[r].pc \in {"loop", "exec"}, NEW p \in {"loop", "exec"}, MovesIn(r, {p}),
         NEW k \in {"call", "result"}, NEW n \in Nat, Session!Emit(<<k, r, n>>), Session!Note(r, k, n),
         UNCHANGED <<listener, told, lagged, shared>>
  PROVE  SessionInv'
  <1>0. /\ Session!TypeOK /\ Private(r) /\ told[r] \in Seq(Words) /\ queue[r] \in Seq(Session!Event)
        /\ run[r].variant \in {"classic", "hermes", "ooda"} /\ Session!Busy(r)
    BY OwnPart DEF Session!Busy, Session!Over
  <1> DEFINE e == <<k, r, n>>
  <1>1. e \in Session!Event /\ e[2] = r /\ ~Session!Stops(e) /\ Heard(e) = <<k, n>>
    BY DEF Session!Event, Session!Stops, Heard
  <1>2. Emitted(e)
    BY <1>0, <1>1, EmitForm
  <1>3. /\ made' \in [Session!Runs -> Seq(Session!Line)]
        /\ \A q \in Session!Runs \ {r} : made'[q] = made[q]
        /\ made'[r] = IF run[r].variant = "classic" \/ r \in shared THEN <<>> ELSE Append(made[r], <<k, n>>)
    BY <1>0, NoteForm
  <1> HIDE DEF e
  <1>4. Steps(r)
    <2>1. {p} \subseteq Session!Places \ {"idle"}
      BY DEF Session!Places
    <2> QED
      BY <1>0, <1>1, <1>2, <1>3, <2>1, EmittingMoves
  <1>5. run'[r].variant = run[r].variant /\ run'[r].pc = p
    BY DEF MovesIn
  <1>6. ASSUME r \notin shared, run[r].variant = "hermes", r \notin lagged
        PROVE  listener[r] = "on" /\ NoEnd(queue'[r]) /\ made'[r] = told[r] \o Unread(queue'[r])
    <2>1. listener[r] = "on" /\ NoEnd(queue[r]) /\ made[r] = told[r] \o Unread(queue[r])
      BY <1>0, <1>6 DEF Private, Tale
    <2>2. queue'[r] = Append(queue[r], e)
      BY <1>2, <2>1 DEF Emitted
    <2>3. Append(told[r] \o Unread(queue[r]), Heard(e)) = told[r] \o Unread(Append(queue[r], e)) /\ NoEnd(Append(queue[r], e))
      BY <1>0, <1>1, <2>1, UnreadGrows
    <2>4. made'[r] = Append(made[r], Heard(e))
      BY <1>1, <1>3, <1>6
    <2> QED
      BY <2>1, <2>2, <2>3, <2>4, Zenon
  <1>7. run[r].variant = "classic" => listener[r] = "none"
    BY <1>0 DEF Private
  <1>8. ~(r \in shared) /\ run[r].variant = "classic" => told[r] = <<>> /\ made'[r] = <<>>
    BY <1>0, <1>3 DEF Private, Tale, Session!At
  <1>9. Private(r)'
    BY <1>0, <1>5, <1>6, <1>7, <1>8 DEF Private, Tale, Session!At
  <1> QED
    BY <1>4, <1>9, StepKeeps


(* A step that only moves the run, to where the invariant allows.           *)
LEMMA OnlyMovesKeeps ==
  ASSUME SessionInv, NEW r \in Session!Runs, Session!Busy(r), NEW P, P \subseteq Session!Places \ {"idle"}, MovesIn(r, P),
         UNCHANGED <<listener, queue, told, made, lagged, shared>>, Private(r)'
  PROVE  SessionInv'
  BY OnlyMoves, StepKeeps

(* A tool is called.                                                        *)
LEMMA SessionCall == ASSUME SessionInv, NEW r \in Session!Runs, Session!Call(r) PROVE SessionInv'
  <1> DEFINE n == run[r].calls + 1
             s == [run[r] EXCEPT !.pc = "exec", !.calls = n]
  <1>0. Session!TypeOK /\ run[r] \in Session!RunState /\ run[r].pc = "loop"
    BY OwnPart DEF Session!Call, Session!At
  <1>1. n \in Nat
    BY <1>0 DEF Session!RunState
  <1>2. Session!Emit(<<"call", r, n>>) /\ Session!Note(r, "call", n) /\ run' = [run EXCEPT ![r] = s]
        /\ UNCHANGED <<listener, told, lagged, shared>>
    BY DEF Session!Call
  <1> HIDE DEF n
  <1>3. s \in Session!RunState /\ s.pc = "exec" /\ s.variant = run[r].variant
    BY <1>0, <1>1 DEF Session!RunState, Session!Places
  <1> HIDE DEF s
  <1>4. MovesIn(r, {"exec"})
    BY <1>0, <1>2, <1>3 DEF MovesIn, Session!TypeOK
  <1> QED
    BY <1>0, <1>1, <1>2, <1>4, SessionTells

(* Its result is told, or the tool fails.                                   *)
LEMMA SessionExec == ASSUME SessionInv, NEW r \in Session!Runs, Session!Exec(r) PROVE SessionInv'
  <1>0. /\ Session!TypeOK /\ run[r] \in Session!RunState /\ run[r].pc = "exec" /\ Private(r) /\ Session!Busy(r)
        /\ UNCHANGED <<listener, told, lagged, shared>> /\ {"loop"} \subseteq Session!Places \ {"idle"}
    BY OwnPart DEF Session!Exec, Session!At, Session!Busy, Session!Over, Session!Places
  <1>1. MovesIn(r, {"loop"})
    BY <1>0, GoForm DEF Session!Exec, Session!Places
  <1>2. run[r].calls \in Nat
    BY <1>0 DEF Session!RunState
  <1>3. CASE Session!Emit(<<"result", r, run[r].calls>>) /\ Session!Note(r, "result", run[r].calls)
    BY <1>0, <1>1, <1>2, <1>3, SessionTells
  <1>4. CASE UNCHANGED <<queue, made>>
    <2>1. Private(r)'
      BY <1>0, <1>1, <1>4 DEF MovesIn, Private, Tale, Session!At, NoEnd, Unread, Ends, Heard
    <2> QED
      BY <1>0, <1>1, <1>4, <2>1, OnlyMovesKeeps
  <1> QED
    BY <1>3, <1>4 DEF Session!Exec

(* The controller of a run goes on or ends.                                 *)
LEMMA SessionDecide == ASSUME SessionInv, NEW r \in Session!Runs, Session!Decide(r) PROVE SessionInv'
  <1>0. /\ Session!TypeOK /\ run[r] \in Session!RunState /\ run[r].pc = "decide" /\ Private(r) /\ Session!Busy(r)
        /\ UNCHANGED <<listener, queue, told, made, lagged, shared>> /\ {"loop", "join"} \subseteq Session!Places \ {"idle"}
        /\ run[r].variant \in {"classic", "hermes", "ooda"}
    BY OwnPart DEF Session!Decide, Session!At, Session!Busy, Session!Over, Session!Places
  <1> DEFINE n == run[r].loops + 1
             Moved == \E s \in Session!RunState : /\ s.pc \in {"loop", "join"} /\ s.variant = run[r].variant
                                                 /\ run' = [run EXCEPT ![r] = s]
  <1>9. \/ \E p \in {"plan", "act"} : run' = [run EXCEPT ![r] = [run[r] EXCEPT !.pc = "loop", !.phase = p, !.loops = n]]
        \/ run' = [run EXCEPT ![r] = [run[r] EXCEPT !.pc = "loop", !.phase = "final"]]
        \/ Session!Go(r, "join")
    BY DEF Session!Decide
  <1>1. Moved
    <2>1. n \in Nat
      BY <1>0 DEF Session!RunState
    <2>2. ASSUME NEW p \in {"plan", "act"}, run' = [run EXCEPT ![r] = [run[r] EXCEPT !.pc = "loop", !.phase = p, !.loops = n]]
          PROVE  Moved
      <3> HIDE DEF n
      <3> DEFINE s == [run[r] EXCEPT !.pc = "loop", !.phase = p, !.loops = n]
      <3>1. s \in Session!RunState /\ s.pc = "loop" /\ s.variant = run[r].variant
        BY <1>0, <2>1 DEF Session!RunState, Session!Places
      <3> QED
        BY <2>2, <3>1
    <2>3. CASE run' = [run EXCEPT ![r] = [run[r] EXCEPT !.pc = "loop", !.phase = "final"]]
      <3> DEFINE s == [run[r] EXCEPT !.pc = "loop", !.phase = "final"]
      <3>1. s \in Session!RunState /\ s.pc = "loop" /\ s.variant = run[r].variant
        BY <1>0 DEF Session!RunState, Session!Places
      <3> QED
        BY <2>3, <3>1
    <2>4. CASE Session!Go(r, "join")
      <3> DEFINE s == [run[r] EXCEPT !.pc = "join"]
      <3>1. s \in Session!RunState /\ s.pc = "join" /\ s.variant = run[r].variant
        BY <1>0 DEF Session!RunState, Session!Places
      <3> QED
        BY <2>4, <3>1 DEF Session!Go
    <2> QED
      BY <1>9, <2>2, <2>3, <2>4
  <1>2. MovesIn(r, {"loop", "join"})
    BY <1>0, <1>1 DEF MovesIn, Session!TypeOK
  <1>3. run[r].variant # "classic" /\ (r \notin shared /\ r \notin lagged => run[r].variant # "hermes")
    BY <1>0 DEF Private, Tale
  <1>4. Private(r)'
    BY <1>0, <1>2, <1>3 DEF MovesIn, Private, Tale, Session!At
  <1> QED
    BY <1>0, <1>2, <1>4, OnlyMovesKeeps

(* The listener has heard the end: all is written.                          *)
LEMMA SessionJoin == ASSUME SessionInv, NEW r \in Session!Runs, Session!Join(r) PROVE SessionInv'
  <1>0. /\ Session!TypeOK /\ run[r].pc = "join" /\ Private(r) /\ Session!Busy(r) /\ listener[r] = "off"
        /\ UNCHANGED <<listener, queue, told, made, lagged, shared>> /\ {"answer", "retry"} \subseteq Session!Places \ {"idle"}
    BY OwnPart DEF Session!Join, Session!At, Session!Busy, Session!Over, Session!Places
  <1>1. PICK p \in {"answer", "retry"} : Session!Go(r, p)
    BY DEF Session!Join
  <1>2. MovesIn(r, {p})
    BY <1>0, <1>1, GoForm
  <1>3. run[r].variant # "classic"
    BY <1>0 DEF Private
  <1>4. Private(r)'
    BY <1>0, <1>2, <1>3 DEF MovesIn, Private, Tale, Session!At
  <1> QED
    BY <1>0, <1>2, <1>4, OnlyMovesKeeps

(* A run fails, or begins again with another provider.                      *)
LEMMA SessionRetry == ASSUME SessionInv, NEW r \in Session!Runs, Session!Retry(r) PROVE SessionInv'
  <1>0. /\ Session!TypeOK /\ run[r] \in Session!RunState /\ run[r].pc = "retry" /\ Private(r) /\ Session!Busy(r)
        /\ UNCHANGED <<listener, queue, told, made, lagged, shared>>
        /\ {"failed", "loop", "user"} \subseteq Session!Places \ {"idle"}
    BY OwnPart DEF Session!Retry, Session!At, Session!Busy, Session!Over, Session!Places
  <1> DEFINE f == Session!First(run[r].variant)
             o == Session!Opening(run[r].variant)
             s == [run[r] EXCEPT !.pc = f, !.try = 2, !.loops = 0, !.phase = o]
  <1>1. /\ o \in {"plan", "act"} /\ f \in {"loop", "user"} /\ (f = "loop" <=> run[r].variant = "classic")
    BY DEF Session!First, Session!Opening
  <1>2. Session!End(r, "failed") \/ run' = [run EXCEPT ![r] = s]
    BY DEF Session!Retry
  <1> HIDE DEF f, o
  <1>3. s \in Session!RunState /\ s.pc = f /\ s.variant = run[r].variant
    BY <1>0, <1>1 DEF Session!RunState
  <1> HIDE DEF s
  <1>4. CASE Session!End(r, "failed")
    <2>1. MovesIn(r, {"failed"})
      BY <1>0, <1>4, EndForm
    <2>2. Private(r)'
      BY <1>0, <2>1 DEF MovesIn, Private, Tale, Session!At
    <2> QED
      BY <1>0, <2>1, <2>2, OnlyMovesKeeps
  <1>5. CASE run' = [run EXCEPT ![r] = s]
    <2>1. MovesIn(r, {f})
      BY <1>0, <1>3, <1>5 DEF MovesIn, Session!TypeOK
    <2>2. Private(r)'
      BY <1>0, <1>1, <2>1 DEF MovesIn, Private, Tale, Session!At
    <2>3. {f} \subseteq Session!Places \ {"idle"}
      BY <1>0, <1>1
    <2> QED
      BY <1>0, <2>1, <2>2, <2>3, OnlyMovesKeeps
  <1> QED
    BY <1>2, <1>4, <1>5

(* A run is dropped, and its listener stays.                                *)
LEMMA SessionDrop == ASSUME SessionInv, NEW r \in Session!Runs, Session!Drop(r) PROVE SessionInv'
  <1>0. /\ Session!TypeOK /\ Private(r) /\ Session!Busy(r) /\ run[r].pc \notin {"idle", "done"}
        /\ UNCHANGED <<listener, queue, told, made, lagged, shared>> /\ {"dropped"} \subseteq Session!Places \ {"idle"}
    BY OwnPart DEF Session!Drop, Session!At, Session!Busy, Session!Over, Session!Places
  <1>1. MovesIn(r, {"dropped"})
    BY <1>0, EndForm DEF Session!Drop
  <1>2. Private(r)'
    BY <1>0, <1>1 DEF MovesIn, Private, Tale, Session!At
  <1> QED
    BY <1>0, <1>1, <1>2, OnlyMovesKeeps


(* The answer is written, last.                                             *)
LEMMA SessionAnswer == ASSUME SessionInv, NEW r \in Session!Runs, Session!Answer(r) PROVE SessionInv'
  <1> DEFINE last == (IF run[r].variant = "classic" THEN <<<<"user", 0>>>> ELSE <<>>) \o <<<<"assistant", 0>>>>
             t == IF r \in shared THEN <<>> ELSE told[r] \o last
             m == IF r \in shared THEN <<>> ELSE made[r] \o last
  <1>0. /\ Session!TypeOK /\ run[r].pc = "answer" /\ Private(r) /\ Session!Busy(r)
        /\ UNCHANGED <<listener, queue, lagged, shared>> /\ run[r].variant \in {"classic", "hermes", "ooda"}
    BY OwnPart DEF Session!Answer, Session!At, Session!Busy, Session!Over
  <1>1. MovesIn(r, {"done"})
    BY <1>0, EndForm DEF Session!Answer, Session!Places, Session!Over
  <1>2. told' = [told EXCEPT ![r] = t] /\ made' = [made EXCEPT ![r] = m]
    BY DEF Session!Answer
  <1>3. last \in Seq(Session!Line) /\ told[r] \in Seq(Session!Line) /\ made[r] \in Seq(Session!Line)
    <2>1. <<"user", 0>> \in Session!Line /\ <<"assistant", 0>> \in Session!Line
      BY DEF Session!Line
    <2> QED
      BY <1>0, <2>1 DEF Session!TypeOK
  <1> HIDE DEF last
  <1>4. t \in Seq(Session!Line) /\ m \in Seq(Session!Line)
    BY <1>3
  <1>5. r \notin shared /\ told[r] = made[r] => t = m
    OBVIOUS
  <1> HIDE DEF t, m
  <1>6. /\ told' \in [Session!Runs -> Seq(Session!Line)] /\ made' \in [Session!Runs -> Seq(Session!Line)]
        /\ told'[r] = t /\ made'[r] = m
        /\ \A q \in Session!Runs \ {r} : told'[q] = told[q] /\ made'[q] = made[q]
    BY <1>0, <1>2, <1>4 DEF Session!TypeOK
  <1>7. Steps(r)
    BY <1>0, <1>1, <1>6 DEF Steps, MovesIn, Session!Places, Session!Over, Session!TypeOK
  <1>8. r \notin shared /\ (run[r].variant = "hermes" => r \notin lagged) /\ run[r].variant # "ooda" => told[r] = made[r]
    BY <1>0 DEF Private, Tale, Session!At
  <1>9. Private(r)'
    BY <1>0, <1>1, <1>5, <1>6, <1>8 DEF MovesIn, Private, Tale, Session!At
  <1> QED
    BY <1>7, <1>9, StepKeeps

(* The listener of r reads what is next.                                    *)
LEMMA SessionListens == ASSUME SessionInv, NEW r \in Session!Runs, Session!Listen(r) PROVE SessionInv'
  <1> DEFINE s == queue[r]
             e == s[1]
  <1>0. /\ Session!TypeOK /\ Private(r) /\ s \in Seq(Session!Event) /\ s # <<>> /\ listener[r] = "on"
        /\ UNCHANGED <<run, made, lagged, shared>> /\ queue' = [queue EXCEPT ![r] = Tail(s)] /\ told[r] \in Seq(Words)
        /\ Apart /\ OwnEvents
    BY OwnPart DEF Session!Listen, SessionInv
  <1>1. /\ Tail(s) \in Seq(Session!Event) /\ Len(Tail(s)) = Len(s) - 1 /\ Len(s) \in Nat /\ Len(s) > 0
        /\ \A i \in 1..(Len(s) - 1) : Tail(s)[i] = s[i + 1]
        /\ e \in Session!Event /\ e = Head(s)
    BY <1>0
  <1>2. IF Session!Stops(e) THEN UNCHANGED told ELSE Session!Write(e[2], e[1], e[3])
    BY <1>1 DEF Session!Listen
  <1>3. listener' = IF Session!Stops(e) THEN [listener EXCEPT ![r] = "off"] ELSE listener
    BY <1>1 DEF Session!Listen
  <1>4. e[2] \in Session!Runs /\ e[3] \in Nat /\ (~Session!Stops(e) => e[1] \in {"user", "call", "result"})
    BY <1>1 DEF Session!Event, Session!Stops
  <1>5. e[2] = r \/ (r \in shared /\ e[2] \in shared)
    BY <1>0, <1>1 DEF OwnEvents
  <1>6. /\ queue' \in [Session!Runs -> Seq(Session!Event)] /\ queue'[r] = Tail(s)
        /\ \A q \in Session!Runs \ {r} : queue'[q] = queue[q]
    BY <1>0, <1>1 DEF Session!TypeOK
  <1>7. /\ listener' \in [Session!Runs -> {"none", "on", "off"}]
        /\ listener'[r] = IF Session!Stops(e) THEN "off" ELSE "on"
        /\ \A q \in Session!Runs \ {r} : listener'[q] = listener[q]
    BY <1>0, <1>3 DEF Session!TypeOK
  <1>8. /\ told' \in [Session!Runs -> Seq(Session!Line)]
        /\ \A q \in Session!Runs \ {e[2]} : told'[q] = told[q]
        /\ Session!Stops(e) => told' = told
        /\ ~Session!Stops(e) => told'[e[2]] = IF e[2] \in shared THEN <<>> ELSE Append(told[e[2]], <<e[1], e[3]>>)
    <2>1. CASE Session!Stops(e)
      BY <1>0, <1>2, <2>1 DEF Session!TypeOK
    <2>2. CASE ~Session!Stops(e)
      <3> DEFINE a == e[1]
                 b == e[2]
                 c == e[3]
      <3>1. b \in Session!Runs /\ c \in Nat /\ a \in {"user", "call", "result"} /\ Session!Write(b, a, c)
        BY <1>2, <1>4, <2>2
      <3> HIDE DEF a, b, c
      <3>2. /\ told' \in [Session!Runs -> Seq(Session!Line)]
            /\ \A q \in Session!Runs \ {b} : told'[q] = told[q]
            /\ told'[b] = IF b \in shared THEN <<>> ELSE Append(told[b], <<a, c>>)
        BY <1>0, <3>1, WriteForm
      <3> QED
        BY <2>2, <3>2 DEF a, b, c
    <2> QED
      BY <2>1, <2>2
  <1> HIDE DEF e, s
  <1>9. Session!TypeOK'
    BY <1>0, <1>6, <1>7, <1>8 DEF Session!TypeOK
  <1>10. Apart'
    <2>1. \A q \in Session!Runs : Alive(q)' => Alive(q)
      BY <1>0, <1>7 DEF Alive, Session!Busy
    <2> QED
      BY <1>0, <2>1, ApartFrame
  <1>11. OwnEvents'
    <2> SUFFICES ASSUME NEW q \in Session!Runs, listener'[q] = "on", NEW i \in DOMAIN queue'[q]
                 PROVE  queue'[q][i][2] = q \/ {q, queue'[q][i][2]} \subseteq shared
      BY <1>0 DEF OwnEvents
    <2>1. listener[q] = "on"
      BY <1>0, <1>7
    <2>2. CASE q # r
      BY <1>0, <1>6, <2>1, <2>2 DEF OwnEvents
    <2>3. CASE q = r
      <3>1. i \in 1..(Len(s) - 1) /\ queue'[q][i] = s[i + 1] /\ i + 1 \in DOMAIN s
        BY <1>0, <1>1, <1>6, <2>3
      <3>2. s = queue[q]
        BY <2>3 DEF s
      <3> QED
        BY <1>0, <2>1, <3>1, <3>2 DEF OwnEvents
    <2> QED
      BY <2>2, <2>3
  <1>12. ASSUME NEW q \in Session!Runs, q # r PROVE Private(q)'
    <2>1. Same(q) \/ (q \in shared' /\ run'[q] = run[q] /\ listener'[q] = listener[q])
      BY <1>0, <1>5, <1>6, <1>7, <1>8, <1>12 DEF Same
    <2> QED
      BY <1>0, <2>1, PrivateFrame
  <1>13. run[r].variant # "classic" /\ run[r].pc \notin {"idle", "user", "answer", "retry", "done", "failed"}
    BY <1>0 DEF Private
  <1>14. ASSUME r \notin shared, r \notin lagged, run[r].variant = "hermes" PROVE Tale(r)'
    <2>1. s = queue[r] /\ e = s[1] /\ 1 \in DOMAIN s /\ e[2] = r
      BY <1>0, <1>1, <1>5, <1>14 DEF s, e
    <2>2. CASE run[r].pc \in {"loop", "exec"}
      <3>1. NoEnd(s) /\ made[r] = told[r] \o Unread(s)
        BY <1>0, <1>14, <2>1, <2>2 DEF Private, Tale
      <3>2. ~Session!Stops(s[1])
        BY <2>1, <3>1 DEF NoEnd
      <3>3. told[r] \o Unread(s) = Append(told[r], Heard(s[1])) \o Unread(Tail(s))
        BY <1>0, <3>2, UnreadShrinks
      <3>4. told'[r] = Append(told[r], Heard(s[1])) /\ listener'[r] = "on" /\ queue'[r] = Tail(s)
        BY <1>6, <1>7, <1>8, <1>14, <2>1, <3>2 DEF Heard
      <3>5. NoEnd(Tail(s))
        BY <1>1, <3>1 DEF NoEnd
      <3>6. made'[r] = told'[r] \o Unread(queue'[r]) /\ NoEnd(queue'[r])
        BY <1>0, <3>1, <3>3, <3>4, <3>5
      <3> QED
        BY <1>0, <1>14, <2>2, <3>4, <3>6 DEF Tale, Session!At
    <2>3. CASE run[r].pc = "join"
      <3>1. OneEnd(s) /\ made[r] = told[r] \o Unread(s)
        BY <1>0, <1>14, <2>1, <2>3 DEF Private, Tale
      <3>2. CASE Session!Stops(s[1])
        <4>1. told[r] \o Unread(s) = told[r]
          BY <1>0, <3>1, <3>2, UnreadDone
        <4>2. told' = told /\ listener'[r] = "off"
          BY <1>7, <1>8, <2>1, <3>2
        <4>3. told'[r] = made'[r]
          BY <1>0, <3>1, <4>1, <4>2
        <4> QED
          BY <1>0, <1>14, <2>3, <4>2, <4>3 DEF Tale, Session!At
      <3>3. CASE ~Session!Stops(s[1])
        <4>1. told[r] \o Unread(s) = Append(told[r], Heard(s[1])) \o Unread(Tail(s))
          BY <1>0, <3>3, UnreadShrinks
        <4>2. told'[r] = Append(told[r], Heard(s[1])) /\ listener'[r] = "on" /\ queue'[r] = Tail(s)
          BY <1>6, <1>7, <1>8, <1>14, <2>1, <3>3 DEF Heard
        <4>3. OneEnd(Tail(s))
          <5>1. Len(s) # 1
            BY <1>1, <2>1, <3>1, <3>3 DEF OneEnd
          <5>2. DOMAIN Tail(s) = 1..(Len(s) - 1) /\ DOMAIN s = 1..Len(s)
            BY <1>0, <1>1
          <5> QED
            BY <1>1, <3>1, <5>1, <5>2 DEF OneEnd
        <4>4. made'[r] = told'[r] \o Unread(queue'[r]) /\ OneEnd(queue'[r])
          BY <1>0, <3>1, <4>1, <4>2, <4>3
        <4> QED
          BY <1>0, <1>14, <2>3, <4>2, <4>4 DEF Tale, Session!At
      <3> QED
        BY <3>2, <3>3
    <2>4. CASE run[r].pc \notin {"loop", "exec", "join"}
      <3>1. run[r].pc # "decide"
        BY <1>0, <1>14 DEF Private, Tale
      <3> QED
        BY <1>0, <1>13, <1>14, <2>4, <3>1 DEF Tale, Session!At
    <2> QED
      BY <2>2, <2>3, <2>4
  <1>15. Private(r)'
    <2>1. r \notin shared' => Tale(r)'
      BY <1>0, <1>13, <1>14 DEF Tale
    <2> QED
      BY <1>0, <1>7, <1>13, <2>1 DEF Private, Session!At
  <1> QED
    BY <1>0, <1>9, <1>10, <1>11, <1>12, <1>15 DEF SessionInv, Private, Quiet, ClassicIsAlone, Tales


(* A listener falls behind: nothing more is promised of its run.            *)
LEMMA SessionLags == ASSUME SessionInv, NEW r \in Session!Runs, Session!Lag(r) PROVE SessionInv'
  <1> DEFINE e == <<"lag", r, 0>>
  <1>0. /\ Session!TypeOK /\ Private(r) /\ listener[r] = "on" /\ Apart /\ OwnEvents
        /\ UNCHANGED <<run, listener, told, made, shared>> /\ queue' = [queue EXCEPT ![r] = <<e>>] /\ lagged' = lagged \cup {r}
    BY OwnPart DEF Session!Lag, SessionInv
  <1>1. e \in Session!Event /\ e[2] = r
    BY DEF Session!Event
  <1> HIDE DEF e
  <1>2. /\ queue' \in [Session!Runs -> Seq(Session!Event)] /\ queue'[r] = <<e>>
        /\ \A q \in Session!Runs \ {r} : queue'[q] = queue[q]
    BY <1>0, <1>1 DEF Session!TypeOK
  <1>3. Session!TypeOK'
    BY <1>0, <1>2 DEF Session!TypeOK
  <1>4. Apart'
    BY <1>0, ApartFrame DEF Alive, Session!Busy
  <1>5. OwnEvents'
    <2>1. \A i \in DOMAIN queue'[r] : queue'[r][i][2] = r
      BY <1>1, <1>2
    <2> QED
      BY <1>0, <1>2, <2>1 DEF OwnEvents
  <1>6. ASSUME NEW q \in Session!Runs, q # r PROVE Private(q)'
    <2>1. Same(q)
      BY <1>0, <1>2, <1>6 DEF Same
    <2> QED
      BY <1>0, <2>1, PrivateFrame
  <1>7. Private(r)'
    BY <1>0 DEF Private, Tale, Session!At
  <1> QED
    BY <1>0, <1>3, <1>4, <1>5, <1>6, <1>7 DEF SessionInv, Private, Quiet, ClassicIsAlone, Tales

(* A run begins: with those alive, if any, it shares the session.           *)
LEMMA SessionBegins == ASSUME SessionInv, NEW r \in Session!Runs, Session!Begin(r) PROVE SessionInv'
  <1> DEFINE met == {q \in Session!Runs : Session!Busy(q) \/ listener[q] = "on"}
  <1>0. /\ Session!TypeOK /\ Private(r) /\ run[r].pc = "idle" /\ Apart /\ OwnEvents
        /\ UNCHANGED <<listener, queue, lagged>>
        /\ shared' = IF met = {} THEN shared ELSE shared \cup met \cup {r}
        /\ made' = [q \in Session!Runs |-> IF q \in shared' THEN <<>> ELSE made[q]]
        /\ told' = [q \in Session!Runs |-> IF q \in shared' THEN <<>> ELSE told[q]]
    BY OwnPart DEF Session!Begin, SessionInv, Session!At
  <1>1. PICK v \in Session!VariantNames :
            run' = [run EXCEPT ![r] = [Session!Idle EXCEPT !.pc = Session!First(v), !.variant = v, !.phase = Session!Opening(v)]]
    BY SessionAssumption DEF Session!Begin, Session!RunsAssumption
  <1> DEFINE f == Session!First(v)
             o == Session!Opening(v)
  <1>2. /\ o \in {"plan", "act"} /\ f \in {"loop", "user"} /\ (f = "loop" <=> v = "classic")
    BY DEF Session!First, Session!Opening
  <1>3. run' = [run EXCEPT ![r] = [Session!Idle EXCEPT !.pc = f, !.variant = v, !.phase = o]]
    BY <1>1
  <1> HIDE DEF f, o
  <1>4. /\ run' \in [Session!Runs -> Session!RunState] /\ run'[r].pc = f /\ run'[r].variant = v
        /\ \A q \in Session!Runs \ {r} : run'[q] = run[q]
    <2> DEFINE s == [Session!Idle EXCEPT !.pc = f, !.variant = v, !.phase = o]
    <2>1. Session!Idle \in Session!RunState
      BY DEF Session!Idle, Session!RunState, Session!Places, Session!VariantNames
    <2>2. s \in Session!RunState /\ s.pc = f /\ s.variant = v
      BY <1>2, <2>1 DEF Session!RunState, Session!Places
    <2> HIDE DEF s
    <2>3. run' = [run EXCEPT ![r] = s]
      BY <1>3 DEF s
    <2> QED
      BY <1>0, <2>2, <2>3 DEF Session!TypeOK
  <1>5. /\ shared \subseteq shared' /\ shared' \subseteq Session!Runs
        /\ \A q \in Session!Runs \ {r} : Alive(q) => q \in shared' /\ r \in shared'
    <2>1. \A q \in Session!Runs \ {r} : Alive(q) => q \in met
      BY DEF Alive
    <2> HIDE DEF met
    <2>2. met \subseteq Session!Runs
      BY DEF met
    <2> QED
      BY <1>0, <2>1, <2>2 DEF Session!TypeOK
  <1> HIDE DEF met
  <1>6. Session!TypeOK'
    <2>1. /\ made' \in [Session!Runs -> Seq(Session!Line)]
          /\ told' \in [Session!Runs -> Seq(Session!Line)]
      <3>1. <<>> \in Seq(Session!Line)
        OBVIOUS
      <3> QED
        BY <1>0, <3>1 DEF Session!TypeOK
    <2> QED
      BY <1>0, <1>4, <1>5, <2>1 DEF Session!TypeOK
  <1>7. Apart'
    <2>1. \A q \in Session!Runs \ {r} : Alive(q)' => Alive(q)
      BY <1>0, <1>4 DEF Alive, Session!Busy
    <2> QED
      BY <1>0, <1>5, <2>1 DEF Apart
  <1>8. OwnEvents'
    BY <1>0, <1>5 DEF OwnEvents
  <1>9. ASSUME NEW q \in Session!Runs, q # r PROVE Private(q)'
    <2>1. run'[q] = run[q] /\ listener'[q] = listener[q]
      BY <1>0, <1>4, <1>9
    <2>2. q \notin shared' => Same(q)
      BY <1>0, <2>1 DEF Same
    <2> QED
      BY <1>5, <2>1, <2>2, PrivateFrame
  <1>10. Private(r)'
    <2>1. run[r].variant = "classic" /\ listener'[r] = "none"
      BY <1>0 DEF Private, Session!At
    <2>2. r \notin shared' => told'[r] = <<>> /\ made'[r] = <<>>
      BY <1>0, <1>5, <2>1 DEF Private, Tale, Session!At
    <2> QED
      BY <1>2, <1>4, <2>1, <2>2 DEF Private, Tale, Session!At
  <1> QED
    BY <1>6, <1>7, <1>8, <1>9, <1>10 DEF SessionInv, Private, Quiet, ClassicIsAlone, Tales

(* No run has begun at first.                                               *)
LEMMA SessionStarts == Session!Init => SessionInv
<1> SUFFICES ASSUME Session!Init PROVE SessionInv
  OBVIOUS
<1>1. Session!TypeOK
  <2>1. Session!Idle \in Session!RunState
    BY DEF Session!Idle, Session!RunState, Session!Places, Session!VariantNames
  <2>2. <<>> \in Seq(Session!Event) /\ <<>> \in Seq(Session!Line)
    OBVIOUS
  <2> QED
    BY <2>1, <2>2 DEF Session!Init, Session!TypeOK
<1>2. \A r \in Session!Runs : /\ run[r].pc = "idle" /\ run[r].variant = "classic" /\ listener[r] = "none"
                              /\ told[r] = <<>> /\ made[r] = <<>>
  BY DEF Session!Init, Session!Idle
<1> QED
  BY <1>1, <1>2
  DEF SessionInv, Apart, Alive, Session!Busy, OwnEvents, Quiet, ClassicIsAlone, Tales, Tale, Session!At

(* Every step of a run and of a listener keeps the invariant.               *)
LEMMA SessionInvariance == SessionInv /\ [Session!Next]_Session!vars => SessionInv'
<1> SUFFICES ASSUME SessionInv, [Session!Next]_Session!vars PROVE SessionInv'
  OBVIOUS
<1>1. CASE UNCHANGED Session!vars
  <2>1. UNCHANGED <<run, listener, queue, told, made, lagged, shared>> /\ Session!TypeOK /\ Apart /\ OwnEvents
    BY <1>1 DEF Session!vars, SessionInv
  <2>2. Session!TypeOK'
    BY <2>1 DEF Session!TypeOK
  <2>3. Apart'
    BY <2>1 DEF Apart, Alive, Session!Busy
  <2>4. OwnEvents'
    BY <2>1 DEF OwnEvents
  <2>5. \A q \in Session!Runs : Same(q)
    BY <2>1 DEF Same
  <2>6. \A q \in Session!Runs : Private(q)'
    BY <2>1, <2>5, PrivateFrame
  <2> QED
    BY <2>1, <2>2, <2>3, <2>4, <2>6 DEF SessionInv, Private, Quiet, ClassicIsAlone, Tales
<1> QED
  BY <1>1, SessionBegins, SessionUser, SessionEnds, SessionCall, SessionExec, SessionDecide, SessionJoin, SessionAnswer,
     SessionRetry, SessionListens, SessionLags, SessionDrop DEF Session!Next, Session!Step

(* For any number of runs of a session, of calls and of clients that go     *)
(* away: the transcript of a run that is over tells what it did, unless its *)
(* listener fell behind or the session was shared.                          *)
THEOREM TranscriptsTellRuns == Session!Spec => []TranscriptTellsRun
<1>1. SessionInv => TranscriptTellsRun
  BY OwnPart
  DEF SessionInv, Tales, Tale, Session!At, TranscriptTellsRun, Session!TranscriptTellsRun, Session!Faithful
<1> QED
  BY SessionStarts, SessionInvariance, <1>1, PTL DEF Session!Spec

(* Whatever other runs do, the answer is the last that the session gets of  *)
(* a run: its own listener is over by then.                                 *)
THEOREM AnswersComeLast == Session!Spec => []Session!AnswerComesLast
<1>1. SessionInv => Session!AnswerComesLast
  BY DEF SessionInv, Quiet, Session!At, Session!AnswerComesLast
<1> QED
  BY SessionStarts, SessionInvariance, <1>1, PTL DEF Session!Spec
=============================================================================
