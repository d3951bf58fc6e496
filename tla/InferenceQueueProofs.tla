------------------------ MODULE InferenceQueueProofs ------------------------
(***************************************************************************)
(* What InferenceQueue promises for any number of sessions, any depth of   *)
(* the channel and any bounds: pending is exact, a stopped meeting is      *)
(* settled, finals are stored in order and interims shown in time.         *)
(***************************************************************************)
EXTENDS InferenceQueue, FiniteSetTheorems, TLAPS

-----------------------------------------------------------------------------
(* Counting the coordinators that are between a queue and the counter.     *)

\* One coordinator enters, leaves or does not touch the counted positions.
LEMMA TransitCount ==
    ASSUME NEW f \in [Sessions -> SubmitPcs], NEW s \in Sessions, NEW v \in SubmitPcs
    PROVE  /\ Cardinality(InTransit(f)) \in Nat
           /\ f[s] \notin Counted /\ v \in Counted =>
                Cardinality(InTransit([f EXCEPT ![s] = v])) = Cardinality(InTransit(f)) + 1
           /\ f[s] \in Counted /\ v \notin Counted =>
                Cardinality(InTransit([f EXCEPT ![s] = v])) = Cardinality(InTransit(f)) - 1
           /\ (f[s] \in Counted <=> v \in Counted) =>
                InTransit([f EXCEPT ![s] = v]) = InTransit(f)
           /\ f[s] \in Counted => Cardinality(InTransit(f)) > 0
<1> DEFINE g == [f EXCEPT ![s] = v]
<1>1. IsFiniteSet(InTransit(f)) /\ Cardinality(InTransit(f)) \in Nat
  BY FS_Subset, FS_CardinalityType, QueueAssumption DEF InTransit
<1>2. f[s] \notin Counted /\ v \in Counted => InTransit(g) = InTransit(f) \cup {s}
  BY DEF InTransit
<1>3. f[s] \in Counted /\ v \notin Counted => InTransit(g) = InTransit(f) \ {s}
  BY DEF InTransit
<1>4. (f[s] \in Counted <=> v \in Counted) => InTransit(g) = InTransit(f)
  BY DEF InTransit
<1>5. s \in InTransit(f) <=> f[s] \in Counted
  BY DEF InTransit
<1>6. f[s] \in Counted => Cardinality(InTransit(f)) > 0
  BY <1>1, <1>5, FS_EmptySet
<1>7. f[s] \notin Counted => Cardinality(InTransit(f) \cup {s}) = Cardinality(InTransit(f)) + 1
  BY <1>1, <1>5, FS_AddElement
<1>8. f[s] \in Counted => Cardinality(InTransit(f) \ {s}) = Cardinality(InTransit(f)) - 1
  BY <1>1, <1>5, FS_RemoveElement
<1> QED
  BY <1>1, <1>2, <1>3, <1>4, <1>6, <1>7, <1>8

-----------------------------------------------------------------------------
(* Sequences as the channel uses them.                                     *)

\* Len, Append, Head and Tail of a channel of tasks.
LEMMA ChannelFacts ==
    ASSUME NEW q \in Seq(Task), NEW t \in Task
    PROVE  /\ Len(q) \in Nat
           /\ Append(q, t) \in Seq(Task)
           /\ Len(Append(q, t)) = Len(q) + 1
           /\ DOMAIN Append(q, t) = 1..(Len(q) + 1)
           /\ \A i \in DOMAIN q : Append(q, t)[i] = q[i]
           /\ Append(q, t)[Len(q) + 1] = t
           /\ q # <<>> => /\ Head(q) \in Task /\ Tail(q) \in Seq(Task)
                          /\ Head(q) = q[1]
                          /\ Len(Tail(q)) = Len(q) - 1 /\ Len(q) > 0
                          /\ \A i \in DOMAIN Tail(q) : i + 1 \in DOMAIN q /\ Tail(q)[i] = q[i + 1]
                          /\ \A i \in DOMAIN q : i = 1 \/ (i - 1 \in DOMAIN Tail(q) /\ Tail(q)[i - 1] = q[i])
           /\ q = <<>> <=> Len(q) = 0
  OBVIOUS

\* The records of the queue, and the ones a coordinator makes next, are well
\* formed.
LEMMA EntryFacts ==
    /\ NoTask \in Task /\ NoEntry \in Entry
    /\ \A e \in Entry : e.gen \in Nat /\ e.task \in Task
    /\ \A t \in Task : [gen |-> 0, task |-> t] \in Entry
    /\ \A s \in Sessions, isFinal \in BOOLEAN : cur \in [Sessions -> [seg : Nat, rev : Nat]] =>
         /\ NextTask(s, isFinal) \in Task
         /\ NextIdentity(s, isFinal) \in [seg : Nat, rev : Nat]
  BY DEF Task, NoTask, Entry, NoEntry, NextTask, NextIdentity

-----------------------------------------------------------------------------
\* An idle service satisfies the invariant.
LEMMA InitInv == Init => QueueInv
<1> SUFFICES ASSUME Init PROVE QueueInv
  OBVIOUS
<1> USE QueueAssumption DEF Init
<1>1. TypeOK
  <2> USE EntryFacts
  <2>1. phase \in [Sessions -> Phases] /\ pc \in [Sessions -> SubmitPcs]
    BY DEF Phases, SubmitPcs
  <2>2. /\ cur \in [Sessions -> [seg : Nat, rev : Nat]] /\ out \in [Sessions -> Entry]
        /\ ledger \in [Sessions -> Seq(Nat)]
    OBVIOUS
  <2>3. wpc \in WorkerPcs /\ heard \in Heard
    BY DEF WorkerPcs, Heard
  <2>4. finals \in Seq(Task) /\ Len(finals) <= Depth
    OBVIOUS
  <2> QED BY <2>1, <2>2, <2>3, <2>4 DEF TypeOK
<1>2. MutexHeld
  BY DEF MutexHeld, HoldsSlot, Free, Worker
<1>3. SubmissionsWellFormed
  BY DEF SubmissionsWellFormed, Running
<1>4. QueuesWellFormed
  BY DEF QueuesWellFormed, NoEntry, NoTask, WorkerBusy
<1>5. InTransit(pc) = {}
  BY DEF InTransit, Counted
<1>6. PendingExact
  <2>1. ~SlotCounted /\ wpc \notin WorkerBusy /\ Len(finals) = 0
    BY DEF SlotCounted, WorkerBusy
  <2>2. Cardinality(InTransit(pc)) = 0
    BY <1>5, FS_EmptySet
  <2>3. InSlot = 0 /\ InWorker = 0
    BY <2>1 DEF InSlot, InWorker
  <2> QED BY <2>1, <2>2, <2>3 DEF PendingExact
<1>7. \A s \in Sessions : ClosedSegments(s) = {}
  BY DEF ClosedSegments
<1>8. NothingForgotten /\ StoppedMeetingSettled
  BY <1>7 DEF NothingForgotten, StoppedMeetingSettled
<1> QED
  BY <1>1, <1>2, <1>3, <1>4, <1>6, <1>8 DEF QueueInv

\* Nobody but its holder moves a coordinator or the worker in or out of the
\* slot mutex.
LEMMA StepMutex == QueueInv /\ [Next]_vars => MutexHeld'
<1> SUFFICES ASSUME QueueInv, [Next]_vars PROVE MutexHeld'
  OBVIOUS
<1> USE QueueAssumption DEF QueueInv, TypeOK, MutexHeld, HoldsSlot, Free, Worker, SubmitPcs, Counted
<1>1. ASSUME NEW s \in Sessions, SessionStep(s) PROVE MutexHeld'
  BY <1>1 DEF SessionStep, Spawn, Activate, Join, Barrier, AbandonCoordinator, AbandonBarrier,
     queueVars, workVars
<1>2. ASSUME NEW s \in Sessions, NEW isFinal \in BOOLEAN, Submit(s, isFinal) PROVE MutexHeld'
  BY <1>2 DEF Submit, queueVars, workVars
<1>3. ASSUME NEW s \in Sessions, SubmitStep(s) PROVE MutexHeld'
  <2> USE DEF workVars
  <2>1. CASE CountFinal(s) BY <2>1 DEF CountFinal
  <2>2. CASE SendFinal(s) BY <2>2 DEF SendFinal
  <2>3. CASE GiveUpFinal(s) BY <2>3 DEF GiveUpFinal
  <2>4. CASE MarkIncomplete(s) BY <2>4 DEF MarkIncomplete, queueVars
  <2>5. CASE BumpGeneration(s) BY <2>5 DEF BumpGeneration
  <2>6. CASE LockToRetire(s) BY <2>6 DEF LockToRetire
  <2>7. CASE RetireInterim(s) BY <2>7 DEF RetireInterim
  <2>8. CASE UncountRetired(s) BY <2>8 DEF UncountRetired
  <2>9. CASE TakeGeneration(s) BY <2>9 DEF TakeGeneration
  <2>10. CASE LockSlot(s) BY <2>10 DEF LockSlot
  <2>11. CASE CountInterim(s) BY <2>11 DEF CountInterim
  <2>12. CASE PutInterim(s) BY <2>12 DEF PutInterim
  <2> QED BY <1>3, <2>1, <2>2, <2>3, <2>4, <2>5, <2>6, <2>7, <2>8, <2>9, <2>10, <2>11, <2>12
       DEF SubmitStep
<1>4. ASSUME WorkerStep PROVE MutexHeld'
  <2> USE DEF submitVars
  <2>1. CASE ReceiveFinal BY <2>1 DEF ReceiveFinal
  <2>2. CASE NoFinal BY <2>2 DEF NoFinal, queueVars
  <2>3. CASE LockToTake BY <2>3 DEF LockToTake
  <2>4. CASE TakeInterim BY <2>4 DEF TakeInterim
  <2>5. CASE Wait \/ DropReceiver BY <2>5 DEF Wait, DropReceiver, queueVars
  <2>6. CASE CheckStale \/ Recognize BY <2>6 DEF CheckStale, Recognize, queueVars
  <2>7. CASE CommitFinal \/ LoseFinal \/ DropNoise \/ AdvanceSequence
    BY <2>7 DEF CommitFinal, LoseFinal, DropNoise, AdvanceSequence, queueVars
  <2>8. CASE PublishFinal \/ LockSnapshot BY <2>8 DEF PublishFinal, LockSnapshot, queueVars
  <2>9. CASE PassGate BY <2>9 DEF PassGate
  <2>10. CASE WriteInterim BY <2>10 DEF WriteInterim, queueVars
  <2>11. CASE RecheckInterim BY <2>11 DEF RecheckInterim
  <2>12. CASE FinishTask BY <2>12 DEF FinishTask
  <2> QED BY <1>4, <2>1, <2>2, <2>3, <2>4, <2>5, <2>6, <2>7, <2>8, <2>9, <2>10, <2>11, <2>12
       DEF WorkerStep
<1>5. CASE RequestShutdown BY <1>5 DEF RequestShutdown, submitVars, workVars
<1>6. CASE PublicSnapshot BY <1>6 DEF PublicSnapshot, submitVars, queueVars, workVars
<1>7. CASE UNCHANGED vars BY <1>7 DEF vars, submitVars, queueVars, workVars
<1> QED BY <1>1, <1>2, <1>3, <1>4, <1>5, <1>6, <1>7 DEF Next

-----------------------------------------------------------------------------
(* The counter.  Each action is described by what it does to the four       *)
(* summands of PendingExact.                                               *)

\* A step of coordinator s that leaves the slot alone, and is neither at nor
\* going to "put", does not change whether the slot is counted.
LEMMA SlotUnaffected ==
    ASSUME TypeOK, NEW s \in Sessions, NEW v \in SubmitPcs \ {"put"}, pc[s] # "put",
           pc' = [pc EXCEPT ![s] = v], slot' = slot
    PROVE  SlotCounted' <=> SlotCounted
  BY DEF SlotCounted, TypeOK

\* The four summands of PendingExact are numbers.
LEMMA Summands ==
    ASSUME TypeOK
    PROVE  /\ Len(finals) \in Nat /\ Cardinality(InTransit(pc)) \in Nat
           /\ InSlot \in {0, 1} /\ InWorker \in {0, 1}
<1>1. IsFiniteSet(InTransit(pc))
  BY FS_Subset, QueueAssumption DEF InTransit
<1> QED BY <1>1, FS_CardinalityType DEF TypeOK, InSlot, InWorker

\* The counter stays exact when it changes by what the four summands change by.
LEMMA Balance ==
    ASSUME TypeOK, PendingExact,
           Len(finals') \in Nat, Cardinality(InTransit(pc')) \in Nat,
           pending' = pending + ((Len(finals') + InSlot') - (Len(finals) + InSlot))
                      + ((InWorker' + Cardinality(InTransit(pc')))
                         - (InWorker + Cardinality(InTransit(pc))))
    PROVE  PendingExact' /\ pending' \in Nat
<1>1. /\ Len(finals) \in Nat /\ Cardinality(InTransit(pc)) \in Nat
      /\ InSlot \in {0, 1} /\ InWorker \in {0, 1}
  BY Summands
<1>2. InSlot' \in Nat /\ InWorker' \in Nat
  BY DEF InSlot, InWorker
<1>3. pending = Len(finals) + InSlot + InWorker + Cardinality(InTransit(pc))
  BY DEF PendingExact
<1>4. pending' = Len(finals') + InSlot' + InWorker' + Cardinality(InTransit(pc'))
  <2> DEFINE queued == Len(finals) + InSlot
             held == InWorker + Cardinality(InTransit(pc))
             queued1 == Len(finals') + InSlot'
             held1 == InWorker' + Cardinality(InTransit(pc'))
  <2>a. queued \in Nat /\ held \in Nat
    BY <1>1
  <2>b. queued1 \in Nat
    BY <1>2
  <2>c. held1 \in Nat
    BY <1>2
  <2>1. queued \in Nat /\ held \in Nat /\ queued1 \in Nat /\ held1 \in Nat
    BY <2>a, <2>b, <2>c
  <2>2. pending = queued + held
    BY <1>1, <1>3
  <2>3. pending' = pending + (queued1 - queued) + (held1 - held)
    OBVIOUS
  <2> HIDE DEF queued, held, queued1, held1
  <2>4. pending' = queued1 + held1
    BY <2>1, <2>2, <2>3
  <2> QED BY <1>2, <2>4 DEF queued1, held1
<1>5. InTransit(pc') = InTransit(pc)'
  BY DEF InTransit
<1>6. PendingExact'
  BY <1>4, <1>5 DEF PendingExact
<1>7. pending' \in Nat
  BY <1>2, <1>4
<1> QED BY <1>6, <1>7

\* Every step of a coordinator, of the worker and of a session keeps the counter
\* exact.
LEMMA StepPending == QueueInv /\ [Next]_vars => PendingExact' /\ pending' \in Nat
<1> SUFFICES ASSUME QueueInv, [Next]_vars PROVE PendingExact' /\ pending' \in Nat
  OBVIOUS
<1> USE QueueAssumption DEF QueueInv
<1>a. TypeOK /\ PendingExact /\ pc \in [Sessions -> SubmitPcs] /\ finals \in Seq(Task) /\ pending \in Nat
  BY DEF TypeOK
<1>b. /\ Len(finals) \in Nat /\ Cardinality(InTransit(pc)) \in Nat
      /\ InSlot \in {0, 1} /\ InWorker \in {0, 1}
  BY <1>a, Summands
<1> DEFINE Moves(s, v) == pc' = [pc EXCEPT ![s] = v]
<1>c. ASSUME UNCHANGED <<pc, finals, slot, wpc, pending>> PROVE PendingExact' /\ pending' \in Nat
  BY <1>c, <1>a DEF PendingExact, SlotCounted, InTransit, InSlot, InWorker
<1>1. ASSUME NEW s \in Sessions, SessionStep(s) PROVE PendingExact' /\ pending' \in Nat
  BY <1>1, <1>c DEF SessionStep, Spawn, Activate, Join, Barrier, AbandonCoordinator, AbandonBarrier,
     queueVars, workVars
<1>2. ASSUME NEW s \in Sessions, NEW isFinal \in BOOLEAN, Submit(s, isFinal)
      PROVE PendingExact' /\ pending' \in Nat
  <2>1. UNCHANGED <<finals, slot, wpc, pending>>
    BY <1>2 DEF Submit, queueVars, workVars
  <2>2. CASE pc' = pc BY <2>1, <2>2, <1>c
  <2>3. ASSUME NEW v \in {"count", "generation"}, Moves(s, v) PROVE PendingExact' /\ pending' \in Nat
    <3>1. pc[s] = "idle" BY <1>2 DEF Submit
    <3>2. InTransit(pc') = InTransit(pc)
      BY <1>a, <2>3, <3>1, TransitCount DEF SubmitPcs, Counted
    <3>3. SlotCounted' <=> SlotCounted
      BY <1>a, <2>1, <2>3, <3>1, SlotUnaffected DEF SubmitPcs
    <3> QED BY <1>a, <2>1, <3>2, <3>3 DEF PendingExact, InSlot, InWorker, InTransit
  <2> QED BY <1>2, <2>2, <2>3 DEF Submit
<1>3. ASSUME NEW s \in Sessions, SubmitStep(s) PROVE PendingExact' /\ pending' \in Nat
  <2> USE DEF workVars
  <2>a. UNCHANGED wpc
    BY <1>3 DEF SubmitStep, CountFinal, SendFinal, GiveUpFinal, MarkIncomplete, BumpGeneration,
       LockToRetire, RetireInterim, UncountRetired, TakeGeneration, LockSlot, CountInterim, PutInterim
  <2>e. InWorker' = InWorker BY <2>a DEF InWorker
  <2>b. ASSUME NEW v \in SubmitPcs, Moves(s, v), pc[s] \notin Counted, v \notin Counted
        PROVE InTransit(pc') = InTransit(pc)
    BY <2>b, <1>a, TransitCount
  <2>c. ASSUME NEW v \in SubmitPcs \ {"put"}, Moves(s, v), pc[s] # "put", slot' = slot
        PROVE InSlot' = InSlot
    <3>1. SlotCounted' <=> SlotCounted BY <2>c, <1>a, SlotUnaffected
    <3> QED BY <3>1 DEF InSlot
  <2>d. ASSUME NEW v \in SubmitPcs \ ({"put"} \cup Counted), Moves(s, v),
               pc[s] \notin {"put"} \cup Counted, UNCHANGED <<finals, slot, pending>>
        PROVE PendingExact' /\ pending' \in Nat
    <3>1. InTransit(pc') = InTransit(pc) BY <2>b, <2>d
    <3>2. InSlot' = InSlot BY <2>c, <2>d
    <3>3. Len(finals') = Len(finals) BY <2>d
    <3> QED BY <1>a, <1>b, <2>d, <2>e, <3>1, <3>2, <3>3, Balance
  <2>1. CASE CountFinal(s)
    <3> USE <2>1 DEF CountFinal, SubmitPcs, Counted
    <3>1. Cardinality(InTransit(pc')) = Cardinality(InTransit(pc)) + 1 BY <1>a, TransitCount
    <3>2. InSlot' = InSlot BY <2>c
    <3>3. pending' = pending + 1 /\ Len(finals') = Len(finals) OBVIOUS
    <3> QED BY <1>a, <1>b, <2>e, <3>1, <3>2, <3>3, Balance
  <2>2. CASE SendFinal(s)
    <3> USE <2>2 DEF SendFinal, SubmitPcs, Counted
    <3>1. Cardinality(InTransit(pc')) = Cardinality(InTransit(pc)) - 1 BY <1>a, TransitCount
    <3>2. InSlot' = InSlot BY <2>c
    <3>3. pending' = pending /\ Len(finals') = Len(finals) + 1
      BY <1>a, ChannelFacts, EntryFacts DEF TypeOK
    <3>4. Cardinality(InTransit(pc)) > 0 BY <1>a, TransitCount
    <3> QED BY <1>a, <1>b, <2>e, <3>1, <3>2, <3>3, <3>4, Balance, SMTT(30)
  <2>3. ASSUME NEW v \in {"mark", "idle"}, Moves(s, v), pc[s] \in Counted,
               pending' = pending - 1, UNCHANGED <<finals, slot>>
        PROVE PendingExact' /\ pending' \in Nat
    <3> USE <2>3 DEF SubmitPcs, Counted
    <3>1. Cardinality(InTransit(pc')) = Cardinality(InTransit(pc)) - 1
      BY <1>a, TransitCount
    <3>2. Cardinality(InTransit(pc)) > 0
      BY <1>a, TransitCount
    <3>3. InSlot' = InSlot BY <2>c
    <3>4. Len(finals') = Len(finals) OBVIOUS
    <3> QED BY <1>a, <1>b, <2>e, <3>1, <3>2, <3>3, <3>4, Balance
  <2>12. CASE GiveUpFinal(s) BY <2>12, <2>3 DEF GiveUpFinal, Counted
  <2>13. CASE UncountRetired(s) BY <2>13, <2>3 DEF UncountRetired, Counted
  <2>4. CASE MarkIncomplete(s) BY <2>4, <2>d DEF MarkIncomplete, queueVars, SubmitPcs, Counted
  <2>5. CASE BumpGeneration(s) BY <2>5, <2>d DEF BumpGeneration, SubmitPcs, Counted
  <2>6. CASE LockToRetire(s) BY <2>6, <2>d DEF LockToRetire, SubmitPcs, Counted
  <2>7. CASE RetireInterim(s)
    <3> USE <2>7 DEF RetireInterim, SubmitPcs, Counted
    <3>1. \A x \in Sessions : pc[x] # "put"
      BY DEF MutexHeld, HoldsSlot
    <3>2. ~SlotCounted' BY <1>a, <3>1 DEF SlotCounted
    <3>3. CASE slot = NoEntry
      <4>1. ~SlotCounted BY <3>1, <3>3 DEF SlotCounted
      <4>2. InTransit(pc') = InTransit(pc) BY <2>b, <3>3
      <4> QED BY <1>a, <1>b, <2>a, <3>2, <4>1, <4>2 DEF PendingExact, InSlot, InWorker, InTransit
    <3>4. CASE slot # NoEntry
      <4>1. SlotCounted BY <3>4 DEF SlotCounted
      <4>2. Cardinality(InTransit(pc')) = Cardinality(InTransit(pc)) + 1 BY <1>a, <3>4, TransitCount
      <4>3. InSlot' = 0 /\ InSlot = 1 BY <3>2, <4>1 DEF InSlot
      <4>4. pending' = pending /\ Len(finals') = Len(finals) OBVIOUS
      <4>5. /\ (Len(finals') + InSlot') - (Len(finals) + InSlot) = 0 - 1
            /\ (InWorker' + Cardinality(InTransit(pc'))) - (InWorker + Cardinality(InTransit(pc))) = 1
        BY <1>b, <2>e, <4>2, <4>3, <4>4
      <4> QED BY <1>a, <1>b, <4>2, <4>4, <4>5, Balance
    <3> QED BY <3>3, <3>4
  <2>8. CASE TakeGeneration(s) BY <2>8, <2>d DEF TakeGeneration, SubmitPcs, Counted
  <2>9. CASE LockSlot(s) BY <2>9, <2>d DEF LockSlot, SubmitPcs, Counted
  <2>10. CASE CountInterim(s)
    <3> USE <2>10 DEF CountInterim, SubmitPcs, Counted
    <3>1. InTransit(pc') = InTransit(pc) BY <2>b
    <3>2. SlotCounted' BY <1>a DEF SlotCounted
    <3>3. SlotCounted <=> slot # NoEntry
      BY DEF SlotCounted, MutexHeld, HoldsSlot
    <3>4. InSlot' = 1 BY <3>2 DEF InSlot
    <3>5. Len(finals') = Len(finals) OBVIOUS
    <3>6. Cardinality(InTransit(pc')) = Cardinality(InTransit(pc)) BY <3>1
    <3>7. CASE slot # NoEntry
      <4>1. InSlot = 1 /\ pending' = pending BY <3>3, <3>7 DEF InSlot
      <4> QED BY <1>a, <1>b, <2>e, <3>4, <3>5, <3>6, <4>1, Balance
    <3>8. CASE slot = NoEntry
      <4>1. InSlot = 0 /\ pending' = pending + 1 BY <3>3, <3>8 DEF InSlot
      <4> QED BY <1>a, <1>b, <2>e, <3>4, <3>5, <3>6, <4>1, Balance
    <3> QED BY <3>7, <3>8
  <2>11. CASE PutInterim(s)
    <3> USE <2>11 DEF PutInterim, SubmitPcs, Counted
    <3>1. InTransit(pc') = InTransit(pc) BY <2>b
    <3>2. SlotCounted BY DEF SlotCounted
    <3>3. slot' # NoEntry
      BY DEF SubmissionsWellFormed, NoEntry
    <3>4. SlotCounted' BY <3>3 DEF SlotCounted
    <3> QED BY <1>a, <1>b, <2>a, <3>1, <3>2, <3>4 DEF PendingExact, InSlot, InWorker, InTransit
  <2> QED BY <1>3, <2>1, <2>2, <2>12, <2>13, <2>4, <2>5, <2>6, <2>7, <2>8, <2>9, <2>10, <2>11
       DEF SubmitStep
<1>4. ASSUME WorkerStep PROVE PendingExact' /\ pending' \in Nat
  <2>a. pc' = pc
    BY <1>4 DEF WorkerStep, ReceiveFinal, NoFinal, LockToTake, TakeInterim, Wait, DropReceiver,
       CheckStale, Recognize, CommitFinal, LoseFinal, DropNoise, AdvanceSequence, PublishFinal,
       LockSnapshot, PassGate, WriteInterim, RecheckInterim, FinishTask, submitVars
  <2>b. InTransit(pc') = InTransit(pc) BY <2>a
  <2>c. ASSUME UNCHANGED <<finals, slot, pending>>, (wpc' \in WorkerBusy) = (wpc \in WorkerBusy)
        PROVE PendingExact' /\ pending' \in Nat
    BY <2>a, <2>c, <1>a DEF PendingExact, InSlot, InWorker, SlotCounted, InTransit
  <2>d. Cardinality(InTransit(pc')) = Cardinality(InTransit(pc)) BY <2>b
  <2>1. CASE ReceiveFinal
    <3> USE <2>1 DEF ReceiveFinal, WorkerBusy
    <3>1. Len(finals') = Len(finals) - 1 /\ Len(finals') \in Nat BY <1>a, ChannelFacts
    <3>2. InSlot' = InSlot BY <2>a DEF InSlot, SlotCounted
    <3>3. InWorker' = InWorker + 1 BY DEF InWorker
    <3>4. pending' = pending /\ pending \in Nat BY <1>a
    <3>5. pending' = pending + ((Len(finals') + InSlot') - (Len(finals) + InSlot))
                     + ((InWorker' + Cardinality(InTransit(pc')))
                        - (InWorker + Cardinality(InTransit(pc))))
      BY ONLY <1>b, <2>d, <3>1, <3>2, <3>3, <3>4
    <3>6. TypeOK /\ PendingExact /\ Len(finals') \in Nat /\ Cardinality(InTransit(pc')) \in Nat
      BY <1>a, <1>b, <2>d, <3>1
    <3> QED BY ONLY <3>5, <3>6, Balance
  <2>2. CASE TakeInterim
    <3> USE <2>2 DEF TakeInterim, WorkerBusy
    <3>1. \A x \in Sessions : pc[x] # "put" BY DEF MutexHeld, HoldsSlot, Worker
    <3>2. ~SlotCounted' /\ (SlotCounted <=> slot # NoEntry)
      BY <2>a, <3>1 DEF SlotCounted
    <3>3. InWorker' - InWorker = InSlot - InSlot' /\ InWorker' - InWorker \in {0, 1}
      BY <3>2 DEF InSlot, InWorker
    <3>4. Len(finals') = Len(finals) OBVIOUS
    <3>5. pending' = pending /\ InSlot' \in {0, 1} /\ InWorker' \in {0, 1}
      BY DEF InSlot, InWorker
    <3> QED BY <1>a, <1>b, <2>d, <3>3, <3>4, <3>5, Balance
  <2>3. CASE FinishTask
    <3> USE <2>3 DEF FinishTask, WorkerBusy
    <3>1. InSlot' = InSlot BY <2>a DEF InSlot, SlotCounted
    <3>2. InWorker' = InWorker - 1 BY DEF InWorker
    <3>3. Len(finals') = Len(finals) OBVIOUS
    <3> QED BY <1>a, <1>b, <2>d, <3>1, <3>2, <3>3, Balance
  <2>4. CASE NoFinal \/ LockToTake \/ Wait \/ DropReceiver
    BY <2>4, <2>c DEF NoFinal, LockToTake, Wait, DropReceiver, queueVars, WorkerBusy
  <2>5. CASE CheckStale \/ Recognize \/ CommitFinal \/ LoseFinal \/ DropNoise
    BY <2>5, <2>c DEF CheckStale, Recognize, CommitFinal, LoseFinal, DropNoise, queueVars, WorkerBusy
  <2>6. CASE AdvanceSequence \/ PublishFinal \/ LockSnapshot \/ PassGate \/ WriteInterim \/ RecheckInterim
    BY <2>6, <2>c DEF AdvanceSequence, PublishFinal, LockSnapshot, PassGate, WriteInterim,
       RecheckInterim, queueVars, WorkerBusy
  <2> QED BY <1>4, <2>1, <2>2, <2>3, <2>4, <2>5, <2>6 DEF WorkerStep
<1>5. CASE RequestShutdown BY <1>5, <1>c DEF RequestShutdown, submitVars, workVars
<1>6. CASE PublicSnapshot BY <1>6, <1>c DEF PublicSnapshot, submitVars, queueVars, workVars
<1>7. CASE UNCHANGED vars BY <1>7, <1>c DEF vars, submitVars, queueVars, workVars
<1> QED BY <1>1, <1>2, <1>3, <1>4, <1>5, <1>6, <1>7 DEF Next

-----------------------------------------------------------------------------
(* Types and shapes.                                                       *)

\* Every step keeps every variable in its type.
LEMMA StepTypes == QueueInv /\ [Next]_vars => TypeOK'
<1> SUFFICES ASSUME QueueInv, [Next]_vars PROVE TypeOK'
  OBVIOUS
<1> USE QueueAssumption, EntryFacts DEF QueueInv
<1>a. pending' \in Nat
  BY StepPending
<1>b. TypeOK
  OBVIOUS
<1>1. ASSUME NEW s \in Sessions, SessionStep(s) PROVE TypeOK'
  <2> USE <1>a DEF TypeOK, queueVars, workVars, viewVars, storeVars, Phases
  <2>1. CASE Spawn(s)
    <3>1. SeededSequence(s) \in Nat BY <1>b DEF SeededSequence
    <3> QED BY <2>1, <3>1 DEF Spawn
  <2>2. CASE Activate(s) BY <2>2 DEF Activate
  <2>3. CASE Join(s) \/ Barrier(s)
    BY <2>3 DEF Join, Barrier
  <2>4. CASE AbandonCoordinator(s) \/ AbandonBarrier(s)
    BY <2>4 DEF AbandonCoordinator, AbandonBarrier
  <2> QED BY <1>1, <2>1, <2>2, <2>3, <2>4 DEF SessionStep
<1>2. ASSUME NEW s \in Sessions, NEW isFinal \in BOOLEAN, Submit(s, isFinal) PROVE TypeOK'
  <2>1. NextTask(s, isFinal) \in Task /\ NextTask(s, TRUE) \in Task
    BY DEF TypeOK
  <2>2. cur' \in [Sessions -> [seg : Nat, rev : Nat]]
    BY <1>2 DEF TypeOK, Submit
  <2>3. pc' \in [Sessions -> SubmitPcs] /\ out' \in [Sessions -> Entry]
    <3>1. [gen |-> 0, task |-> NextTask(s, isFinal)] \in Entry BY <2>1
    <3>2. CASE shutdown BY <1>2, <3>2 DEF TypeOK, Submit
    <3>3. CASE ~shutdown
      <4>1. out' = [out EXCEPT ![s] = [gen |-> 0, task |-> NextTask(s, isFinal)]]
        BY <1>2, <3>3 DEF Submit
      <4>2. pc' = [pc EXCEPT ![s] = "count"] \/ pc' = [pc EXCEPT ![s] = "generation"]
        BY <1>2, <3>3 DEF Submit
      <4>3. out' \in [Sessions -> Entry]
        BY <3>1, <4>1 DEF TypeOK
      <4> QED BY <4>2, <4>3 DEF TypeOK, SubmitPcs
    <3> QED BY <3>2, <3>3
  <2>4. lost' \subseteq Task /\ incomplete' \subseteq Sessions
    BY <1>2, <2>1 DEF TypeOK, Submit
  <2> QED
    BY <1>2, <2>2, <2>3, <2>4 DEF TypeOK, Submit, queueVars, workVars, viewVars
<1>3. ASSUME NEW s \in Sessions, SubmitStep(s) PROVE TypeOK'
  <2>a. out[s].task \in Task /\ out[s] \in Entry
    BY DEF TypeOK
  <2> USE <1>a, <2>a DEF TypeOK, workVars, viewVars, storeVars, SubmitPcs, Counted
  <2>1. CASE CountFinal(s) \/ UncountRetired(s)
    BY <2>1 DEF CountFinal, UncountRetired
  <2>8. CASE BumpGeneration(s)
    BY <2>8 DEF BumpGeneration
  <2>2. CASE SendFinal(s)
    <3>1. finals' \in Seq(Task) /\ Len(finals') <= Depth
      BY <2>2, ChannelFacts DEF SendFinal
    <3> QED BY <2>2, <3>1 DEF SendFinal
  <2>3. CASE GiveUpFinal(s) \/ MarkIncomplete(s)
    BY <2>3 DEF GiveUpFinal, MarkIncomplete, queueVars
  <2>4. CASE LockToRetire(s) \/ LockSlot(s)
    BY <2>4 DEF LockToRetire, LockSlot
  <2>5. CASE RetireInterim(s) \/ PutInterim(s)
    BY <2>5 DEF RetireInterim, PutInterim
  <2>6. CASE TakeGeneration(s)
    <3>1. [gen |-> latest + 1, task |-> out[s].task] \in Entry
      BY DEF Entry
    <3> QED BY <2>6, <3>1 DEF TakeGeneration
  <2>7. CASE CountInterim(s)
    BY <2>7 DEF CountInterim
  <2> QED BY <1>3, <2>1, <2>2, <2>3, <2>4, <2>5, <2>6, <2>7, <2>8 DEF SubmitStep
<1>4. ASSUME WorkerStep PROVE TypeOK'
  <2>a. work.task \in Task /\ work.gen \in Nat /\ (work.task.final => work.task \in Task)
    BY DEF TypeOK
  <2> USE <1>a, <2>a DEF TypeOK, submitVars, queueVars, viewVars, WorkerPcs, WorkerBusy
  <2>1. CASE ReceiveFinal
    <3>1. finals' \in Seq(Task) /\ Len(finals') <= Depth /\ Head(finals) \in Task
      BY <2>1, ChannelFacts DEF ReceiveFinal
    <3> QED BY <2>1, <3>1 DEF ReceiveFinal, storeVars
  <2>2. CASE NoFinal \/ LockToTake \/ TakeInterim \/ Wait \/ DropReceiver
    BY <2>2 DEF NoFinal, LockToTake, TakeInterim, Wait, DropReceiver, storeVars
  <2>b. wpc \in WorkerBusy /\ work.task.final => work.task.session \in Sessions
    BY DEF QueuesWellFormed
  <2>c. wpc \in {"settle", "advance"} => work.task.session \in Sessions
    BY <2>b DEF QueuesWellFormed
  <2>3. CASE CheckStale
    <3>1. lost' \subseteq Task /\ incomplete' \subseteq Sessions BY <2>3, <2>b DEF CheckStale
    <3> QED BY <2>3, <3>1 DEF CheckStale
  <2>4. CASE Recognize
    BY <2>4 DEF Recognize, storeVars
  <2>5. CASE CommitFinal
    <3>1. ledger' \in [Sessions -> Seq(Nat)]
      <4>1. work.task.seg \in Nat BY DEF Task
      <4>2. work.task.session \in Sessions BY <2>5, <2>c DEF CommitFinal
      <4>3. Append(ledger[work.task.session], work.task.seg) \in Seq(Nat) BY <4>1, <4>2
      <4> QED BY <2>5, <4>2, <4>3 DEF CommitFinal
    <3> QED BY <2>5, <3>1 DEF CommitFinal
  <2>7. CASE LoseFinal
    <3>1. work.task.session \in Sessions BY <2>7, <2>c DEF LoseFinal
    <3> QED BY <2>7, <3>1 DEF LoseFinal
  <2>8. CASE DropNoise
    BY <2>8 DEF DropNoise
  <2>9. CASE AdvanceSequence
    <3>1. seq' \in Nat
      <4>1. work.task.session \in Sessions BY <2>9, <2>c DEF AdvanceSequence
      <4>2. Len(ledger[work.task.session]) \in Nat BY <4>1
      <4> QED BY <2>9, <4>2 DEF AdvanceSequence
    <3> QED BY <2>9, <3>1 DEF AdvanceSequence
  <2>6. CASE PublishFinal \/ LockSnapshot \/ PassGate \/ WriteInterim \/ RecheckInterim \/ FinishTask
    BY <2>6 DEF PublishFinal, LockSnapshot, PassGate, WriteInterim, RecheckInterim, FinishTask, storeVars
  <2> QED BY <1>4, <2>1, <2>2, <2>3, <2>4, <2>5, <2>6, <2>7, <2>8, <2>9 DEF WorkerStep
<1>5. CASE RequestShutdown
  BY <1>5 DEF TypeOK, RequestShutdown, submitVars, workVars, viewVars, storeVars
<1>6. CASE PublicSnapshot
  BY <1>6 DEF TypeOK, PublicSnapshot, submitVars, queueVars, workVars, storeVars
<1>7. CASE UNCHANGED vars
  BY <1>7 DEF TypeOK, vars, submitVars, queueVars, workVars, viewVars, storeVars
<1> QED BY <1>1, <1>2, <1>3, <1>4, <1>5, <1>6, <1>7 DEF Next

\* Nothing ever leaves the ledger or the sets of settled finals.
LEMMA LostGrows == [Next]_vars => lost \subseteq lost'
<1> SUFFICES ASSUME [Next]_vars PROVE lost \subseteq lost'
  OBVIOUS
<1>1. ASSUME NEW s \in Sessions, SessionStep(s) \/ SubmitStep(s) PROVE lost \subseteq lost'
  BY <1>1 DEF SessionStep, Spawn, Activate, Join, Barrier, AbandonCoordinator, AbandonBarrier,
     SubmitStep, CountFinal, SendFinal, GiveUpFinal, MarkIncomplete, BumpGeneration, LockToRetire,
     RetireInterim, UncountRetired, TakeGeneration, LockSlot, CountInterim, PutInterim, storeVars
<1>2. ASSUME NEW s \in Sessions, NEW isFinal \in BOOLEAN, Submit(s, isFinal) PROVE lost \subseteq lost'
  BY <1>2 DEF Submit
<1>3. CASE WorkerStep
  BY <1>3 DEF WorkerStep, ReceiveFinal, NoFinal, LockToTake, TakeInterim, Wait, DropReceiver,
     CheckStale, Recognize, CommitFinal, LoseFinal, DropNoise, AdvanceSequence, PublishFinal,
     LockSnapshot, PassGate, WriteInterim, RecheckInterim, FinishTask, storeVars
<1>4. CASE RequestShutdown \/ PublicSnapshot \/ UNCHANGED vars
  BY <1>4 DEF RequestShutdown, PublicSnapshot, vars, storeVars
<1> QED BY <1>1, <1>2, <1>3, <1>4 DEF Next

\* A final found to be noise, and a meeting marked incomplete, stay so.
LEMMA NoiseAndIncompleteGrow == [Next]_vars => noise \subseteq noise' /\ incomplete \subseteq incomplete'
<1> SUFFICES ASSUME [Next]_vars PROVE noise \subseteq noise' /\ incomplete \subseteq incomplete'
  OBVIOUS
<1>1. ASSUME NEW s \in Sessions, SessionStep(s) \/ SubmitStep(s)
      PROVE noise \subseteq noise' /\ incomplete \subseteq incomplete'
  BY <1>1 DEF SessionStep, Spawn, Activate, Join, Barrier, AbandonCoordinator, AbandonBarrier,
     SubmitStep, CountFinal, SendFinal, GiveUpFinal, MarkIncomplete, BumpGeneration, LockToRetire,
     RetireInterim, UncountRetired, TakeGeneration, LockSlot, CountInterim, PutInterim, storeVars
<1>2. ASSUME NEW s \in Sessions, NEW isFinal \in BOOLEAN, Submit(s, isFinal)
      PROVE noise \subseteq noise' /\ incomplete \subseteq incomplete'
  BY <1>2 DEF Submit
<1>3. CASE WorkerStep
  BY <1>3 DEF WorkerStep, ReceiveFinal, NoFinal, LockToTake, TakeInterim, Wait, DropReceiver,
     CheckStale, Recognize, CommitFinal, LoseFinal, DropNoise, AdvanceSequence, PublishFinal,
     LockSnapshot, PassGate, WriteInterim, RecheckInterim, FinishTask, storeVars
<1>4. CASE RequestShutdown \/ PublicSnapshot \/ UNCHANGED vars
  BY <1>4 DEF RequestShutdown, PublicSnapshot, vars, storeVars
<1> QED BY <1>1, <1>2, <1>3, <1>4 DEF Next

\* A meeting whose worker was replaced stays one.
LEMMA ReplacedGrows == [Next]_vars => replaced \subseteq replaced'
<1> SUFFICES ASSUME [Next]_vars PROVE replaced \subseteq replaced'
  OBVIOUS
<1>1. ASSUME NEW s \in Sessions, SessionStep(s) \/ SubmitStep(s)
      PROVE replaced \subseteq replaced'
  BY <1>1 DEF SessionStep, Spawn, Activate, Join, Barrier, AbandonCoordinator, AbandonBarrier,
     SubmitStep, CountFinal, SendFinal, GiveUpFinal, MarkIncomplete, BumpGeneration, LockToRetire,
     RetireInterim, UncountRetired, TakeGeneration, LockSlot, CountInterim, PutInterim, storeVars
<1>2. ASSUME NEW s \in Sessions, NEW isFinal \in BOOLEAN, Submit(s, isFinal)
      PROVE replaced \subseteq replaced'
  BY <1>2 DEF Submit
<1>3. CASE WorkerStep
  BY <1>3 DEF WorkerStep, ReceiveFinal, NoFinal, LockToTake, TakeInterim, Wait, DropReceiver,
     CheckStale, Recognize, CommitFinal, LoseFinal, DropNoise, AdvanceSequence, PublishFinal,
     LockSnapshot, PassGate, WriteInterim, RecheckInterim, FinishTask, storeVars
<1>4. CASE RequestShutdown \/ PublicSnapshot \/ UNCHANGED vars
  BY <1>4 DEF RequestShutdown, PublicSnapshot, vars, storeVars
<1> QED BY <1>1, <1>2, <1>3, <1>4 DEF Next

\* Only an acknowledged commit changes a ledger, and it appends.
LEMMA LedgerStep ==
    ASSUME [Next]_vars, ~CommitFinal
    PROVE  ledger' = ledger
<1>1. ASSUME NEW s \in Sessions, SessionStep(s) \/ SubmitStep(s) PROVE ledger' = ledger
  BY <1>1 DEF SessionStep, Spawn, Activate, Join, Barrier, AbandonCoordinator, AbandonBarrier,
     SubmitStep, CountFinal, SendFinal, GiveUpFinal, MarkIncomplete, BumpGeneration, LockToRetire,
     RetireInterim, UncountRetired, TakeGeneration, LockSlot, CountInterim, PutInterim, storeVars
<1>2. ASSUME NEW s \in Sessions, NEW isFinal \in BOOLEAN, Submit(s, isFinal) PROVE ledger' = ledger
  BY <1>2 DEF Submit
<1>3. CASE WorkerStep
  BY <1>3 DEF WorkerStep, ReceiveFinal, NoFinal, LockToTake, TakeInterim, Wait, DropReceiver,
     CheckStale, Recognize, LoseFinal, DropNoise, AdvanceSequence, PublishFinal,
     LockSnapshot, PassGate, WriteInterim, RecheckInterim, FinishTask, storeVars
<1>4. CASE RequestShutdown \/ PublicSnapshot \/ UNCHANGED vars
  BY <1>4 DEF RequestShutdown, PublicSnapshot, vars, storeVars
<1> QED BY <1>1, <1>2, <1>3, <1>4 DEF Next

\* What a ledger holds it still holds after an append.
LEMMA AppendKeeps ==
    ASSUME NEW q \in Seq(Nat), NEW x \in Nat, NEW i \in DOMAIN q
    PROVE  i \in DOMAIN Append(q, x) /\ Append(q, x)[i] = q[i]
  OBVIOUS

\* A settled final stays settled.
LEMMA SettledStable ==
    ASSUME QueueInv, [Next]_vars, NEW s \in Sessions, NEW n, Settled(s, n)
    PROVE  Settled(s, n)'
<1>1. /\ noise \subseteq noise' /\ incomplete \subseteq incomplete' /\ lost \subseteq lost'
  BY NoiseAndIncompleteGrow, LostGrows
<1>2. CASE \E i \in DOMAIN ledger[s] : ledger[s][i] = n
  <2>1. PICK i \in DOMAIN ledger[s] : ledger[s][i] = n
    BY <1>2
  <2>2. i \in DOMAIN ledger'[s] /\ ledger'[s][i] = n
    <3>1. CASE ~CommitFinal BY <2>1, <3>1, LedgerStep
    <3>2. CASE CommitFinal
      <4>1. ledger[s] \in Seq(Nat) /\ work.task.seg \in Nat
        BY EntryFacts DEF QueueInv, TypeOK, Task
      <4>2. ledger'[s] = ledger[s] \/ ledger'[s] = Append(ledger[s], work.task.seg)
        BY <3>2 DEF CommitFinal, QueueInv, TypeOK
      <4>3. CASE ledger'[s] = ledger[s]
        BY <2>1, <4>3
      <4>4. CASE ledger'[s] = Append(ledger[s], work.task.seg)
        BY <2>1, <4>1, <4>4, AppendKeeps
      <4> QED BY <4>2, <4>3, <4>4
    <3> QED BY <3>1, <3>2
  <2> QED BY <2>2 DEF Settled
<1>3. CASE \E t \in noise : t.session = s /\ t.seg = n
  BY <1>1, <1>3 DEF Settled
<1>4. CASE s \in incomplete /\ \E t \in lost : t.session = s /\ t.seg = n
  BY <1>1, <1>4 DEF Settled
<1> QED BY <1>2, <1>3, <1>4 DEF Settled

\* A coordinator inside submit() carries a task of its own session.
LEMMA StepSubmissions == QueueInv /\ [Next]_vars => SubmissionsWellFormed'
<1> SUFFICES ASSUME QueueInv, [Next]_vars PROVE SubmissionsWellFormed'
  OBVIOUS
<1>a. lost \subseteq lost'
  BY LostGrows
<1> USE QueueAssumption, <1>a DEF QueueInv, TypeOK, SubmissionsWellFormed, Running, SubmitPcs, Counted, Phases
<1>1. ASSUME NEW s \in Sessions, SessionStep(s) PROVE SubmissionsWellFormed'
  <2>1. /\ pc' = pc /\ out' = out
        /\ \A x \in Sessions \ {s} : phase'[x] = phase[x]
    BY <1>1 DEF SessionStep, Spawn, Activate, Join, Barrier, AbandonCoordinator, AbandonBarrier
  <2>2. pc[s] = "idle" \/ phase'[s] \in {"active", "spawned", "abandoned"}
    BY <1>1 DEF SessionStep, Spawn, Activate, Join, Barrier, AbandonCoordinator, AbandonBarrier
  <2> QED BY <2>1, <2>2
<1>2. ASSUME NEW s \in Sessions, NEW isFinal \in BOOLEAN, Submit(s, isFinal)
      PROVE SubmissionsWellFormed'
  <2>1. NextTask(s, isFinal).session = s /\ NextTask(s, isFinal).final = isFinal
    BY DEF NextTask
  <2>2. CASE shutdown BY <1>2, <2>2 DEF Submit
  <2>3. CASE ~shutdown
    <3>1. /\ phase' = phase
          /\ pc' = [pc EXCEPT ![s] = IF isFinal THEN "count" ELSE "generation"]
          /\ out' = [out EXCEPT ![s] = [gen |-> 0, task |-> NextTask(s, isFinal)]]
      BY <1>2, <2>3 DEF Submit
    <3>2. out'[s].task.session = s /\ out'[s].task.final = isFinal
      BY <2>1, <3>1
    <3>3. \A x \in Sessions \ {s} : out'[x] = out[x] /\ pc'[x] = pc[x]
      BY <3>1
    <3>4. pc'[s] = IF isFinal THEN "count" ELSE "generation"
      BY <3>1
    <3> QED BY <1>2, <3>1, <3>2, <3>3, <3>4 DEF Submit
  <2> QED BY <2>2, <2>3
<1>3. ASSUME NEW s \in Sessions, SubmitStep(s) PROVE SubmissionsWellFormed'
  <2>1. CASE CountFinal(s) BY <2>1, SMTT(30) DEF CountFinal
  <2>7. CASE SendFinal(s) BY <2>7, SMTT(30) DEF SendFinal
  <2>2. CASE GiveUpFinal(s) BY <2>2, SMTT(30) DEF GiveUpFinal
  <2>11. CASE MarkIncomplete(s) BY <2>11, SMTT(30) DEF MarkIncomplete
  <2>3. CASE BumpGeneration(s) \/ LockToRetire(s) BY <2>3, SMTT(30) DEF BumpGeneration, LockToRetire
  <2>4. CASE RetireInterim(s) BY <2>4, SMTT(30) DEF RetireInterim
  <2>8. CASE UncountRetired(s) BY <2>8, SMTT(30) DEF UncountRetired
  <2>5. CASE TakeGeneration(s)
    <3>1. out'[s].gen = latest + 1 /\ out'[s].task = out[s].task
      BY <2>5 DEF TakeGeneration
    <3>2. \A x \in Sessions \ {s} : out'[x] = out[x] /\ pc'[x] = pc[x]
      BY <2>5 DEF TakeGeneration
    <3>3. pc[s] = "generation" /\ pc'[s] = "lock" /\ phase' = phase /\ latest \in Nat
      BY <2>5 DEF TakeGeneration
    <3> QED BY <3>1, <3>2, <3>3, SMTT(30)
  <2>6. CASE LockSlot(s) BY <2>6, SMTT(30) DEF LockSlot
  <2>9. CASE CountInterim(s) BY <2>9, SMTT(30) DEF CountInterim
  <2>10. CASE PutInterim(s) BY <2>10 DEF PutInterim
  <2> QED BY <1>3, <2>1, <2>2, <2>3, <2>4, <2>5, <2>6, <2>7, <2>8, <2>9, <2>10, <2>11 DEF SubmitStep
<1>4. ASSUME UNCHANGED submitVars PROVE SubmissionsWellFormed'
  BY <1>4 DEF submitVars
<1>5. CASE WorkerStep
  <2>1. UNCHANGED submitVars
    BY <1>5 DEF WorkerStep, ReceiveFinal, NoFinal, LockToTake, TakeInterim, Wait, DropReceiver,
       CheckStale, Recognize, CommitFinal, LoseFinal, DropNoise, AdvanceSequence, PublishFinal,
       LockSnapshot, PassGate, WriteInterim, RecheckInterim, FinishTask
  <2> QED
    BY <1>4, <2>1
<1>6. CASE RequestShutdown \/ PublicSnapshot \/ UNCHANGED vars
  BY <1>4, <1>6 DEF RequestShutdown, PublicSnapshot, vars
<1> QED BY <1>1, <1>2, <1>3, <1>5, <1>6 DEF Next

\* Only finals enter the channel and only interims the slot.
LEMMA StepQueues == QueueInv /\ [Next]_vars => QueuesWellFormed'
<1> SUFFICES ASSUME QueueInv, [Next]_vars PROVE QueuesWellFormed'
  OBVIOUS
<1> USE QueueAssumption DEF QueueInv
<1>a. finals \in Seq(Task) /\ pc \in [Sessions -> SubmitPcs]
  BY DEF TypeOK
<1>b. QueuesWellFormed
  OBVIOUS
<1>c. ASSUME UNCHANGED <<finals, slot, wpc, work>> PROVE QueuesWellFormed'
  BY <1>b, <1>c DEF QueuesWellFormed
<1>1. ASSUME NEW s \in Sessions, SessionStep(s) PROVE QueuesWellFormed'
  BY <1>1, <1>c DEF SessionStep, Spawn, Activate, Join, Barrier, AbandonCoordinator,
     AbandonBarrier, queueVars, workVars
<1>2. ASSUME NEW s \in Sessions, NEW isFinal \in BOOLEAN, Submit(s, isFinal) PROVE QueuesWellFormed'
  BY <1>2, <1>c DEF Submit, queueVars, workVars
<1>3. ASSUME NEW s \in Sessions, SubmitStep(s) PROVE QueuesWellFormed'
  <2> USE DEF workVars
  <2>1. CASE SendFinal(s)
    <3>1. out[s].task \in Task /\ out[s].task.final /\ out[s].task.session = s
      BY <2>1, EntryFacts DEF SendFinal, SubmissionsWellFormed, TypeOK
    <3>2. \A i \in DOMAIN finals' : finals'[i] = out[s].task \/ (i \in DOMAIN finals /\ finals'[i] = finals[i])
      BY <1>a, <2>1, <3>1, ChannelFacts DEF SendFinal
    <3>3. UNCHANGED <<slot, wpc, work>> BY <2>1 DEF SendFinal
    <3> QED BY <1>b, <3>1, <3>2, <3>3 DEF QueuesWellFormed
  <2>2. CASE RetireInterim(s)
    BY <1>b, <2>2 DEF RetireInterim, QueuesWellFormed, NoEntry, NoTask
  <2>3. CASE PutInterim(s)
    BY <1>b, <2>3 DEF PutInterim, QueuesWellFormed, SubmissionsWellFormed
  <2>4. CASE CountFinal(s) \/ GiveUpFinal(s) \/ MarkIncomplete(s) \/ BumpGeneration(s) \/ LockToRetire(s)
    BY <1>c, <2>4 DEF CountFinal, GiveUpFinal, MarkIncomplete, BumpGeneration, LockToRetire, queueVars
  <2>5. CASE UncountRetired(s) \/ TakeGeneration(s) \/ LockSlot(s) \/ CountInterim(s)
    BY <1>c, <2>5 DEF UncountRetired, TakeGeneration, LockSlot, CountInterim
  <2> QED BY <1>3, <2>1, <2>2, <2>3, <2>4, <2>5 DEF SubmitStep
<1>4. ASSUME WorkerStep PROVE QueuesWellFormed'
  <2>1. CASE ReceiveFinal
    <3>1. work'.task = Head(finals) /\ wpc' = "stale" /\ finals' = Tail(finals) /\ slot' = slot
      BY <2>1 DEF ReceiveFinal
    <3>2. Head(finals).final /\ Head(finals).session \in Sessions
      BY <1>a, <1>b, <2>1, ChannelFacts, EntryFacts DEF ReceiveFinal, QueuesWellFormed
    <3>3. \A i \in DOMAIN finals' : i + 1 \in DOMAIN finals /\ finals'[i] = finals[i + 1]
      BY <1>a, <2>1, <3>1, ChannelFacts, EntryFacts DEF ReceiveFinal
    <3> QED BY <1>b, <3>1, <3>2, <3>3 DEF QueuesWellFormed
  <2>2. CASE TakeInterim
    BY <1>b, <2>2 DEF TakeInterim, QueuesWellFormed, NoEntry, NoTask, WorkerBusy
  <2>3. CASE NoFinal \/ LockToTake \/ Wait \/ DropReceiver
    BY <1>b, <2>3 DEF NoFinal, LockToTake, Wait, DropReceiver, QueuesWellFormed, queueVars, WorkerBusy
  <2>4. CASE CheckStale \/ Recognize
    BY <1>b, <2>4 DEF CheckStale, Recognize, QueuesWellFormed, queueVars, WorkerBusy
  <2>5. CASE CommitFinal \/ LoseFinal \/ DropNoise \/ AdvanceSequence
    BY <1>b, <2>5 DEF CommitFinal, LoseFinal, DropNoise, AdvanceSequence, QueuesWellFormed, queueVars,
       WorkerBusy
  <2>6. CASE PublishFinal \/ LockSnapshot \/ PassGate \/ WriteInterim \/ RecheckInterim \/ FinishTask
    BY <1>b, <2>6 DEF PublishFinal, LockSnapshot, PassGate, WriteInterim, RecheckInterim, FinishTask,
       QueuesWellFormed, queueVars, WorkerBusy
  <2> QED BY <1>4, <2>1, <2>2, <2>3, <2>4, <2>5, <2>6 DEF WorkerStep
<1>5. CASE RequestShutdown \/ PublicSnapshot \/ UNCHANGED vars
  BY <1>5, <1>c DEF RequestShutdown, PublicSnapshot, vars, queueVars, workVars
<1> QED BY <1>1, <1>2, <1>3, <1>4, <1>5 DEF Next

-----------------------------------------------------------------------------
(* No final is forgotten between its coordinator and its outcome.          *)

\* A final being submitted reaches the channel, or is marked lost.
LEMMA SubmittedMoves ==
    ASSUME QueueInv, [Next]_vars, NEW s \in Sessions, NEW n,
           pc[s] \in {"count", "send", "mark"}, out[s].task.seg = n
    PROVE  InFlight(s, n)' \/ Settled(s, n)'
<1> USE DEF QueueInv, TypeOK
<1>a. out[s].task \in Task /\ out[s].task.session = s
  BY EntryFacts DEF SubmissionsWellFormed
<1>1. CASE pc'[s] = pc[s] /\ out'[s] = out[s]
  BY <1>1 DEF InFlight
<1>2. CASE CountFinal(s)
  BY <1>2 DEF CountFinal, InFlight, SubmitPcs, Counted
<1>3. CASE SendFinal(s)
  <2>1. finals' = Append(finals, out[s].task)
    BY <1>3 DEF SendFinal
  <2>2. Len(finals) + 1 \in DOMAIN finals' /\ finals'[Len(finals) + 1] = out[s].task
    BY <1>a, <2>1, ChannelFacts
  <2> QED BY <1>a, <2>2 DEF InFlight
<1>4. CASE GiveUpFinal(s)
  BY <1>4 DEF GiveUpFinal, InFlight, SubmitPcs, Counted
<1>5. CASE MarkIncomplete(s)
  <2>1. out[s].task \in lost /\ lost' = lost /\ s \in incomplete'
    BY <1>5 DEF MarkIncomplete, SubmissionsWellFormed
  <2> QED BY <1>a, <2>1 DEF Settled
<1>6. ASSUME NEW t \in Sessions, SessionStep(t) PROVE pc'[s] = pc[s] /\ out'[s] = out[s]
  BY <1>6 DEF SessionStep, Spawn, Activate, Join, Barrier, AbandonCoordinator, AbandonBarrier
<1>7. ASSUME NEW t \in Sessions, NEW isFinal \in BOOLEAN, Submit(t, isFinal)
      PROVE pc'[s] = pc[s] /\ out'[s] = out[s]
  BY <1>7 DEF Submit
<1>8. ASSUME NEW t \in Sessions \ {s}, SubmitStep(t) PROVE pc'[s] = pc[s] /\ out'[s] = out[s]
  BY <1>8 DEF SubmitStep, CountFinal, SendFinal, GiveUpFinal, MarkIncomplete, BumpGeneration,
     LockToRetire, RetireInterim, UncountRetired, TakeGeneration, LockSlot, CountInterim, PutInterim
<1>9. CASE SubmitStep(s)
  <2>1. CountFinal(s) \/ SendFinal(s) \/ GiveUpFinal(s) \/ MarkIncomplete(s)
    BY <1>9 DEF SubmitStep, BumpGeneration, LockToRetire, RetireInterim, UncountRetired,
       TakeGeneration, LockSlot, CountInterim, PutInterim
  <2> QED BY <2>1, <1>2, <1>3, <1>4, <1>5
<1>10. CASE WorkerStep
  <2>1. UNCHANGED submitVars
    BY <1>10 DEF WorkerStep, ReceiveFinal, NoFinal, LockToTake, TakeInterim, Wait, DropReceiver,
     CheckStale, Recognize, CommitFinal, LoseFinal, DropNoise, AdvanceSequence, PublishFinal,
     LockSnapshot, PassGate, WriteInterim, RecheckInterim, FinishTask
  <2> QED BY <1>1, <2>1 DEF submitVars
<1>11. CASE RequestShutdown \/ PublicSnapshot \/ UNCHANGED vars
  BY <1>1, <1>11 DEF RequestShutdown, PublicSnapshot, vars, submitVars
<1> QED BY <1>1, <1>6, <1>7, <1>8, <1>9, <1>10, <1>11 DEF Next

\* A queued final stays queued until the worker takes it.
LEMMA QueuedMoves ==
    ASSUME QueueInv, [Next]_vars, NEW s \in Sessions, NEW n,
           \E i \in DOMAIN finals : finals[i].session = s /\ finals[i].seg = n
    PROVE  InFlight(s, n)'
<1> PICK i \in DOMAIN finals : finals[i].session = s /\ finals[i].seg = n
  OBVIOUS
<1>a. finals \in Seq(Task) /\ finals[i].final
  BY DEF QueueInv, TypeOK, QueuesWellFormed
<1>1. CASE finals' = finals
  BY <1>1 DEF InFlight
<1>2. ASSUME NEW t \in Sessions, SendFinal(t) PROVE InFlight(s, n)'
  <2>1. out[t].task \in Task /\ finals' = Append(finals, out[t].task)
    BY <1>2, EntryFacts DEF SendFinal, QueueInv, TypeOK
  <2>2. i \in DOMAIN finals' /\ finals'[i] = finals[i]
    BY <1>a, <2>1, ChannelFacts
  <2> QED BY <2>2 DEF InFlight
<1>3. CASE ReceiveFinal
  <2>1. finals # <<>> /\ finals' = Tail(finals) /\ work'.task = Head(finals) /\ wpc' = "stale"
    BY <1>3 DEF ReceiveFinal
  <2>2. Head(finals) = finals[1]
    BY <1>a, <2>1, ChannelFacts, EntryFacts
  <2>3. i = 1 \/ (i - 1 \in DOMAIN finals' /\ finals'[i - 1] = finals[i])
    BY <1>a, <2>1, ChannelFacts, EntryFacts
  <2>4. CASE i = 1
    BY <1>a, <2>1, <2>2, <2>4 DEF InFlight
  <2>5. CASE i - 1 \in DOMAIN finals' /\ finals'[i - 1] = finals[i]
    BY <2>5 DEF InFlight
  <2> QED BY <2>3, <2>4, <2>5
<1>4. ASSUME NEW t \in Sessions, SessionStep(t) PROVE finals' = finals
  BY <1>4 DEF SessionStep, Spawn, Activate, Join, Barrier, AbandonCoordinator, AbandonBarrier, queueVars
<1>5. ASSUME NEW t \in Sessions, NEW isFinal \in BOOLEAN, Submit(t, isFinal) PROVE finals' = finals
  BY <1>5 DEF Submit, queueVars
<1>6. ASSUME NEW t \in Sessions, SubmitStep(t), ~SendFinal(t) PROVE finals' = finals
  BY <1>6 DEF SubmitStep, CountFinal, GiveUpFinal, MarkIncomplete, BumpGeneration,
     LockToRetire, RetireInterim, UncountRetired, TakeGeneration, LockSlot, CountInterim, PutInterim,
     queueVars
<1>7. ASSUME WorkerStep, ~ReceiveFinal PROVE finals' = finals
  BY <1>7 DEF WorkerStep, NoFinal, LockToTake, TakeInterim, Wait, DropReceiver,
     CheckStale, Recognize, CommitFinal, LoseFinal, DropNoise, AdvanceSequence, PublishFinal,
     LockSnapshot, PassGate, WriteInterim, RecheckInterim, FinishTask, queueVars
<1>8. CASE RequestShutdown \/ PublicSnapshot \/ UNCHANGED vars
  BY <1>1, <1>8 DEF RequestShutdown, PublicSnapshot, vars, queueVars
<1> QED BY <1>1, <1>2, <1>3, <1>4, <1>5, <1>6, <1>7, <1>8 DEF Next

\* The worker keeps the final it holds until it has settled it.
LEMMA HeldMoves ==
    ASSUME QueueInv, [Next]_vars, NEW s \in Sessions, NEW n,
           wpc \in {"stale", "decode", "settle"},
           work.task.final, work.task.session = s, work.task.seg = n
    PROVE  InFlight(s, n)' \/ Settled(s, n)'
<1> USE DEF QueueInv, TypeOK
<1>a. work.task \in Task
  BY EntryFacts
<1>1. CASE UNCHANGED workVars
  BY <1>1 DEF InFlight, workVars
<1>2. CASE CheckStale
  <2>1. CASE StaleTask
    BY <1>2, <2>1, <1>a DEF CheckStale, Settled
  <2>2. CASE ~StaleTask
    BY <1>2, <2>2 DEF CheckStale, InFlight
  <2> QED BY <2>1, <2>2
<1>3. CASE Recognize
  BY <1>3 DEF Recognize, InFlight
<1>4. CASE CommitFinal
  <2>1. ledger[s] \in Seq(Nat) /\ n \in Nat
    BY <1>a DEF Task
  <2>2. ledger'[s] = Append(ledger[s], n)
    BY <1>4 DEF CommitFinal
  <2>3. Len(ledger[s]) + 1 \in DOMAIN ledger'[s] /\ ledger'[s][Len(ledger[s]) + 1] = n
    BY <2>1, <2>2
  <2> QED BY <2>3 DEF Settled
<1>5. CASE LoseFinal
  BY <1>5, <1>a DEF LoseFinal, Settled
<1>6. CASE DropNoise
  BY <1>6, <1>a DEF DropNoise, Settled
<1>7. CASE WorkerStep
  <2>1. CheckStale \/ Recognize \/ CommitFinal \/ LoseFinal \/ DropNoise
    BY <1>7 DEF WorkerStep, ReceiveFinal, NoFinal, LockToTake, TakeInterim, Wait, DropReceiver,
       AdvanceSequence, PublishFinal, LockSnapshot, PassGate, WriteInterim, RecheckInterim, FinishTask
  <2> QED BY <2>1, <1>2, <1>3, <1>4, <1>5, <1>6
<1>8. ASSUME NEW t \in Sessions, SessionStep(t) \/ SubmitStep(t) PROVE UNCHANGED workVars
  BY <1>8 DEF SessionStep, Spawn, Activate, Join, Barrier, AbandonCoordinator, AbandonBarrier,
     SubmitStep, CountFinal, SendFinal, GiveUpFinal, MarkIncomplete, BumpGeneration, LockToRetire,
     RetireInterim, UncountRetired, TakeGeneration, LockSlot, CountInterim, PutInterim
<1>9. ASSUME NEW t \in Sessions, NEW isFinal \in BOOLEAN, Submit(t, isFinal) PROVE UNCHANGED workVars
  BY <1>9 DEF Submit
<1>10. CASE RequestShutdown \/ PublicSnapshot \/ UNCHANGED vars
  BY <1>1, <1>10 DEF RequestShutdown, PublicSnapshot, vars
<1> QED BY <1>1, <1>7, <1>8, <1>9, <1>10 DEF Next

\* A coordinator that is not running closes no segment.
LEMMA SegmentsClose ==
    ASSUME QueueInv, [Next]_vars, NEW s \in Sessions
    PROVE  \/ ClosedSegments(s)' = ClosedSegments(s)
           \/ /\ Running(s) /\ Submit(s, TRUE)
              /\ ClosedSegments(s)' \subseteq ClosedSegments(s) \cup {cur[s].seg}
<1> USE DEF QueueInv, TypeOK
<1>1. CASE cur'[s] = cur[s]
  BY <1>1 DEF ClosedSegments
<1>2. CASE Submit(s, TRUE)
  <2>1. cur[s].seg \in Nat /\ cur'[s] = [seg |-> cur[s].seg + 1, rev |-> 0]
    BY <1>2 DEF Submit, NextIdentity
  <2>2. 1..(cur'[s].seg - 1) \subseteq 1..(cur[s].seg - 1) \cup {cur[s].seg}
    BY <2>1
  <2> QED BY <1>2, <2>2 DEF ClosedSegments, Submit
<1>3. CASE Submit(s, FALSE)
  BY <1>3 DEF Submit, NextIdentity, ClosedSegments
<1>4. ASSUME NEW t \in Sessions, SessionStep(t) \/ SubmitStep(t) PROVE cur' = cur
  BY <1>4 DEF SessionStep, Spawn, Activate, Join, Barrier, AbandonCoordinator, AbandonBarrier,
     SubmitStep, CountFinal, SendFinal, GiveUpFinal, MarkIncomplete, BumpGeneration, LockToRetire,
     RetireInterim, UncountRetired, TakeGeneration, LockSlot, CountInterim, PutInterim
<1>5. ASSUME NEW t \in Sessions \ {s}, NEW isFinal \in BOOLEAN, Submit(t, isFinal) PROVE cur'[s] = cur[s]
  BY <1>5 DEF Submit
<1>6. CASE WorkerStep
  <2>1. UNCHANGED submitVars
    BY <1>6 DEF WorkerStep, ReceiveFinal, NoFinal, LockToTake, TakeInterim, Wait, DropReceiver,
     CheckStale, Recognize, CommitFinal, LoseFinal, DropNoise, AdvanceSequence, PublishFinal,
     LockSnapshot, PassGate, WriteInterim, RecheckInterim, FinishTask
  <2> QED BY <1>1, <2>1 DEF submitVars
<1>7. CASE RequestShutdown \/ PublicSnapshot \/ UNCHANGED vars
  BY <1>1, <1>7 DEF RequestShutdown, PublicSnapshot, vars, submitVars
<1> QED BY <1>1, <1>2, <1>3, <1>4, <1>5, <1>6, <1>7 DEF Next

\* Every closed segment is in flight or settled after every step.
LEMMA StepFlight == QueueInv /\ [Next]_vars => NothingForgotten'
<1> SUFFICES ASSUME QueueInv, [Next]_vars,
                    NEW s \in Sessions, NEW n \in ClosedSegments(s)'
             PROVE  InFlight(s, n)' \/ Settled(s, n)'
  BY DEF NothingForgotten
<1>1. CASE n \in ClosedSegments(s)
  <2>1. InFlight(s, n) \/ Settled(s, n)
    BY <1>1 DEF QueueInv, NothingForgotten
  <2>2. CASE Settled(s, n)
    BY <2>2, SettledStable
  <2>3. CASE pc[s] \in {"count", "send", "mark"} /\ out[s].task.seg = n
    BY <2>3, SubmittedMoves
  <2>4. CASE \E i \in DOMAIN finals : finals[i].session = s /\ finals[i].seg = n
    BY <2>4, QueuedMoves
  <2>5. CASE /\ wpc \in {"stale", "decode", "settle"}
             /\ work.task.final /\ work.task.session = s /\ work.task.seg = n
    BY <2>5, HeldMoves
  <2> QED BY <2>1, <2>2, <2>3, <2>4, <2>5 DEF InFlight
<1>2. CASE n \notin ClosedSegments(s)
  <2>1. Submit(s, TRUE) /\ n = cur[s].seg
    BY <1>2, SegmentsClose
  <2>2. NextTask(s, TRUE).session = s /\ NextTask(s, TRUE).seg = n
    BY <2>1 DEF NextTask
  <2>3. CASE shutdown
    BY <2>1, <2>2, <2>3 DEF Submit, Settled
  <2>4. CASE ~shutdown
    <3>1. /\ pc \in [Sessions -> SubmitPcs] /\ out \in [Sessions -> Entry]
          /\ pc' = [pc EXCEPT ![s] = "count"]
          /\ out' = [out EXCEPT ![s] = [gen |-> 0, task |-> NextTask(s, TRUE)]]
      BY <2>1, <2>4 DEF Submit, QueueInv, TypeOK
    <3>2. pc'[s] = "count" /\ out'[s].task = NextTask(s, TRUE)
      BY <3>1
    <3> QED BY <2>2, <3>2 DEF InFlight
  <2> QED BY <2>3, <2>4
<1> QED BY <1>1, <1>2

\* The barrier is passed with an empty queue, an idle worker and no coordinator
\* between the two: pending counts them all.
LEMMA BarrierMeansIdle ==
    ASSUME QueueInv, pending = 0, NEW s \in Sessions, pc[s] = "idle", NEW n
    PROVE  ~InFlight(s, n)
<1>1. /\ Len(finals) \in Nat /\ Cardinality(InTransit(pc)) \in Nat
      /\ InSlot \in {0, 1} /\ InWorker \in {0, 1}
  BY Summands DEF QueueInv
<1>2. Len(finals) = 0 /\ InWorker = 0
  BY <1>1 DEF QueueInv, PendingExact
<1>3. wpc \notin WorkerBusy
  BY <1>2 DEF InWorker
<1>4. DOMAIN finals = {}
  BY <1>2 DEF QueueInv, TypeOK
<1> QED BY <1>3, <1>4 DEF InFlight, WorkerBusy

\* A stopped meeting stays settled, and a barrier only passes a settled one.
LEMMA StepStopped == QueueInv /\ [Next]_vars => StoppedMeetingSettled'
<1> SUFFICES ASSUME QueueInv, [Next]_vars, NEW s \in Sessions, s \notin replaced', phase'[s] = "stopped",
                    NEW n \in ClosedSegments(s)'
             PROVE  Settled(s, n)'
  BY DEF StoppedMeetingSettled
<1> USE DEF QueueInv, TypeOK
<1>3. s \notin replaced
  BY ReplacedGrows
<1>1. CASE phase[s] = "stopped"
  <2>1. n \in ClosedSegments(s)
    BY <1>1, SegmentsClose DEF Running
  <2> QED BY <1>1, <1>3, <2>1, SettledStable DEF StoppedMeetingSettled
<1>2. CASE phase[s] # "stopped"
  <2>1. Barrier(s)
    <3>1. ASSUME UNCHANGED phase PROVE FALSE
      BY <1>2, <3>1
    <3>2. ASSUME NEW t \in Sessions, SessionStep(t) PROVE t = s /\ Barrier(s)
      BY <1>2, <3>2 DEF SessionStep, Spawn, Activate, Join, Barrier, AbandonCoordinator, AbandonBarrier
    <3>3. ASSUME NEW t \in Sessions, SubmitStep(t) PROVE UNCHANGED phase
      BY <3>3 DEF SubmitStep, CountFinal, SendFinal, GiveUpFinal, MarkIncomplete, BumpGeneration,
         LockToRetire, RetireInterim, UncountRetired, TakeGeneration, LockSlot, CountInterim, PutInterim
    <3>4. ASSUME NEW t \in Sessions, NEW isFinal \in BOOLEAN, Submit(t, isFinal) PROVE UNCHANGED phase
      BY <3>4 DEF Submit
    <3>5. ASSUME WorkerStep PROVE UNCHANGED phase
      BY <3>5 DEF WorkerStep, ReceiveFinal, NoFinal, LockToTake, TakeInterim, Wait, DropReceiver,
         CheckStale, Recognize, CommitFinal, LoseFinal, DropNoise, AdvanceSequence, PublishFinal,
         LockSnapshot, PassGate, WriteInterim, RecheckInterim, FinishTask, submitVars
    <3>6. CASE RequestShutdown \/ PublicSnapshot \/ UNCHANGED vars
      BY <3>1, <3>6 DEF RequestShutdown, PublicSnapshot, vars, submitVars
    <3> QED BY <3>1, <3>2, <3>3, <3>4, <3>5, <3>6 DEF Next
  <2>2. phase[s] = "joined" /\ pending = 0 /\ cur' = cur
    BY <1>3, <2>1 DEF Barrier, BarrierOpen
  <2>3. pc[s] = "idle"
    BY <2>2 DEF SubmissionsWellFormed, Running
  <2>4. n \in ClosedSegments(s)
    BY <2>2 DEF ClosedSegments
  <2>5. Settled(s, n)
    BY <2>2, <2>3, <2>4, BarrierMeansIdle DEF NothingForgotten
  <2> QED BY <2>5, SettledStable
<1> QED BY <1>1, <1>2

-----------------------------------------------------------------------------
\* The inductive invariant: the counter, the mutex, the shape of what is
\* submitted and queued, and that no final is forgotten, hold in every
\* reachable state.
THEOREM QueueInvariant == Spec => []QueueInv
<1>1. Init => QueueInv
  BY InitInv
<1>2. QueueInv /\ [Next]_vars => QueueInv'
  <2> SUFFICES ASSUME QueueInv, [Next]_vars PROVE QueueInv'
    OBVIOUS
  <2>1. PendingExact' /\ pending' \in Nat
    BY StepPending
  <2>2. TypeOK'
    BY <2>1, StepTypes
  <2>3. MutexHeld' /\ SubmissionsWellFormed' /\ QueuesWellFormed'
    BY StepMutex, StepSubmissions, StepQueues
  <2>4. NothingForgotten' /\ StoppedMeetingSettled'
    BY StepFlight, StepStopped
  <2> QED BY <2>1, <2>2, <2>3, <2>4 DEF QueueInv
<1> QED BY <1>1, <1>2, PTL DEF Spec

\* Every variable of the queue stays in its type; in particular the counter
\* never wraps below zero and the channel never exceeds its depth.
THEOREM TypeCorrect == Spec => []TypeOK
<1>1. QueueInv => TypeOK
  BY DEF QueueInv
<1> QED BY <1>1, QueueInvariant, PTL

\* The counter both barriers wait on is exact at every step of submit_final,
\* submit_interim, finish_task and the worker's loop, for any number of
\* coordinators and any depth of the channel.
THEOREM PendingAlwaysExact == Spec => []PendingExact
<1>1. QueueInv => PendingExact
  BY DEF QueueInv
<1> QED BY <1>1, QueueInvariant, PTL

\* A stop that passed join and barrier finishes a meeting none of whose finals
\* is unaccounted for, also while abandoned coordinators of earlier meetings
\* still submit.
THEOREM StoppedMeetingsSettled == Spec => []StoppedMeetingSettled
<1>1. QueueInv => StoppedMeetingSettled
  BY DEF QueueInv
<1> QED BY <1>1, QueueInvariant, PTL
-----------------------------------------------------------------------------
(* The order of the finals: what is in SQLite was closed before what the     *)
(* worker holds, that before what is in the channel, that before what is     *)
(* being submitted, and all of it before the segment that is still open.     *)

\* A coordinator has a final that may yet enter the channel.
Submitting(s) == pc[s] \in {"count", "send"}

\* The worker holds a final that may yet be committed.
HoldsFinal == wpc \in {"stale", "decode", "settle"} /\ work.task.final

\* Segment n of session s was closed before the one being submitted.
ClosedBefore(s, n) == n < cur[s].seg /\ (Submitting(s) => n < out[s].task.seg)

Conveyed ==
    /\ \A s \in Sessions : Submitting(s) => out[s].task.seg < cur[s].seg
    /\ \A i \in DOMAIN finals : ClosedBefore(finals[i].session, finals[i].seg)
    /\ \A i, j \in DOMAIN finals :
          finals[i].session = finals[j].session /\ i < j => finals[i].seg < finals[j].seg
    /\ HoldsFinal => ClosedBefore(work.task.session, work.task.seg)
    /\ HoldsFinal => \A i \in DOMAIN finals :
          finals[i].session = work.task.session => work.task.seg < finals[i].seg

Settles ==
    /\ \A s \in Sessions : \A k \in DOMAIN ledger[s] : ClosedBefore(s, ledger[s][k])
    /\ \A s \in Sessions : \A k \in DOMAIN ledger[s] : \A i \in DOMAIN finals :
          finals[i].session = s => ledger[s][k] < finals[i].seg
    /\ \A s \in Sessions : \A k \in DOMAIN ledger[s] :
          HoldsFinal /\ work.task.session = s => ledger[s][k] < work.task.seg
    /\ LedgerInOrder

-----------------------------------------------------------------------------
(* While no stop has hit its deadline, one meeting at a time is at home with *)
(* the worker: the sequence is its own, and so is the interim on the screen. *)

Home(s) == s \in Sessions /\ phase[s] \in {"spawned", "active", "joined"}

OneMeeting ==
    /\ \A r, s \in Sessions : Home(r) /\ Home(s) => r = s
    /\ \A i \in DOMAIN finals : Home(finals[i].session)
    /\ slot # NoEntry => Home(slot.task.session)
    /\ wpc \in WorkerBusy => Home(work.task.session)

SequenceAgrees ==
    \A s \in Sessions : Home(s) => seq + (IF wpc = "advance" THEN 1 ELSE 0) = Len(ledger[s])

\* The segment of an interim is open, or its final is being submitted or lost.
StillOpen(t) ==
    \/ t.seg = cur[t.session].seg
    \/ FinalUnderway(t)
    \/ \E f \in lost : f.session = t.session /\ f.seg = t.seg

\* A generation that is the latest was given to an interim of an open segment.
Generated(e) ==
    /\ e.gen > 0 /\ e.gen <= latest /\ e.task.session \in Sessions
    /\ e.gen = latest => StillOpen(e.task)

InterimsInTime ==
    /\ \A s \in Sessions :
          /\ pc[s] \in {"generation", "lock", "recount", "put"} => out[s].task.seg = cur[s].seg
          /\ pc[s] \in {"lock", "recount", "put"} => Generated(out[s])
    /\ slot # NoEntry => Generated(slot)
    /\ wpc \in WorkerBusy /\ ~work.task.final => Generated(work)
    /\ wpc \in {"gate", "write", "recheck"} => ~work.task.final
    /\ wpc \in {"write", "recheck"} => session = work.task.session

ViewInTime ==
    /\ session \in Sessions => phase[session] \notin {"new", "spawned"}
    /\ view # NoEntry => /\ Generated(view) /\ pubGen = view.gen /\ view.task.session = session
                         /\ \A s \in Sessions : phase[s] # "spawned"

InTime == OneMeeting /\ SequenceAgrees /\ InterimsInTime /\ ViewInTime

OrderInv == Conveyed /\ Settles /\ (Undisturbed => InTime)

-----------------------------------------------------------------------------
(* How a step moves what the order and the time are about.                 *)

\* The channel is changed by a coordinator that sends and by the worker that
\* receives.
LEMMA ChannelStep ==
    ASSUME [Next]_vars, ~ReceiveFinal, \A t \in Sessions : ~SendFinal(t)
    PROVE  finals' = finals
<1>1. ASSUME NEW s \in Sessions, SessionStep(s) \/ SubmitStep(s) PROVE finals' = finals
  BY <1>1 DEF SessionStep, Spawn, Activate, Join, Barrier, AbandonCoordinator, AbandonBarrier,
     SubmitStep, CountFinal, GiveUpFinal, MarkIncomplete, BumpGeneration, LockToRetire,
     RetireInterim, UncountRetired, TakeGeneration, LockSlot, CountInterim, PutInterim, queueVars
<1>2. ASSUME NEW s \in Sessions, NEW isFinal \in BOOLEAN, Submit(s, isFinal) PROVE finals' = finals
  BY <1>2 DEF Submit, queueVars
<1>3. CASE WorkerStep
  BY <1>3 DEF WorkerStep, NoFinal, LockToTake, TakeInterim, Wait, DropReceiver,
     CheckStale, Recognize, CommitFinal, LoseFinal, DropNoise, AdvanceSequence, PublishFinal,
     LockSnapshot, PassGate, WriteInterim, RecheckInterim, FinishTask, queueVars
<1>4. CASE RequestShutdown \/ PublicSnapshot \/ UNCHANGED vars
  BY <1>4 DEF RequestShutdown, PublicSnapshot, vars, queueVars
<1> QED BY <1>1, <1>2, <1>3, <1>4 DEF Next

\* What the worker holds changes only when it takes something; it comes to hold
\* a final only from the channel.
LEMMA HoldsStep ==
    ASSUME QueueInv, [Next]_vars, ~ReceiveFinal, HoldsFinal'
    PROVE  HoldsFinal /\ work' = work
<1>1. ASSUME UNCHANGED <<wpc, work>> PROVE HoldsFinal /\ work' = work
  BY <1>1 DEF HoldsFinal
<1>2. ASSUME NEW s \in Sessions, SessionStep(s) \/ SubmitStep(s) PROVE UNCHANGED <<wpc, work>>
  BY <1>2 DEF SessionStep, Spawn, Activate, Join, Barrier, AbandonCoordinator, AbandonBarrier,
     SubmitStep, CountFinal, SendFinal, GiveUpFinal, MarkIncomplete, BumpGeneration, LockToRetire,
     RetireInterim, UncountRetired, TakeGeneration, LockSlot, CountInterim, PutInterim, workVars
<1>3. ASSUME NEW s \in Sessions, NEW isFinal \in BOOLEAN, Submit(s, isFinal) PROVE UNCHANGED <<wpc, work>>
  BY <1>3 DEF Submit, workVars
<1>4. CASE WorkerStep
  <2>1. CASE TakeInterim
    <3>1. work' = slot /\ ~slot.task.final
      BY <2>1 DEF TakeInterim, QueueInv, QueuesWellFormed
    <3> QED BY <3>1 DEF HoldsFinal
  <2>2. CASE NoFinal \/ LockToTake \/ Wait \/ DropReceiver \/ CheckStale \/ Recognize
    BY <2>2 DEF HoldsFinal, NoFinal, LockToTake, Wait, DropReceiver, CheckStale, Recognize
  <2>3. CASE CommitFinal \/ LoseFinal \/ DropNoise \/ AdvanceSequence \/ PublishFinal
    BY <2>3 DEF HoldsFinal, CommitFinal, LoseFinal, DropNoise, AdvanceSequence, PublishFinal
  <2>4. CASE LockSnapshot \/ PassGate \/ WriteInterim \/ RecheckInterim \/ FinishTask
    BY <2>4 DEF HoldsFinal, LockSnapshot, PassGate, WriteInterim, RecheckInterim, FinishTask
  <2> QED BY <1>4, <2>1, <2>2, <2>3, <2>4 DEF WorkerStep
<1>5. CASE RequestShutdown \/ PublicSnapshot \/ UNCHANGED vars
  BY <1>1, <1>5 DEF RequestShutdown, PublicSnapshot, vars, workVars
<1> QED BY <1>1, <1>2, <1>3, <1>4, <1>5 DEF Next

\* Who comes out of a step submitting a final was submitting it, or has just
\* closed its segment; nothing reopens a segment.
LEMMA CoordinatorStep ==
    ASSUME QueueInv, [Next]_vars, NEW s \in Sessions
    PROVE  /\ cur[s].seg \in Nat /\ cur'[s].seg \in Nat /\ cur'[s].seg >= cur[s].seg
           /\ Submitting(s)' =>
                \/ Submitting(s) /\ out'[s] = out[s] /\ cur'[s] = cur[s]
                \/ ~Submitting(s) /\ out'[s].task.seg = cur[s].seg /\ cur'[s].seg = cur[s].seg + 1
<1> DEFINE Goal == /\ cur'[s].seg >= cur[s].seg /\ cur'[s].seg \in Nat
                   /\ Submitting(s)' =>
                        \/ Submitting(s) /\ out'[s] = out[s] /\ cur'[s] = cur[s]
                        \/ ~Submitting(s) /\ out'[s].task.seg = cur[s].seg /\ cur'[s].seg = cur[s].seg + 1
<1>a. /\ cur \in [Sessions -> [seg : Nat, rev : Nat]] /\ out \in [Sessions -> Entry]
      /\ pc \in [Sessions -> SubmitPcs] /\ cur[s].seg \in Nat
  BY DEF QueueInv, TypeOK
<1>b. ASSUME pc'[s] = pc[s], out'[s] = out[s], cur'[s] = cur[s] PROVE Goal
  BY <1>a, <1>b DEF Submitting
<1>1. ASSUME NEW t \in Sessions, SessionStep(t) PROVE UNCHANGED <<pc, cur, out>>
  BY <1>1 DEF SessionStep, Spawn, Activate, Join, Barrier, AbandonCoordinator, AbandonBarrier
<1>2. ASSUME NEW t \in Sessions, NEW isFinal \in BOOLEAN, Submit(t, isFinal) PROVE Goal
  <2>1. CASE t # s
    BY <1>a, <1>b, <1>2, <2>1 DEF Submit
  <2>2. CASE t = s
    <3>1. cur'[s] = NextIdentity(s, isFinal) /\ pc[s] = "idle"
      BY <1>a, <1>2, <2>2 DEF Submit
    <3>2. cur'[s].seg = (IF isFinal THEN cur[s].seg + 1 ELSE cur[s].seg)
      BY <3>1 DEF NextIdentity
    <3>3. CASE shutdown
      BY <1>a, <1>2, <2>2, <3>1, <3>2, <3>3 DEF Submit, Submitting
    <3>4. CASE ~shutdown
      <4>1. /\ pc'[s] = (IF isFinal THEN "count" ELSE "generation")
            /\ out'[s] = [gen |-> 0, task |-> NextTask(s, isFinal)]
        BY <1>a, <1>2, <2>2, <3>4 DEF Submit
      <4>2. out'[s].task.seg = cur[s].seg
        BY <4>1 DEF NextTask
      <4> QED BY <1>a, <3>1, <3>2, <4>1, <4>2 DEF Submitting
    <3> QED BY <3>3, <3>4
  <2> QED BY <2>1, <2>2
<1>3. ASSUME NEW t \in Sessions, SubmitStep(t) PROVE Goal
  <2>1. cur' = cur /\ (Submitting(s)' => Submitting(s) /\ out'[s] = out[s])
    BY <1>a, <1>3 DEF SubmitStep, CountFinal, SendFinal, GiveUpFinal, MarkIncomplete, BumpGeneration, LockToRetire,
       RetireInterim, UncountRetired, TakeGeneration, LockSlot, CountInterim, PutInterim, Submitting
  <2> QED BY <1>a, <2>1
<1>4. CASE WorkerStep
  <2>1. UNCHANGED submitVars
    BY <1>4 DEF WorkerStep, ReceiveFinal, NoFinal, LockToTake, TakeInterim, Wait, DropReceiver,
       CheckStale, Recognize, CommitFinal, LoseFinal, DropNoise, AdvanceSequence, PublishFinal,
       LockSnapshot, PassGate, WriteInterim, RecheckInterim, FinishTask
  <2> QED BY <1>b, <2>1 DEF submitVars
<1>5. CASE RequestShutdown \/ PublicSnapshot \/ UNCHANGED vars
  BY <1>b, <1>5 DEF RequestShutdown, PublicSnapshot, vars, submitVars
<1>6. Goal
  BY <1>b, <1>1, <1>2, <1>3, <1>4, <1>5 DEF Next
<1> QED BY <1>a, <1>6

\* ClosedBefore after the step, of a segment named before it.
ClosedNext(s, n) == n < cur'[s].seg /\ (pc'[s] \in {"count", "send"} => n < out'[s].task.seg)

\* A segment that was closed before what is being submitted stays so.
LEMMA ClosedStays ==
    ASSUME QueueInv, Conveyed, [Next]_vars, NEW s \in Sessions, NEW n \in Nat, ClosedBefore(s, n)
    PROVE  ClosedNext(s, n)
  BY CoordinatorStep DEF ClosedBefore, ClosedNext, Submitting

-----------------------------------------------------------------------------
(* The order of the finals.                                                *)

LEMMA FinalFacts ==
    ASSUME QueueInv
    PROVE  /\ \A i \in DOMAIN finals : finals[i].session \in Sessions /\ finals[i].seg \in Nat
           /\ HoldsFinal => work.task.session \in Sessions
           /\ work.task.seg \in Nat
           /\ \A s \in Sessions : out[s].task.seg \in Nat /\ cur[s].seg \in Nat
           /\ \A s \in Sessions : \A k \in DOMAIN ledger[s] : ledger[s][k] \in Nat
           /\ \A s \in Sessions : ledger[s] \in Seq(Nat)
<1>1. \A i \in DOMAIN finals : finals[i].session \in Sessions /\ finals[i] \in Task
  BY DEF QueueInv, TypeOK, QueuesWellFormed
<1>2. work.task \in Task /\ \A s \in Sessions : out[s].task \in Task
  BY EntryFacts DEF QueueInv, TypeOK
<1>3. HoldsFinal => work.task.session \in Sessions
  BY DEF HoldsFinal, QueueInv, QueuesWellFormed, WorkerBusy
<1>4. ledger \in [Sessions -> Seq(Nat)] /\ \A s \in Sessions : cur[s].seg \in Nat
  BY DEF QueueInv, TypeOK
<1> QED BY <1>1, <1>2, <1>3, <1>4 DEF Task

LEMMA StepConveyed ==
    ASSUME QueueInv, Conveyed, [Next]_vars
    PROVE  Conveyed'
<1>a. finals \in Seq(Task)
  BY DEF QueueInv, TypeOK
<1>1. \A s \in Sessions : Submitting(s)' => out'[s].task.seg < cur'[s].seg
  BY CoordinatorStep DEF Conveyed
<1>2. CASE \E t \in Sessions : SendFinal(t)
  <2> PICK t \in Sessions : SendFinal(t)
    BY <1>2
  <2> DEFINE x == out[t].task
  <2>1. /\ x \in Task /\ x.session = t /\ Submitting(t) /\ finals' = Append(finals, x)
        /\ UNCHANGED <<wpc, work, cur>> /\ ~Submitting(t)' /\ ~ReceiveFinal
    BY EntryFacts DEF SendFinal, QueueInv, TypeOK, SubmissionsWellFormed, Submitting, workVars, ReceiveFinal, SubmitPcs
  <2>2. x.seg < cur[t].seg /\ x.seg \in Nat
    BY <2>1, FinalFacts DEF Conveyed
  <2>3. \A i \in DOMAIN finals' : \/ i \in DOMAIN finals /\ finals'[i] = finals[i]
                                  \/ i = Len(finals) + 1 /\ finals'[i] = x
    BY <1>a, <2>1, ChannelFacts
  <2>4. \A i \in DOMAIN finals : i \in 1..Len(finals) /\ Len(finals) \in Nat
    BY <1>a
  <2> HIDE DEF x
  <2>5. ClosedNext(t, x.seg)
    BY <2>1, <2>2 DEF ClosedNext, Submitting
  <2>6. \A i \in DOMAIN finals : /\ ClosedNext(finals[i].session, finals[i].seg)
                                 /\ finals[i].session = t => finals[i].seg < x.seg
    <3>1. \A i \in DOMAIN finals : ClosedNext(finals[i].session, finals[i].seg)
      BY FinalFacts, ClosedStays DEF Conveyed
    <3>2. \A i \in DOMAIN finals : finals[i].session = t => finals[i].seg < x.seg
      BY <2>1 DEF Conveyed, ClosedBefore, x
    <3> QED BY <3>1, <3>2
  <2>7. \A i \in DOMAIN finals' : ClosedNext(finals'[i].session, finals'[i].seg)
    BY <2>1, <2>3, <2>5, <2>6
  <2>8. \A i, j \in DOMAIN finals' :
          finals'[i].session = finals'[j].session /\ i < j => finals'[i].seg < finals'[j].seg
    <3> SUFFICES ASSUME NEW i \in DOMAIN finals', NEW j \in DOMAIN finals',
                        finals'[i].session = finals'[j].session, i < j
                 PROVE  finals'[i].seg < finals'[j].seg
      OBVIOUS
    <3>1. i \in DOMAIN finals /\ finals'[i] = finals[i]
      BY <2>3, <2>4
    <3>2. CASE j \in DOMAIN finals /\ finals'[j] = finals[j]
      BY <3>1, <3>2 DEF Conveyed
    <3>3. CASE finals'[j] = x
      BY <2>1, <2>6, <3>1, <3>3
    <3> QED BY <2>3, <3>2, <3>3
  <2>9. HoldsFinal' => ClosedNext(work'.task.session, work'.task.seg)
    BY <2>1, HoldsStep, FinalFacts, ClosedStays DEF Conveyed
  <2>10. HoldsFinal' => \A i \in DOMAIN finals' :
           finals'[i].session = work'.task.session => work'.task.seg < finals'[i].seg
    <3> SUFFICES ASSUME HoldsFinal', NEW i \in DOMAIN finals', finals'[i].session = work'.task.session
                 PROVE  work'.task.seg < finals'[i].seg
      OBVIOUS
    <3>1. HoldsFinal /\ work' = work
      BY <2>1, HoldsStep
    <3>2. CASE i \in DOMAIN finals /\ finals'[i] = finals[i]
      BY <3>1, <3>2 DEF Conveyed
    <3>3. CASE finals'[i] = x
      BY <2>1, <3>1, <3>3 DEF Conveyed, ClosedBefore, x
    <3> QED BY <2>3, <3>2, <3>3
  <2> QED BY <1>1, <2>7, <2>8, <2>9, <2>10 DEF Conveyed, ClosedBefore, ClosedNext, Submitting
<1>3. CASE ReceiveFinal
  <2>1. /\ finals # <<>> /\ finals' = Tail(finals) /\ work'.task = Head(finals) /\ wpc' = "stale"
    BY <1>3 DEF ReceiveFinal
  <2>2. /\ Head(finals) = finals[1] /\ 1 \in DOMAIN finals
        /\ \A i \in DOMAIN finals' : i + 1 \in DOMAIN finals /\ finals'[i] = finals[i + 1] /\ i \in Nat /\ i > 0
    BY <1>a, <2>1, ChannelFacts, EntryFacts
  <2>3. \A i \in DOMAIN finals : ClosedNext(finals[i].session, finals[i].seg)
    BY FinalFacts, ClosedStays DEF Conveyed
  <2>4. \A i \in DOMAIN finals' : ClosedNext(finals'[i].session, finals'[i].seg)
    BY <2>2, <2>3
  <2>5. \A i, j \in DOMAIN finals' :
          finals'[i].session = finals'[j].session /\ i < j => finals'[i].seg < finals'[j].seg
    <3> SUFFICES ASSUME NEW i \in DOMAIN finals', NEW j \in DOMAIN finals',
                        finals'[i].session = finals'[j].session, i < j
                 PROVE  finals'[i].seg < finals'[j].seg
      OBVIOUS
    <3>1. /\ i + 1 \in DOMAIN finals /\ j + 1 \in DOMAIN finals /\ i + 1 < j + 1
          /\ finals'[i] = finals[i + 1] /\ finals'[j] = finals[j + 1]
      BY <2>2
    <3> QED BY <3>1 DEF Conveyed
  <2>6. ClosedNext(work'.task.session, work'.task.seg)
    BY <2>1, <2>2, <2>3
  <2>7. \A i \in DOMAIN finals' : finals'[i].session = work'.task.session => work'.task.seg < finals'[i].seg
    <3> SUFFICES ASSUME NEW i \in DOMAIN finals', finals'[i].session = work'.task.session
                 PROVE  work'.task.seg < finals'[i].seg
      OBVIOUS
    <3>1. 1 < i + 1 /\ i + 1 \in DOMAIN finals /\ 1 \in DOMAIN finals /\ finals'[i] = finals[i + 1]
      BY <2>2
    <3> QED BY <2>1, <2>2, <3>1 DEF Conveyed
  <2> QED BY <1>1, <2>4, <2>5, <2>6, <2>7 DEF Conveyed, ClosedBefore, ClosedNext, Submitting
<1>4. CASE ~ReceiveFinal /\ \A t \in Sessions : ~SendFinal(t)
  <2>1. finals' = finals
    BY <1>4, ChannelStep
  <2>2. \A i \in DOMAIN finals : ClosedNext(finals[i].session, finals[i].seg)
    BY FinalFacts, ClosedStays DEF Conveyed
  <2>3. HoldsFinal' => /\ HoldsFinal /\ work' = work
                       /\ ClosedNext(work.task.session, work.task.seg)
    BY <1>4, HoldsStep, FinalFacts, ClosedStays DEF Conveyed
  <2> QED BY <1>1, <2>1, <2>2, <2>3 DEF Conveyed, ClosedBefore, ClosedNext, Submitting
<1> QED BY <1>2, <1>3, <1>4

\* The number under which the worker's final is committed is beyond every other.
LEMMA AppendSorted ==
    ASSUME NEW q \in Seq(Nat), NEW x \in Nat,
           \A i, j \in DOMAIN q : i < j => q[i] < q[j],
           \A k \in DOMAIN q : q[k] < x
    PROVE  /\ \A i, j \in DOMAIN Append(q, x) : i < j => Append(q, x)[i] < Append(q, x)[j]
           /\ \A k \in DOMAIN Append(q, x) :
                \/ k \in DOMAIN q /\ Append(q, x)[k] = q[k]
                \/ Append(q, x)[k] = x
  OBVIOUS

LEMMA StepSettles ==
    ASSUME QueueInv, Conveyed, Settles, [Next]_vars
    PROVE  Settles'
<1>a. finals \in Seq(Task)
  BY DEF QueueInv, TypeOK
<1>1. \A s \in Sessions : \A k \in DOMAIN ledger[s] : ClosedNext(s, ledger[s][k])
  BY FinalFacts, ClosedStays DEF Settles
<1>2. CASE CommitFinal
  <2> DEFINE w == work.task
  <2>1. /\ wpc = "settle" /\ HoldsFinal /\ ~HoldsFinal' /\ finals' = finals
        /\ ledger' = [ledger EXCEPT ![w.session] = Append(@, w.seg)]
    BY <1>2 DEF CommitFinal, HoldsFinal, QueueInv, QueuesWellFormed, queueVars
  <2>2. w.session \in Sessions /\ w.seg \in Nat /\ ledger \in [Sessions -> Seq(Nat)]
    BY <2>1, FinalFacts DEF QueueInv, TypeOK
  <2> HIDE DEF w
  <2>3. /\ ledger'[w.session] = Append(ledger[w.session], w.seg)
        /\ \A s \in Sessions : s # w.session => ledger'[s] = ledger[s]
    BY <2>1, <2>2
  <2>4. \A k \in DOMAIN ledger[w.session] : ledger[w.session][k] < w.seg
    BY <2>1, <2>2 DEF Settles, w
  <2>5. /\ \A i, j \in DOMAIN ledger'[w.session] : i < j => ledger'[w.session][i] < ledger'[w.session][j]
        /\ \A k \in DOMAIN ledger'[w.session] :
             \/ k \in DOMAIN ledger[w.session] /\ ledger'[w.session][k] = ledger[w.session][k]
             \/ ledger'[w.session][k] = w.seg
    BY SMTT(30), <2>2, <2>3, <2>4, AppendSorted DEF Settles, LedgerInOrder
  <2>6. LedgerInOrder'
    BY <2>3, <2>5 DEF Settles, LedgerInOrder
  <2>7. ClosedNext(w.session, w.seg)
    BY <2>1, <2>2, ClosedStays DEF Conveyed, w
  <2>8. \A s \in Sessions : \A k \in DOMAIN ledger'[s] : ClosedNext(s, ledger'[s][k])
    BY <1>1, <2>3, <2>5, <2>7
  <2>9. \A i \in DOMAIN finals : finals[i].session = w.session => w.seg < finals[i].seg
    BY <2>1 DEF Conveyed, w
  <2>10. \A s \in Sessions : \A k \in DOMAIN ledger'[s] : \A i \in DOMAIN finals' :
           finals'[i].session = s => ledger'[s][k] < finals'[i].seg
    BY <2>1, <2>3, <2>5, <2>9 DEF Settles
  <2> QED BY <2>1, <2>6, <2>8, <2>10 DEF Settles, ClosedBefore, ClosedNext, Submitting
<1>3. CASE ~CommitFinal
  <2>1. ledger' = ledger
    BY <1>3, LedgerStep
  <2>2. LedgerInOrder'
    BY <2>1 DEF Settles, LedgerInOrder
  <2>3. \A s \in Sessions : \A k \in DOMAIN ledger[s] : \A i \in DOMAIN finals' :
          finals'[i].session = s => ledger[s][k] < finals'[i].seg
    <3>1. CASE \E t \in Sessions : SendFinal(t)
      <4> PICK t \in Sessions : SendFinal(t)
        BY <3>1
      <4>1. /\ out[t].task \in Task /\ out[t].task.session = t /\ Submitting(t)
            /\ finals' = Append(finals, out[t].task)
        BY EntryFacts DEF SendFinal, QueueInv, TypeOK, SubmissionsWellFormed, Submitting
      <4>2. \A i \in DOMAIN finals' : \/ i \in DOMAIN finals /\ finals'[i] = finals[i]
                                      \/ finals'[i] = out[t].task
        BY <1>a, <4>1, ChannelFacts
      <4>3. \A k \in DOMAIN ledger[t] : ledger[t][k] < out[t].task.seg
        BY <4>1 DEF Settles, ClosedBefore
      <4> QED BY <4>1, <4>2, <4>3 DEF Settles
    <3>2. CASE ReceiveFinal
      <4>1. \A i \in DOMAIN finals' : i + 1 \in DOMAIN finals /\ finals'[i] = finals[i + 1]
        BY <1>a, <3>2, ChannelFacts, EntryFacts DEF ReceiveFinal
      <4> QED BY <4>1 DEF Settles
    <3>3. CASE ~ReceiveFinal /\ \A t \in Sessions : ~SendFinal(t)
      BY <3>3, ChannelStep DEF Settles
    <3> QED BY <3>1, <3>2, <3>3
  <2>4. \A s \in Sessions : \A k \in DOMAIN ledger[s] :
          HoldsFinal' /\ work'.task.session = s => ledger[s][k] < work'.task.seg
    <3>1. CASE ReceiveFinal
      <4>1. 1 \in DOMAIN finals /\ work'.task = finals[1]
        BY <1>a, <3>1, ChannelFacts, EntryFacts DEF ReceiveFinal
      <4> QED BY <4>1 DEF Settles
    <3>2. CASE ~ReceiveFinal
      BY <3>2, HoldsStep DEF Settles
    <3> QED BY <3>1, <3>2
  <2> QED BY <1>1, <2>1, <2>2, <2>3, <2>4 DEF Settles, ClosedBefore, ClosedNext, Submitting
<1> QED BY <1>2, <1>3

-----------------------------------------------------------------------------
(* One meeting at a time, while no stop has hit its deadline.              *)

\* Only the session around the queue changes a phase.
LEMMA PhaseStep ==
    ASSUME [Next]_vars, \A s \in Sessions : ~SessionStep(s)
    PROVE  phase' = phase
<1>1. ASSUME NEW s \in Sessions, SubmitStep(s) PROVE phase' = phase
  BY <1>1 DEF SubmitStep, CountFinal, SendFinal, GiveUpFinal, MarkIncomplete, BumpGeneration, LockToRetire,
     RetireInterim, UncountRetired, TakeGeneration, LockSlot, CountInterim, PutInterim
<1>2. ASSUME NEW s \in Sessions, NEW isFinal \in BOOLEAN, Submit(s, isFinal) PROVE phase' = phase
  BY <1>2 DEF Submit
<1>3. CASE WorkerStep
  BY <1>3 DEF WorkerStep, ReceiveFinal, NoFinal, LockToTake, TakeInterim, Wait, DropReceiver,
     CheckStale, Recognize, CommitFinal, LoseFinal, DropNoise, AdvanceSequence, PublishFinal,
     LockSnapshot, PassGate, WriteInterim, RecheckInterim, FinishTask, submitVars
<1>4. CASE RequestShutdown \/ PublicSnapshot \/ UNCHANGED vars
  BY <1>4 DEF RequestShutdown, PublicSnapshot, vars, submitVars
<1> QED BY <1>1, <1>2, <1>3, <1>4 DEF Next

\* A stop that was abandoned is never undone, nor a worker that was replaced.
LEMMA StopsStep ==
    ASSUME QueueInv, [Next]_vars, Undisturbed'
    PROVE  Undisturbed
<1>0. replaced \subseteq replaced'
  BY ReplacedGrows
<1> SUFFICES ASSUME NEW x \in Sessions, phase[x] \in {"abandoned", "failed"}
             PROVE  phase'[x] \in {"abandoned", "failed"}
  BY <1>0 DEF Undisturbed
<1>1. phase \in [Sessions -> Phases]
  BY DEF QueueInv, TypeOK
<1>2. ASSUME NEW s \in Sessions, SessionStep(s) PROVE phase'[x] = phase[x]
  BY <1>1, <1>2 DEF SessionStep, Spawn, Activate, Join, Barrier, AbandonCoordinator, AbandonBarrier
<1> QED BY <1>2, PhaseStep

\* The slot is filled by a coordinator and emptied by one or by the worker.
LEMMA SlotStep ==
    ASSUME [Next]_vars, ~TakeInterim, \A t \in Sessions : ~RetireInterim(t) /\ ~PutInterim(t)
    PROVE  slot' = slot
<1>1. ASSUME NEW s \in Sessions, SessionStep(s) \/ SubmitStep(s) PROVE slot' = slot
  BY <1>1 DEF SessionStep, Spawn, Activate, Join, Barrier, AbandonCoordinator, AbandonBarrier,
     SubmitStep, CountFinal, SendFinal, GiveUpFinal, MarkIncomplete, BumpGeneration, LockToRetire,
     UncountRetired, TakeGeneration, LockSlot, CountInterim, queueVars
<1>2. ASSUME NEW s \in Sessions, NEW isFinal \in BOOLEAN, Submit(s, isFinal) PROVE slot' = slot
  BY <1>2 DEF Submit, queueVars
<1>3. CASE WorkerStep
  BY <1>3 DEF WorkerStep, ReceiveFinal, NoFinal, LockToTake, Wait, DropReceiver,
     CheckStale, Recognize, CommitFinal, LoseFinal, DropNoise, AdvanceSequence, PublishFinal,
     LockSnapshot, PassGate, WriteInterim, RecheckInterim, FinishTask, queueVars
<1>4. CASE RequestShutdown \/ PublicSnapshot \/ UNCHANGED vars
  BY <1>4 DEF RequestShutdown, PublicSnapshot, vars, queueVars
<1> QED BY <1>1, <1>2, <1>3, <1>4 DEF Next

\* The worker is busy with what it has taken.
LEMMA BusyStep ==
    ASSUME [Next]_vars, ~TakeInterim, ~ReceiveFinal, wpc' \in WorkerBusy
    PROVE  wpc \in WorkerBusy /\ work' = work
<1>1. ASSUME NEW s \in Sessions, SessionStep(s) \/ SubmitStep(s) PROVE UNCHANGED <<wpc, work>>
  BY <1>1 DEF SessionStep, Spawn, Activate, Join, Barrier, AbandonCoordinator, AbandonBarrier,
     SubmitStep, CountFinal, SendFinal, GiveUpFinal, MarkIncomplete, BumpGeneration, LockToRetire,
     RetireInterim, UncountRetired, TakeGeneration, LockSlot, CountInterim, PutInterim, workVars
<1>2. ASSUME NEW s \in Sessions, NEW isFinal \in BOOLEAN, Submit(s, isFinal) PROVE UNCHANGED <<wpc, work>>
  BY <1>2 DEF Submit, workVars
<1>3. CASE WorkerStep
  BY <1>3 DEF WorkerStep, WorkerBusy, NoFinal, LockToTake, Wait, DropReceiver,
     CheckStale, Recognize, CommitFinal, LoseFinal, DropNoise, AdvanceSequence, PublishFinal,
     LockSnapshot, PassGate, WriteInterim, RecheckInterim, FinishTask
<1>4. CASE RequestShutdown \/ PublicSnapshot \/ UNCHANGED vars
  BY <1>4 DEF RequestShutdown, PublicSnapshot, vars, workVars
<1> QED BY <1>1, <1>2, <1>3, <1>4 DEF Next

\* When pending is zero nothing is queued and the worker is idle.
LEMMA NothingPending ==
    ASSUME QueueInv, pending = 0
    PROVE  DOMAIN finals = {} /\ slot = NoEntry /\ wpc \notin WorkerBusy
<1>1. /\ Len(finals) \in Nat /\ Cardinality(InTransit(pc)) \in Nat
      /\ InSlot \in {0, 1} /\ InWorker \in {0, 1}
  BY Summands DEF QueueInv
<1>2. Len(finals) = 0 /\ InWorker = 0 /\ InSlot = 0
  BY <1>1 DEF QueueInv, PendingExact
<1>3. DOMAIN finals = {}
  BY <1>2 DEF QueueInv, TypeOK
<1> QED BY <1>2, <1>3 DEF InWorker, InSlot, SlotCounted

\* Home after the step, of a session named before it.
HomeNext(s) == s \in Sessions /\ phase'[s] \in {"spawned", "active", "joined"}

LEMMA HomeStep ==
    ASSUME QueueInv, [Next]_vars, \A t \in Sessions : ~Spawn(t) /\ ~Barrier(t), Undisturbed', NEW s
    PROVE  HomeNext(s) <=> Home(s)
<1>1. phase \in [Sessions -> Phases]
  BY DEF QueueInv, TypeOK
<1>2. ASSUME NEW t \in Sessions, SessionStep(t) PROVE HomeNext(s) <=> Home(s)
  BY <1>1, <1>2 DEF SessionStep, Activate, Join, AbandonCoordinator, AbandonBarrier, Home, HomeNext, Undisturbed
<1>3. CASE \A t \in Sessions : ~SessionStep(t)
  BY <1>3, PhaseStep DEF Home, HomeNext
<1> QED BY <1>2, <1>3

\* Who submits while no stop was abandoned is at home.
LEMMA SubmitterHome ==
    ASSUME QueueInv, Undisturbed, NEW s \in Sessions, pc[s] # "idle"
    PROVE  Home(s) /\ out[s].task.session = s
  BY DEF QueueInv, SubmissionsWellFormed, Running, Undisturbed, Home

LEMMA StepOneMeeting ==
    ASSUME QueueInv, Undisturbed, OneMeeting, [Next]_vars, Undisturbed'
    PROVE  OneMeeting'
<1>a. finals \in Seq(Task) /\ phase \in [Sessions -> Phases]
  BY DEF QueueInv, TypeOK
<1>1. ASSUME NEW s \in Sessions, Spawn(s) PROVE OneMeeting'
  <2>1. UNCHANGED <<finals, slot, wpc, work>> /\ phase' = [phase EXCEPT ![s] = "spawned"]
    BY <1>1 DEF Spawn, queueVars, workVars
  <2>2. \A r \in Sessions : ~Home(r)
    BY <1>1 DEF Spawn, NoSessionHeld, Home, Undisturbed
  <2>3. DOMAIN finals = {} /\ slot = NoEntry /\ wpc \notin WorkerBusy
    BY <2>2 DEF OneMeeting, Home
  <2>4. \A r \in Sessions : HomeNext(r) => r = s
    BY <1>a, <2>1, <2>2 DEF Home, HomeNext
  <2> QED BY <2>1, <2>3, <2>4 DEF OneMeeting, Home, HomeNext
<1>2. ASSUME NEW s \in Sessions, Barrier(s) PROVE OneMeeting'
  <2>1. /\ UNCHANGED <<finals, slot, wpc, work>> /\ phase' = [phase EXCEPT ![s] = "stopped"]
        /\ pending = 0
    BY <1>2 DEF Barrier, BarrierOpen, queueVars, workVars, Undisturbed
  <2>2. DOMAIN finals = {} /\ slot = NoEntry /\ wpc \notin WorkerBusy
    BY <2>1, NothingPending
  <2>3. \A r \in Sessions : HomeNext(r) => Home(r)
    BY <1>a, <2>1 DEF Home, HomeNext
  <2> QED BY <2>1, <2>2, <2>3 DEF OneMeeting, Home, HomeNext
<1>3. CASE \A t \in Sessions : ~Spawn(t) /\ ~Barrier(t)
  <2>1. \A r, s \in Sessions : HomeNext(r) /\ HomeNext(s) => r = s
    BY <1>3, HomeStep DEF OneMeeting
  <2>2. \A i \in DOMAIN finals' : HomeNext(finals'[i].session)
    <3>1. CASE \E t \in Sessions : SendFinal(t)
      <4> PICK t \in Sessions : SendFinal(t)
        BY <3>1
      <4>1. /\ out[t].task \in Task /\ out[t].task.session = t /\ Home(t)
            /\ finals' = Append(finals, out[t].task)
        BY EntryFacts, SubmitterHome DEF SendFinal, QueueInv, TypeOK
      <4>2. \A i \in DOMAIN finals' : \/ i \in DOMAIN finals /\ finals'[i] = finals[i]
                                      \/ finals'[i] = out[t].task
        BY <1>a, <4>1, ChannelFacts
      <4> QED BY <1>3, <4>1, <4>2, HomeStep DEF OneMeeting
    <3>2. CASE ReceiveFinal
      <4>1. \A i \in DOMAIN finals' : i + 1 \in DOMAIN finals /\ finals'[i] = finals[i + 1]
        BY <1>a, <3>2, ChannelFacts, EntryFacts DEF ReceiveFinal
      <4> QED BY <1>3, <4>1, HomeStep DEF OneMeeting
    <3>3. CASE ~ReceiveFinal /\ \A t \in Sessions : ~SendFinal(t)
      BY <1>3, <3>3, ChannelStep, HomeStep DEF OneMeeting
    <3> QED BY <3>1, <3>2, <3>3
  <2>3. slot' # NoEntry => HomeNext(slot'.task.session)
    <3>1. CASE TakeInterim \/ \E t \in Sessions : RetireInterim(t)
      BY <3>1 DEF TakeInterim, RetireInterim
    <3>2. ASSUME NEW t \in Sessions, PutInterim(t) PROVE HomeNext(slot'.task.session)
      <4>1. slot' = out[t] /\ pc[t] # "idle"
        BY <3>2 DEF PutInterim
      <4> QED BY <1>3, <4>1, SubmitterHome, HomeStep
    <3>3. CASE ~TakeInterim /\ \A t \in Sessions : ~RetireInterim(t) /\ ~PutInterim(t)
      BY <1>3, <3>3, SlotStep, HomeStep DEF OneMeeting
    <3> QED BY <3>1, <3>2, <3>3
  <2>4. wpc' \in WorkerBusy => HomeNext(work'.task.session)
    <3>1. CASE TakeInterim
      <4>1. work' = slot /\ (slot = NoEntry => wpc' = "wait")
        BY <3>1 DEF TakeInterim
      <4> QED BY <1>3, <4>1, HomeStep DEF OneMeeting, WorkerBusy
    <3>2. CASE ReceiveFinal
      <4>1. work'.task = finals[1] /\ 1 \in DOMAIN finals
        BY <1>a, <3>2, ChannelFacts, EntryFacts DEF ReceiveFinal
      <4> QED BY <1>3, <4>1, HomeStep DEF OneMeeting
    <3>3. CASE ~TakeInterim /\ ~ReceiveFinal
      BY <1>3, <3>3, BusyStep, HomeStep DEF OneMeeting
    <3> QED BY <3>1, <3>2, <3>3
  <2> QED BY <2>1, <2>2, <2>3, <2>4 DEF OneMeeting, Home, HomeNext
<1> QED BY <1>1, <1>2, <1>3

\* The sequence is moved by a new meeting and after a commit only.
LEMMA CounterStep ==
    ASSUME [Next]_vars, ~CommitFinal, ~AdvanceSequence, \A s \in Sessions : ~Spawn(s)
    PROVE  seq' = seq /\ (wpc' = "advance" <=> wpc = "advance")
<1>1. ASSUME NEW s \in Sessions, SessionStep(s) \/ SubmitStep(s) PROVE UNCHANGED <<seq, wpc>>
  BY <1>1 DEF SessionStep, Activate, Join, Barrier, AbandonCoordinator, AbandonBarrier,
     SubmitStep, CountFinal, SendFinal, GiveUpFinal, MarkIncomplete, BumpGeneration, LockToRetire,
     RetireInterim, UncountRetired, TakeGeneration, LockSlot, CountInterim, PutInterim, workVars, storeVars
<1>2. ASSUME NEW s \in Sessions, NEW isFinal \in BOOLEAN, Submit(s, isFinal) PROVE UNCHANGED <<seq, wpc>>
  BY <1>2 DEF Submit, workVars
<1>3. CASE WorkerStep
  BY <1>3 DEF WorkerStep, ReceiveFinal, NoFinal, LockToTake, TakeInterim, Wait, DropReceiver,
     CheckStale, Recognize, LoseFinal, DropNoise, PublishFinal,
     LockSnapshot, PassGate, WriteInterim, RecheckInterim, FinishTask, storeVars
<1>4. CASE RequestShutdown \/ PublicSnapshot \/ UNCHANGED vars
  BY <1>4 DEF RequestShutdown, PublicSnapshot, vars, workVars, storeVars
<1> QED BY <1>1, <1>2, <1>3, <1>4 DEF Next

LEMMA StepSequence ==
    ASSUME QueueInv, Undisturbed, OneMeeting, SequenceAgrees, [Next]_vars, Undisturbed'
    PROVE  SequenceAgrees'
<1>a. /\ ledger \in [Sessions -> Seq(Nat)] /\ seq \in Nat /\ phase \in [Sessions -> Phases]
      /\ \A s \in Sessions : Len(ledger[s]) \in Nat
  BY DEF QueueInv, TypeOK
<1>1. ASSUME NEW s \in Sessions, Spawn(s) PROVE SequenceAgrees'
  <2>1. /\ seq' = Len(ledger[s]) /\ ledger' = ledger /\ wpc' = wpc
        /\ phase' = [phase EXCEPT ![s] = "spawned"]
    BY <1>1 DEF Spawn, SeededSequence, workVars
  <2>2. \A r \in Sessions : ~Home(r)
    BY <1>1 DEF Spawn, NoSessionHeld, Home, Undisturbed
  <2>3. wpc # "advance"
    BY <2>2 DEF OneMeeting, WorkerBusy, Home
  <2>4. \A r \in Sessions : HomeNext(r) => r = s
    BY <1>a, <2>1, <2>2 DEF Home, HomeNext
  <2> QED BY <1>a, <2>1, <2>3, <2>4 DEF SequenceAgrees, Home, HomeNext
<1>2. CASE CommitFinal
  <2> DEFINE w == work.task.session
  <2>1. /\ wpc = "settle" /\ wpc' = "advance" /\ seq' = seq
        /\ ledger' = [ledger EXCEPT ![w] = Append(@, work.task.seg)]
    BY <1>2 DEF CommitFinal
  <2>2. Home(w) /\ w \in Sessions
    BY <2>1 DEF OneMeeting, WorkerBusy, Home
  <2>3. seq = Len(ledger[w])
    BY <1>a, <2>1, <2>2 DEF SequenceAgrees
  <2>4. Len(ledger'[w]) = Len(ledger[w]) + 1
    BY <1>a, <2>1, <2>2
  <2>5. \A t \in Sessions : ~Spawn(t) /\ ~Barrier(t)
    BY <2>1 DEF Spawn, Barrier, workVars
  <2>6. \A r \in Sessions : HomeNext(r) => r = w
    BY <2>2, <2>5, HomeStep DEF OneMeeting
  <2> HIDE DEF w
  <2> QED BY <1>a, <2>1, <2>3, <2>4, <2>6 DEF SequenceAgrees, Home, HomeNext
<1>3. CASE AdvanceSequence
  <2> DEFINE w == work.task.session
  <2>1. /\ wpc = "advance" /\ wpc' = "publish" /\ ledger' = ledger
        /\ seq' = IF Len(ledger[w]) > seq THEN Len(ledger[w]) ELSE seq
    BY <1>3 DEF AdvanceSequence
  <2>2. Home(w) /\ w \in Sessions
    BY <2>1 DEF OneMeeting, WorkerBusy, Home
  <2>3. seq + 1 = Len(ledger[w])
    BY <2>1, <2>2 DEF SequenceAgrees
  <2>4. seq' = Len(ledger[w])
    BY <1>a, <2>1, <2>3
  <2>5. \A t \in Sessions : ~Spawn(t) /\ ~Barrier(t)
    BY <2>1 DEF Spawn, Barrier, workVars
  <2>6. \A r \in Sessions : HomeNext(r) => r = w
    BY <2>2, <2>5, HomeStep DEF OneMeeting
  <2> HIDE DEF w
  <2> QED BY <1>a, <2>1, <2>2, <2>4, <2>6 DEF SequenceAgrees, Home, HomeNext
<1>4. CASE ~CommitFinal /\ ~AdvanceSequence /\ \A s \in Sessions : ~Spawn(s)
  <2>1. seq' = seq /\ ledger' = ledger /\ (wpc' = "advance" <=> wpc = "advance")
    BY <1>4, CounterStep, LedgerStep
  <2>2. \A r \in Sessions : HomeNext(r) => Home(r)
    <3>1. ASSUME NEW t \in Sessions, Barrier(t), NEW r \in Sessions, HomeNext(r) PROVE Home(r)
      BY <1>a, <3>1 DEF Barrier, Home, HomeNext
    <3> QED BY <1>4, <3>1, HomeStep
  <2> QED BY <2>1, <2>2 DEF SequenceAgrees, Home, HomeNext
<1> QED BY <1>1, <1>2, <1>3, <1>4

-----------------------------------------------------------------------------
(* The interims.                                                           *)

\* StillOpen and Generated after the step, of an interim named before it.
OpenNext(t) ==
    \/ t.seg = cur'[t.session].seg
    \/ /\ pc'[t.session] \in {"count", "send", "mark", "bump"}
       /\ out'[t.session].task.final /\ out'[t.session].task.seg = t.seg
    \/ \E f \in lost' : f.session = t.session /\ f.seg = t.seg

GeneratedNext(e) ==
    /\ e.gen > 0 /\ e.gen <= latest' /\ e.task.session \in Sessions
    /\ e.gen = latest' => OpenNext(e.task)

\* Generations are only added.
LEMMA GenerationStep ==
    ASSUME QueueInv, [Next]_vars
    PROVE  /\ latest \in Nat /\ latest' \in Nat
           /\ latest' = latest \/ latest' = latest + 1
           /\ \A s \in Sessions : BumpGeneration(s) => latest' = latest + 1
<1>a. latest \in Nat
  BY DEF QueueInv, TypeOK
<1>1. ASSUME NEW s \in Sessions, SessionStep(s) \/ SubmitStep(s) PROVE latest' \in {latest, latest + 1}
  BY <1>1 DEF SessionStep, Spawn, Activate, Join, Barrier, AbandonCoordinator, AbandonBarrier,
     SubmitStep, CountFinal, SendFinal, GiveUpFinal, MarkIncomplete, BumpGeneration, LockToRetire,
     RetireInterim, UncountRetired, TakeGeneration, LockSlot, CountInterim, PutInterim, queueVars
<1>2. ASSUME NEW s \in Sessions, NEW isFinal \in BOOLEAN, Submit(s, isFinal) PROVE latest' = latest
  BY <1>2 DEF Submit, queueVars
<1>3. ASSUME WorkerStep PROVE latest' = latest
  BY <1>3 DEF WorkerStep, ReceiveFinal, NoFinal, LockToTake, TakeInterim, Wait, DropReceiver,
     CheckStale, Recognize, CommitFinal, LoseFinal, DropNoise, AdvanceSequence, PublishFinal,
     LockSnapshot, PassGate, WriteInterim, RecheckInterim, FinishTask, queueVars
<1>4. ASSUME RequestShutdown \/ PublicSnapshot \/ UNCHANGED vars PROVE latest' = latest
  BY <1>4 DEF RequestShutdown, PublicSnapshot, vars, queueVars
<1>5. latest' \in {latest, latest + 1}
  BY <1>1, <1>2, <1>3, <1>4 DEF Next
<1>6. \A s \in Sessions : BumpGeneration(s) => latest' = latest + 1
  BY DEF BumpGeneration
<1> QED BY <1>a, <1>5, <1>6

\* An interim of the latest generation has its segment open, or the final of
\* that segment underway or lost, until a final takes the next generation.
LEMMA GeneratedStays ==
    ASSUME QueueInv, [Next]_vars, NEW e, Generated(e), e.gen \in Nat
    PROVE  GeneratedNext(e)
<1> DEFINE t == e.task
           s == t.session
<1>a. /\ cur \in [Sessions -> [seg : Nat, rev : Nat]] /\ out \in [Sessions -> Entry]
      /\ pc \in [Sessions -> SubmitPcs] /\ s \in Sessions
  BY DEF QueueInv, TypeOK, Generated
<1>b. lost \subseteq lost'
  BY LostGrows
<1>c. e.gen > 0 /\ e.gen <= latest' /\ (e.gen = latest' => StillOpen(t) /\ \A x \in Sessions : ~BumpGeneration(x))
  BY GenerationStep DEF Generated
<1> SUFFICES ASSUME StillOpen(t), \A x \in Sessions : ~BumpGeneration(x)
             PROVE  OpenNext(t)
  BY <1>a, <1>c DEF GeneratedNext
<1> HIDE DEF t, s
<1>d. t.session = s
  BY DEF s
<1>1. ASSUME pc'[s] = pc[s], out'[s] = out[s], cur'[s] = cur[s] PROVE OpenNext(t)
  BY <1>b, <1>d, <1>1 DEF StillOpen, OpenNext, FinalUnderway
<1>2. ASSUME \E f \in lost : f.session = s /\ f.seg = t.seg PROVE OpenNext(t)
  BY <1>b, <1>d, <1>2 DEF OpenNext
<1>3. ASSUME NEW x \in Sessions, SessionStep(x) PROVE UNCHANGED <<pc, cur, out>>
  BY <1>3 DEF SessionStep, Spawn, Activate, Join, Barrier, AbandonCoordinator, AbandonBarrier
<1>4. ASSUME NEW x \in Sessions, NEW isFinal \in BOOLEAN, Submit(x, isFinal) PROVE OpenNext(t)
  <2>1. CASE x # s
    BY <1>a, <1>1, <1>4, <2>1 DEF Submit
  <2>2. CASE x = s
    <3>1. pc[s] = "idle" /\ cur'[s] = NextIdentity(s, isFinal)
      BY <1>a, <1>4, <2>2 DEF Submit
    <3>2. CASE t.seg = cur[s].seg
      <4>1. CASE ~isFinal
        BY <1>d, <3>1, <3>2, <4>1 DEF NextIdentity, OpenNext
      <4>2. CASE isFinal /\ shutdown
        <5>1. NextTask(s, TRUE) \in lost'
          BY <1>4, <2>2, <4>2 DEF Submit
        <5>2. NextTask(s, TRUE).session = s /\ NextTask(s, TRUE).seg = t.seg
          BY <3>2 DEF NextTask
        <5> QED BY <1>d, <5>1, <5>2 DEF OpenNext
      <4>3. CASE isFinal /\ ~shutdown
        <5>1. pc'[s] = "count" /\ out'[s] = [gen |-> 0, task |-> NextTask(s, isFinal)]
          BY <1>a, <1>4, <2>2, <4>3 DEF Submit
        <5>2. out'[s].task.final /\ out'[s].task.seg = t.seg
          BY <3>2, <4>3, <5>1 DEF NextTask
        <5> QED BY <1>d, <5>1, <5>2 DEF OpenNext
      <4> QED BY <4>1, <4>2, <4>3
    <3> QED BY <1>d, <1>2, <3>1, <3>2 DEF StillOpen, FinalUnderway
  <2> QED BY <2>1, <2>2
<1>5. ASSUME NEW x \in Sessions, SubmitStep(x) PROVE OpenNext(t)
  <2>1. cur' = cur
    BY <1>5 DEF SubmitStep, CountFinal, SendFinal, GiveUpFinal, MarkIncomplete, BumpGeneration, LockToRetire,
       RetireInterim, UncountRetired, TakeGeneration, LockSlot, CountInterim, PutInterim
  <2>2. CASE t.seg = cur[s].seg
    BY <1>d, <2>1, <2>2 DEF OpenNext
  <2>3. CASE x # s
    <3>1. pc'[s] = pc[s] /\ out'[s] = out[s]
      BY <1>a, <1>5, <2>3 DEF SubmitStep, CountFinal, SendFinal, GiveUpFinal, MarkIncomplete, BumpGeneration,
         LockToRetire, RetireInterim, UncountRetired, TakeGeneration, LockSlot, CountInterim, PutInterim
    <3> QED BY <1>1, <2>1, <3>1
  <2>4. CASE x = s /\ FinalUnderway(t)
    <3>1. /\ pc[s] \in {"count", "send", "mark", "bump"}
          /\ out[s].task.final /\ out[s].task.seg = t.seg
      BY <1>d, <2>4 DEF FinalUnderway
    <3>2. CASE MarkIncomplete(s)
      <4>1. out[s].task \in lost /\ out[s].task.session = s
        BY <1>a, <3>2 DEF MarkIncomplete, QueueInv, SubmissionsWellFormed
      <4> QED BY <1>2, <3>1, <4>1
    <3>3. CASE CountFinal(s) \/ SendFinal(s) \/ GiveUpFinal(s)
      <4>1. out' = out /\ pc'[s] \in {"send", "bump", "mark"}
        BY <1>a, <3>3 DEF CountFinal, SendFinal, GiveUpFinal
      <4> QED BY <1>d, <3>1, <4>1 DEF OpenNext
    <3>4. MarkIncomplete(s) \/ CountFinal(s) \/ SendFinal(s) \/ GiveUpFinal(s)
      BY <1>5, <2>4, <3>1 DEF SubmitStep, LockToRetire,
         RetireInterim, UncountRetired, TakeGeneration, LockSlot, CountInterim, PutInterim
    <3> QED BY <3>2, <3>3, <3>4
  <2> QED BY <1>2, <1>d, <2>2, <2>3, <2>4 DEF StillOpen
<1>6. CASE WorkerStep
  <2>1. UNCHANGED submitVars
    BY <1>6 DEF WorkerStep, ReceiveFinal, NoFinal, LockToTake, TakeInterim, Wait, DropReceiver,
       CheckStale, Recognize, CommitFinal, LoseFinal, DropNoise, AdvanceSequence, PublishFinal,
       LockSnapshot, PassGate, WriteInterim, RecheckInterim, FinishTask
  <2> QED BY <1>1, <2>1 DEF submitVars
<1>7. CASE RequestShutdown \/ PublicSnapshot \/ UNCHANGED vars
  BY <1>1, <1>7 DEF RequestShutdown, PublicSnapshot, vars, submitVars
<1> QED BY <1>1, <1>3, <1>4, <1>5, <1>6, <1>7 DEF Next

\* What coordinators have in hand.
LEMMA StepInterimsOut ==
    ASSUME QueueInv, InterimsInTime, [Next]_vars, NEW s \in Sessions
    PROVE  /\ pc'[s] \in {"generation", "lock", "recount", "put"} => out'[s].task.seg = cur'[s].seg
           /\ pc'[s] \in {"lock", "recount", "put"} => GeneratedNext(out'[s])
<1> DEFINE Goal == /\ pc'[s] \in {"generation", "lock", "recount", "put"} => out'[s].task.seg = cur'[s].seg
                   /\ pc'[s] \in {"lock", "recount", "put"} => GeneratedNext(out'[s])
<1>a. /\ cur \in [Sessions -> [seg : Nat, rev : Nat]] /\ out \in [Sessions -> Entry]
      /\ pc \in [Sessions -> SubmitPcs] /\ out[s].gen \in Nat
  BY EntryFacts DEF QueueInv, TypeOK
<1>b. ASSUME out'[s] = out[s], cur'[s] = cur[s],
             pc'[s] \in {"generation", "lock", "recount", "put"} => pc[s] \in {"generation", "lock", "recount", "put"},
             pc'[s] \in {"lock", "recount", "put"} => pc[s] \in {"lock", "recount", "put"}
      PROVE  Goal
  BY <1>a, <1>b, GeneratedStays DEF InterimsInTime
<1>1. ASSUME NEW x \in Sessions, SessionStep(x) PROVE UNCHANGED <<pc, cur, out>>
  BY <1>1 DEF SessionStep, Spawn, Activate, Join, Barrier, AbandonCoordinator, AbandonBarrier
<1>2. ASSUME NEW x \in Sessions, NEW isFinal \in BOOLEAN, Submit(x, isFinal) PROVE Goal
  <2>1. CASE x # s
    BY <1>a, <1>b, <1>2, <2>1 DEF Submit
  <2>2. CASE x = s /\ shutdown
    BY <1>a, <1>2, <2>2 DEF Submit
  <2>3. CASE x = s /\ ~shutdown
    <3>1. /\ pc'[s] = (IF isFinal THEN "count" ELSE "generation") /\ cur'[s] = NextIdentity(s, isFinal)
          /\ out'[s] = [gen |-> 0, task |-> NextTask(s, isFinal)]
      BY <1>a, <1>2, <2>3 DEF Submit
    <3>2. ~isFinal => out'[s].task.seg = cur'[s].seg
      BY <3>1 DEF NextTask, NextIdentity
    <3> QED BY <3>1, <3>2
  <2> QED BY <2>1, <2>2, <2>3
<1>3. ASSUME NEW x \in Sessions, SubmitStep(x) PROVE Goal
  <2>1. CASE TakeGeneration(s)
    <3>1. /\ pc[s] = "generation" /\ out'[s] = [gen |-> latest + 1, task |-> out[s].task] /\ cur' = cur
          /\ latest' = latest + 1 /\ out[s].task.session = s
      BY <1>a, <2>1 DEF TakeGeneration, QueueInv, SubmissionsWellFormed
    <3>2. out'[s].task.seg = cur'[s].seg /\ out'[s].gen = latest' /\ out'[s].task.session = s
      BY <3>1 DEF InterimsInTime
    <3>3. latest' \in Nat /\ latest' > 0
      BY <3>1, GenerationStep
    <3>4. GeneratedNext(out'[s])
      BY <3>2, <3>3 DEF GeneratedNext, OpenNext
    <3> QED BY <3>2, <3>4
  <2>2. CASE ~TakeGeneration(s)
    <3>1. /\ cur' = cur /\ out'[s] = out[s]
      BY <1>a, <1>3, <2>2 DEF SubmitStep, CountFinal, SendFinal, GiveUpFinal, MarkIncomplete, BumpGeneration, LockToRetire,
         RetireInterim, UncountRetired, TakeGeneration, LockSlot, CountInterim, PutInterim
    <3>2. /\ pc'[s] \in {"generation", "lock", "recount", "put"} => pc[s] \in {"generation", "lock", "recount", "put"}
          /\ pc'[s] \in {"lock", "recount", "put"} => pc[s] \in {"lock", "recount", "put"}
      BY <1>a, <1>3, <2>2 DEF SubmitStep, CountFinal, SendFinal, GiveUpFinal, MarkIncomplete, BumpGeneration, LockToRetire,
         RetireInterim, UncountRetired, TakeGeneration, LockSlot, CountInterim, PutInterim
    <3> QED BY <1>b, <3>1, <3>2
  <2> QED BY <2>1, <2>2
<1>4. CASE WorkerStep
  <2>1. UNCHANGED submitVars
    BY <1>4 DEF WorkerStep, ReceiveFinal, NoFinal, LockToTake, TakeInterim, Wait, DropReceiver,
       CheckStale, Recognize, CommitFinal, LoseFinal, DropNoise, AdvanceSequence, PublishFinal,
       LockSnapshot, PassGate, WriteInterim, RecheckInterim, FinishTask
  <2> QED BY <1>b, <2>1 DEF submitVars
<1>5. CASE RequestShutdown \/ PublicSnapshot \/ UNCHANGED vars
  BY <1>b, <1>5 DEF RequestShutdown, PublicSnapshot, vars, submitVars
<1>6. Goal
  BY <1>b, <1>1, <1>2, <1>3, <1>4, <1>5 DEF Next
<1> QED BY <1>6

\* The meeting on the screen is changed by the end of a start only, which waits
\* until nothing is being published.
LEMMA SessionStays ==
    ASSUME [Next]_vars, \A s \in Sessions : ~Activate(s)
    PROVE  session' = session
<1>1. ASSUME NEW s \in Sessions, SessionStep(s) \/ SubmitStep(s) PROVE session' = session
  BY <1>1 DEF SessionStep, Spawn, Join, Barrier, AbandonCoordinator, AbandonBarrier,
     SubmitStep, CountFinal, SendFinal, GiveUpFinal, MarkIncomplete, BumpGeneration, LockToRetire,
     RetireInterim, UncountRetired, TakeGeneration, LockSlot, CountInterim, PutInterim, viewVars
<1>2. ASSUME NEW s \in Sessions, NEW isFinal \in BOOLEAN, Submit(s, isFinal) PROVE session' = session
  BY <1>2 DEF Submit, viewVars
<1>3. CASE WorkerStep
  BY <1>3 DEF WorkerStep, ReceiveFinal, NoFinal, LockToTake, TakeInterim, Wait, DropReceiver,
     CheckStale, Recognize, CommitFinal, LoseFinal, DropNoise, AdvanceSequence, PublishFinal,
     LockSnapshot, PassGate, WriteInterim, RecheckInterim, FinishTask, viewVars
<1>4. CASE RequestShutdown \/ PublicSnapshot \/ UNCHANGED vars
  BY <1>4 DEF RequestShutdown, PublicSnapshot, vars, viewVars
<1> QED BY <1>1, <1>2, <1>3, <1>4 DEF Next

\* Publishing: the worker is at one of the positions between gate and recheck.
LEMMA PublishingStep ==
    ASSUME QueueInv, InterimsInTime, [Next]_vars
    PROVE  /\ wpc' \in {"gate", "write", "recheck"} => ~work'.task.final
           /\ wpc' \in {"write", "recheck"} => session' = work'.task.session
<1> DEFINE Goal == /\ wpc' \in {"gate", "write", "recheck"} => ~work'.task.final
                   /\ wpc' \in {"write", "recheck"} => session' = work'.task.session
<1>a. ASSUME UNCHANGED <<wpc, work, session>> PROVE Goal
  BY <1>a DEF InterimsInTime
<1>1. ASSUME NEW s \in Sessions, SessionStep(s) \/ SubmitStep(s) PROVE UNCHANGED <<wpc, work>>
  BY <1>1 DEF SessionStep, Spawn, Activate, Join, Barrier, AbandonCoordinator, AbandonBarrier,
     SubmitStep, CountFinal, SendFinal, GiveUpFinal, MarkIncomplete, BumpGeneration, LockToRetire,
     RetireInterim, UncountRetired, TakeGeneration, LockSlot, CountInterim, PutInterim, workVars
<1>2. ASSUME NEW s \in Sessions, NEW isFinal \in BOOLEAN, Submit(s, isFinal) PROVE UNCHANGED <<wpc, work>>
  BY <1>2 DEF Submit, workVars
<1>3. ASSUME NEW s \in Sessions, Activate(s) PROVE Goal
  <2>1. UNCHANGED <<wpc, work>> /\ wpc \notin {"gate", "write", "recheck"}
    BY <1>3 DEF Activate, SnapshotFree, workVars
  <2> QED BY <2>1
<1>4. CASE WorkerStep
  <2>1. CASE PassGate
    BY <2>1 DEF PassGate, InterimsInTime, viewVars
  <2>2. CASE LockSnapshot
    BY <2>2 DEF LockSnapshot
  <2>3. CASE WriteInterim \/ RecheckInterim
    BY <2>3 DEF WriteInterim, RecheckInterim, InterimsInTime
  <2>4. CASE ReceiveFinal \/ NoFinal \/ LockToTake \/ TakeInterim \/ Wait \/ DropReceiver \/ CheckStale
    BY <2>4 DEF ReceiveFinal, NoFinal, LockToTake, TakeInterim, Wait, DropReceiver, CheckStale
  <2>5. CASE Recognize \/ CommitFinal \/ LoseFinal \/ DropNoise \/ AdvanceSequence \/ PublishFinal \/ FinishTask
    BY <2>5 DEF Recognize, CommitFinal, LoseFinal, DropNoise, AdvanceSequence, PublishFinal, FinishTask
  <2> QED BY <1>4, <2>1, <2>2, <2>3, <2>4, <2>5 DEF WorkerStep
<1>5. CASE RequestShutdown \/ PublicSnapshot \/ UNCHANGED vars
  BY <1>a, <1>5 DEF RequestShutdown, PublicSnapshot, vars, workVars, viewVars
<1>6. Goal
  BY ZenonT(40), <1>a, <1>1, <1>2, <1>3, <1>4, <1>5, SessionStays DEF Next
<1> QED BY <1>6

LEMMA StepInterims ==
    ASSUME QueueInv, InterimsInTime, [Next]_vars
    PROVE  InterimsInTime'
<1>a. slot \in Entry /\ work \in Entry /\ slot.gen \in Nat /\ work.gen \in Nat /\ NoEntry.gen = 0
  BY EntryFacts DEF QueueInv, TypeOK, NoEntry
<1>1. \A s \in Sessions :
          /\ pc'[s] \in {"generation", "lock", "recount", "put"} => out'[s].task.seg = cur'[s].seg
          /\ pc'[s] \in {"lock", "recount", "put"} => GeneratedNext(out'[s])
  BY StepInterimsOut
<1>2. slot' # NoEntry => GeneratedNext(slot')
  <2>1. CASE TakeInterim \/ \E t \in Sessions : RetireInterim(t)
    BY <2>1 DEF TakeInterim, RetireInterim
  <2>2. ASSUME NEW t \in Sessions, PutInterim(t) PROVE GeneratedNext(slot')
    <3>1. slot' = out[t] /\ pc[t] = "put" /\ out[t].gen \in Nat
      BY <2>2, EntryFacts DEF PutInterim, QueueInv, TypeOK
    <3>2. Generated(out[t])
      BY <3>1 DEF InterimsInTime
    <3> QED BY <3>1, <3>2, GeneratedStays
  <2>3. CASE ~TakeInterim /\ \A t \in Sessions : ~RetireInterim(t) /\ ~PutInterim(t)
    BY <1>a, <2>3, SlotStep, GeneratedStays DEF InterimsInTime
  <2> QED BY <2>1, <2>2, <2>3
<1>3. wpc' \in WorkerBusy /\ ~work'.task.final => GeneratedNext(work')
  <2>1. CASE TakeInterim
    <3>1. work' = slot /\ (slot = NoEntry => wpc' = "wait")
      BY <2>1 DEF TakeInterim
    <3> QED BY <1>a, <3>1, GeneratedStays DEF InterimsInTime, WorkerBusy
  <2>2. CASE ReceiveFinal
    <3>1. work'.task = finals[1] /\ 1 \in DOMAIN finals
      BY <2>2, ChannelFacts, EntryFacts DEF ReceiveFinal, QueueInv, TypeOK
    <3>2. work'.task.final
      BY <3>1 DEF QueueInv, QueuesWellFormed
    <3> QED BY <3>2
  <2>3. CASE ~TakeInterim /\ ~ReceiveFinal
    BY <1>a, <2>3, BusyStep, GeneratedStays DEF InterimsInTime
  <2> QED BY <2>1, <2>2, <2>3
<1> QED
  BY <1>1, <1>2, <1>3, PublishingStep
  DEF InterimsInTime, Generated, GeneratedNext, StillOpen, OpenNext, FinalUnderway

-----------------------------------------------------------------------------
(* The interim on the screen.                                              *)

\* The screen is written between gate and recheck, and only cleared elsewhere.
LEMMA ScreenStep ==
    ASSUME [Next]_vars, ~WriteInterim
    PROVE  view' = NoEntry \/ (view' = view /\ pubGen' = pubGen)
<1>1. ASSUME NEW s \in Sessions, SessionStep(s) \/ SubmitStep(s)
      PROVE  view' = NoEntry \/ (view' = view /\ pubGen' = pubGen)
  BY <1>1 DEF SessionStep, Spawn, Activate, Join, Barrier, AbandonCoordinator, AbandonBarrier,
     SubmitStep, CountFinal, SendFinal, GiveUpFinal, MarkIncomplete, BumpGeneration, LockToRetire,
     RetireInterim, UncountRetired, TakeGeneration, LockSlot, CountInterim, PutInterim, viewVars
<1>2. ASSUME NEW s \in Sessions, NEW isFinal \in BOOLEAN, Submit(s, isFinal)
      PROVE  view' = NoEntry \/ (view' = view /\ pubGen' = pubGen)
  BY <1>2 DEF Submit, viewVars
<1>3. CASE WorkerStep
  BY <1>3 DEF WorkerStep, ReceiveFinal, NoFinal, LockToTake, TakeInterim, Wait, DropReceiver,
     CheckStale, Recognize, CommitFinal, LoseFinal, DropNoise, AdvanceSequence, PublishFinal,
     LockSnapshot, PassGate, RecheckInterim, FinishTask, viewVars
<1>4. CASE RequestShutdown \/ PublicSnapshot \/ UNCHANGED vars
  BY <1>4 DEF RequestShutdown, PublicSnapshot, vars, viewVars
<1> QED BY <1>1, <1>2, <1>3, <1>4 DEF Next

\* The meeting on the screen has been started.
LEMMA StartedStep ==
    ASSUME QueueInv, ViewInTime, [Next]_vars
    PROVE  session' \in Sessions => phase'[session'] \notin {"new", "spawned"}
<1>a. phase \in [Sessions -> Phases]
  BY DEF QueueInv, TypeOK
<1>1. ASSUME NEW s \in Sessions, Activate(s) PROVE phase'[session'] \notin {"new", "spawned"}
  BY <1>a, <1>1 DEF Activate
<1>2. ASSUME NEW s \in Sessions, SessionStep(s), ~Activate(s), session \in Sessions
      PROVE phase'[session] \notin {"new", "spawned"}
  BY <1>a, <1>2 DEF SessionStep, Spawn, Join, Barrier, AbandonCoordinator, AbandonBarrier, ViewInTime
<1>3. CASE \E s \in Sessions : Activate(s)
  BY <1>1, <1>3
<1>4. CASE \A s \in Sessions : ~Activate(s)
  <2>1. session' = session
    BY <1>4, SessionStays
  <2>2. CASE \E s \in Sessions : SessionStep(s)
    BY <1>2, <1>4, <2>1, <2>2
  <2>3. CASE \A s \in Sessions : ~SessionStep(s)
    BY <2>1, <2>3, PhaseStep DEF ViewInTime
  <2> QED BY <2>2, <2>3
<1> QED BY <1>3, <1>4

LEMMA StepView ==
    ASSUME QueueInv, Undisturbed, OneMeeting, InterimsInTime, ViewInTime, [Next]_vars
    PROVE  ViewInTime'
<1>a. /\ phase \in [Sessions -> Phases] /\ view \in Entry /\ view.gen \in Nat /\ work.gen \in Nat
  BY EntryFacts DEF QueueInv, TypeOK
<1>1. session' \in Sessions => phase'[session'] \notin {"new", "spawned"}
  BY StartedStep
<1>2. ASSUME view' # NoEntry
      PROVE  /\ GeneratedNext(view') /\ pubGen' = view'.gen /\ view'.task.session = session'
             /\ \A s \in Sessions : phase'[s] # "spawned"
  <2>1. CASE WriteInterim
    <3>1. /\ wpc = "write" /\ session' = session /\ phase' = phase
      BY <2>1 DEF WriteInterim, submitVars
    <3>2. CASE heard = "text"
      <4>1. view' = work /\ pubGen' = work.gen
        BY <2>1, <3>2 DEF WriteInterim
      <4>2. Generated(work) /\ session = work.task.session /\ Home(session)
        BY <3>1 DEF InterimsInTime, OneMeeting, WorkerBusy
      <4>3. GeneratedNext(work)
        BY <1>a, <4>2, GeneratedStays
      <4>4. \A s \in Sessions : phase[s] # "spawned"
        BY <4>2 DEF ViewInTime, OneMeeting, Home
      <4> QED BY <3>1, <4>1, <4>2, <4>3, <4>4
    <3>3. CASE heard # "text"
      <4>1. view' = view /\ pubGen' = pubGen
        BY <2>1, <3>3 DEF WriteInterim
      <4> QED BY <1>2, <1>a, <3>1, <4>1, GeneratedStays DEF ViewInTime
    <3> QED BY <3>2, <3>3
  <2>2. CASE ~WriteInterim
    <3>1. view' = view /\ pubGen' = pubGen /\ view # NoEntry
      BY <1>2, <2>2, ScreenStep
    <3>2. /\ Generated(view) /\ pubGen = view.gen /\ view.task.session = session
          /\ \A s \in Sessions : phase[s] # "spawned"
      BY <3>1 DEF ViewInTime
    <3>3. GeneratedNext(view)
      BY <1>a, <3>2, GeneratedStays
    <3>4. \A s \in Sessions : ~Activate(s)
      BY <3>2 DEF Activate
    <3>5. \A s \in Sessions : phase'[s] # "spawned"
      <4>1. ASSUME NEW s \in Sessions, Spawn(s) PROVE FALSE
        BY <1>2, <4>1 DEF Spawn
      <4>2. ASSUME NEW s \in Sessions, SessionStep(s) PROVE \A x \in Sessions : phase'[x] # "spawned"
        BY <1>a, <3>2, <4>1, <4>2 DEF SessionStep, Activate, Join, Barrier, AbandonCoordinator, AbandonBarrier
      <4>3. CASE \A s \in Sessions : ~SessionStep(s)
        BY <3>2, <4>3, PhaseStep
      <4> QED BY <4>2, <4>3
    <3> QED BY <3>1, <3>2, <3>3, <3>4, <3>5, SessionStays
  <2> QED BY <2>1, <2>2
<1> QED
  BY <1>1, <1>2 DEF ViewInTime, Generated, GeneratedNext, StillOpen, OpenNext, FinalUnderway

-----------------------------------------------------------------------------
\* Order and time hold in every reachable state.
THEOREM OrderInvariant == Spec => []OrderInv
<1>1. Init => OrderInv
  <2> SUFFICES ASSUME Init PROVE OrderInv
    OBVIOUS
  <2>1. /\ DOMAIN finals = {} /\ ~HoldsFinal /\ \A s \in Sessions : pc[s] = "idle"
        /\ \A s \in Sessions : DOMAIN ledger[s] = {}
    BY DEF Init, HoldsFinal
  <2>2. Conveyed /\ Settles
    BY <2>1 DEF Conveyed, Settles, LedgerInOrder, Submitting
  <2>3. /\ \A s \in Sessions : ~Home(s)
        /\ slot = NoEntry /\ view = NoEntry /\ wpc \notin WorkerBusy /\ session \notin Sessions
    BY QueueAssumption DEF Init, Home, WorkerBusy
  <2>4. OneMeeting /\ SequenceAgrees
    BY <2>1, <2>3 DEF OneMeeting, SequenceAgrees
  <2>5. InterimsInTime /\ ViewInTime
    BY <2>1, <2>3 DEF InterimsInTime, ViewInTime, WorkerBusy
  <2> QED BY <2>2, <2>4, <2>5 DEF OrderInv, InTime
<1>2. QueueInv /\ OrderInv /\ [Next]_vars => OrderInv'
  <2> SUFFICES ASSUME QueueInv, OrderInv, [Next]_vars PROVE OrderInv'
    OBVIOUS
  <2>1. Conveyed' /\ Settles'
    BY StepConveyed, StepSettles DEF OrderInv
  <2>2. ASSUME Undisturbed' PROVE InTime'
    <3>1. Undisturbed /\ InTime
      BY <2>2, StopsStep DEF OrderInv
    <3> QED BY <2>2, <3>1, StepOneMeeting, StepSequence, StepInterims, StepView DEF InTime
  <2> QED BY <2>1, <2>2 DEF OrderInv
<1> QED BY <1>1, <1>2, QueueInvariant, PTL DEF Spec

\* Whatever is dropped, refused or lost between them, the finals of a meeting
\* become durable in the order its coordinator closed them, and none is refused
\* for its number while every stop met its deadline.
THEOREM FinalsDurableInOrder == Spec => []DurableInOrder
<1>1. QueueInv /\ OrderInv => DurableInOrder
  <2> SUFFICES ASSUME QueueInv, OrderInv PROVE DurableInOrder
    OBVIOUS
  <2>1. SequenceFits
    <3> SUFFICES ASSUME Undisturbed, wpc = "settle" PROVE seq = Len(ledger[work.task.session])
      BY DEF SequenceFits
    <3>1. Home(work.task.session) /\ SequenceAgrees
      BY DEF OrderInv, InTime, OneMeeting, WorkerBusy
    <3>2. seq + 0 = Len(ledger[work.task.session])
      BY <3>1 DEF SequenceAgrees, Home
    <3> QED BY <3>2 DEF QueueInv, TypeOK
  <2> QED BY <2>1 DEF OrderInv, Settles, DurableInOrder
<1> QED BY <1>1, QueueInvariant, OrderInvariant, PTL

\* However late the worker publishes, no command returns an interim of a segment
\* whose final was accepted, or one of another meeting.
THEOREM InterimsAlwaysInTime == Spec => []NoInterimOutlivesItsFinal
<1>1. OrderInv => NoInterimOutlivesItsFinal
  <2> SUFFICES ASSUME OrderInv, Undisturbed, PublicInterim # NoEntry
               PROVE  LET t == PublicInterim.task
                      IN  /\ t.session = session
                          /\ \/ t.seg = cur[t.session].seg
                             \/ FinalUnderway(t)
                             \/ \E f \in lost : f.session = t.session /\ f.seg = t.seg
    BY DEF NoInterimOutlivesItsFinal
  <2>1. PublicInterim = view /\ view # NoEntry /\ (pubGen # 0 => pubGen = latest)
    BY DEF PublicInterim
  <2>2. Generated(view) /\ pubGen = view.gen /\ view.task.session = session
    BY <2>1 DEF OrderInv, InTime, ViewInTime
  <2>3. view.gen = latest
    BY <2>1, <2>2 DEF Generated
  <2>4. StillOpen(view.task)
    BY <2>2, <2>3 DEF Generated
  <2> QED BY <2>1, <2>2, <2>4 DEF StillOpen
<1> QED BY <1>1, OrderInvariant, PTL

=============================================================================
