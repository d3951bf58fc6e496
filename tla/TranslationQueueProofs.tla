----------------------- MODULE TranslationQueueProofs -----------------------
(***************************************************************************)
(* For any number of finals, languages, retry threads, calls, errors and   *)
(* restarts: a finished attempt is never rewritten, a pending one has an   *)
(* owner, neither the table nor the screen shows a text that no attempt    *)
(* has produced, and the progress of a batch adds up.                      *)
(***************************************************************************)
EXTENDS TranslationQueue, FiniteSetTheorems, TLAPS

Jobs == [seg : Segments \cup {0}, target : Languages, attempt : Nat]

(* The types, in the form the steps need. *)
Types ==
    /\ liveTarget \in Languages
    /\ durable \in SUBSET Segments
    /\ row \in [Segments -> [status : RowStatus, target : Languages, text : Nat]]
    /\ attempts \in [Segments -> [Languages -> Seq(AttemptStatus)]]
    /\ view \in [Segments -> [status : ViewStatus, text : Nat]]
    /\ queue \in Seq(Jobs) /\ Len(queue) <= QueueDepth
    /\ orphans \in SUBSET [seg : Segments, target : Languages, attempt : Nat]
    /\ coord \in [pc : {"idle", "begin", "send", "show"}, job : Jobs,
                  status : RowStatus \ {"completed"}]
    /\ worker \in [pc : {"waiting", "asking", "publishing", "leaving", "stopped"}, job : Jobs,
                   outcome : Outcomes \cup {"none"}]
    /\ retrier \in [Retriers ->
          [pc : {"idle", "checked", "next", "begin", "asking", "open"}, batch : BOOLEAN,
           todo : SUBSET Segments, seg : Segments \cup {0}, target : Languages,
           attempt : Nat, try : Nat, index : Nat]]

(* A job names an attempt that was begun. *)
Begun(j) ==
    /\ j.seg \in Segments /\ j.target \in Languages
    /\ j.attempt \in DOMAIN attempts[j.seg][j.target]

RetryJob(r) == Job(retrier[r].seg, retrier[r].target, retrier[r].attempt)

(* Every job in hand was begun, and whoever is about to begin one names a    *)
(* final.                                                                   *)
InHand ==
    /\ \A i \in DOMAIN queue : Begun(queue[i])
    /\ worker.pc = "asking" => Begun(worker.job)
    /\ coord.pc = "send" => Begun(coord.job)
    /\ coord.pc # "idle" => coord.job.seg \in Segments
    /\ \A r \in Retriers : /\ retrier[r].pc \in {"begin", "asking"} => retrier[r].seg \in Segments
                           /\ retrier[r].pc = "asking" => Begun(RetryJob(r))

(* What the worker publishes as a text has been stored. *)
StoredBeforeShown ==
    worker.pc = "publishing" =>
        /\ worker.job.seg \in Segments
        /\ worker.outcome = "completed" =>
              /\ Begun(worker.job)
              /\ attempts[worker.job.seg][worker.job.target][worker.job.attempt] = "completed"

(* The inductive invariant. *)
TranslationInv ==
    /\ Types /\ InHand /\ StoredBeforeShown
    /\ RowFollowsAttempts /\ ShownTextIsStored /\ PendingHasOwner

-----------------------------------------------------------------------------
(* What a step may do to the attempts: append, and finish what is pending.  *)
AttemptsGrow ==
    \A s \in Segments, t \in Languages : \A a \in DOMAIN attempts[s][t] :
        /\ a \in DOMAIN attempts'[s][t]
        /\ attempts[s][t][a] # "pending" => attempts'[s][t][a] = attempts[s][t][a]

(* Every pending attempt was pending before, or is one of `new`, and is not *)
(* one of `done`.                                                           *)
PendingFrom(new, done) ==
    \A s \in Segments, t \in Languages : \A a \in DOMAIN attempts'[s][t] :
        attempts'[s][t][a] = "pending" =>
            \/ Job(s, t, a) \in new
            \/ /\ a \in DOMAIN attempts[s][t] /\ attempts[s][t][a] = "pending"
               /\ Job(s, t, a) \notin done

AttemptsOK == attempts \in [Segments -> [Languages -> Seq(AttemptStatus)]]
RowOK == row \in [Segments -> [status : RowStatus, target : Languages, text : Nat]]

LEMMA AppendFacts ==
    ASSUME NEW q \in Seq(AttemptStatus)
    PROVE  /\ Append(q, "pending") \in Seq(AttemptStatus)
           /\ Len(Append(q, "pending")) = Len(q) + 1
           /\ DOMAIN q = 1..Len(q) /\ Len(q) \in Nat
           /\ DOMAIN Append(q, "pending") = 1..(Len(q) + 1)
           /\ \A a \in 1..Len(q) : Append(q, "pending")[a] = q[a]
           /\ Append(q, "pending")[Len(q) + 1] = "pending"
<1>1. "pending" \in AttemptStatus
  BY DEF AttemptStatus
<1> QED
  BY <1>1

LEMMA FinishFacts ==
    ASSUME NEW q \in Seq(AttemptStatus), NEW i \in DOMAIN q, NEW o \in AttemptStatus
    PROVE  /\ [q EXCEPT ![i] = o] \in Seq(AttemptStatus)
           /\ Len([q EXCEPT ![i] = o]) = Len(q)
           /\ DOMAIN [q EXCEPT ![i] = o] = DOMAIN q
           /\ [q EXCEPT ![i] = o][i] = o
           /\ \A a \in DOMAIN q : a # i => [q EXCEPT ![i] = o][a] = q[a]
  OBVIOUS

(* Beginning an attempt. *)
LEMMA BeginKeeps ==
    ASSUME AttemptsOK, RowOK, RowFollowsAttempts, NEW s \in Segments, NEW t \in Languages, Begin(s, t)
    PROVE  /\ AttemptsOK' /\ RowOK' /\ RowFollowsAttempts' /\ AttemptsGrow
           /\ Last(s, t) + 1 \in DOMAIN attempts'[s][t]
           /\ PendingFrom({Job(s, t, Last(s, t) + 1)}, {})
<1> DEFINE q == attempts[s][t]
<1>1. q \in Seq(AttemptStatus)
  BY DEF AttemptsOK
<1>2. /\ attempts' = [attempts EXCEPT ![s][t] = Append(q, "pending")]
      /\ row' = [row EXCEPT ![s] = [status |-> "pending", target |-> t, text |-> 0]]
  BY DEF Begin
<1>3. AttemptsOK' /\ RowOK'
  BY <1>1, <1>2, AppendFacts DEF AttemptsOK, RowOK, RowStatus
<1>4. /\ attempts'[s][t] = Append(q, "pending")
      /\ \A x \in Segments, u \in Languages : x # s \/ u # t => attempts'[x][u] = attempts[x][u]
  BY <1>2 DEF AttemptsOK
<1>5. AttemptsGrow
  <2> SUFFICES ASSUME NEW x \in Segments, NEW u \in Languages, NEW a \in DOMAIN attempts[x][u]
               PROVE  a \in DOMAIN attempts'[x][u] /\ attempts'[x][u][a] = attempts[x][u][a]
    BY DEF AttemptsGrow
  <2>1. CASE x = s /\ u = t
    <3>1. DOMAIN q = 1..Len(q) /\ DOMAIN Append(q, "pending") = 1..(Len(q) + 1) /\ Len(q) \in Nat
      BY <1>1, AppendFacts
    <3>2. a \in DOMAIN Append(q, "pending") /\ Append(q, "pending")[a] = q[a]
      BY <1>1, <2>1, <3>1, AppendFacts
    <3> QED
      BY <1>4, <2>1, <3>2
  <2>2. CASE x # s \/ u # t
    BY <1>4, <2>2
  <2> QED
    BY <2>1, <2>2
<1>6. Last(s, t) + 1 \in DOMAIN attempts'[s][t]
  BY <1>1, <1>4, AppendFacts DEF Last
<1>7. PendingFrom({Job(s, t, Last(s, t) + 1)}, {})
  <2> SUFFICES ASSUME NEW x \in Segments, NEW u \in Languages, NEW a \in DOMAIN attempts'[x][u],
                      attempts'[x][u][a] = "pending"
               PROVE  \/ Job(x, u, a) \in {Job(s, t, Last(s, t) + 1)}
                      \/ a \in DOMAIN attempts[x][u] /\ attempts[x][u][a] = "pending"
    BY DEF PendingFrom
  <2>1. CASE x = s /\ u = t
    <3>1. /\ DOMAIN q = 1..Len(q) /\ DOMAIN Append(q, "pending") = 1..(Len(q) + 1) /\ Len(q) \in Nat
          /\ \A b \in 1..Len(q) : Append(q, "pending")[b] = q[b]
      BY <1>1, AppendFacts
    <3>2. a \in 1..(Len(q) + 1) /\ Append(q, "pending")[a] = "pending"
      BY <1>4, <2>1, <3>1
    <3>3. a = Len(q) + 1 \/ (a \in 1..Len(q) /\ q[a] = "pending")
      BY <3>1, <3>2
    <3> QED
      BY <2>1, <3>1, <3>3 DEF Last
  <2>2. CASE x # s \/ u # t
    BY <1>4, <2>2
  <2> QED
    BY <2>1, <2>2
<1>8. RowFollowsAttempts'
  <2> SUFFICES ASSUME NEW x \in Segments
               PROVE  LET u == row'[x].target IN
                      /\ row'[x].status = "pending" => Len(attempts'[x][u]) > 0 /\ attempts'[x][u][Len(attempts'[x][u])] = "pending"
                      /\ row'[x].status = "completed" => /\ row'[x].text \in 1..Len(attempts'[x][u])
                                                         /\ attempts'[x][u][row'[x].text] = "completed"
    BY DEF RowFollowsAttempts, Last
  <2>1. CASE x = s
    <3>1. row'[s] = [status |-> "pending", target |-> t, text |-> 0]
      BY <1>2 DEF RowOK
    <3> QED
      BY <1>1, <1>4, <2>1, <3>1, AppendFacts
  <2>2. CASE x # s
    <3>1. row'[x] = row[x] /\ \A u \in Languages : attempts'[x][u] = attempts[x][u]
      BY <1>2, <1>4, <2>2 DEF RowOK
    <3>2. row[x].target \in Languages
      BY DEF RowOK
    <3> QED
      BY <3>1, <3>2 DEF RowFollowsAttempts, Last
  <2> QED
    BY <2>1, <2>2
<1> QED
  BY <1>3, <1>5, <1>6, <1>7, <1>8

(* Finishing one. *)
LEMMA FinishKeeps ==
    ASSUME AttemptsOK, RowOK, RowFollowsAttempts, NEW j \in Jobs, Begun(j),
           orphans \in SUBSET [seg : Segments, target : Languages, attempt : Nat],
           NEW o \in Outcomes \cup {"skipped"}, Finish(j, o)
    PROVE  /\ AttemptsOK' /\ RowOK' /\ RowFollowsAttempts' /\ AttemptsGrow
           /\ orphans' \in SUBSET [seg : Segments, target : Languages, attempt : Nat]
           /\ orphans \subseteq orphans'
           /\ PendingFrom(orphans', {j})
           /\ o = "completed" => attempts'[j.seg][j.target][j.attempt] = "completed"
<1>1. CASE o = "unstorable"
  <2>1. attempts' = attempts /\ row' = row /\ orphans' = orphans \cup {j}
    BY <1>1 DEF Finish
  <2>2. j \in [seg : Segments, target : Languages, attempt : Nat]
    BY DEF Begun, Jobs
  <2>3. RowFollowsAttempts'
    BY <2>1 DEF RowFollowsAttempts, Last
  <2>4. PendingFrom(orphans', {j})
    BY <2>1 DEF PendingFrom
  <2> QED
    BY <1>1, <2>1, <2>2, <2>3, <2>4 DEF AttemptsOK, RowOK, AttemptsGrow
<1>2. CASE o # "unstorable"
  <2> DEFINE s == j.seg  t == j.target  i == j.attempt  q == attempts[s][t]
  <2>1. /\ s \in Segments /\ t \in Languages /\ i \in DOMAIN q /\ q \in Seq(AttemptStatus)
        /\ o \in AttemptStatus /\ o # "pending"
    BY <1>2 DEF Begun, AttemptsOK, Outcomes, AttemptStatus, Finished
  <2>2. /\ q[i] = "pending" /\ attempts' = [attempts EXCEPT ![s][t][i] = o]
        /\ row' = FinishRow(j, o) /\ orphans' = orphans
    BY <1>2 DEF Finish
  <2>3. /\ attempts'[s][t] = [q EXCEPT ![i] = o]
        /\ \A x \in Segments, u \in Languages : x # s \/ u # t => attempts'[x][u] = attempts[x][u]
    BY <2>1, <2>2 DEF AttemptsOK
  <2>4. AttemptsOK'
    <3>1. attempts' = [attempts EXCEPT ![s] = [attempts[s] EXCEPT ![t] = [q EXCEPT ![i] = o]]]
      BY <2>1, <2>2 DEF AttemptsOK
    <3>2. [q EXCEPT ![i] = o] \in Seq(AttemptStatus)
      BY <2>1, FinishFacts
    <3> QED
      BY <2>1, <3>1, <3>2 DEF AttemptsOK
  <2>5. /\ \A x \in Segments : x # s => row'[x] = row[x]
        /\ row[s].target # t => row'[s] = row[s]
        /\ row[s].target = t => /\ row'[s].target = t /\ row'[s].status = Plain(o)
                                /\ row'[s].text = IF o = "completed" THEN i ELSE 0
        /\ RowOK'
    <3>1. Plain(o) \in RowStatus
      BY <1>2 DEF Plain, Outcomes, RowStatus
    <3>2. i \in Nat
      BY DEF Jobs
    <3> QED
      BY <2>1, <2>2, <3>1, <3>2 DEF FinishRow, RowOK
  <2>6. AttemptsGrow
    BY <2>1, <2>2, <2>3, FinishFacts DEF AttemptsGrow
  <2>7. PendingFrom(orphans', {j})
    <3> SUFFICES ASSUME NEW x \in Segments, NEW u \in Languages, NEW a \in DOMAIN attempts'[x][u],
                        attempts'[x][u][a] = "pending"
                 PROVE  a \in DOMAIN attempts[x][u] /\ attempts[x][u][a] = "pending" /\ Job(x, u, a) # j
      BY DEF PendingFrom
    <3>1. CASE x = s /\ u = t
      <4>1. a # i /\ a \in DOMAIN q /\ q[a] = "pending"
        BY <2>1, <2>3, <3>1, FinishFacts
      <4>2. Job(x, u, a) # j
        BY <4>1 DEF Job
      <4> QED
        BY <3>1, <4>1, <4>2
    <3>2. CASE x # s \/ u # t
      BY <2>3, <3>2 DEF Job
    <3> QED
      BY <3>1, <3>2
  <2>8. RowFollowsAttempts'
    <3> SUFFICES ASSUME NEW x \in Segments
                 PROVE  LET u == row'[x].target IN
                        /\ row'[x].status = "pending" => Len(attempts'[x][u]) > 0 /\ attempts'[x][u][Len(attempts'[x][u])] = "pending"
                        /\ row'[x].status = "completed" => /\ row'[x].text \in 1..Len(attempts'[x][u])
                                                           /\ attempts'[x][u][row'[x].text] = "completed"
      BY DEF RowFollowsAttempts, Last
    <3>0. row[x].target \in Languages
      BY DEF RowOK
    <3>1. CASE x # s \/ row[s].target # t
      <4>1. row'[x] = row[x]
        BY <2>5, <3>1
      <4>2. attempts'[x][row[x].target] = attempts[x][row[x].target]
        BY <2>3, <3>0, <3>1
      <4> QED
        BY <4>1, <4>2 DEF RowFollowsAttempts, Last
    <3>3. CASE x = s /\ row[s].target = t
      <4>1. DOMAIN q = 1..Len(q) /\ attempts'[s][t][i] = o /\ Len(attempts'[s][t]) = Len(q)
        BY <2>1, <2>3, FinishFacts
      <4>2. Plain(o) # "pending" /\ (Plain(o) = "completed" => o = "completed")
        BY <2>1 DEF Plain
      <4> QED
        BY <2>1, <2>5, <3>3, <4>1, <4>2
    <3> QED
      BY <3>1, <3>3
  <2>9. o = "completed" => attempts'[s][t][i] = "completed"
    BY <2>1, <2>3, FinishFacts
  <2> QED
    BY <2>2, <2>4, <2>5, <2>6, <2>7, <2>8, <2>9
<1> QED
  BY <1>1, <1>2

(* The restart finishes whatever is pending. *)
LEMMA RestartKeeps ==
    ASSUME AttemptsOK, RowOK, RowFollowsAttempts, Restart
    PROVE  AttemptsOK' /\ RowOK' /\ RowFollowsAttempts' /\ AttemptsGrow /\ PendingFrom({}, {})
<1>1. /\ attempts' = [s \in Segments |-> [t \in Languages |->
                          [a \in DOMAIN attempts[s][t] |-> Interrupted(attempts[s][t][a])]]]
      /\ row' = [s \in Segments |-> InterruptedRow(row[s])]
  BY DEF Restart
<1>2. ASSUME NEW s \in Segments, NEW t \in Languages
      PROVE  /\ DOMAIN attempts[s][t] = 1..Len(attempts[s][t]) /\ Len(attempts[s][t]) \in Nat
             /\ attempts'[s][t] \in Seq(AttemptStatus) /\ Len(attempts'[s][t]) = Len(attempts[s][t])
             /\ \A a \in 1..Len(attempts[s][t]) : attempts'[s][t][a] = Interrupted(attempts[s][t][a])
  <2> DEFINE q == attempts[s][t]  p == [a \in 1..Len(q) |-> Interrupted(q[a])]
  <2>1. q \in Seq(AttemptStatus)
    BY DEF AttemptsOK
  <2>2. attempts'[s][t] = p /\ DOMAIN q = 1..Len(q) /\ Len(q) \in Nat
    BY <1>1, <2>1
  <2>3. \A a \in 1..Len(q) : Interrupted(q[a]) \in AttemptStatus
    BY <2>1 DEF Interrupted, AttemptStatus, Finished
  <2>4. p \in Seq(AttemptStatus) /\ Len(p) = Len(q)
    BY <2>2, <2>3
  <2> QED
    BY <2>2, <2>4
<1>3. AttemptsOK'
  BY <1>1, <1>2 DEF AttemptsOK
<1>4. RowOK'
  BY <1>1 DEF RowOK, InterruptedRow, RowStatus
<1>5. AttemptsGrow
  BY <1>2 DEF AttemptsGrow, Interrupted
<1>6. PendingFrom({}, {})
  BY <1>2 DEF PendingFrom, Interrupted
<1>7. RowFollowsAttempts'
  <2> SUFFICES ASSUME NEW x \in Segments
               PROVE  LET u == row'[x].target IN
                      /\ row'[x].status = "pending" => Len(attempts'[x][u]) > 0 /\ attempts'[x][u][Len(attempts'[x][u])] = "pending"
                      /\ row'[x].status = "completed" => /\ row'[x].text \in 1..Len(attempts'[x][u])
                                                         /\ attempts'[x][u][row'[x].text] = "completed"
    BY DEF RowFollowsAttempts, Last
  <2>1. /\ row'[x].target = row[x].target /\ row'[x].text = row[x].text
        /\ row'[x].status # "pending" /\ (row'[x].status = "completed" => row[x].status = "completed")
        /\ row[x].target \in Languages
    BY <1>1 DEF RowOK, InterruptedRow
  <2> QED
    BY <1>2, <2>1, SMTT(30) DEF RowFollowsAttempts, Last, Interrupted
<1> QED
  BY <1>3, <1>4, <1>5, <1>6, <1>7

-----------------------------------------------------------------------------
(* What each step does to attempts and rows. *)

(* The jobs a step begins and those it finishes. *)
BeginsJob(j) ==
    \/ /\ Decorate
       /\ j = Job(coord.job.seg, liveTarget, Last(coord.job.seg, liveTarget) + 1)
    \/ \E r \in Retriers :
          /\ BeginRetry(r)
          /\ j = Job(retrier[r].seg, retrier[r].target, Last(retrier[r].seg, retrier[r].target) + 1)

FinishesJob(j, o) ==
    \/ j = coord.job /\ coord.pc = "send" /\ Finish(coord.job, o)
    \/ j = worker.job /\ worker.pc = "asking" /\ Finish(worker.job, o)
    \/ \E r \in Retriers : j = RetryJob(r) /\ retrier[r].pc = "asking" /\ Finish(RetryJob(r), o)

Untouched ==
    /\ UNCHANGED <<attempts, row>>
    /\ \/ UNCHANGED orphans
       \/ orphans' = orphans \cup {queue[i] : i \in DOMAIN queue}

(* Every step is of one of four kinds. *)
LEMMA StepKinds ==
    ASSUME Types, InHand, Next
    PROVE  \/ \E j \in Jobs : BeginsJob(j) /\ UNCHANGED orphans
           \/ \E j \in Jobs, o \in Outcomes \cup {"skipped"} : FinishesJob(j, o)
           \/ Restart \/ Untouched
<1>1. CASE Recognition
  <2>1. CASE Decorate
    <3>1. Job(coord.job.seg, liveTarget, Last(coord.job.seg, liveTarget) + 1) \in Jobs
      BY <2>1 DEF Decorate, InHand, Types, Job, Jobs, Last
    <3> QED
      BY <2>1, <3>1 DEF Decorate, BeginsJob
  <2>2. CASE SkipSameLanguage
    BY <2>2 DEF SkipSameLanguage, FinishesJob, Outcomes, Types
  <2>3. CASE EnqueueRefused
    BY <2>3 DEF EnqueueRefused, FinishesJob, Outcomes, Types
  <2>4. CASE DecorateRefused \/ Enqueue \/ Show \/ (\E s \in Segments : CommitFinal(s))
    BY <2>4 DEF DecorateRefused, Enqueue, Show, CommitFinal, stored, Untouched
  <2> QED
    BY <1>1, <2>1, <2>2, <2>3, <2>4 DEF Recognition
<1>2. CASE WorkerStep
  <2>1. CASE \E o \in Outcomes : Answer(o)
    BY <2>1 DEF Answer, FinishesJob, Types
  <2>2. CASE Take \/ Publish \/ DecideToLeave \/ Leave
    BY <2>2 DEF Take, Publish, DecideToLeave, Leave, stored, Untouched
  <2> QED
    BY <1>2, <2>1, <2>2 DEF WorkerStep
<1>3. ASSUME NEW r \in Retriers, Command(r) \/ RetryStep(r)
      PROVE  \/ \E j \in Jobs : BeginsJob(j) /\ UNCHANGED orphans
             \/ \E j \in Jobs, o \in Outcomes \cup {"skipped"} : FinishesJob(j, o)
             \/ Untouched
  <2>1. CASE BeginRetry(r)
    <3>1. Job(retrier[r].seg, retrier[r].target, Last(retrier[r].seg, retrier[r].target) + 1) \in Jobs
      BY <2>1 DEF BeginRetry, InHand, Types, Job, Jobs, Last
    <3> QED
      BY <2>1, <3>1 DEF BeginRetry, BeginsJob
  <2>2. ASSUME NEW o \in Outcomes, AnswerRetry(r, o)
        PROVE  \E j \in Jobs, p \in Outcomes \cup {"skipped"} : FinishesJob(j, p)
    <3> DEFINE p == IF retrier[r].target = Source THEN "skipped" ELSE o
    <3>1. p \in Outcomes \cup {"skipped"} /\ retrier[r].pc = "asking" /\ Finish(RetryJob(r), p)
      BY <2>2 DEF AnswerRetry, RetryJob
    <3>2. RetryJob(r) \in Jobs
      BY DEF RetryJob, Job, Jobs, Types
    <3> QED
      BY <3>1, <3>2 DEF FinishesJob
  <2>3. CASE \/ StartBatch(r) \/ BatchCancelled(r) \/ NextItem(r) \/ BatchDone(r) \/ BeginRetryRefused(r) \/ OpenAfterRetry(r)
             \/ Command(r)
    BY <2>3 DEF StartBatch, BatchCancelled, NextItem, BatchDone, BeginRetryRefused, OpenAfterRetry,
                Command, RetrySegment, CheckBatch, stored, Untouched
  <2> QED
    BY <1>3, <2>1, <2>2, <2>3 DEF RetryStep
<1>4. CASE Shutdown \/ CancelBatch
  BY <1>4 DEF Shutdown, CancelBatch, stored, Untouched
<1> QED
  BY <1>1, <1>2, <1>3, <1>4 DEF Next

(* Attempts only grow, rows follow them, and the types of both stay. *)
LEMMA TablesStep ==
    ASSUME Types, InHand, RowFollowsAttempts, [Next]_vars
    PROVE  /\ AttemptsOK' /\ RowOK' /\ RowFollowsAttempts' /\ AttemptsGrow
           /\ orphans' \in SUBSET [seg : Segments, target : Languages, attempt : Nat]
<1> DEFINE Goal == /\ AttemptsOK' /\ RowOK' /\ RowFollowsAttempts' /\ AttemptsGrow
                   /\ orphans' \in SUBSET [seg : Segments, target : Languages, attempt : Nat]
<1>1. AttemptsOK /\ RowOK /\ orphans \in SUBSET [seg : Segments, target : Languages, attempt : Nat]
  BY DEF Types, AttemptsOK, RowOK
<1>2. ASSUME NEW j \in Jobs, BeginsJob(j), UNCHANGED orphans PROVE Goal
  <2>1. CASE Decorate
    <3>1. coord.job.seg \in Segments /\ liveTarget \in Languages /\ Begin(coord.job.seg, liveTarget)
      BY <2>1 DEF Decorate, InHand, Types
    <3> QED
      BY <1>1, <1>2, <3>1, BeginKeeps
  <2>2. ASSUME NEW r \in Retriers, BeginRetry(r) PROVE Goal
    <3>1. retrier[r].seg \in Segments /\ retrier[r].target \in Languages /\ Begin(retrier[r].seg, retrier[r].target)
      BY <2>2 DEF BeginRetry, InHand, Types
    <3> QED
      BY <1>1, <1>2, <3>1, BeginKeeps
  <2> QED
    BY <1>2, <2>1, <2>2 DEF BeginsJob
<1>3. ASSUME NEW j \in Jobs, NEW o \in Outcomes \cup {"skipped"}, FinishesJob(j, o) PROVE Goal
  <2>1. Begun(j) /\ Finish(j, o)
    BY <1>3 DEF FinishesJob, InHand
  <2> QED
    BY <1>1, <2>1, FinishKeeps
<1>4. CASE Restart
  <2>1. orphans' = {}
    BY <1>4 DEF Restart
  <2> QED
    BY <1>1, <1>4, <2>1, RestartKeeps
<1>5. CASE UNCHANGED <<attempts, row>> /\ (UNCHANGED orphans \/ orphans' = orphans \cup {queue[i] : i \in DOMAIN queue})
  <2>1. AttemptsOK' /\ RowOK' /\ RowFollowsAttempts' /\ AttemptsGrow
    BY <1>1, <1>5 DEF AttemptsOK, RowOK, RowFollowsAttempts, AttemptsGrow, Last
  <2>2. ASSUME NEW i \in DOMAIN queue
        PROVE  queue[i] \in [seg : Segments, target : Languages, attempt : Nat]
    <3>1. queue[i] \in Jobs /\ queue[i].seg \in Segments
      BY DEF InHand, Begun, Types
    <3> QED
      BY <3>1 DEF Jobs
  <2> QED
    BY <1>1, <1>5, <2>1, <2>2
<1>6. CASE UNCHANGED vars
  BY <1>5, <1>6 DEF vars, stored
<1> QED
  BY <1>2, <1>3, <1>4, <1>5, <1>6, StepKinds DEF Untouched

-----------------------------------------------------------------------------
(* The types. *)

LEMMA ValueFacts ==
    ASSUME Types
    PROVE  /\ Idle \in [pc : {"idle", "begin", "send", "show"}, job : Jobs, status : RowStatus \ {"completed"}]
           /\ Waiting \in [pc : {"waiting", "asking", "publishing", "leaving", "stopped"}, job : Jobs,
                           outcome : Outcomes \cup {"none"}]
           /\ Resting \in [pc : {"idle", "checked", "next", "begin", "asking", "open"}, batch : BOOLEAN,
                           todo : SUBSET Segments, seg : Segments \cup {0}, target : Languages,
                           attempt : Nat, try : Nat, index : Nat]
           /\ NoJob \in Jobs /\ Idle.pc = "idle" /\ Waiting.pc = "waiting" /\ Resting.pc = "idle"
  BY DEF Types, Idle, Waiting, Resting, NoJob, Jobs, RowStatus

LEMMA QueueFacts ==
    ASSUME NEW q \in Seq(Jobs)
    PROVE  /\ Len(q) \in Nat /\ DOMAIN q = 1..Len(q) /\ \A i \in DOMAIN q : q[i] \in Jobs
           /\ q # <<>> => /\ Head(q) = q[1] /\ 1 \in DOMAIN q /\ Tail(q) \in Seq(Jobs)
                          /\ Len(Tail(q)) = Len(q) - 1
                          /\ \A i \in DOMAIN Tail(q) : i + 1 \in DOMAIN q /\ Tail(q)[i] = q[i + 1]
                          /\ \A i \in DOMAIN q : i # 1 => i - 1 \in DOMAIN Tail(q) /\ Tail(q)[i - 1] = q[i]
           /\ \A j \in Jobs : /\ Append(q, j) \in Seq(Jobs) /\ Len(Append(q, j)) = Len(q) + 1
                              /\ DOMAIN Append(q, j) = 1..(Len(q) + 1)
                              /\ Append(q, j)[Len(q) + 1] = j
                              /\ \A i \in DOMAIN q : Append(q, j)[i] = q[i]
  OBVIOUS

(* Which steps write what. *)
LEMMA Writers ==
    ASSUME [Next]_vars
    PROVE  /\ Enqueue \/ Take \/ Leave \/ Restart \/ UNCHANGED queue
           /\ Recognition \/ Restart \/ UNCHANGED coord
           /\ WorkerStep \/ Restart \/ UNCHANGED worker
           /\ (\E r \in Retriers : Command(r) \/ RetryStep(r)) \/ Restart \/ UNCHANGED retrier
           /\ Show \/ Publish \/ Restart \/ (\E r \in Retriers : OpenAfterRetry(r)) \/ UNCHANGED view
<1>1. CASE Recognition
  BY <1>1 DEF Recognition, CommitFinal, DecorateRefused, Decorate, SkipSameLanguage, Enqueue, EnqueueRefused, Show,
              shown, batches
<1>2. CASE WorkerStep
  BY <1>2 DEF WorkerStep, Take, Answer, Publish, DecideToLeave, Leave, shown, batches
<1>3. ASSUME NEW r \in Retriers, Command(r) \/ RetryStep(r)
      PROVE  UNCHANGED <<queue, coord, worker>> /\ (OpenAfterRetry(r) \/ UNCHANGED view)
  BY <1>3 DEF Command, RetryStep, RetrySegment, CheckBatch, StartBatch, BatchCancelled, NextItem, BatchDone,
              BeginRetry, BeginRetryRefused, OpenAfterRetry, AnswerRetry, shown
<1>4. CASE Shutdown \/ CancelBatch \/ UNCHANGED vars
  BY <1>4 DEF Shutdown, CancelBatch, vars, shown, batches
<1> QED
  BY <1>1, <1>2, <1>3, <1>4 DEF Next

(* The channel. *)
LEMMA QueueStep ==
    ASSUME Types, [Next]_vars
    PROVE  queue' \in Seq(Jobs) /\ Len(queue') <= QueueDepth
<1>1. QueueDepth \in Nat /\ queue \in Seq(Jobs) /\ Len(queue) <= QueueDepth /\ coord.job \in Jobs
  BY TranslationAssumption DEF Types
<1>2. CASE Enqueue
  <2>1. queue' = Append(queue, coord.job) /\ Len(queue) < QueueDepth
    BY <1>2 DEF Enqueue
  <2>2. Append(queue, coord.job) \in Seq(Jobs) /\ Len(Append(queue, coord.job)) = Len(queue) + 1 /\ Len(queue) \in Nat
    BY <1>1
  <2> QED
    BY <1>1, <2>1, <2>2
<1>3. CASE Take
  <2>1. queue # <<>> /\ queue' = Tail(queue)
    BY <1>3 DEF Take
  <2>2. Tail(queue) \in Seq(Jobs) /\ Len(Tail(queue)) = Len(queue) - 1 /\ Len(queue) \in Nat
    BY <1>1, <2>1, QueueFacts
  <2> QED
    BY <1>1, <2>1, <2>2
<1>4. CASE Leave \/ Restart
  <2>1. queue' = <<>>
    BY <1>4 DEF Leave, Restart
  <2>2. <<>> \in Seq(Jobs) /\ Len(<<>>) = 0
    OBVIOUS
  <2> QED
    BY <1>1, <2>1, <2>2
<1>5. CASE UNCHANGED queue
  BY <1>1, <1>5
<1> QED
  BY <1>2, <1>3, <1>4, <1>5, Writers

(* The recognition thread. *)
CoordOK == coord \in [pc : {"idle", "begin", "send", "show"}, job : Jobs, status : RowStatus \ {"completed"}]

LEMMA CoordStep ==
    ASSUME Types, InHand, [Next]_vars
    PROVE  CoordOK'
<1>1. CoordOK /\ liveTarget \in Languages
  BY DEF Types, CoordOK
<1>2. CASE Recognition
  <2>1. ASSUME NEW s \in Segments, CommitFinal(s) PROVE CoordOK'
    BY <2>1, ValueFacts DEF CommitFinal, CoordOK, Jobs, RowStatus
  <2>2. CASE Decorate
    <3>1. Job(coord.job.seg, liveTarget, Last(coord.job.seg, liveTarget) + 1) \in Jobs
      BY <2>2 DEF Decorate, InHand, Types, Job, Jobs, Last
    <3> QED
      BY <2>2, <3>1 DEF Decorate, CoordOK, RowStatus
  <2>3. CASE SkipSameLanguage
    <3>1. PICK o \in {"skipped", "unstorable"} : coord' = [coord EXCEPT !.pc = "show", !.status = Plain(o)]
      BY <2>3 DEF SkipSameLanguage
    <3>2. Plain(o) \in RowStatus \ {"completed"}
      BY <3>1 DEF Plain, RowStatus
    <3> QED
      BY <1>1, <3>1, <3>2 DEF CoordOK
  <2>4. CASE DecorateRefused \/ Enqueue \/ EnqueueRefused
    BY <1>1, <2>4 DEF DecorateRefused, Enqueue, EnqueueRefused, CoordOK, RowStatus
  <2>5. CASE Show
    BY <2>5, ValueFacts DEF Show, CoordOK
  <2> QED
    BY <1>2, <2>1, <2>2, <2>3, <2>4, <2>5 DEF Recognition
<1>3. CASE Restart
  <2>1. coord' = Idle
    BY <1>3 DEF Restart
  <2> QED
    BY <2>1, ValueFacts DEF CoordOK
<1>4. CASE UNCHANGED coord
  BY <1>1, <1>4 DEF CoordOK
<1> QED
  BY <1>2, <1>3, <1>4, Writers

(* The translation worker. *)
WorkerOK == worker \in [pc : {"waiting", "asking", "publishing", "leaving", "stopped"}, job : Jobs,
                        outcome : Outcomes \cup {"none"}]

LEMMA WorkerStepTypes ==
    ASSUME Types, [Next]_vars
    PROVE  WorkerOK'
<1>1. WorkerOK
  BY DEF Types, WorkerOK
<1>2. CASE WorkerStep
  <2>1. CASE Take
    <3>1. queue \in Seq(Jobs) /\ queue # <<>>
      BY <2>1 DEF Take, Types
    <3>2. Head(queue) \in Jobs
      BY <3>1
    <3> QED
      BY <2>1, <3>2, ValueFacts DEF Take, WorkerOK
  <2>2. ASSUME NEW o \in Outcomes, Answer(o) PROVE WorkerOK'
    BY <1>1, <2>2 DEF Answer, WorkerOK
  <2>3. CASE Publish \/ DecideToLeave \/ Leave
    BY <2>3, ValueFacts DEF Publish, DecideToLeave, Leave, WorkerOK
  <2> QED
    BY <1>2, <2>1, <2>2, <2>3 DEF WorkerStep
<1>3. CASE Restart
  <2>1. worker' = Waiting
    BY <1>3 DEF Restart
  <2> QED
    BY <2>1, ValueFacts DEF WorkerOK
<1>4. CASE UNCHANGED worker
  BY <1>1, <1>4 DEF WorkerOK
<1> QED
  BY <1>2, <1>3, <1>4, Writers

(* The retries. *)
RetryRecord ==
    [pc : {"idle", "checked", "next", "begin", "asking", "open"}, batch : BOOLEAN,
     todo : SUBSET Segments, seg : Segments \cup {0}, target : Languages,
     attempt : Nat, try : Nat, index : Nat]

RetriersOK == retrier \in [Retriers -> RetryRecord]

LEMMA RetrierStep ==
    ASSUME Types, InHand, [Next]_vars
    PROVE  RetriersOK'
<1>1. RetriersOK /\ Resting \in RetryRecord /\ durable \in SUBSET Segments
  BY ValueFacts DEF Types, RetriersOK, RetryRecord
<1>2. ASSUME NEW r \in Retriers, Command(r) PROVE RetriersOK'
  <2>1. ASSUME NEW s \in Segments, NEW t \in Languages, RetrySegment(r, s, t) PROVE RetriersOK'
    <3>1. [Resting EXCEPT !.pc = "begin", !.seg = s, !.target = t, !.try = 1] \in RetryRecord
      BY <1>1 DEF RetryRecord
    <3> QED
      BY <1>1, <2>1, <3>1 DEF RetrySegment, RetriersOK
  <2>2. ASSUME NEW t \in Languages, CheckBatch(r, t) PROVE RetriersOK'
    <3>1. [Resting EXCEPT !.pc = "checked", !.batch = TRUE, !.target = t] \in RetryRecord
      BY <1>1 DEF RetryRecord
    <3> QED
      BY <1>1, <2>2, <3>1 DEF CheckBatch, RetriersOK
  <2> QED
    BY <1>2, <2>1, <2>2 DEF Command
<1>3. ASSUME NEW r \in Retriers, RetryStep(r) PROVE RetriersOK'
  <2>1. CASE StartBatch(r)
    <3>1. Plan(retrier[r].target) \in SUBSET Segments
      BY <1>1 DEF Plan
    <3> QED
      BY <1>1, <2>1, <3>1 DEF StartBatch, RetriersOK, RetryRecord
  <2>2. CASE BatchCancelled(r) \/ BatchDone(r) \/ OpenAfterRetry(r)
    BY <1>1, <2>2 DEF BatchCancelled, BatchDone, OpenAfterRetry, RetriersOK
  <2>3. CASE NextItem(r)
    <3>1. PICK s \in retrier[r].todo :
            retrier' = [retrier EXCEPT ![r].pc = "begin", ![r].seg = s, ![r].todo = @ \ {s}, ![r].try = 1]
      BY <2>3 DEF NextItem
    <3>2. s \in Segments
      BY <1>1 DEF RetriersOK, RetryRecord
    <3> QED
      BY <1>1, <3>1, <3>2 DEF RetriersOK, RetryRecord
  <2>4. CASE BeginRetry(r)
    <3>1. Last(retrier[r].seg, retrier[r].target) + 1 \in Nat
      BY <2>4 DEF BeginRetry, InHand, Types, Last
    <3> DEFINE number == Last(retrier[r].seg, retrier[r].target) + 1
               asked == [retrier[r] EXCEPT !.pc = "asking", !.attempt = number]
    <3>2. retrier[r] \in RetryRecord /\ retrier' = [retrier EXCEPT ![r] = asked]
      BY <1>1, <2>4 DEF BeginRetry, RetriersOK
    <3> HIDE DEF number
    <3>3. asked \in RetryRecord
      BY <3>1, <3>2 DEF RetryRecord, number
    <3> QED
      BY <1>1, <3>2, <3>3 DEF RetriersOK
  <2>5. ASSUME NEW ok \in BOOLEAN, Counted(r, ok) PROVE RetriersOK'
    BY <1>1, <2>5 DEF Counted, RetriersOK, RetryRecord
  <2>6. CASE BeginRetryRefused(r)
    BY <2>5, <2>6 DEF BeginRetryRefused
  <2>7. ASSUME NEW o \in Outcomes, AnswerRetry(r, o) PROVE RetriersOK'
    <3>1. CASE retrier' = [retrier EXCEPT ![r].pc = "begin", ![r].try = @ + 1]
      BY <1>1, <3>1 DEF RetriersOK, RetryRecord
    <3>2. ASSUME NEW p \in Outcomes \cup {"skipped"}, Counted(r, p \in {"completed", "skipped"}) PROVE RetriersOK'
      <4>1. (p \in {"completed", "skipped"}) \in BOOLEAN
        OBVIOUS
      <4> QED
        BY <2>5, <3>2, <4>1
    <3>3. (IF retrier[r].target = Source THEN "skipped" ELSE o) \in Outcomes \cup {"skipped"}
      OBVIOUS
    <3> QED
      BY <2>7, <3>1, <3>2, <3>3 DEF AnswerRetry
  <2> QED
    BY <1>3, <2>1, <2>2, <2>3, <2>4, <2>6, <2>7 DEF RetryStep
<1>4. CASE Restart
  BY <1>1, <1>4 DEF Restart, RetriersOK
<1>5. CASE UNCHANGED retrier
  BY <1>1, <1>5 DEF RetriersOK
<1> QED
  BY <1>2, <1>3, <1>4, <1>5, Writers

(* The snapshot, and the finals that are stored. *)
ViewOK == view \in [Segments -> [status : ViewStatus, text : Nat]]

LEMMA ViewStep ==
    ASSUME Types, InHand, StoredBeforeShown, [Next]_vars
    PROVE  ViewOK' /\ durable' \in SUBSET Segments /\ liveTarget' \in Languages
<1>1. /\ ViewOK /\ RowOK /\ durable \in SUBSET Segments /\ liveTarget \in Languages
      /\ RowStatus \subseteq ViewStatus /\ Absent \in [status : ViewStatus, text : Nat]
  BY DEF Types, ViewOK, RowOK, ViewStatus, Absent
<1>2. liveTarget' \in Languages
  BY <1>1, Zenon DEF Next, vars
<1>3. durable' \in SUBSET Segments
  BY <1>1, Zenon DEF Next, vars, stored, Recognition, CommitFinal, DecorateRefused, Decorate, SkipSameLanguage, Enqueue,
              EnqueueRefused, Show, WorkerStep, Take, Answer, Publish, DecideToLeave, Leave,
              Shutdown, CancelBatch, Restart, Command, RetryStep, RetrySegment, CheckBatch, StartBatch,
              BatchCancelled, NextItem, BatchDone, BeginRetry, BeginRetryRefused, OpenAfterRetry, AnswerRetry
<1>4. CASE Show
  <2>1. [status |-> coord.status, text |-> 0] \in [status : ViewStatus, text : Nat]
    BY <1>1 DEF Types
  <2>2. ViewOK'
    BY <1>1, <1>4, <2>1 DEF Show, ViewOK
  <2> QED
    BY <1>2, <1>3, <2>2
<1>5. CASE Publish
  <2>1. worker.job.attempt \in Nat /\ worker.outcome \in Outcomes \cup {"none"}
    BY DEF Types, Jobs
  <2>2. Plain(worker.outcome) \in ViewStatus
    BY <2>1 DEF Plain, Outcomes, ViewStatus, RowStatus
  <2>3. Published(worker.job, worker.outcome) \in [status : ViewStatus, text : Nat]
    BY <2>1, <2>2 DEF Published
  <2>4. ViewOK'
    BY <1>1, <1>5, <2>3 DEF Publish, ViewOK
  <2> QED
    BY <1>2, <1>3, <2>4
<1>6. CASE Restart
  <2>1. view' = [s \in Segments |-> IF s \in durable
                   THEN [status |-> InterruptedRow(row[s]).status, text |-> row[s].text] ELSE Absent]
    BY <1>6 DEF Restart
  <2>2. ASSUME NEW s \in Segments
        PROVE  InterruptedRow(row[s]).status \in ViewStatus /\ row[s].text \in Nat
    BY <1>1 DEF RowOK, InterruptedRow, ViewStatus, RowStatus
  <2>3. ViewOK'
    BY <1>1, <2>1, <2>2 DEF ViewOK
  <2> QED
    BY <1>2, <1>3, <2>3
<1>7. ASSUME NEW r \in Retriers, OpenAfterRetry(r) PROVE ViewOK'
  <2>1. view' = [s \in Segments |-> IF s \in durable THEN [status |-> row[s].status, text |-> row[s].text]
                                                       ELSE Absent]
    BY <1>7 DEF OpenAfterRetry, Reread
  <2>2. ASSUME NEW s \in Segments PROVE row[s].status \in ViewStatus /\ row[s].text \in Nat
    BY <1>1 DEF RowOK
  <2> QED
    BY <1>1, <2>1, <2>2 DEF ViewOK
<1>8. CASE UNCHANGED view
  BY <1>1, <1>2, <1>3, <1>8 DEF ViewOK
<1> QED
  BY <1>2, <1>3, <1>4, <1>5, <1>6, <1>7, <1>8, Writers

LEMMA TypesStep ==
    ASSUME Types, InHand, StoredBeforeShown, RowFollowsAttempts, [Next]_vars
    PROVE  Types'
  BY TablesStep, QueueStep, CoordStep, WorkerStepTypes, RetrierStep, ViewStep
     DEF Types, AttemptsOK, RowOK, CoordOK, WorkerOK, RetriersOK, RetryRecord, ViewOK

-----------------------------------------------------------------------------
(* Jobs in hand. *)

LEMMA HandStep ==
    ASSUME Types, InHand, RowFollowsAttempts, [Next]_vars
    PROVE  InHand'
<1>1. \A j : Begun(j) => /\ j.seg \in Segments /\ j.target \in Languages
                         /\ j.attempt \in DOMAIN attempts'[j.seg][j.target]
  BY TablesStep DEF Begun, AttemptsGrow
<1>2. ASSUME NEW i \in DOMAIN queue'
      PROVE  Begun(queue[i])'
  <2>1. queue \in Seq(Jobs) /\ coord.job \in Jobs
    BY DEF Types
  <2>2. CASE Enqueue
    <3>1. queue' = Append(queue, coord.job) /\ Begun(coord.job)
      BY <2>2 DEF Enqueue, InHand
    <3>2. queue'[i] = coord.job \/ (i \in DOMAIN queue /\ queue'[i] = queue[i])
      BY <2>1, <3>1, QueueFacts
    <3> QED
      BY <1>1, <3>1, <3>2 DEF Begun, InHand
  <2>3. CASE Take
    <3>1. queue # <<>> /\ queue' = Tail(queue)
      BY <2>3 DEF Take
    <3>2. i + 1 \in DOMAIN queue /\ queue'[i] = queue[i + 1]
      BY <2>1, <3>1, QueueFacts
    <3> QED
      BY <1>1, <3>2 DEF Begun, InHand
  <2>4. CASE Leave \/ Restart
    BY <2>4 DEF Leave, Restart
  <2>5. CASE UNCHANGED queue
    BY <1>1, <2>5 DEF Begun, InHand
  <2> QED
    BY <2>2, <2>3, <2>4, <2>5, Writers
<1>3. worker'.pc = "asking" => Begun(worker.job)'
  <2>1. CASE Take
    <3>1. /\ worker' = [Waiting EXCEPT !.pc = "asking", !.job = Head(queue)]
          /\ queue # <<>> /\ queue \in Seq(Jobs)
      BY <2>1 DEF Take, Types
    <3>2. worker'.job = queue[1] /\ 1 \in DOMAIN queue
      BY <3>1, QueueFacts DEF Waiting
    <3> QED
      BY <1>1, <3>2 DEF Begun, InHand
  <2>2. CASE (\E o \in Outcomes : Answer(o)) \/ Publish \/ DecideToLeave \/ Leave \/ Restart
    <3>1. ASSUME NEW o \in Outcomes, Answer(o) PROVE worker'.pc # "asking"
      BY <3>1 DEF Answer, Types
    <3>2. CASE Publish \/ DecideToLeave \/ Leave \/ Restart
      BY <3>2 DEF Publish, DecideToLeave, Leave, Restart, Waiting
    <3> QED
      BY <2>2, <3>1, <3>2
  <2>3. CASE UNCHANGED worker
    BY <1>1, <2>3 DEF Begun, InHand
  <2> QED
    BY <2>1, <2>2, <2>3, Writers DEF WorkerStep
<1>4. /\ coord'.pc = "send" => Begun(coord.job)'
      /\ coord'.pc # "idle" => coord'.job.seg \in Segments
  <2>1. CASE Decorate
    <3>1. /\ coord'.job = Job(coord.job.seg, liveTarget, Last(coord.job.seg, liveTarget) + 1)
          /\ coord.job.seg \in Segments /\ liveTarget \in Languages
          /\ Begin(coord.job.seg, liveTarget)
      BY <2>1 DEF Decorate, InHand, Types
    <3>2. Last(coord.job.seg, liveTarget) + 1 \in DOMAIN attempts'[coord.job.seg][liveTarget]
      BY <3>1, BeginKeeps DEF Types, AttemptsOK, RowOK
    <3> QED
      BY <3>1, <3>2 DEF Begun, Job
  <2>2. CASE DecorateRefused \/ SkipSameLanguage \/ Enqueue \/ EnqueueRefused
    <3>1. coord'.pc = "show" /\ coord'.job = coord.job /\ coord.pc # "idle"
      BY <2>2 DEF DecorateRefused, SkipSameLanguage, Enqueue, EnqueueRefused, Types
    <3> QED
      BY <3>1 DEF InHand
  <2>3. ASSUME NEW s \in Segments, CommitFinal(s)
        PROVE  coord'.pc = "begin" /\ coord'.job.seg = s
    BY <2>3 DEF CommitFinal, NoJob
  <2>4. CASE Show \/ Restart
    BY <2>4 DEF Show, Restart, Idle
  <2>5. CASE UNCHANGED coord
    BY <1>1, <2>5 DEF Begun, InHand
  <2> QED
    BY <2>1, <2>2, <2>3, <2>4, <2>5, Writers DEF Recognition
<1>5. ASSUME NEW q \in Retriers
      PROVE  /\ retrier'[q].pc \in {"begin", "asking"} => retrier'[q].seg \in Segments
             /\ retrier'[q].pc = "asking" => Begun(RetryJob(q))'
  <2>1. CASE UNCHANGED retrier
    BY <1>1, <2>1 DEF Begun, InHand, RetryJob
  <2>2. CASE Restart
    BY <2>2 DEF Restart, Resting
  <2>3. ASSUME NEW r \in Retriers, Command(r) \/ RetryStep(r)
        PROVE  /\ retrier'[q].pc \in {"begin", "asking"} => retrier'[q].seg \in Segments
               /\ retrier'[q].pc = "asking" => Begun(RetryJob(q))'
    <3>1. CASE q # r
      <4>1. retrier'[q] = retrier[q]
        BY <2>3, <3>1 DEF Command, RetryStep, RetrySegment, CheckBatch, StartBatch, BatchCancelled, NextItem,
           BatchDone, BeginRetry, BeginRetryRefused, OpenAfterRetry, AnswerRetry, Counted, Types
      <4> QED
        BY <1>1, <4>1 DEF Begun, InHand, RetryJob
    <3>2. CASE q = r /\ BeginRetry(r)
      <4>1. /\ retrier'[r].seg = retrier[r].seg /\ retrier'[r].target = retrier[r].target
            /\ retrier'[r].attempt = Last(retrier[r].seg, retrier[r].target) + 1
            /\ retrier[r].seg \in Segments /\ retrier[r].target \in Languages
            /\ Begin(retrier[r].seg, retrier[r].target)
        BY <3>2 DEF BeginRetry, InHand, Types
      <4>2. Last(retrier[r].seg, retrier[r].target) + 1 \in DOMAIN attempts'[retrier[r].seg][retrier[r].target]
        BY <4>1, BeginKeeps DEF Types, AttemptsOK, RowOK
      <4> QED
        BY <3>2, <4>1, <4>2 DEF Begun, RetryJob, Job
    <3>3. ASSUME q = r, NEW o \in Outcomes, AnswerRetry(r, o)
          PROVE  retrier'[r].pc # "asking" /\ (retrier'[r].pc = "begin" => retrier'[r].seg \in Segments)
      <4>1. retrier[r].seg \in Segments
        BY <3>3 DEF AnswerRetry, InHand
      <4> QED
        BY <3>3, <4>1 DEF AnswerRetry, Counted, Resting, Types
    <3>4. CASE q = r /\ NextItem(r)
      BY <3>4 DEF NextItem, Types
    <3>5. ASSUME q = r, NEW s \in Segments, NEW t \in Languages, RetrySegment(r, s, t)
          PROVE  retrier'[r].pc = "begin" /\ retrier'[r].seg = s
      BY <3>5 DEF RetrySegment, Resting, Types
    <3>6. CASE q = r /\ (\/ (\E t \in Languages : CheckBatch(r, t)) \/ StartBatch(r) \/ BatchCancelled(r)
                         \/ BatchDone(r) \/ BeginRetryRefused(r) \/ OpenAfterRetry(r))
      <4>0. ASSUME NEW t \in Languages, CheckBatch(r, t) PROVE retrier'[r].pc = "checked"
        BY <4>0 DEF CheckBatch, Resting, Types
      <4>1. CASE BatchCancelled(r) \/ BatchDone(r) \/ OpenAfterRetry(r)
        <5>1. retrier'[r] = Resting
          BY <4>1 DEF BatchCancelled, BatchDone, OpenAfterRetry, Types
        <5> QED
          BY <3>6, <5>1 DEF Resting
      <4>2. CASE StartBatch(r)
        <5>1. \/ retrier' = [retrier EXCEPT ![r] = Resting]
              \/ \E p : retrier' = [retrier EXCEPT ![r].pc = "next", ![r].todo = p]
          BY <4>2 DEF StartBatch
        <5>2. retrier'[r].pc \in {"idle", "next"}
          BY <5>1 DEF Resting, Types
        <5> QED
          BY <3>6, <5>2
      <4>3. CASE BeginRetryRefused(r)
        BY <3>6, <4>3 DEF BeginRetryRefused, Counted, Resting, Types
      <4> QED
        BY <3>6, <4>0, <4>1, <4>2, <4>3
    <3> QED
      BY <2>3, <3>1, <3>2, <3>3, <3>4, <3>5, <3>6 DEF Command, RetryStep
  <2> QED
    BY <2>1, <2>2, <2>3, Writers
<1> QED
  BY <1>2, <1>3, <1>4, <1>5 DEF InHand

(* What the worker is about to publish. *)
LEMMA StoredStep ==
    ASSUME Types, InHand, StoredBeforeShown, RowFollowsAttempts, [Next]_vars
    PROVE  StoredBeforeShown'
<1>1. AttemptsGrow
  BY TablesStep
<1>2. ASSUME NEW o \in Outcomes, Answer(o) PROVE StoredBeforeShown'
  <2>1. /\ Begun(worker.job) /\ Finish(worker.job, o) /\ worker.job \in Jobs
        /\ worker'.job = worker.job /\ worker'.outcome = o
    BY <1>2 DEF Answer, InHand, Types
  <2>2. o = "completed" => attempts'[worker.job.seg][worker.job.target][worker.job.attempt] = "completed"
    BY <2>1, FinishKeeps DEF Types, AttemptsOK, RowOK
  <2>3. worker.job.attempt \in DOMAIN attempts'[worker.job.seg][worker.job.target]
    BY <1>1, <2>1 DEF AttemptsGrow, Begun
  <2> QED
    BY <2>1, <2>2, <2>3 DEF StoredBeforeShown, Begun
<1>3. CASE Take \/ Publish \/ DecideToLeave \/ Leave \/ Restart
  <2>1. worker'.pc # "publishing"
    <3>1. CASE Take \/ DecideToLeave \/ Leave
      BY <3>1 DEF Take, DecideToLeave, Leave, Waiting
    <3>2. CASE Publish \/ Restart
      BY <3>2 DEF Publish, Restart, Waiting
    <3> QED
      BY <1>3, <3>1, <3>2
  <2> QED
    BY <2>1 DEF StoredBeforeShown
<1>4. CASE UNCHANGED worker
  BY <1>1, <1>4 DEF StoredBeforeShown, AttemptsGrow, Begun
<1> QED
  BY <1>2, <1>3, <1>4, Writers DEF WorkerStep

(* The snapshot. *)
LEMMA ShownStep ==
    ASSUME Types, InHand, StoredBeforeShown, RowFollowsAttempts, ShownTextIsStored, [Next]_vars
    PROVE  ShownTextIsStored'
<1>1. /\ AttemptsGrow /\ RowFollowsAttempts' /\ RowOK'
      /\ view \in [Segments -> [status : ViewStatus, text : Nat]]
  BY TablesStep DEF Types
<1>2. ASSUME NEW s \in Segments, view[s].status = "completed"
      PROVE  \E t \in Languages : view[s].text \in DOMAIN attempts'[s][t]
                                  /\ attempts'[s][t][view[s].text] = "completed"
  BY <1>1, <1>2 DEF ShownTextIsStored, AttemptsGrow
<1>3. ASSUME NEW s \in Segments, row'[s].status = "completed"
      PROVE  \E t \in Languages : row'[s].text \in DOMAIN attempts'[s][t]
                                  /\ attempts'[s][t][row'[s].text] = "completed"
  <2>1. row'[s].target \in Languages /\ row'[s].text \in 1..Len(attempts'[s][row'[s].target])
        /\ attempts'[s][row'[s].target][row'[s].text] = "completed"
    BY <1>1, <1>3 DEF RowFollowsAttempts, RowOK, Last
  <2>2. attempts'[s][row'[s].target] \in Seq(AttemptStatus)
    BY <2>1, TablesStep DEF AttemptsOK
  <2> QED
    BY <2>1, <2>2
<1> SUFFICES ASSUME NEW s \in Segments, view'[s].status = "completed"
             PROVE  \E t \in Languages : view'[s].text \in DOMAIN attempts'[s][t]
                                         /\ attempts'[s][t][view'[s].text] = "completed"
  BY DEF ShownTextIsStored
<1>4. CASE UNCHANGED view
  BY <1>2, <1>4
<1>5. CASE Show
  <2>1. coord.status # "completed" /\ coord.job.seg \in Segments
    BY <1>5 DEF Show, Types, InHand
  <2>2. view'[s] = view[s] \/ view'[s].status = coord.status
    BY <1>1, <1>5, <2>1 DEF Show
  <2> QED
    BY <1>2, <2>1, <2>2
<1>6. CASE Publish
  <2>1. worker.job.seg \in Segments /\ worker.outcome \in Outcomes \cup {"none"}
    BY <1>6 DEF Publish, StoredBeforeShown, Types
  <2>2. view'[s] = view[s] \/ (s = worker.job.seg /\ view'[s] = Published(worker.job, worker.outcome))
    BY <1>1, <1>6, <2>1 DEF Publish
  <2>3. CASE s = worker.job.seg /\ view'[s] = Published(worker.job, worker.outcome)
    <3>1. worker.outcome = "completed"
      BY <2>1, <2>3 DEF Published, Plain, Outcomes
    <3>2. /\ Begun(worker.job) /\ view'[s].text = worker.job.attempt
          /\ attempts[worker.job.seg][worker.job.target][worker.job.attempt] = "completed"
      BY <1>6, <2>3, <3>1 DEF Publish, StoredBeforeShown, Published
    <3> QED
      BY <1>1, <2>3, <3>2 DEF Begun, AttemptsGrow
  <2> QED
    BY <1>2, <2>2, <2>3
<1>7. ASSUME NEW r \in Retriers, OpenAfterRetry(r)
      PROVE  view'[s].status = row'[s].status /\ view'[s].text = row'[s].text
  BY <1>7 DEF OpenAfterRetry, Reread, Absent, stored
<1>8. CASE Restart
  <2>1. view'[s].status = row'[s].status /\ view'[s].text = row'[s].text
    BY <1>8 DEF Restart, Absent, InterruptedRow, Types
  <2> QED
    BY <1>3, <2>1
<1> QED
  BY <1>3, <1>4, <1>5, <1>6, <1>7, <1>8, Writers

-----------------------------------------------------------------------------
(* Owners. *)

(* A held job stays in hand, is finished, or is dropped with the channel.   *)
LEMMA HeldMoves ==
    ASSUME Types, InHand, [Next]_vars, ~Restart, NEW k \in Held
    PROVE  k \in Held' \cup orphans' \/ \E o \in Outcomes \cup {"skipped"} : FinishesJob(k, o)
<1>1. queue \in Seq(Jobs) /\ coord.job \in Jobs
  BY DEF Types
<1>2. ASSUME NEW i \in DOMAIN queue, k = queue[i]
      PROVE  k \in Held' \cup orphans'
  <2>1. CASE Enqueue
    <3>1. queue' = Append(queue, coord.job)
      BY <2>1 DEF Enqueue
    <3>2. i \in DOMAIN queue' /\ queue'[i] = k
      BY <1>1, <1>2, <3>1, QueueFacts
    <3> QED
      BY <3>2 DEF Held
  <2>2. CASE Take
    <3>1. queue # <<>> /\ queue' = Tail(queue)
      BY <2>2 DEF Take
    <3>2. CASE i = 1
      <4>1. worker' = [Waiting EXCEPT !.pc = "asking", !.job = Head(queue)] /\ Head(queue) = k
        BY <1>1, <1>2, <2>2, <3>1, <3>2, QueueFacts DEF Take
      <4>2. worker'.pc = "asking" /\ worker'.job = k
        BY <4>1 DEF Waiting
      <4> QED
        BY <4>2 DEF Held
    <3>3. CASE i # 1
      <4>1. i - 1 \in DOMAIN queue' /\ queue'[i - 1] = k
        BY <1>1, <1>2, <3>1, <3>3, QueueFacts
      <4> QED
        BY <4>1 DEF Held
    <3> QED
      BY <3>2, <3>3
  <2>3. CASE Leave
    BY <1>2, <2>3 DEF Leave
  <2>4. CASE UNCHANGED queue
    BY <1>2, <2>4 DEF Held
  <2> QED
    BY <2>1, <2>2, <2>3, <2>4, Writers
<1>3. ASSUME worker.pc = "asking", k = worker.job
      PROVE  k \in Held' \/ \E o \in Outcomes \cup {"skipped"} : FinishesJob(k, o)
  <2>1. CASE \E o \in Outcomes : Answer(o)
    BY <1>3, <2>1 DEF Answer, FinishesJob
  <2>2. CASE Take \/ Publish \/ DecideToLeave \/ Leave
    BY <1>3, <2>2 DEF Take, Publish, DecideToLeave, Leave
  <2>3. CASE UNCHANGED worker
    BY <1>3, <2>3 DEF Held
  <2> QED
    BY <2>1, <2>2, <2>3, Writers DEF WorkerStep
<1>4. ASSUME coord.pc = "send", k = coord.job
      PROVE  k \in Held' \/ \E o \in Outcomes \cup {"skipped"} : FinishesJob(k, o)
  <2>1. CASE Enqueue
    <3>1. queue' = Append(queue, coord.job)
      BY <2>1 DEF Enqueue
    <3>2. Len(queue) + 1 \in DOMAIN queue' /\ queue'[Len(queue) + 1] = k
      BY <1>1, <1>4, <3>1, QueueFacts
    <3> QED
      BY <3>2 DEF Held
  <2>2. CASE SkipSameLanguage \/ EnqueueRefused
    BY <1>4, <2>2 DEF SkipSameLanguage, EnqueueRefused, FinishesJob, Outcomes
  <2>3. CASE Decorate \/ DecorateRefused \/ Show \/ \E s \in Segments : CommitFinal(s)
    BY <1>4, <2>3 DEF Decorate, DecorateRefused, Show, CommitFinal
  <2>4. CASE UNCHANGED coord
    BY <1>4, <2>4 DEF Held
  <2> QED
    BY <2>1, <2>2, <2>3, <2>4, Writers DEF Recognition
<1>5. ASSUME NEW q \in Retriers, retrier[q].pc = "asking", k = RetryJob(q)
      PROVE  k \in Held' \/ \E o \in Outcomes \cup {"skipped"} : FinishesJob(k, o)
  <2>1. CASE retrier'[q] = retrier[q]
    BY <1>5, <2>1 DEF Held, RetryJob
  <2>2. ASSUME NEW r \in Retriers, Command(r) \/ RetryStep(r)
        PROVE  retrier'[q] = retrier[q] \/ \E o \in Outcomes \cup {"skipped"} : FinishesJob(k, o)
    <3>1. CASE q # r
      <4>1. CASE Command(r)
        BY <3>1, <4>1 DEF Command, RetrySegment, CheckBatch, Types
      <4>2. CASE StartBatch(r) \/ BatchCancelled(r) \/ NextItem(r) \/ BatchDone(r) \/ OpenAfterRetry(r)
        BY <3>1, <4>2 DEF StartBatch, BatchCancelled, NextItem, BatchDone, OpenAfterRetry, Types
      <4>3. CASE BeginRetry(r) \/ BeginRetryRefused(r)
        BY <3>1, <4>3 DEF BeginRetry, BeginRetryRefused, Counted, Types
      <4>4. ASSUME NEW o \in Outcomes, AnswerRetry(r, o) PROVE retrier'[q] = retrier[q]
        BY <3>1, <4>4 DEF AnswerRetry, Counted, Types
      <4> QED
        BY <2>2, <4>1, <4>2, <4>3, <4>4, Zenon DEF RetryStep
    <3>2. ASSUME q = r, NEW o \in Outcomes, AnswerRetry(r, o)
          PROVE  \E p \in Outcomes \cup {"skipped"} : FinishesJob(k, p)
      <4> DEFINE p == IF retrier[r].target = Source THEN "skipped" ELSE o
      <4>1. p \in Outcomes \cup {"skipped"} /\ Finish(RetryJob(r), p)
        BY <3>2 DEF AnswerRetry, RetryJob
      <4> QED
        BY <1>5, <3>2, <4>1 DEF FinishesJob
    <3> QED
      BY <1>5, <2>2, <3>1, <3>2 DEF Command, RetryStep, RetrySegment, CheckBatch, StartBatch, BatchCancelled,
         NextItem, BatchDone, BeginRetry, BeginRetryRefused, OpenAfterRetry
  <2> QED
    BY <2>1, <2>2, Writers
<1> QED
  BY <1>2, <1>3, <1>4, <1>5 DEF Held, RetryJob

LEMMA OrphansStay ==
    ASSUME Types, InHand, RowFollowsAttempts, [Next]_vars, ~Restart
    PROVE  orphans \subseteq orphans'
<1>1. CASE UNCHANGED vars
  BY <1>1, Zenon DEF vars
<1>2. ASSUME NEW j \in Jobs, NEW o \in Outcomes \cup {"skipped"}, FinishesJob(j, o)
      PROVE  orphans \subseteq orphans'
  BY <1>2, Zenon DEF FinishesJob, Finish
<1> QED
  BY <1>1, <1>2, StepKinds DEF Untouched

LEMMA OwnerStep ==
    ASSUME Types, InHand, RowFollowsAttempts, PendingHasOwner, [Next]_vars
    PROVE  PendingHasOwner'
<1> SUFFICES ASSUME NEW s \in Segments, NEW t \in Languages, NEW a \in DOMAIN attempts'[s][t],
                    attempts'[s][t][a] = "pending"
             PROVE  Job(s, t, a) \in Held' \cup orphans'
  BY DEF PendingHasOwner, Job
<1> DEFINE k == Job(s, t, a)
           WasPending == a \in DOMAIN attempts[s][t] /\ attempts[s][t][a] = "pending"
<1>1. /\ AttemptsOK /\ RowOK /\ orphans \in SUBSET [seg : Segments, target : Languages, attempt : Nat]
  BY DEF Types, AttemptsOK, RowOK
<1>2. ~Restart
  <2> SUFFICES ASSUME Restart PROVE FALSE
    OBVIOUS
  <2>1. attempts'[s][t] = [b \in DOMAIN attempts[s][t] |-> Interrupted(attempts[s][t][b])]
    BY DEF Restart
  <2>2. attempts'[s][t][a] = Interrupted(attempts[s][t][a])
    BY <2>1
  <2> QED
    BY <2>2 DEF Interrupted
<1>3. ASSUME NEW j \in Jobs, NEW o \in Outcomes \cup {"skipped"}, FinishesJob(j, o)
      PROVE  k \in orphans' \/ (WasPending /\ k # j)
  <2>1. Begun(j) /\ Finish(j, o)
    BY <1>3 DEF FinishesJob, InHand
  <2>2. PendingFrom(orphans', {j})
    BY <1>1, <2>1, FinishKeeps
  <2> QED
    BY <2>2 DEF PendingFrom
<1>4. CASE WasPending
  <2>1. k \in Held \cup orphans
    BY <1>4 DEF PendingHasOwner
  <2>2. CASE k \in orphans
    BY <1>2, <2>2, OrphansStay
  <2>3. ASSUME NEW o \in Outcomes \cup {"skipped"}, FinishesJob(k, o)
        PROVE  k \in orphans'
    <3>1. k \in Jobs
      BY <2>3 DEF FinishesJob, RetryJob, Types, Job, Jobs
    <3> QED
      BY <1>3, <2>3, <3>1
  <2> QED
    BY <1>2, <2>1, <2>2, <2>3, HeldMoves
<1>5. ASSUME NEW j \in Jobs, BeginsJob(j) PROVE k \in Held' \/ WasPending
  <2>1. j \in Held'
    <3>1. CASE Decorate /\ j = Job(coord.job.seg, liveTarget, Last(coord.job.seg, liveTarget) + 1)
      BY <3>1 DEF Decorate, Held
    <3>2. ASSUME NEW r \in Retriers, BeginRetry(r),
                 j = Job(retrier[r].seg, retrier[r].target, Last(retrier[r].seg, retrier[r].target) + 1)
          PROVE  j \in Held'
      <4>1. /\ retrier'[r].pc = "asking" /\ retrier'[r].seg = retrier[r].seg
            /\ retrier'[r].target = retrier[r].target
            /\ retrier'[r].attempt = Last(retrier[r].seg, retrier[r].target) + 1
        BY <3>2 DEF BeginRetry, Types
      <4> QED
        BY <3>2, <4>1 DEF Held
    <3> QED
      BY <1>5, <3>1, <3>2 DEF BeginsJob
  <2>2. PendingFrom({j}, {})
    <3>1. CASE Decorate /\ j = Job(coord.job.seg, liveTarget, Last(coord.job.seg, liveTarget) + 1)
      <4>1. coord.job.seg \in Segments /\ liveTarget \in Languages /\ Begin(coord.job.seg, liveTarget)
        BY <3>1 DEF Decorate, InHand, Types
      <4> QED
        BY <1>1, <3>1, <4>1, BeginKeeps
    <3>2. ASSUME NEW r \in Retriers, BeginRetry(r),
                 j = Job(retrier[r].seg, retrier[r].target, Last(retrier[r].seg, retrier[r].target) + 1)
          PROVE  PendingFrom({j}, {})
      <4>1. /\ retrier[r].seg \in Segments /\ retrier[r].target \in Languages
            /\ Begin(retrier[r].seg, retrier[r].target)
        BY <3>2 DEF BeginRetry, InHand, Types
      <4> QED
        BY <1>1, <3>2, <4>1, BeginKeeps
    <3> QED
      BY <1>5, <3>1, <3>2 DEF BeginsJob
  <2>3. k \in {j} \/ WasPending
    BY <2>2 DEF PendingFrom
  <2> QED
    BY <2>1, <2>3
<1>6. CASE UNCHANGED vars \/ Untouched
  BY <1>4, <1>6 DEF vars, stored, Untouched
<1> QED
  BY <1>2, <1>3, <1>4, <1>5, <1>6, StepKinds

-----------------------------------------------------------------------------
(* The theorems. *)

LEMMA InitInv ==
    ASSUME Init
    PROVE  TranslationInv
<1>1. liveTarget \in Languages /\ 0 \in Nat /\ QueueDepth \in Nat
  BY TranslationAssumption DEF Init
<1>2. Types
  <2>1. row \in [Segments -> [status : RowStatus, target : Languages, text : Nat]]
    BY <1>1 DEF Init, NoRow, RowStatus
  <2>2. attempts \in [Segments -> [Languages -> Seq(AttemptStatus)]]
    <3>1. <<"retryable">> \in Seq(AttemptStatus) /\ <<>> \in Seq(AttemptStatus)
      BY DEF AttemptStatus, Finished
    <3> QED
      BY <3>1 DEF Init
  <2>3. view \in [Segments -> [status : ViewStatus, text : Nat]]
    BY <2>1 DEF Init, Reread, Absent, ViewStatus
  <2>4. queue \in Seq(Jobs) /\ Len(queue) <= QueueDepth
    BY <1>1 DEF Init
  <2>5. /\ coord \in [pc : {"idle", "begin", "send", "show"}, job : Jobs, status : RowStatus \ {"completed"}]
        /\ worker \in [pc : {"waiting", "asking", "publishing", "leaving", "stopped"}, job : Jobs,
                       outcome : Outcomes \cup {"none"}]
    BY <1>1 DEF Init, Idle, Waiting, NoJob, Jobs, RowStatus
  <2>6. Resting \in RetryRecord
    BY <1>1 DEF Resting, RetryRecord
  <2>7. retrier \in [Retriers -> RetryRecord]
    BY <2>6 DEF Init
  <2>8. durable \in SUBSET Segments /\ orphans = {}
    BY DEF Init
  <2> QED
    BY <1>1, <2>1, <2>2, <2>3, <2>4, <2>5, <2>7, <2>8 DEF Types, RetryRecord
<1>3. InHand /\ StoredBeforeShown
  BY DEF Init, InHand, StoredBeforeShown, Idle, Waiting, Resting
<1>4. \A s \in Segments : row[s].status \in {"none", "failed"}
  BY DEF Init, NoRow
<1>5. RowFollowsAttempts
  BY <1>4 DEF RowFollowsAttempts
<1>6. ShownTextIsStored
  BY <1>4 DEF Init, ShownTextIsStored, Reread, Absent
<1>7. PendingHasOwner
  <2>1. ASSUME NEW s \in Segments, NEW t \in Languages, NEW a \in DOMAIN attempts[s][t]
        PROVE  attempts[s][t][a] # "pending"
    BY <2>1 DEF Init
  <2> QED
    BY <2>1 DEF PendingHasOwner
<1> QED
  BY <1>2, <1>3, <1>5, <1>6, <1>7 DEF TranslationInv

LEMMA StepInv ==
    ASSUME TranslationInv, [Next]_vars
    PROVE  TranslationInv' /\ AttemptsGrow
  BY TablesStep, TypesStep, HandStep, StoredStep, ShownStep, OwnerStep DEF TranslationInv

(* For any number of finals, languages and retry threads, the rows follow    *)
(* the attempts, the screen follows the table and every pending attempt has  *)
(* an owner, through every order of commands, answers, errors and restarts.  *)
THEOREM TranslationInvariant == Spec => []TranslationInv
<1>1. Init => TranslationInv
  BY InitInv
<1>2. TranslationInv /\ [Next]_vars => TranslationInv'
  BY StepInv
<1> QED
  BY <1>1, <1>2, PTL DEF Spec

(* Neither the database nor the screen ever shows a text no attempt has      *)
(* produced.                                                                *)
THEOREM OnlyAnswersAreShown == Spec => []TextsAreAnswers
<1>1. TranslationInv => TextsAreAnswers
  BY DEF TranslationInv, TextsAreAnswers, TypeOK, Types
<1> QED
  BY <1>1, TranslationInvariant, PTL

(* No path through a full channel, a worker that left, a skipped language or *)
(* a retry forgets to finish an attempt it began.                            *)
THEOREM NoAttemptIsForgotten == Spec => []PendingHasOwner
<1>1. TranslationInv => PendingHasOwner
  BY DEF TranslationInv
<1> QED
  BY <1>1, TranslationInvariant, PTL

(* The history of attempts is only added to: a late answer, a retry or a     *)
(* restart never rewrites an attempt that was finished.                      *)
THEOREM AttemptsAreFinal == Spec => FinishedAttemptsStay
<1>1. TranslationInv /\ [Next]_vars =>
        [\A s \in Segments, t \in Languages : \A a \in DOMAIN attempts[s][t] :
            attempts[s][t][a] \in Finished =>
                a \in DOMAIN attempts'[s][t] /\ attempts'[s][t][a] = attempts[s][t][a]]_vars
  <2>1. ASSUME TranslationInv, [Next]_vars PROVE AttemptsGrow
    BY <2>1, StepInv
  <2>2. "pending" \notin Finished
    BY DEF Finished
  <2> QED
    BY <2>1, <2>2 DEF AttemptsGrow
<1> QED
  BY <1>1, TranslationInvariant, PTL DEF Spec, FinishedAttemptsStay

-----------------------------------------------------------------------------
(* The batches: the threads that claim the shared progress, and what the    *)
(* progress owes to the one that works.                                     *)
Working(r) == retrier[r].batch /\ retrier[r].pc \in {"next", "begin", "asking"}
Checked(r) == retrier[r].pc = "checked"
Remaining(r) == Cardinality(retrier[r].todo) + IF retrier[r].pc = "next" THEN 0 ELSE 1

ProgressRecord ==
    [status : {"idle", "running", "completed", "failed", "cancelled"}, total : Nat, progress : Nat,
     succeeded : Nat, failed : Nat, cancelled : Nat]

(* Only a batch looks for another one or walks through a list. *)
BatchShape ==
    /\ progress \in ProgressRecord
    /\ \A r \in Retriers : /\ retrier[r].pc \in {"checked", "next"} => retrier[r].batch
                           /\ retrier[r].pc \in {"idle", "open"} => ~retrier[r].batch
                           /\ retrier[r].pc = "checked" => retrier[r].index = 0

(* While no two batches passed each other's check, one at most claims the    *)
(* progress, and what it has counted and what it has left make the total.    *)
OneBatch ==
    /\ \A q, r \in Retriers : (Working(q) \/ Checked(q)) /\ (Working(r) \/ Checked(r)) => q = r
    /\ \A r \in Retriers : Checked(r) => progress.status # "running"
    /\ \A r \in Retriers : Working(r) =>
          /\ progress.status = "running" /\ retrier[r].index = progress.progress
          /\ progress.progress + Remaining(r) = progress.total

BatchInv == BatchShape /\ ProgressAddsUp /\ (~overlap => OneBatch)

(* One thread moves; the others keep what they claim. *)
Others(r) == \A q \in Retriers \ {r} : retrier'[q] = retrier[q]

(* A step of one thread that neither claims nor counts nor ends anything. *)
Quiet(r) ==
    /\ Others(r) /\ UNCHANGED <<progress, overlap>>
    /\ (Working(r)' <=> Working(r)) /\ ~Checked(r)'
    /\ Working(r) => retrier'[r].index = retrier[r].index /\ Remaining(r)' = Remaining(r)
    /\ retrier'[r].pc \in {"checked", "next"} => retrier'[r].batch
    /\ retrier'[r].pc \in {"idle", "open"} => ~retrier'[r].batch

LEMMA OthersKeep ==
    ASSUME NEW r \in Retriers, Others(r), NEW q \in Retriers, q # r
    PROVE  /\ retrier'[q] = retrier[q]
           /\ (Working(q)' <=> Working(q)) /\ (Checked(q)' <=> Checked(q))
           /\ Remaining(q)' = Remaining(q)
<1>1. retrier'[q] = retrier[q]
  BY DEF Others
<1> QED
  BY <1>1 DEF Working, Checked, Remaining

LEMMA QuietKeeps ==
    ASSUME BatchInv, NEW r \in Retriers, Quiet(r)
    PROVE  BatchInv'
<1>1. /\ progress' = progress /\ overlap' = overlap /\ Others(r)
      /\ (Working(r)' <=> Working(r)) /\ ~Checked(r)'
      /\ Working(r) => retrier'[r].index = retrier[r].index /\ Remaining(r)' = Remaining(r)
  BY DEF Quiet
<1>2. \A q \in Retriers : /\ Working(q)' <=> Working(q)
                          /\ Checked(q)' => Checked(q)
                          /\ Working(q) => retrier'[q].index = retrier[q].index /\ Remaining(q)' = Remaining(q)
  BY <1>1, OthersKeep
<1>3. BatchShape'
  BY <1>1, OthersKeep DEF BatchShape, BatchInv, Quiet, Checked
<1>4. ProgressAddsUp'
  <2>1. progress'.status = "running" => \E q \in Retriers : Working(q)'
    BY <1>1, <1>2 DEF BatchInv, ProgressAddsUp, Working
  <2> QED
    BY <1>1, <2>1 DEF BatchInv, ProgressAddsUp, Working
<1>5. ~overlap' => OneBatch'
  <2> SUFFICES ASSUME ~overlap' PROVE OneBatch'
    OBVIOUS
  <2>1. OneBatch
    BY <1>1 DEF BatchInv
  <2>2. \A q, p \in Retriers : (Working(q)' \/ Checked(q)') /\ (Working(p)' \/ Checked(p)') => q = p
    BY <1>2, <2>1 DEF OneBatch
  <2>3. \A q \in Retriers : Checked(q)' => progress'.status # "running"
    BY <1>1, <1>2, <2>1 DEF OneBatch
  <2>4. \A q \in Retriers : Working(q)' =>
          /\ progress'.status = "running" /\ retrier'[q].index = progress'.progress
          /\ progress'.progress + Remaining(q)' = progress'.total
    BY <1>1, <1>2, <2>1 DEF OneBatch
  <2> QED
    BY <2>2, <2>3, <2>4 DEF OneBatch
<1> QED
  BY <1>3, <1>4, <1>5 DEF BatchInv

(* Whoever works on a list has a finite one. *)
LEMMA TodoFinite ==
    ASSUME Types, NEW r \in Retriers
    PROVE  /\ IsFiniteSet(retrier[r].todo) /\ Cardinality(retrier[r].todo) \in Nat
           /\ Remaining(r) \in Nat
<1>1. retrier[r].todo \in SUBSET Segments /\ IsFiniteSet(Segments)
  BY TranslationAssumption DEF Types
<1>2. IsFiniteSet(retrier[r].todo)
  BY <1>1, FS_Subset
<1>3. Cardinality(retrier[r].todo) \in Nat
  BY <1>2, FS_CardinalityType
<1> QED
  BY <1>2, <1>3 DEF Remaining

LEMMA CheckKeeps ==
    ASSUME Types, BatchInv, NEW r \in Retriers, NEW t \in Languages, CheckBatch(r, t)
    PROVE  BatchInv'
<1>1. /\ progress' = progress /\ progress.status # "running" /\ retrier[r].pc = "idle"
      /\ retrier' = [retrier EXCEPT ![r] = [Resting EXCEPT !.pc = "checked", !.batch = TRUE, !.target = t]]
      /\ overlap' = (overlap \/ \E q \in Retriers : Checked(q))
  BY DEF CheckBatch, NoBatchRunning, Checked
<1>2. retrier'[r].pc = "checked" /\ retrier'[r].batch /\ retrier'[r].index = 0 /\ Others(r)
  BY <1>1 DEF Types, Resting, Others
<1>3. BatchShape'
  BY <1>1, <1>2, OthersKeep DEF BatchInv, BatchShape
<1>4. ProgressAddsUp'
  BY <1>1 DEF BatchInv, ProgressAddsUp
<1>5. ASSUME ~overlap' PROVE OneBatch'
  <2>1. OneBatch /\ ~overlap
    BY <1>1, <1>5 DEF BatchInv
  <2>2. \A q \in Retriers : ~Working(q) /\ ~Checked(q)
    BY <1>1, <1>5, <2>1 DEF OneBatch
  <2>3. \A q \in Retriers : ~Working(q)' /\ (Checked(q)' => q = r)
    BY <1>2, <2>2, OthersKeep DEF Working
  <2> QED
    BY <1>1, <2>3 DEF OneBatch
<1> QED
  BY <1>3, <1>4, <1>5 DEF BatchInv

LEMMA StartKeeps ==
    ASSUME Types, BatchInv, NEW r \in Retriers, StartBatch(r)
    PROVE  BatchInv'
<1> DEFINE plan == Plan(retrier[r].target)
<1>1. retrier[r].pc = "checked" /\ retrier[r].batch /\ ~Working(r) /\ Checked(r) /\ overlap' = overlap
  BY DEF StartBatch, BatchInv, BatchShape, Working, Checked
<1>2. CASE plan = {}
  <2>1. retrier' = [retrier EXCEPT ![r] = Resting] /\ progress' = progress
    BY <1>2 DEF StartBatch
  <2>2. retrier'[r].pc = "idle" /\ ~retrier'[r].batch /\ Others(r)
    BY <2>1 DEF Types, Resting, Others
  <2>3. Quiet(r)
    BY <1>1, <2>1, <2>2 DEF Quiet, Working, Checked
  <2> QED
    BY <2>3, QuietKeeps
<1>3. CASE plan # {}
  <2>1. /\ retrier' = [retrier EXCEPT ![r].pc = "next", ![r].todo = plan]
        /\ progress' = [NoProgress EXCEPT !.status = "running", !.total = Cardinality(plan)]
    BY <1>3 DEF StartBatch
  <2>2. /\ retrier'[r].pc = "next" /\ retrier'[r].batch /\ retrier'[r].todo = plan
        /\ retrier'[r].index = retrier[r].index /\ Others(r)
    BY <1>1, <2>1 DEF Types, Others
  <2>3. Cardinality(plan) \in Nat
    <3>1. plan \in SUBSET Segments
      BY DEF Plan, Types
    <3> QED
      BY <3>1, FS_Subset, FS_CardinalityType, TranslationAssumption
  <2> HIDE DEF plan
  <2>4. /\ progress'.status = "running" /\ progress'.total = Cardinality(plan)
        /\ progress'.progress = 0 /\ progress'.succeeded = 0 /\ progress'.failed = 0
        /\ progress' \in ProgressRecord
    BY <2>1, <2>3 DEF NoProgress, ProgressRecord
  <2>5. BatchShape'
    BY <2>2, <2>4, OthersKeep DEF BatchInv, BatchShape
  <2>6. Working(r)' /\ Remaining(r)' = Cardinality(plan)
    BY <2>2, <2>3 DEF Working, Remaining
  <2>7. ProgressAddsUp'
    BY <2>2, <2>3, <2>4 DEF ProgressAddsUp
  <2>8. ASSUME ~overlap' PROVE OneBatch'
    <3>1. \A q \in Retriers : q # r => ~Working(q)' /\ ~Checked(q)'
      BY <1>1, <2>2, <2>8, OthersKeep DEF BatchInv, OneBatch
    <3>2. ~Checked(r)'
      BY <2>2 DEF Checked
    <3>3. retrier'[r].index = 0
      BY <1>1, <2>2 DEF BatchInv, BatchShape
    <3> QED
      BY <2>3, <2>4, <2>6, <3>1, <3>2, <3>3 DEF OneBatch
  <2> QED
    BY <2>5, <2>7, <2>8 DEF BatchInv
<1> QED
  BY <1>2, <1>3

(* A step that ends the batch of `r` with the status `st`. *)
LEMMA EndKeeps ==
    ASSUME Types, BatchInv, NEW r \in Retriers, Working(r),
           retrier' = [retrier EXCEPT ![r] = Resting], overlap' = overlap,
           progress' \in ProgressRecord, progress'.status # "running",
           ~overlap => /\ progress'.progress = progress'.succeeded + progress'.failed
                       /\ progress'.progress <= progress'.total
                       /\ progress'.status \in {"completed", "failed"} => progress'.progress = progress'.total
                       /\ progress'.status = "cancelled" =>
                              progress'.progress + progress'.cancelled = progress'.total
    PROVE  BatchInv'
<1>1. retrier'[r].pc = "idle" /\ ~retrier'[r].batch /\ Others(r)
  BY DEF Types, Resting, Others
<1>2. BatchShape'
  BY <1>1, OthersKeep DEF BatchInv, BatchShape
<1>3. ProgressAddsUp'
  BY DEF ProgressAddsUp
<1>4. ASSUME ~overlap' PROVE OneBatch'
  <2>1. \A q \in Retriers : q # r => ~Working(q) /\ ~Checked(q)
    BY <1>4 DEF BatchInv, OneBatch
  <2>2. \A q \in Retriers : ~Working(q)' /\ ~Checked(q)'
    BY <1>1, <2>1, OthersKeep DEF Working, Checked
  <2> QED
    BY <2>2 DEF OneBatch
<1> QED
  BY <1>2, <1>3, <1>4 DEF BatchInv

(* What the numbers of a working batch owe to the total. *)
LEMMA Account ==
    ASSUME Types, BatchInv, ~overlap, NEW r \in Retriers, Working(r)
    PROVE  /\ progress.progress = progress.succeeded + progress.failed
           /\ progress.progress + Remaining(r) = progress.total
           /\ retrier[r].index = progress.progress /\ progress.status = "running"
           /\ Remaining(r) \in Nat
           /\ \A q \in Retriers : q # r => ~Working(q) /\ ~Checked(q)
  BY TodoFinite DEF BatchInv, OneBatch, ProgressAddsUp

LEMMA CancelKeeps ==
    ASSUME Types, BatchInv, NEW r \in Retriers, BatchCancelled(r)
    PROVE  BatchInv'
<1> DEFINE c == IF progress.total > progress.progress
                THEN progress.total - progress.progress ELSE 0
<1>1. /\ retrier' = [retrier EXCEPT ![r] = Resting] /\ overlap' = overlap /\ Working(r)
      /\ progress' = [progress EXCEPT !.status = "cancelled", !.cancelled = c]
  BY DEF BatchCancelled, BatchInv, BatchShape, Working
<1>2. c \in Nat /\ progress \in ProgressRecord
  BY DEF BatchInv, BatchShape, ProgressRecord
<1>3. ~overlap => progress.progress + c = progress.total
  BY <1>1, <1>2, Account DEF ProgressRecord
<1> HIDE DEF c
<1>4. /\ progress' \in ProgressRecord /\ progress'.status = "cancelled" /\ progress'.cancelled = c
      /\ progress'.total = progress.total /\ progress'.progress = progress.progress
      /\ progress'.succeeded = progress.succeeded /\ progress'.failed = progress.failed
  BY <1>1, <1>2 DEF ProgressRecord
<1>5. ~overlap => progress.progress = progress.succeeded + progress.failed /\ progress.progress <= progress.total
  BY DEF BatchInv, ProgressAddsUp
<1> QED
  BY <1>1, <1>3, <1>4, <1>5, EndKeeps

LEMMA DoneKeeps ==
    ASSUME Types, BatchInv, NEW r \in Retriers, BatchDone(r)
    PROVE  BatchInv'
<1> DEFINE st == IF progress.succeeded = 0 /\ progress.failed > 0 THEN "failed" ELSE "completed"
<1>1. /\ retrier' = [retrier EXCEPT ![r] = Resting] /\ overlap' = overlap /\ Working(r)
      /\ progress' = [progress EXCEPT !.status = st] /\ Remaining(r) = 0
  BY FS_EmptySet DEF BatchDone, BatchInv, BatchShape, Working, Remaining
<1>2. st \in {"failed", "completed"} /\ progress \in ProgressRecord
  BY DEF BatchInv, BatchShape
<1> HIDE DEF st
<1>3. /\ progress' \in ProgressRecord /\ progress'.status = st
      /\ progress'.total = progress.total /\ progress'.progress = progress.progress
      /\ progress'.succeeded = progress.succeeded /\ progress'.failed = progress.failed
  BY <1>1, <1>2 DEF ProgressRecord
<1>4. ~overlap => progress.progress = progress.succeeded + progress.failed /\ progress.progress = progress.total
  BY <1>1, <1>2, Account DEF ProgressRecord
<1>5. progress'.progress \in Nat /\ progress'.status \in {"failed", "completed"}
  BY <1>2, <1>3 DEF ProgressRecord
<1>6. ~overlap => /\ progress'.progress = progress'.succeeded + progress'.failed
                  /\ progress'.progress <= progress'.total
                  /\ progress'.progress = progress'.total
  BY <1>3, <1>4, <1>5
<1> QED
  BY <1>1, <1>3, <1>5, <1>6, EndKeeps

(* An item of a batch has its result. *)
LEMMA CountKeeps ==
    ASSUME Types, BatchInv, NEW r \in Retriers, NEW ok \in BOOLEAN,
           retrier[r].pc \in {"begin", "asking"}, Counted(r, ok), overlap' = overlap
    PROVE  BatchInv'
<1>1. CASE ~retrier[r].batch
  <2>1. /\ progress' = progress /\ Others(r)
        /\ retrier'[r].pc \in {"open", "idle"} /\ ~retrier'[r].batch
    BY <1>1, SMTT(30) DEF Counted, Types, Resting, Others
  <2>2. Quiet(r)
    BY <1>1, <2>1 DEF Quiet, Working, Checked
  <2> QED
    BY <2>2, QuietKeeps
<1>2. CASE retrier[r].batch
  <2>1. /\ retrier' = [retrier EXCEPT ![r].pc = "next", ![r].index = @ + 1]
        /\ progress' = [progress EXCEPT !.progress = retrier[r].index + 1,
                                        !.succeeded = IF ok THEN @ + 1 ELSE @,
                                        !.failed = IF ok THEN @ ELSE @ + 1]
    BY <1>2 DEF Counted
  <2>2. /\ retrier'[r].pc = "next" /\ retrier'[r].batch /\ retrier'[r].todo = retrier[r].todo
        /\ retrier'[r].index = retrier[r].index + 1 /\ Others(r) /\ retrier[r].index \in Nat
    BY <1>2, <2>1 DEF Types, Others
  <2>3. Working(r) /\ Working(r)' /\ ~Checked(r)'
    BY <1>2, <2>2 DEF Working, Checked
  <2>4. Remaining(r) = Remaining(r)' + 1 /\ Remaining(r)' \in Nat
    BY <2>2, TodoFinite DEF Remaining
  <2>5. progress \in ProgressRecord
    BY DEF BatchInv, BatchShape
  <2>6. /\ progress' \in ProgressRecord /\ progress'.status = progress.status
        /\ progress'.total = progress.total /\ progress'.cancelled = progress.cancelled
        /\ progress'.progress = retrier[r].index + 1
        /\ progress'.succeeded + progress'.failed = progress.succeeded + progress.failed + 1
    <3> DEFINE n == retrier[r].index + 1
               a == IF ok THEN progress.succeeded + 1 ELSE progress.succeeded
               b == IF ok THEN progress.failed ELSE progress.failed + 1
    <3>1. progress' = [progress EXCEPT !.progress = n, !.succeeded = a, !.failed = b]
      BY <2>1
    <3>2. n \in Nat /\ a \in Nat /\ b \in Nat /\ a + b = progress.succeeded + progress.failed + 1
      BY <2>2, <2>5 DEF ProgressRecord
    <3> HIDE DEF n, a, b
    <3>3. /\ progress' \in ProgressRecord /\ progress'.status = progress.status
          /\ progress'.total = progress.total /\ progress'.cancelled = progress.cancelled
          /\ progress'.progress = n /\ progress'.succeeded = a /\ progress'.failed = b
      BY <2>5, <3>1, <3>2 DEF ProgressRecord
    <3> QED
      BY <3>2, <3>3 DEF n
  <2>7. BatchShape'
    BY <2>2, <2>6, OthersKeep DEF BatchInv, BatchShape
  <2>8. ASSUME ~overlap' PROVE OneBatch' /\ progress'.progress = progress'.succeeded + progress'.failed
                               /\ progress'.progress <= progress'.total /\ progress'.status = "running"
    <3>1. /\ progress.progress = progress.succeeded + progress.failed
          /\ progress.progress + Remaining(r) = progress.total
          /\ retrier[r].index = progress.progress /\ progress.status = "running"
          /\ \A q \in Retriers : q # r => ~Working(q) /\ ~Checked(q)
      BY <2>3, <2>8, Account
    <3>2. \A q \in Retriers : q # r => ~Working(q)' /\ ~Checked(q)'
      BY <2>2, <3>1, OthersKeep
    <3>3. progress'.progress + Remaining(r)' = progress'.total /\ progress'.progress <= progress'.total
      BY <2>2, <2>4, <2>5, <2>6, <3>1 DEF ProgressRecord
    <3>4. OneBatch'
      BY <2>2, <2>3, <2>6, <3>1, <3>2, <3>3 DEF OneBatch
    <3> QED
      BY <2>6, <3>1, <3>3, <3>4
  <2>9. ProgressAddsUp'
    BY <2>2, <2>8 DEF ProgressAddsUp
  <2> QED
    BY <2>7, <2>8, <2>9 DEF BatchInv
<1> QED
  BY <1>1, <1>2

LEMMA BatchStep ==
    ASSUME Types, BatchInv, [Next]_vars
    PROVE  BatchInv'
<1>1. ASSUME NEW r \in Retriers, Command(r) PROVE BatchInv'
  <2>1. ASSUME NEW s \in Segments, NEW t \in Languages, RetrySegment(r, s, t) PROVE BatchInv'
    <3>1. /\ retrier[r].pc = "idle" /\ UNCHANGED <<progress, overlap>> /\ Others(r)
          /\ retrier'[r].pc = "begin" /\ ~retrier'[r].batch
      BY <2>1 DEF RetrySegment, Types, Resting, Others
    <3>2. Quiet(r)
      BY <3>1 DEF Quiet, Working, Checked
    <3> QED
      BY <3>2, QuietKeeps
  <2> QED
    BY <1>1, <2>1, CheckKeeps DEF Command
<1>2. ASSUME NEW r \in Retriers, RetryStep(r) PROVE BatchInv'
  <2>1. CASE NextItem(r)
    <3>1. PICK s \in retrier[r].todo :
            retrier' = [retrier EXCEPT ![r].pc = "begin", ![r].seg = s, ![r].todo = @ \ {s}, ![r].try = 1]
      BY <2>1, ZenonT(30) DEF NextItem
    <3>2. /\ retrier[r].pc = "next" /\ UNCHANGED <<progress, overlap>> /\ Others(r)
          /\ retrier'[r].pc = "begin" /\ retrier'[r].batch = retrier[r].batch
          /\ retrier'[r].index = retrier[r].index /\ retrier'[r].todo = retrier[r].todo \ {s}
      BY <2>1, <3>1 DEF NextItem, Types, Others
    <3>3. Cardinality(retrier[r].todo \ {s}) = Cardinality(retrier[r].todo) - 1
      BY TodoFinite, FS_RemoveElement
    <3>4. Remaining(r)' = Remaining(r)
      BY <3>2, <3>3, TodoFinite DEF Remaining
    <3>5. Quiet(r)
      BY <3>2, <3>4 DEF Quiet, Working, Checked
    <3> QED
      BY <3>5, QuietKeeps
  <2>2. CASE BeginRetry(r)
    <3>1. /\ retrier[r].pc = "begin" /\ UNCHANGED <<progress, overlap>> /\ Others(r)
          /\ retrier'[r].pc = "asking" /\ retrier'[r].batch = retrier[r].batch
          /\ retrier'[r].index = retrier[r].index /\ retrier'[r].todo = retrier[r].todo
      BY <2>2 DEF BeginRetry, Types, Others
    <3>2. Quiet(r)
      BY <3>1 DEF Quiet, Working, Checked, Remaining
    <3> QED
      BY <3>2, QuietKeeps
  <2>3. CASE BeginRetryRefused(r)
    BY <2>3, CountKeeps DEF BeginRetryRefused
  <2>4. ASSUME NEW o \in Outcomes, AnswerRetry(r, o) PROVE BatchInv'
    <3>1. retrier[r].pc = "asking" /\ overlap' = overlap
      BY <2>4 DEF AnswerRetry
    <3>2. CASE /\ retrier' = [retrier EXCEPT ![r].pc = "begin", ![r].try = @ + 1]
               /\ UNCHANGED progress
      <4>1. /\ Others(r) /\ retrier'[r].pc = "begin" /\ retrier'[r].batch = retrier[r].batch
            /\ retrier'[r].index = retrier[r].index /\ retrier'[r].todo = retrier[r].todo
        BY <3>2 DEF Types, Others
      <4>2. Quiet(r)
        BY <3>1, <3>2, <4>1 DEF Quiet, Working, Checked, Remaining
      <4> QED
        BY <4>2, QuietKeeps
    <3>3. ASSUME NEW p, Counted(r, p \in {"completed", "skipped"}) PROVE BatchInv'
      <4>1. (p \in {"completed", "skipped"}) \in BOOLEAN
        OBVIOUS
      <4> QED
        BY <3>1, <3>3, <4>1, CountKeeps
    <3> QED
      BY <2>4, <3>2, <3>3 DEF AnswerRetry
  <2>5. CASE OpenAfterRetry(r)
    <3>1. /\ retrier[r].pc = "open" /\ UNCHANGED <<progress, overlap>> /\ Others(r)
          /\ retrier'[r].pc = "idle" /\ ~retrier'[r].batch
      BY <2>5 DEF OpenAfterRetry, Types, Resting, Others
    <3>2. Quiet(r)
      BY <3>1 DEF Quiet, Working, Checked
    <3> QED
      BY <3>2, QuietKeeps
  <2> QED
    BY <1>2, <2>1, <2>2, <2>3, <2>4, <2>5, StartKeeps, CancelKeeps, DoneKeeps DEF RetryStep
<1>3. CASE Restart
  <2>1. /\ retrier' = [r \in Retriers |-> Resting] /\ progress' = NoProgress
    BY <1>3 DEF Restart
  <2>2. \A r \in Retriers : retrier'[r].pc = "idle" /\ ~retrier'[r].batch
    BY <2>1 DEF Resting
  <2>3. progress' \in ProgressRecord /\ progress'.status = "idle" /\ progress'.progress = 0
        /\ progress'.succeeded = 0 /\ progress'.failed = 0 /\ progress'.total = 0
    BY <2>1 DEF NoProgress, ProgressRecord
  <2> QED
    BY <2>2, <2>3 DEF BatchInv, BatchShape, ProgressAddsUp, OneBatch, Working, Checked
<1>4. CASE UNCHANGED <<retrier, progress, overlap>>
  BY <1>4 DEF BatchInv, BatchShape, ProgressAddsUp, OneBatch, Working, Checked, Remaining
<1>5. CASE Recognition \/ WorkerStep \/ Shutdown \/ CancelBatch \/ UNCHANGED vars
  <2>1. UNCHANGED <<retrier, progress, overlap>>
    <3>1. CASE Recognition
      BY <3>1 DEF Recognition, CommitFinal, DecorateRefused, Decorate, SkipSameLanguage, Enqueue, EnqueueRefused,
                  Show, batches
    <3>2. CASE WorkerStep
      <4>1. batches' = batches
        BY <3>2, Zenon DEF WorkerStep, Take, Answer, Publish, DecideToLeave, Leave
      <4> QED
        BY <4>1 DEF batches
    <3>3. CASE Shutdown \/ CancelBatch \/ UNCHANGED vars
      BY <3>3 DEF Shutdown, CancelBatch, batches, vars
    <3> QED
      BY <1>5, <3>1, <3>2, <3>3
  <2> QED
    BY <1>4, <2>1
<1> QED
  BY <1>1, <1>2, <1>3, <1>5 DEF Next

(* A batch that is announced as running has a thread that works on it, and   *)
(* what it counted, what it has left and what was cancelled make the total, *)
(* for any list of finals, unless two batches passed each other's check.     *)
THEOREM ProgressAlwaysAddsUp == Spec => []ProgressAddsUp
<1>1. Init => BatchInv
  <2> SUFFICES ASSUME Init PROVE BatchInv
    OBVIOUS
  <2>1. \A r \in Retriers : retrier[r].pc = "idle" /\ ~retrier[r].batch
    BY DEF Init, Resting
  <2>2. progress \in ProgressRecord /\ progress.status = "idle" /\ progress.progress = 0
        /\ progress.succeeded = 0 /\ progress.failed = 0 /\ progress.total = 0
    BY DEF Init, NoProgress, ProgressRecord
  <2> QED
    BY <2>1, <2>2 DEF BatchInv, BatchShape, ProgressAddsUp, OneBatch, Working, Checked
<1>2. TranslationInv /\ BatchInv /\ [Next]_vars => BatchInv'
  BY BatchStep DEF TranslationInv
<1>3. BatchInv => ProgressAddsUp
  BY DEF BatchInv
<1> QED
  BY <1>1, <1>2, <1>3, TranslationInvariant, PTL DEF Spec

=============================================================================
