-------------------------- MODULE TranslationQueue --------------------------
(***************************************************************************)
(* The translation of one meeting's finals (mvp/translation.rs, the        *)
(* translation requests of mvp/storage.rs and the retries of               *)
(* mvp/service.rs).  Five parties work on the same rows:                   *)
(*                                                                         *)
(*   - the recognition thread commits a final, begins its translation,     *)
(*     hands it to the translation worker and then shows the final;        *)
(*   - the translation worker asks the provider, stores the outcome and    *)
(*     publishes it in the live snapshot, if the final is in it;           *)
(*   - threads of commands retry one segment, or start a batch that        *)
(*     retries all that failed and reports through a shared progress;      *)
(*   - a user cancels the batch;                                           *)
(*   - the process ends and starts again.                                  *)
(*                                                                         *)
(* A text is named by the attempt that brought it.  A request to storage   *)
(* is one step, as the writer thread runs one request at a time.           *)
(***************************************************************************)
EXTENDS Naturals, Sequences, FiniteSets

CONSTANTS
    Segments,      \* the meeting's finals, numbered in the order of their ids
    Languages,     \* target languages a user may ask for
    Source,        \* the language that is spoken
    Retriers,      \* threads of retry commands
    QueueDepth,    \* TRANSLATION_QUEUE_DEPTH, 32 in the code
    MaxTries,      \* requests of one retry, 3 in the code
    MaxLiveCalls,  \* bound on the retry commands while the meeting is recorded
    MaxCalls,      \* bound on the retry commands in all
    MaxErrors,     \* bound on the errors of the provider and of storage
    MaxCrashes     \* bound on the restarts of the process

ASSUME TranslationAssumption ==
    /\ Segments \subseteq Nat /\ IsFiniteSet(Segments)
    /\ Source \in Languages
    /\ QueueDepth \in Nat \ {0}
    /\ MaxTries \in Nat \ {0}

VARIABLES
    liveTarget, \* the target the meeting was started with
    recording,  \* the meeting is being recorded, and not one of an earlier process
    durable,    \* finals that are committed
    row,        \* mvp_translations: what a reader of the meeting sees
    attempts,   \* mvp_translation_attempts: for each target a sequence of statuses
    coord,      \* the recognition thread inside process_inference_task
    queue,      \* the channel to the translation worker
    worker,     \* the translation worker
    shutdown,   \* the worker was told to end
    view,       \* the finals of the live snapshot
    retrier,    \* the retry commands and the batches they started
    progress,   \* retry_progress, shared by all batches
    cancel,     \* retry_cancel, shared by all batches
    calls, crashes, errors,
    orphans,    \* history: pending attempts whose outcome storage refused, or whose job was dropped
    overlap     \* history: two batches were started past each other's check

stored  == <<durable, row, attempts, errors>>
shown   == <<recording, view, shutdown>>
batches == <<retrier, progress, cancel, calls, overlap>>
vars == <<liveTarget, stored, shown, batches, coord, queue, worker, crashes, orphans>>

-----------------------------------------------------------------------------
(* Values. *)

Finished == {"completed", "skipped", "failed", "retryable"}
AttemptStatus == {"pending"} \cup Finished
RowStatus == {"none", "pending", "completed", "skipped", "failed"}
ViewStatus == RowStatus \cup {"absent"}

NoRow == [status |-> "none", target |-> liveTarget, text |-> 0]
Absent == [status |-> "absent", text |-> 0]
NoJob == [seg |-> 0, target |-> liveTarget, attempt |-> 0]
Job(s, t, a) == [seg |-> s, target |-> t, attempt |-> a]
Last(s, t) == Len(attempts[s][t])

(* An outcome of translate_text.  An error is worth a retry or not; some     *)
(* storage does not take: a text with a carriage return, or any outcome      *)
(* while its channel is full.                                               *)
Outcomes == {"completed", "retryable", "failed", "unstorable"}

(* The status of a row or a shown final does not tell the errors apart. *)
Plain(outcome) == IF outcome \in {"retryable", "unstorable"} THEN "failed" ELSE outcome

(* `view` after the meeting has been read back from storage. *)
Reread ==
    [s \in Segments |-> IF s \in durable THEN [status |-> row[s].status, text |-> row[s].text]
                                         ELSE Absent]

-----------------------------------------------------------------------------
(* Requests to storage. *)

Err == errors < MaxErrors /\ errors' = errors + 1
Charge(outcome) == IF outcome \in {"completed", "skipped"} THEN UNCHANGED errors ELSE Err

(* begin_translation: a new attempt, and the row starts again. *)
Begin(s, t) ==
    /\ UNCHANGED errors
    /\ attempts' = [attempts EXCEPT ![s][t] = Append(@, "pending")]
    /\ row' = [row EXCEPT ![s] = [status |-> "pending", target |-> t, text |-> 0]]

(* Fault: the row is updated whatever its target is. *)
FinishAnyRow(j, outcome) ==
    [row EXCEPT ![j.seg].status = Plain(outcome),
                ![j.seg].text = IF outcome = "completed" THEN j.attempt ELSE 0]

(* finish_translation: the attempt must be pending; the row takes the       *)
(* outcome of any attempt at its target.                                    *)
FinishRow(j, outcome) ==
    IF row[j.seg].target = j.target
    THEN [row EXCEPT ![j.seg].status = Plain(outcome),
                     ![j.seg].text = IF outcome = "completed" THEN j.attempt ELSE 0]
    ELSE row

Finish(j, outcome) ==
    IF outcome = "unstorable"
    THEN /\ orphans' = orphans \cup {j}
         /\ UNCHANGED <<attempts, row>>
    ELSE /\ attempts[j.seg][j.target][j.attempt] = "pending"
         /\ attempts' = [attempts EXCEPT ![j.seg][j.target][j.attempt] = outcome]
         /\ row' = FinishRow(j, outcome)
         /\ UNCHANGED orphans

(* Fault: recovery forgets WHERE status='pending'. *)
InterruptedAny(status) == "retryable"

(* recover_interrupted at the start of the process: what is pending failed. *)
Interrupted(status) == IF status = "pending" THEN "retryable" ELSE status

InterruptedRow(r) == IF r.status = "pending" THEN [r EXCEPT !.status = "failed"] ELSE r

-----------------------------------------------------------------------------
(* The recognition thread: commit_final, decorate_and_submit, publish. *)

Idle == [pc |-> "idle", job |-> NoJob, status |-> "none"]

CommitFinal(s) ==
    /\ coord.pc = "idle" /\ recording
    /\ s \notin durable /\ \A x \in Segments : x < s => x \in durable
    /\ durable' = durable \cup {s}
    /\ coord' = [pc |-> "begin", job |-> [NoJob EXCEPT !.seg = s], status |-> "none"]
    /\ UNCHANGED <<row, attempts, errors, shown, batches, queue, worker, crashes, orphans>>

(* The writer may be busy or gone: the final is shown with a failed          *)
(* translation that no row tells of.                                        *)
DecorateRefused ==
    /\ coord.pc = "begin" /\ Err
    /\ coord' = [coord EXCEPT !.pc = "show", !.status = "failed"]
    /\ UNCHANGED <<durable, row, attempts, shown, batches, queue, worker, crashes, orphans>>

Decorate ==
    /\ coord.pc = "begin"
    /\ Begin(coord.job.seg, liveTarget)
    /\ coord' = [pc |-> "send", status |-> "pending",
                 job |-> Job(coord.job.seg, liveTarget, Last(coord.job.seg, liveTarget) + 1)]
    /\ UNCHANGED <<durable, shown, batches, queue, worker, crashes, orphans>>

SkipSameLanguage ==
    /\ coord.pc = "send" /\ Source = liveTarget
    /\ \E o \in {"skipped", "unstorable"} :
          /\ Charge(o) /\ Finish(coord.job, o)
          /\ coord' = [coord EXCEPT !.pc = "show", !.status = Plain(o)]
    /\ UNCHANGED <<durable, shown, batches, queue, worker, crashes>>

Enqueue ==
    /\ coord.pc = "send" /\ Source # liveTarget
    /\ worker.pc # "stopped" /\ Len(queue) < QueueDepth
    /\ queue' = Append(queue, coord.job)
    /\ coord' = [coord EXCEPT !.pc = "show"]
    /\ UNCHANGED <<stored, shown, batches, worker, crashes, orphans>>

(* Fault: a job that cannot be sent is forgotten. *)
EnqueueForgotten ==
    /\ coord.pc = "send" /\ Source # liveTarget
    /\ worker.pc = "stopped" \/ Len(queue) = QueueDepth
    /\ coord' = [coord EXCEPT !.pc = "show", !.status = "failed"]
    /\ UNCHANGED <<stored, shown, batches, queue, worker, crashes, orphans>>

(* Queue full, or its receiver gone: the attempt is failed at once, if       *)
(* storage takes the outcome.                                               *)
EnqueueRefused ==
    /\ coord.pc = "send" /\ Source # liveTarget
    /\ worker.pc = "stopped" \/ Len(queue) = QueueDepth
    /\ \/ UNCHANGED errors /\ Finish(coord.job, "failed")
       \/ Err /\ Finish(coord.job, "unstorable")
    /\ coord' = [coord EXCEPT !.pc = "show", !.status = "failed"]
    /\ UNCHANGED <<durable, shown, batches, queue, worker, crashes>>

(* The final enters the snapshot as it was decorated, unless the meeting    *)
(* has been read from storage meanwhile.                                    *)
Show ==
    /\ coord.pc = "show"
    /\ view' = IF view[coord.job.seg] = Absent
               THEN [view EXCEPT ![coord.job.seg] = [status |-> coord.status, text |-> 0]] ELSE view
    /\ coord' = Idle
    /\ UNCHANGED <<stored, recording, shutdown, batches, queue, worker, crashes, orphans>>

-----------------------------------------------------------------------------
(* The translation worker: translation_loop, process_translation_job. *)

Waiting == [pc |-> "waiting", job |-> NoJob, outcome |-> "none"]

Take ==
    /\ worker.pc = "waiting" /\ queue # <<>>
    /\ worker' = [Waiting EXCEPT !.pc = "asking", !.job = Head(queue)]
    /\ queue' = Tail(queue)
    /\ UNCHANGED <<stored, shown, batches, coord, crashes, orphans>>

Answer(outcome) ==
    /\ worker.pc = "asking"
    /\ Charge(outcome) /\ Finish(worker.job, outcome)
    /\ worker' = [worker EXCEPT !.pc = "publishing", !.outcome = outcome]
    /\ UNCHANGED <<durable, shown, batches, coord, queue, crashes>>

(* Only what storage took is published as a text. *)
Published(j, outcome) ==
    [status |-> Plain(outcome), text |-> IF outcome = "completed" THEN j.attempt ELSE 0]

Publish ==
    /\ worker.pc = "publishing"
    /\ view' = IF view[worker.job.seg] = Absent THEN view
               ELSE [view EXCEPT ![worker.job.seg] = Published(worker.job, worker.outcome)]
    /\ worker' = Waiting
    /\ UNCHANGED <<stored, recording, shutdown, batches, coord, queue, crashes, orphans>>

Shutdown ==
    /\ ~shutdown
    /\ shutdown' = TRUE
    /\ UNCHANGED <<stored, recording, view, batches, coord, queue, worker, crashes, orphans>>

(* `pending` is zero exactly when nothing is queued or in work. *)
DecideToLeave ==
    /\ worker.pc = "waiting" /\ queue = <<>> /\ shutdown
    /\ worker' = [Waiting EXCEPT !.pc = "leaving"]
    /\ UNCHANGED <<stored, shown, batches, coord, queue, crashes, orphans>>

(* The receiver is dropped with the jobs that came after the decision. *)
Leave ==
    /\ worker.pc = "leaving"
    /\ worker' = [Waiting EXCEPT !.pc = "stopped"]
    /\ orphans' = orphans \cup {queue[i] : i \in DOMAIN queue}
    /\ queue' = <<>>
    /\ UNCHANGED <<stored, shown, batches, coord, crashes>>

-----------------------------------------------------------------------------
(* Retries: retry_translation_segment, retry_failed_translations and the    *)
(* thread it starts; retry_one_translation is common to both.               *)

Resting == [pc |-> "idle", batch |-> FALSE, todo |-> {}, seg |-> 0, target |-> liveTarget,
            attempt |-> 0, try |-> 0, index |-> 0]

NoProgress == [status |-> "idle", total |-> 0, progress |-> 0,
               succeeded |-> 0, failed |-> 0, cancelled |-> 0]

MayCall == calls < IF recording THEN MaxLiveCalls ELSE MaxCalls

RetrySegment(r, s, t) ==
    /\ retrier[r].pc = "idle" /\ MayCall
    /\ s \in durable
    /\ retrier' = [retrier EXCEPT ![r] =
                     [Resting EXCEPT !.pc = "begin", !.seg = s, !.target = t, !.try = 1]]
    /\ calls' = calls + 1
    /\ UNCHANGED <<stored, shown, progress, cancel, overlap, coord, queue, worker, crashes, orphans>>

(* Fault: nobody looks. *)
NobodyLooks == TRUE

(* The first thing a batch does is to look whether another one is running;  *)
(* it releases the lock before it announces itself.                         *)
NoBatchRunning == progress.status # "running"

CheckBatch(r, t) ==
    /\ retrier[r].pc = "idle" /\ MayCall
    /\ NoBatchRunning
    /\ retrier' = [retrier EXCEPT ![r] = [Resting EXCEPT !.pc = "checked", !.batch = TRUE, !.target = t]]
    /\ overlap' = (overlap \/ \E q \in Retriers : retrier[q].pc = "checked")
    /\ calls' = calls + 1
    /\ UNCHANGED <<stored, shown, progress, cancel, coord, queue, worker, crashes, orphans>>

(* failed_translation_retry_plan, restricted to the target of the request. *)
Plan(t) ==
    {s \in durable : /\ row[s].status = "failed" /\ row[s].target = t
                     /\ Last(s, t) > 0 /\ attempts[s][t][Last(s, t)] = "retryable"}

StartBatch(r) ==
    LET plan == Plan(retrier[r].target) IN
    /\ retrier[r].pc = "checked"
    /\ IF plan = {}
       THEN /\ retrier' = [retrier EXCEPT ![r] = Resting]
            /\ UNCHANGED <<progress, cancel>>
       ELSE /\ retrier' = [retrier EXCEPT ![r].pc = "next", ![r].todo = plan]
            /\ progress' = [NoProgress EXCEPT !.status = "running", !.total = Cardinality(plan)]
            /\ cancel' = FALSE
    /\ UNCHANGED <<stored, shown, overlap, calls, coord, queue, worker, crashes, orphans>>

BatchCancelled(r) ==
    /\ retrier[r].pc = "next" /\ retrier[r].todo # {} /\ cancel
    /\ progress' = [progress EXCEPT !.status = "cancelled",
                      !.cancelled = IF progress.total > progress.progress
                                    THEN progress.total - progress.progress ELSE 0]
    /\ retrier' = [retrier EXCEPT ![r] = Resting]
    /\ UNCHANGED <<stored, shown, cancel, overlap, calls, coord, queue, worker, crashes, orphans>>

NextItem(r) ==
    /\ retrier[r].pc = "next" /\ ~cancel
    /\ \E s \in retrier[r].todo :
          /\ \A x \in retrier[r].todo : s <= x
          /\ retrier' = [retrier EXCEPT ![r].pc = "begin", ![r].seg = s, ![r].todo = @ \ {s}, ![r].try = 1]
    /\ UNCHANGED <<stored, shown, progress, cancel, overlap, calls, coord, queue, worker, crashes, orphans>>

BatchDone(r) ==
    /\ retrier[r].pc = "next" /\ retrier[r].todo = {}
    /\ progress' = [progress EXCEPT !.status =
                      IF progress.succeeded = 0 /\ progress.failed > 0 THEN "failed" ELSE "completed"]
    /\ retrier' = [retrier EXCEPT ![r] = Resting]
    /\ UNCHANGED <<stored, shown, cancel, overlap, calls, coord, queue, worker, crashes, orphans>>

BeginRetry(r) ==
    /\ retrier[r].pc = "begin"
    /\ Begin(retrier[r].seg, retrier[r].target)
    /\ retrier' = [retrier EXCEPT ![r].pc = "asking",
                                  ![r].attempt = Last(retrier[r].seg, retrier[r].target) + 1]
    /\ UNCHANGED <<durable, shown, progress, cancel, overlap, calls, coord, queue, worker, crashes, orphans>>

(* The result of one item: the batch counts it and goes on; the command for *)
(* one segment reads the meeting back, if it went well.                     *)
Counted(r, ok) ==
    IF retrier[r].batch
    THEN /\ retrier' = [retrier EXCEPT ![r].pc = "next", ![r].index = @ + 1]
         /\ progress' = [progress EXCEPT !.progress = retrier[r].index + 1,
                                         !.succeeded = IF ok THEN @ + 1 ELSE @,
                                         !.failed = IF ok THEN @ ELSE @ + 1]
    ELSE /\ retrier' = [retrier EXCEPT ![r] = IF ok THEN [Resting EXCEPT !.pc = "open"] ELSE Resting]
         /\ UNCHANGED progress

BeginRetryRefused(r) ==
    /\ retrier[r].pc = "begin" /\ Err
    /\ Counted(r, FALSE)
    /\ UNCHANGED <<durable, row, attempts, shown, cancel, overlap, calls, coord, queue, worker, crashes, orphans>>

(* The provider is not asked when both languages are the same; an error     *)
(* worth a retry is tried again at once, MaxTries times in all.             *)
AnswerRetry(r, answer) ==
    LET x == retrier[r]
        outcome == IF x.target = Source THEN "skipped" ELSE answer
    IN
    /\ x.pc = "asking"
    /\ Charge(outcome) /\ Finish(Job(x.seg, x.target, x.attempt), outcome)
    /\ IF outcome = "retryable" /\ x.try < MaxTries
       THEN /\ retrier' = [retrier EXCEPT ![r].pc = "begin", ![r].try = @ + 1]
            /\ UNCHANGED progress
       ELSE Counted(r, outcome \in {"completed", "skipped"})
    /\ UNCHANGED <<durable, shown, cancel, overlap, calls, coord, queue, worker, crashes>>

OpenAfterRetry(r) ==
    /\ retrier[r].pc = "open"
    /\ view' = Reread
    /\ retrier' = [retrier EXCEPT ![r] = Resting]
    /\ UNCHANGED <<stored, recording, shutdown, progress, cancel, overlap, calls, coord, queue, worker, crashes, orphans>>

CancelBatch ==
    /\ ~cancel /\ \E r \in Retriers : retrier[r].batch
    /\ cancel' = TRUE
    /\ UNCHANGED <<stored, shown, retrier, progress, overlap, calls, coord, queue, worker, crashes, orphans>>

-----------------------------------------------------------------------------
(* The process ends at any moment; the next one marks what was pending as   *)
(* interrupted before anything else, the user opens the meeting, and nothing *)
(* is recorded into it any more.                                            *)
Restart ==
    /\ crashes < MaxCrashes /\ durable # {}
    /\ crashes' = crashes + 1 /\ recording' = FALSE
    /\ attempts' = [s \in Segments |-> [t \in Languages |->
                      [a \in DOMAIN attempts[s][t] |-> Interrupted(attempts[s][t][a])]]]
    /\ row' = [s \in Segments |-> InterruptedRow(row[s])]
    /\ view' = [s \in Segments |-> IF s \in durable
                  THEN [status |-> InterruptedRow(row[s]).status, text |-> row[s].text] ELSE Absent]
    /\ coord' = Idle /\ queue' = <<>> /\ worker' = Waiting /\ shutdown' = FALSE
    /\ retrier' = [r \in Retriers |-> Resting] /\ progress' = NoProgress /\ cancel' = FALSE
    /\ orphans' = {} /\ overlap' = FALSE
    /\ UNCHANGED <<durable, calls, errors>>

-----------------------------------------------------------------------------
(* A meeting that is about to be recorded, or one whose translations the     *)
(* last process left unfinished.                                            *)
Init ==
    /\ liveTarget \in Languages
    /\ recording \in BOOLEAN
    /\ durable = IF recording THEN {} ELSE Segments
    /\ row = [s \in Segments |-> IF recording THEN NoRow ELSE [NoRow EXCEPT !.status = "failed"]]
    /\ attempts = [s \in Segments |-> [t \in Languages |->
                     IF ~recording /\ t = liveTarget THEN <<"retryable">> ELSE <<>>]]
    /\ view = IF recording THEN [s \in Segments |-> Absent] ELSE Reread
    /\ coord = Idle /\ queue = <<>> /\ worker = Waiting /\ shutdown = FALSE
    /\ retrier = [r \in Retriers |-> Resting] /\ progress = NoProgress /\ cancel = FALSE
    /\ calls = 0 /\ crashes = 0 /\ errors = 0 /\ orphans = {} /\ overlap = FALSE

Recognition ==
    \/ \E s \in Segments : CommitFinal(s)
    \/ DecorateRefused \/ Decorate \/ SkipSameLanguage \/ Enqueue \/ EnqueueRefused \/ Show

WorkerStep == Take \/ (\E o \in Outcomes : Answer(o)) \/ Publish \/ DecideToLeave \/ Leave

RetryStep(r) ==
    \/ StartBatch(r) \/ BatchCancelled(r) \/ NextItem(r) \/ BatchDone(r)
    \/ BeginRetry(r) \/ BeginRetryRefused(r) \/ OpenAfterRetry(r)
    \/ \E o \in Outcomes : AnswerRetry(r, o)

Command(r) ==
    \/ \E s \in Segments, t \in Languages : RetrySegment(r, s, t)
    \/ \E t \in Languages : CheckBatch(r, t)

Next ==
    /\ UNCHANGED liveTarget
    /\ \/ Recognition \/ WorkerStep \/ Shutdown \/ CancelBatch \/ Restart
       \/ \E r \in Retriers : Command(r) \/ RetryStep(r)

Spec == Init /\ [][Next]_vars

-----------------------------------------------------------------------------
TypeOK ==
    /\ durable \subseteq Segments
    /\ row \in [Segments -> [status : RowStatus, target : Languages, text : Nat]]
    /\ \A s \in Segments, t \in Languages : attempts[s][t] \in Seq(AttemptStatus)
    /\ view \in [Segments -> [status : ViewStatus, text : Nat]]
    /\ Len(queue) <= QueueDepth
    /\ orphans \subseteq [seg : Segments, target : Languages, attempt : Nat]
    /\ worker.pc \in {"waiting", "asking", "publishing", "leaving", "stopped"}
    /\ coord.pc \in {"idle", "begin", "send", "show"}
    /\ \A r \in Retriers : retrier[r].pc \in {"idle", "checked", "next", "begin", "asking", "open"}

(* The jobs somebody still has in hand. *)
Held ==
    {queue[i] : i \in DOMAIN queue}
      \cup {j \in {worker.job} : worker.pc = "asking"}
      \cup {j \in {coord.job} : coord.pc = "send"}
      \cup {Job(retrier[r].seg, retrier[r].target, retrier[r].attempt) :
              r \in {q \in Retriers : retrier[q].pc = "asking"}}

(* A pending attempt is in somebody's hands: no path through a full queue, a *)
(* worker that left, a skipped language or a retry forgets to finish it.     *)
(* The exceptions are named: an answer that storage refuses and a job sent   *)
(* to a worker that was just leaving stay pending until the next start.      *)
PendingHasOwner ==
    \A s \in Segments, t \in Languages : \A a \in DOMAIN attempts[s][t] :
        attempts[s][t][a] = "pending" => Job(s, t, a) \in Held \cup orphans

(* What a reader sees is explained by the attempts: a pending row has a      *)
(* pending last attempt, a text is the answer of an attempt at the very      *)
(* target the row names, whichever attempt it was.                           *)
RowFollowsAttempts ==
    \A s \in Segments : LET t == row[s].target IN
        /\ row[s].status = "pending" => /\ Last(s, t) > 0 /\ attempts[s][t][Last(s, t)] = "pending"
        /\ row[s].status = "completed" => /\ row[s].text \in 1..Last(s, t)
                                          /\ attempts[s][t][row[s].text] = "completed"

(* A text in the live snapshot has been stored: closing the window loses no  *)
(* translation a user has seen.                                              *)
ShownTextIsStored ==
    \A s \in Segments : view[s].status = "completed" =>
        \E t \in Languages : view[s].text \in DOMAIN attempts[s][t]
                             /\ attempts[s][t][view[s].text] = "completed"

(* Neither the database nor the screen shows a text no attempt has produced. *)
TextsAreAnswers == TypeOK /\ RowFollowsAttempts /\ ShownTextIsStored

(* A finished attempt is never rewritten, by a later retry, a late answer or *)
(* a restart: the row may change, the history of attempts does not.          *)
FinishedAttemptsStay ==
    [][\A s \in Segments, t \in Languages : \A a \in DOMAIN attempts[s][t] :
          attempts[s][t][a] \in Finished =>
              a \in DOMAIN attempts'[s][t] /\ attempts'[s][t][a] = attempts[s][t][a]]_vars

(* A batch that is announced as running has a thread that works on it, and   *)
(* its progress adds up, unless two commands passed the check for a running  *)
(* batch before either announced itself.                                     *)
ProgressAddsUp ==
    /\ progress.status = "running" =>
         \E r \in Retriers : retrier[r].batch /\ retrier[r].pc \in {"next", "begin", "asking"}
    /\ ~overlap =>
         /\ progress.progress = progress.succeeded + progress.failed
         /\ progress.progress <= progress.total
         /\ progress.status \in {"completed", "failed"} => progress.progress = progress.total
         /\ progress.status = "cancelled" => progress.progress + progress.cancelled = progress.total

=============================================================================
