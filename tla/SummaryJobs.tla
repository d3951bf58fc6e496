----------------------------- MODULE SummaryJobs -----------------------------
(***************************************************************************)
(* Cloud summaries of a meeting and the provider profile they are sent     *)
(* with (mvp/summary.rs, the summary and provider commands of              *)
(* mvp/service.rs and their tables in mvp/storage.rs).                     *)
(*                                                                         *)
(* A command starts, retries or cancels a job; a started job runs in a     *)
(* thread of its own that asks the provider for each chunk and for their   *)
(* combination, and stores the result.  Commands, the thread, the shutdown *)
(* and the end of the process interleave; what they share is `active`,     *)
(* `cancel`, the announced state and the rows.  The commands that save and *)
(* test the provider profile append versions of one row.                   *)
(*                                                                         *)
(* A configuration of a provider is a model value.  One request to storage *)
(* is one step, which storage may refuse (its queue may be full).           *)
(***************************************************************************)
EXTENDS SummaryContent

CONSTANTS
    Clients,     \* threads of commands
    Configs,     \* provider configurations: class, address and model
    Seed,        \* the configuration a new database starts with
    LocalConfigs,\* configurations of the class "local"
    MaxRetries,  \* config.max_retries
    MaxJobs, MaxCalls, MaxErrors, MaxCrashes  \* bounds

ASSUME SummaryAssumption ==
    /\ Seed \in Configs /\ LocalConfigs \subseteq Configs
    /\ MaxRetries \in Nat /\ MaxJobs \in Nat /\ Meetings # {}

VARIABLES
    jobs,      \* mvp_summary_jobs
    profile,   \* versions of the provider profile
    active,    \* summary_active
    cancel,    \* summary_cancel
    state,     \* summary_state: the job it is about, its status and the result shown
    thread,    \* the thread of each job
    client,    \* the commands
    closing,   \* the shutdown of the service
    answered,  \* history: configurations that have passed a test
    orphans,   \* history: jobs whose outcome storage refused, which it stored and answered
               \* with an error, or which an earlier process left pending
    tally      \* numbers of calls, errors and crashes

vars == <<jobs, profile, active, cancel, state, thread, client, closing, answered, orphans, tally>>

-----------------------------------------------------------------------------
(* Values. *)

JobIds == 1..MaxJobs
Terminal == {"completed", "failed", "cancelled"}

Untested(config, n) == [config |-> config, number |-> n, test |-> "untested"]
Latest == Len(profile)

NoThread == [pc |-> "none", config |-> Seed, item |-> 0, try |-> 0, outcome |-> "none", answer |-> NoAnswer,
             late |-> 0]

SomeMeeting == CHOOSE m \in Meetings : TRUE

NoCall == [pc |-> "idle", job |-> 0, meeting |-> SomeMeeting, version |-> 0, config |-> Seed, accepted |-> FALSE,
           result |-> "none"]

Nobody == [job |-> 0, status |-> "queued", result |-> {}]

May(what, bound) == tally[what] < bound /\ tally' = [tally EXCEPT ![what] = @ + 1]

(* Storage refuses a request, for what is in it or for a failure of its own, *)
(* or the provider does not answer well.                                    *)
Err == May("errors", MaxErrors)

Call == May("calls", MaxCalls)

-----------------------------------------------------------------------------
(* Rows of jobs.  A job leaves "pending" once (finish_summary_job_on_writer). *)

(* Fault: UPDATE without AND status='pending'. *)
FinishedWhatever(j, status) == [jobs EXCEPT ![j].status = status]

Finished(j, status) ==
    IF jobs[j].status = "pending" THEN [jobs EXCEPT ![j].status = status] ELSE jobs

(* A completion brings the rows of chunks and results in its transaction.    *)
Completed(j, answer) ==
    IF jobs[j].status = "pending"
    THEN [jobs EXCEPT ![j].status = "completed", ![j].results = ResultRows(answer),
                      ![j].chunks = ChunkRows(jobs[j].meeting)]
    ELSE jobs

(* finish, or a refusal: the caller is told nothing useful in either case.   *)
FinishRow(j, status) ==
    \/ /\ jobs' = Finished(j, status)
       /\ UNCHANGED <<orphans, tally>>
    \/ /\ Err
       /\ orphans' = orphans \cup {j}
       /\ UNCHANGED jobs

(* No result is shown with a status that is not "completed". *)
Announced(j, status) ==
    state' = IF state.job = j THEN [state EXCEPT !.status = status, !.result = {}] ELSE state

-----------------------------------------------------------------------------
(* start_summary, retry_summary *)

(* The configuration that is latest now goes into the request and into the  *)
(* provenance of the job.  A class other than local needs the consent.      *)
ReadProfile(c, m, accepted) ==
    /\ client[c].pc = "idle" /\ Call
    /\ RequestValid(m)
    /\ profile[Latest].config \in LocalConfigs \/ accepted
    /\ client' = [client EXCEPT ![c] =
                    [NoCall EXCEPT !.pc = "claim", !.meeting = m, !.version = Latest,
                                   !.config = profile[Latest].config, !.accepted = accepted]]
    /\ UNCHANGED <<jobs, profile, active, cancel, state, thread, closing, answered, orphans>>

Start(c) == \E m \in Meetings, accepted \in BOOLEAN : ReadProfile(c, m, accepted)

Retry(c, j) ==
    /\ j <= Len(jobs) /\ jobs[j].status # "pending"
    /\ \E accepted \in BOOLEAN : ReadProfile(c, jobs[j].meeting, accepted)

(* Fault: the flag is raised and not looked at. *)
ClaimedAnyway(c) ==
    /\ client[c].pc = "claim"
    /\ active' = TRUE
    /\ client' = [client EXCEPT ![c].pc = "insert"]
    /\ UNCHANGED <<jobs, profile, cancel, state, thread, closing, answered, orphans, tally>>

Claim(c) ==
    /\ client[c].pc = "claim"
    /\ active' = TRUE
    /\ client' = [client EXCEPT ![c] = IF active THEN NoCall ELSE [@ EXCEPT !.pc = "insert"]]
    /\ UNCHANGED <<jobs, profile, cancel, state, thread, closing, answered, orphans, tally>>

(* Fault: the provenance is read again when the row is written. *)
NewJobLatest(c) ==
    [meeting |-> client[c].meeting, status |-> "pending", results |-> {}, chunks |-> <<>>, version |-> Latest,
     accepted |-> client[c].accepted, told |-> TRUE]

(* told: history; the service knows the job it has inserted. *)
NewJob(c) ==
    [meeting |-> client[c].meeting, status |-> "pending", results |-> {}, chunks |-> <<>>,
     version |-> client[c].version, accepted |-> client[c].accepted, told |-> TRUE]

(* The flag goes down, also when the shutdown has raised it; a job that      *)
(* starts before the shutdown has seen which one runs is spared by it.       *)
LowerFlag(inserted) ==
    /\ cancel' = FALSE
    /\ closing' = IF closing.pc \in {"look", "state"} THEN [closing EXCEPT !.spared = @ \cup inserted] ELSE closing

Insert(c) ==
    /\ client[c].pc = "insert"
    /\ \/ /\ Len(jobs) < MaxJobs
          /\ LowerFlag({Len(jobs) + 1})
          /\ jobs' = Append(jobs, NewJob(c))
          /\ client' = [client EXCEPT ![c].pc = "announce", ![c].job = Len(jobs) + 1]
          /\ UNCHANGED <<active, tally>>
       \/ /\ Err
          /\ LowerFlag({})
          /\ active' = FALSE
          /\ client' = [client EXCEPT ![c] = NoCall]
          /\ UNCHANGED jobs
    /\ UNCHANGED <<profile, state, thread, answered, orphans>>

(* The row is committed and cannot be read back: the command fails, and does *)
(* not know the job it leaves pending.                                       *)
InsertUnread(c) ==
    /\ client[c].pc = "insert" /\ Len(jobs) < MaxJobs /\ Err
    /\ LowerFlag({})
    /\ jobs' = Append(jobs, [NewJob(c) EXCEPT !.told = FALSE])
    /\ orphans' = orphans \cup {Len(jobs) + 1}
    /\ active' = FALSE
    /\ client' = [client EXCEPT ![c] = NoCall]
    /\ UNCHANGED <<profile, state, thread, answered>>

Announce(c) ==
    /\ client[c].pc = "announce"
    /\ state' = [job |-> client[c].job, status |-> "queued", result |-> {}]
    /\ client' = [client EXCEPT ![c].pc = "spawn"]
    /\ UNCHANGED <<jobs, profile, active, cancel, thread, closing, answered, orphans, tally>>

Spawn(c) ==
    LET j == client[c].job IN
    /\ client[c].pc = "spawn"
    /\ thread' = [thread EXCEPT ![j] = [NoThread EXCEPT !.pc = "ready", !.config = client[c].config,
                                                        !.item = 1, !.try = 1]]
    /\ client' = [client EXCEPT ![c] = NoCall]
    /\ UNCHANGED <<jobs, profile, active, cancel, state, closing, answered, orphans, tally>>

(* The thread cannot be started: active is lowered first. *)
SpawnRefused(c) ==
    /\ client[c].pc = "spawn" /\ Err
    /\ active' = FALSE
    /\ client' = [client EXCEPT ![c].pc = "unspawned"]
    /\ UNCHANGED <<jobs, profile, cancel, state, thread, closing, answered, orphans>>

Unspawned(c) ==
    /\ client[c].pc = "unspawned"
    /\ FinishRow(client[c].job, "failed")
    /\ state' = [state EXCEPT !.status = "failed"]
    /\ client' = [client EXCEPT ![c] = NoCall]
    /\ UNCHANGED <<profile, active, cancel, thread, closing, answered>>

-----------------------------------------------------------------------------
(* cancel_summary: the row is read, the flag raised, the row cancelled, and *)
(* the announced state changed, in four steps.                              *)

Cancel(c, j) ==
    /\ client[c].pc = "idle" /\ Call
    /\ j <= Len(jobs) /\ jobs[j].status = "pending"
    /\ client' = [client EXCEPT ![c] = [NoCall EXCEPT !.pc = "flag", !.job = j]]
    /\ UNCHANGED <<jobs, profile, active, cancel, state, thread, closing, answered, orphans>>

RaiseFlag(c) ==
    /\ client[c].pc = "flag"
    /\ cancel' = TRUE
    /\ client' = [client EXCEPT ![c].pc = "row"]
    /\ UNCHANGED <<jobs, profile, active, state, thread, closing, answered, orphans, tally>>

CancelRow(c) ==
    LET j == client[c].job IN
    /\ client[c].pc = "row"
    /\ \/ /\ jobs[j].status = "pending"
          /\ jobs' = Finished(j, "cancelled")
          /\ client' = [client EXCEPT ![c].pc = "state"]
          /\ UNCHANGED tally
       \/ /\ (jobs[j].status # "pending" /\ UNCHANGED tally) \/ Err
          /\ client' = [client EXCEPT ![c] = NoCall]
          /\ UNCHANGED jobs
    /\ UNCHANGED <<profile, active, cancel, state, thread, closing, answered, orphans>>

(* The row is cancelled and cannot be read back.                             *)
CancelRowUnread(c) ==
    LET j == client[c].job IN
    /\ client[c].pc = "row" /\ jobs[j].status = "pending" /\ Err
    /\ jobs' = Finished(j, "cancelled")
    /\ client' = [client EXCEPT ![c] = NoCall]
    /\ UNCHANGED <<profile, active, cancel, state, thread, closing, answered, orphans>>

CancelState(c) ==
    /\ client[c].pc = "state"
    /\ Announced(client[c].job, "cancelled")
    /\ client' = [client EXCEPT ![c] = NoCall]
    /\ UNCHANGED <<jobs, profile, active, cancel, thread, closing, answered, orphans, tally>>

-----------------------------------------------------------------------------
(* The thread: run_summary, complete_with_retries, finish_summary_run. *)

(* What a run announces is not shown over "cancelled". *)
Progress(j, status) ==
    state' = IF state.job = j /\ state.status # "cancelled"
             THEN [state EXCEPT !.status = status] ELSE state

(* The requests of a run: one for each chunk, then the one that combines. *)
MoreItems(j) == thread[j].item <= ChunkCount(jobs[j].meeting)

Stage(j) == IF MoreItems(j) THEN "chunking" ELSE "combining"

To(j, pc, outcome) == thread' = [thread EXCEPT ![j].pc = pc, ![j].outcome = outcome]

(* run_summary returns, and its counters are gone. *)
Returns(j, outcome, answer) ==
    thread' = [thread EXCEPT ![j].pc = "finish", ![j].outcome = outcome, ![j].answer = answer,
                             ![j].item = 0, ![j].try = 0]

EndsWith(j, outcome) == Returns(j, outcome, NoAnswer) /\ Progress(j, outcome)

(* Fault: only the first try looks at the flag. *)
StopRequestedAtFirst(j) == cancel /\ thread[j].try = 1

(* Every try looks at the flag before it is sent. *)
StopRequested(j) == cancel

(* A transcript that cannot be cut fails before the first request. *)
TryRequest(j) ==
    /\ thread[j].pc = "ready"
    /\ IF StopRequested(j)
       THEN EndsWith(j, "cancelled")
       ELSE IF ~Chunked(jobs[j].meeting)
       THEN EndsWith(j, "failed")
       ELSE To(j, "send", "none") /\ Progress(j, Stage(j))
    /\ UNCHANGED <<jobs, profile, active, cancel, client, closing, answered, orphans, tally>>

(* The request leaves; `late` counts those that leave after the row was     *)
(* cancelled.                                                               *)
Send(j) ==
    /\ thread[j].pc = "send"
    /\ thread' = [thread EXCEPT ![j].pc = "asking",
                                ![j].late = @ + (IF jobs[j].status = "cancelled" THEN 1 ELSE 0)]
    /\ UNCHANGED <<jobs, profile, active, cancel, state, client, closing, answered, orphans, tally>>

LastTry(j) == thread[j].try > MaxRetries

(* A good answer is thrown away when the flag is up.  An answer that does   *)
(* not pass parse_and_validate_summary fails the job.                       *)
AnswerGood(j, answer) ==
    /\ thread[j].pc = "asking"
    /\ IF cancel
       THEN EndsWith(j, "cancelled")
       ELSE IF ~AnswerValid(jobs[j].meeting, answer)
       THEN EndsWith(j, "failed")
       ELSE IF MoreItems(j)
       THEN /\ thread' = [thread EXCEPT ![j].pc = "ready", ![j].item = @ + 1, ![j].try = 1]
            /\ Progress(j, Stage(j))
       ELSE Returns(j, "completed", answer) /\ Progress(j, "completed")
    /\ UNCHANGED <<jobs, profile, active, cancel, client, closing, answered, orphans, tally>>

AnswerBad(j, retryable) ==
    /\ thread[j].pc = "asking" /\ Err
    /\ IF retryable /\ ~LastTry(j)
       THEN thread' = [thread EXCEPT ![j].pc = "ready", ![j].try = @ + 1] /\ UNCHANGED state
       ELSE EndsWith(j, "failed")
    /\ UNCHANGED <<jobs, profile, active, cancel, client, closing, answered, orphans>>

(* finish_summary_run: a completed run that is cancelled at last is stored  *)
(* as cancelled.                                                            *)
FinishRun(j) ==
    /\ thread[j].pc = "finish"
    /\ To(j, "store", IF thread[j].outcome = "completed" /\ cancel THEN "cancelled"
                      ELSE thread[j].outcome)
    /\ UNCHANGED <<jobs, profile, active, cancel, state, client, closing, answered, orphans, tally>>

(* Fault: a run whose row could not be completed is announced completed. *)
AfterStoreAnyway(j, stored) == "completed"

AfterStore(j, stored) == IF stored THEN "completed" ELSE "failed"

(* A completion that is not stored becomes a failure, which is stored next. *)
StoreCompleted(j) ==
    LET stored == jobs[j].status = "pending" IN
    /\ thread[j].pc = "store" /\ thread[j].outcome = "completed"
    /\ \/ /\ jobs' = Completed(j, thread[j].answer) /\ UNCHANGED tally
          /\ To(j, IF AfterStore(j, stored) = "completed" THEN "tell" ELSE "store", AfterStore(j, stored))
       \/ /\ Err /\ UNCHANGED jobs
          /\ To(j, IF AfterStore(j, FALSE) = "completed" THEN "tell" ELSE "store", AfterStore(j, FALSE))
    /\ UNCHANGED <<profile, active, cancel, state, client, closing, answered, orphans>>

StoreOther(j) ==
    /\ thread[j].pc = "store" /\ thread[j].outcome \in {"failed", "cancelled"}
    /\ FinishRow(j, thread[j].outcome)
    /\ To(j, "tell", thread[j].outcome)
    /\ UNCHANGED <<profile, active, cancel, state, client, closing, answered>>

Tell(j) ==
    /\ thread[j].pc = "tell"
    /\ state' = [state EXCEPT !.status = thread[j].outcome,
                              !.result = IF thread[j].outcome = "completed" THEN ShownFromAnswer(thread[j].answer)
                                         ELSE {}]
    /\ thread' = [thread EXCEPT ![j].pc = "release", ![j].answer = NoAnswer]
    /\ UNCHANGED <<jobs, profile, active, cancel, client, closing, answered, orphans, tally>>

Release(j) ==
    /\ thread[j].pc = "release"
    /\ active' = FALSE
    /\ thread' = [thread EXCEPT ![j] = [NoThread EXCEPT !.pc = "ended"]]
    /\ UNCHANGED <<jobs, profile, cancel, state, client, closing, answered, orphans, tally>>

-----------------------------------------------------------------------------
(* The provider profile: save_provider_profile, test_provider. *)

(* Only what was tested is stored as tested: record_provider_test writes    *)
(* the configuration the test began with.                                   *)
ReadToSave(c, config) ==
    /\ client[c].pc = "idle" /\ Call
    /\ client' = [client EXCEPT ![c] = [NoCall EXCEPT !.pc = "save", !.version = Latest, !.config = config]]
    /\ UNCHANGED <<jobs, profile, active, cancel, state, thread, closing, answered, orphans>>

Save(c) ==
    /\ client[c].pc = "save"
    /\ \/ /\ profile' = Append(profile, Untested(client[c].config, profile[client[c].version].number + 1))
          /\ UNCHANGED tally
       \/ Err /\ UNCHANGED profile
    /\ client' = [client EXCEPT ![c] = NoCall]
    /\ UNCHANGED <<jobs, active, cancel, state, thread, closing, answered, orphans>>

ReadToTest(c) ==
    /\ client[c].pc = "idle" /\ Call
    /\ client' = [client EXCEPT ![c] = [NoCall EXCEPT !.pc = "probe", !.version = Latest,
                                                      !.config = profile[Latest].config]]
    /\ UNCHANGED <<jobs, profile, active, cancel, state, thread, closing, answered, orphans>>

Probe(c, passed) ==
    /\ client[c].pc = "probe"
    /\ answered' = IF passed THEN answered \cup {client[c].config} ELSE answered
    /\ client' = [client EXCEPT ![c].pc = "record", ![c].result = IF passed THEN "passed" ELSE "failed"]
    /\ UNCHANGED <<jobs, profile, active, cancel, state, thread, closing, orphans, tally>>

Tested(c) == [profile[client[c].version] EXCEPT !.test = client[c].result]

Record(c) ==
    /\ client[c].pc = "record"
    /\ \/ profile' = Append(profile, Tested(c)) /\ UNCHANGED tally
       \/ Err /\ UNCHANGED profile
    /\ client' = [client EXCEPT ![c] = NoCall]
    /\ UNCHANGED <<jobs, active, cancel, state, thread, closing, answered, orphans>>

-----------------------------------------------------------------------------
(* shutdown_before: the flag goes up, `active` is looked at, the announced    *)
(* job is read under the lock of the state, and its row is cancelled.        *)
(* Commands are served in between and until the process ends.               *)
Idle == [pc |-> "no", job |-> 0, spared |-> {}]

Shutdown ==
    /\ closing.pc = "no" /\ Call
    /\ cancel' = TRUE
    /\ closing' = [closing EXCEPT !.pc = "look"]
    /\ UNCHANGED <<jobs, profile, active, state, thread, client, answered, orphans>>

ShutdownLook ==
    /\ closing.pc = "look"
    /\ closing' = [closing EXCEPT !.pc = IF active THEN "state" ELSE "done"]
    /\ UNCHANGED <<jobs, profile, active, cancel, state, thread, client, answered, orphans, tally>>

ShutdownState ==
    /\ closing.pc = "state"
    /\ closing' = [closing EXCEPT !.pc = "row", !.job = state.job]
    /\ UNCHANGED <<jobs, profile, active, cancel, state, thread, client, answered, orphans, tally>>

ShutdownRow ==
    /\ closing.pc = "row"
    /\ closing' = [closing EXCEPT !.pc = "done"]
    /\ \/ jobs' = (IF closing.job = 0 THEN jobs ELSE Finished(closing.job, "cancelled")) /\ UNCHANGED tally
       \/ Err /\ UNCHANGED jobs
    /\ UNCHANGED <<profile, active, cancel, state, thread, client, answered, orphans>>

(* Nothing looks at the jobs when the next process starts. *)
Restart ==
    /\ May("crashes", MaxCrashes)
    /\ active' = FALSE /\ cancel' = FALSE /\ state' = Nobody
    /\ thread' = [j \in JobIds |-> NoThread] /\ client' = [c \in Clients |-> NoCall]
    /\ closing' = Idle
    /\ orphans' = {j \in DOMAIN jobs : jobs[j].status = "pending"}
    /\ UNCHANGED <<jobs, profile, answered>>

-----------------------------------------------------------------------------
Init ==
    /\ jobs = <<>> /\ profile = <<Untested(Seed, 1)>>
    /\ active = FALSE /\ cancel = FALSE /\ state = Nobody
    /\ thread = [j \in JobIds |-> NoThread] /\ client = [c \in Clients |-> NoCall]
    /\ closing = Idle
    /\ answered = {} /\ orphans = {}
    /\ tally = [calls |-> 0, errors |-> 0, crashes |-> 0]

ThreadStep(j) ==
    \/ TryRequest(j) \/ Send(j) \/ (\E answer \in Answers : AnswerGood(j, answer)) \/ (\E retryable \in BOOLEAN : AnswerBad(j, retryable))
    \/ FinishRun(j) \/ StoreCompleted(j) \/ StoreOther(j) \/ Tell(j) \/ Release(j)

CommandStep(c) ==
    \/ Claim(c) \/ Insert(c) \/ InsertUnread(c) \/ Announce(c) \/ Spawn(c) \/ SpawnRefused(c) \/ Unspawned(c)
    \/ RaiseFlag(c) \/ CancelRow(c) \/ CancelRowUnread(c) \/ CancelState(c)
    \/ Save(c) \/ (\E passed \in BOOLEAN : Probe(c, passed)) \/ Record(c)

Command(c) ==
    \/ Start(c) \/ (\E j \in JobIds : Retry(c, j) \/ Cancel(c, j))
    \/ (\E config \in Configs : ReadToSave(c, config)) \/ ReadToTest(c)

Next ==
    \/ \E c \in Clients : Command(c) \/ CommandStep(c)
    \/ \E j \in JobIds : ThreadStep(j)
    \/ Shutdown \/ ShutdownLook \/ ShutdownState \/ ShutdownRow \/ Restart

Spec == Init /\ [][Next]_vars

-----------------------------------------------------------------------------
TypeOK ==
    /\ \A j \in DOMAIN jobs : /\ jobs[j].status \in {"pending"} \cup Terminal
                              /\ jobs[j].version \in DOMAIN profile
    /\ active \in BOOLEAN /\ cancel \in BOOLEAN
    /\ state.job \in 0..Len(jobs)
    /\ state.status \in {"queued", "chunking", "combining"} \cup Terminal
    /\ \A j \in JobIds : /\ thread[j].item \in 0..(MaxChunks + 1)
                         /\ thread[j].try \in 0..(MaxRetries + 1)
                         /\ thread[j].pc # "none" => j \in DOMAIN jobs

Running(j) == thread[j].pc \notin {"none", "ended"}
Starting(c) == client[c].pc \in {"insert", "announce", "spawn"}

(* One job is started or run at a time, and `active` says so: two starts    *)
(* never share the cancel flag and the announced state.                     *)
OneJobAtATime ==
    LET busy == {<<"start", c>> : c \in {x \in Clients : Starting(x)}}
                  \cup {<<"run", j>> : j \in {x \in JobIds : Running(x)}}
    IN Cardinality(busy) = IF active THEN 1 ELSE 0

(* A pending job is being started or run.  The exceptions are named: a job   *)
(* whose outcome storage refused, one that it stored and answered with an    *)
(* error, and one of a process that ended stay pending; nothing but a cancel *)
(* will finish them.                                                         *)
PendingIsWorkedOn ==
    \A j \in DOMAIN jobs : jobs[j].status = "pending" =>
        \/ Running(j) \/ j \in orphans
        \/ \E c \in Clients : client[c].job = j /\ client[c].pc \in {"announce", "spawn", "unspawned"}

(* A pending job is in exactly one pair of hands.                           *)
JobsAreInHand == TypeOK /\ OneJobAtATime /\ PendingIsWorkedOn

-----------------------------------------------------------------------------
(* summary_status: the announced state while it is about this job, and what *)
(* storage holds otherwise.                                                 *)

(* Only a completed job has its rows read. *)
StoredResult(j) == IF jobs[j].status = "completed" THEN ShownFromRows(jobs[j].results) ELSE {}

FromStorage(j) ==
    [status |-> IF jobs[j].status = "pending" THEN "queued" ELSE jobs[j].status, result |-> StoredResult(j)]

SummaryStatus(j) ==
    IF state.job = j /\ (active \/ state.status # "queued")
    THEN [status |-> state.status, result |-> state.result]
    ELSE FromStorage(j)

(* A summary is stored with all of its rows or none: every segment of the    *)
(* transcript is accounted for by a chunk, and no item leads to a segment    *)
(* that the meeting does not have.                                          *)
RowsAreWhole ==
    \A j \in DOMAIN jobs :
        IF jobs[j].status = "completed"
        THEN /\ \E row \in jobs[j].results : row.kind = "overview"
             /\ \A row \in jobs[j].results : row.cites \subseteq Ids(jobs[j].meeting)
             /\ UNION {jobs[j].chunks[k] : k \in DOMAIN jobs[j].chunks} = Ids(jobs[j].meeting)
        ELSE jobs[j].results = {} /\ jobs[j].chunks = <<>>

(* Once a run is over, a summary that is announced is stored, and one that   *)
(* is stored is announced: no cancel that comes at the last moment and no    *)
(* refused write leaves a user with a summary that is not there.  Only a job *)
(* whose thread could not be started may hide one: it announces its failure  *)
(* after the next job was let in.                                           *)
AnnouncedIsStored ==
    \A j \in DOMAIN jobs : state.job = j /\ thread[j].pc \in {"release", "ended"} =>
        /\ state.status = "completed" => jobs[j].status = "completed"
        /\ jobs[j].status = "completed" =>
              state.status = "completed" \/ \E k \in 1..(j - 1) : thread[k].pc = "none" /\ jobs[k].told

(* What summary_status shows of a finished run is what the rows will show    *)
(* after a restart: the same items, each leading to the same segment.        *)
ShownIsStored ==
    \A j \in DOMAIN jobs :
        thread[j].pc \in {"none", "release", "ended"} /\ SummaryStatus(j).status = "completed" =>
            WithoutLoose(SummaryStatus(j).result) = ShownFromRows(jobs[j].results)

(* A completed summary is whole, announced and shown as it is stored.        *)
CompletedAgrees == RowsAreWhole /\ AnnouncedIsStored /\ ShownIsStored

(* The provenance of a job names the version of the profile whose           *)
(* configuration its requests use, whatever was saved or tested meanwhile,  *)
(* and nothing goes to another computer without the consent in the row.     *)
ProvenanceIsTrue ==
    \A j \in DOMAIN jobs : Running(j) =>
        /\ profile[jobs[j].version].config = thread[j].config
        /\ thread[j].config \in LocalConfigs \/ jobs[j].accepted

(* A cancelled job sends at most the request that had passed its last look  *)
(* at the flag; but a start lowers the flag that a shutdown has raised, and  *)
(* when that comes before the shutdown reads which job runs, it cancels the  *)
(* row of the new one, whose requests go on.                                 *)
CancelStopsRequests == \A j \in JobIds \ closing.spared : thread[j].late <= 1

(* A version of the profile that says "passed" carries a configuration that *)
(* the provider has answered, even if the profile was saved during the test. *)
PassedMeansTested ==
    \A v \in DOMAIN profile : profile[v].test = "passed" => profile[v].config \in answered

(* The versions of the profile tell what was asked and what has answered.    *)
ProfileTells == ProvenanceIsTrue /\ PassedMeansTested

(* A job that is completed, failed or cancelled stays so, whoever comes late. *)
FinishedJobsStay ==
    [][\A j \in DOMAIN jobs : jobs[j].status \in Terminal => jobs'[j] = jobs[j]]_vars

=============================================================================
