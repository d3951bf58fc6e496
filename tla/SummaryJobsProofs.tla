--------------------------- MODULE SummaryJobsProofs ---------------------------
(***************************************************************************)
(* For any transcripts and answers and any number of commands,             *)
(* configurations, retries and restarts: one summary runs at a time, a     *)
(* pending job is in somebody's hands, a finished one is never rewritten;  *)
(* a completed one is whole, announced and shown as it is stored; a cancel *)
(* stops the requests; and the versions of the provider profile tell what  *)
(* was asked and what has answered.                                        *)
(***************************************************************************)
EXTENDS SummaryJobs, FiniteSetTheorems, TLAPS

Rows == {{}} \cup {ResultRows(a) : a \in Answers}
ChunkSets == {<<>>} \cup {ChunkRows(m) : m \in Meetings}
Shown == {{}} \cup {ShownFromAnswer(a) : a \in Answers}

JobRecord ==
    [meeting : Meetings, status : {"pending"} \cup Terminal, results : Rows, chunks : ChunkSets,
     version : Nat, accepted : BOOLEAN, told : BOOLEAN]

Version == [config : Configs, number : Nat, test : {"untested", "passed", "failed"}]

ThreadRecord ==
    [pc : {"none", "ready", "send", "asking", "finish", "store", "tell", "release", "ended"},
     config : Configs, item : 0..(MaxChunks + 1), try : 0..(MaxRetries + 1),
     outcome : Terminal \cup {"none"}, answer : Answers \cup {NoAnswer}, late : Nat]

CallRecord ==
    [pc : {"idle", "claim", "insert", "announce", "spawn", "unspawned", "flag", "row", "state", "save", "probe",
           "record"},
     job : Nat, meeting : Meetings, version : Nat, config : Configs, accepted : BOOLEAN,
     result : {"none", "passed", "failed"}]

Statuses == {"queued", "chunking", "combining"} \cup Terminal

JobsOK == jobs \in Seq(JobRecord) /\ Len(jobs) <= MaxJobs
ProfileOK == profile \in Seq(Version) /\ Len(profile) > 0
FlagsOK == active \in BOOLEAN /\ cancel \in BOOLEAN
StateOK == state \in [job : Nat, status : Statuses, result : Shown]
ThreadsOK == thread \in [JobIds -> ThreadRecord]
ClientsOK == client \in [Clients -> CallRecord]
ClosingOK == closing \in [pc : {"no", "look", "state", "row", "done"}, job : Nat, spared : SUBSET JobIds]

Types == JobsOK /\ ProfileOK /\ FlagsOK /\ StateOK /\ ThreadsOK /\ ClientsOK /\ ClosingOK

(* A run that has a summary has one that fits its meeting. *)
CarriesSummary(j) == thread[j].pc \in {"finish", "store", "tell"} /\ thread[j].outcome = "completed"

SummaryFits(j) ==
    /\ thread[j].answer \in Answers /\ AnswerValid(jobs[j].meeting, thread[j].answer)
    /\ Chunked(jobs[j].meeting)

(* Whoever names a job or a version names one that exists; a run that is     *)
(* over knows its outcome.                                                  *)
References ==
    /\ state.job <= Len(jobs) /\ closing.job <= Len(jobs)
    /\ \A j \in DOMAIN jobs : jobs[j].version \in DOMAIN profile
    /\ \A j \in JobIds : /\ thread[j].pc # "none" => j \in DOMAIN jobs
                         /\ thread[j].pc \in {"finish", "store", "tell"} => thread[j].outcome \in Terminal
                         /\ thread[j].pc \in {"send", "asking"} => Chunked(jobs[j].meeting)
                         /\ CarriesSummary(j) => SummaryFits(j)
    /\ \A c \in Clients :
          /\ client[c].pc \in {"announce", "spawn", "unspawned", "flag", "row", "state"} => client[c].job \in DOMAIN jobs
          /\ client[c].pc \in {"claim", "insert", "save", "probe", "record"} => client[c].version \in DOMAIN profile
          /\ client[c].pc = "record" => client[c].result # "none"

(* These commands are starting a job, and these jobs are running. *)
BusyAre(C, J) ==
    (\A c \in Clients : Starting(c) <=> c \in C) /\ (\A j \in JobIds : Running(j) <=> j \in J)

Exclusive ==
    IF active THEN (\E c \in Clients : BusyAre({c}, {})) \/ (\E j \in JobIds : BusyAre({}, {j}))
    ELSE BusyAre({}, {})

(* A run that has stored its outcome leaves no pending job, unless storage   *)
(* refused it.                                                              *)
StoredIsSettled ==
    \A j \in JobIds : thread[j].pc \in {"tell", "release", "ended"} =>
        jobs[j].status # "pending" \/ j \in orphans

(* A command carries the configuration of the version it names, and has the *)
(* consent; so does the job it inserts.                                     *)
CarriesItsVersion ==
    \A c \in Clients :
        /\ client[c].pc \in {"claim", "insert", "probe", "record"} =>
              profile[client[c].version].config = client[c].config
        /\ client[c].pc \in {"claim", "insert"} => client[c].config \in LocalConfigs \/ client[c].accepted
        /\ client[c].pc \in {"announce", "spawn"} =>
              /\ profile[jobs[client[c].job].version].config = client[c].config
              /\ client[c].config \in LocalConfigs \/ jobs[client[c].job].accepted
        /\ client[c].pc = "record" /\ client[c].result = "passed" => client[c].config \in answered

(* The inductive invariant. *)
SummaryInv ==
    /\ Types /\ References
    /\ Exclusive /\ PendingIsWorkedOn /\ StoredIsSettled
    /\ CarriesItsVersion /\ ProvenanceIsTrue /\ PassedMeansTested

-----------------------------------------------------------------------------
(* What a step may do to the rows. *)

JobsGrow ==
    \A j \in DOMAIN jobs :
        /\ j \in DOMAIN jobs'
        /\ jobs'[j].version = jobs[j].version /\ jobs'[j].accepted = jobs[j].accepted
        /\ jobs'[j].meeting = jobs[j].meeting /\ jobs'[j].told = jobs[j].told
        /\ jobs[j].status # "pending" => jobs'[j] = jobs[j]

ProfileGrows == \A v \in DOMAIN profile : v \in DOMAIN profile' /\ profile'[v] = profile[v]

LEMMA AppendFacts ==
    ASSUME NEW S, NEW q \in Seq(S), NEW x \in S
    PROVE  /\ Append(q, x) \in Seq(S) /\ Len(Append(q, x)) = Len(q) + 1 /\ Len(q) \in Nat
           /\ DOMAIN q = 1..Len(q) /\ DOMAIN Append(q, x) = 1..(Len(q) + 1)
           /\ \A i \in 1..Len(q) : Append(q, x)[i] = q[i]
           /\ Append(q, x)[Len(q) + 1] = x
  OBVIOUS

LEMMA FinishedFacts ==
    ASSUME JobsOK, NEW j \in DOMAIN jobs, NEW status \in Terminal
    PROVE  /\ Finished(j, status) \in Seq(JobRecord) /\ Len(Finished(j, status)) = Len(jobs)
           /\ DOMAIN Finished(j, status) = DOMAIN jobs
           /\ \A i \in DOMAIN jobs :
                 /\ Finished(j, status)[i].version = jobs[i].version
                 /\ Finished(j, status)[i].accepted = jobs[i].accepted
                 /\ Finished(j, status)[i].meeting = jobs[i].meeting
                 /\ Finished(j, status)[i].told = jobs[i].told
                 /\ Finished(j, status)[i].results = jobs[i].results
                 /\ Finished(j, status)[i].chunks = jobs[i].chunks
                 /\ i # j \/ jobs[i].status # "pending" => Finished(j, status)[i] = jobs[i]
           /\ Finished(j, status)[j].status # "pending"
           /\ jobs[j].status = "pending" => Finished(j, status)[j].status = status
<1>1. jobs \in Seq(JobRecord) /\ jobs[j] \in JobRecord
  BY DEF JobsOK
<1>2. CASE jobs[j].status # "pending"
  BY <1>1, <1>2 DEF Finished
<1>3. CASE jobs[j].status = "pending"
  <2> DEFINE new == [jobs[j] EXCEPT !.status = status]
  <2>1. /\ new \in JobRecord /\ new.status = status /\ new.version = jobs[j].version /\ new.accepted = jobs[j].accepted
        /\ new.meeting = jobs[j].meeting /\ new.results = jobs[j].results /\ new.chunks = jobs[j].chunks
        /\ new.told = jobs[j].told
    BY <1>1 DEF JobRecord
  <2>2. Finished(j, status) = [jobs EXCEPT ![j] = new]
    BY <1>1, <1>3 DEF Finished
  <2>3. status # "pending"
    BY DEF Terminal
  <2> HIDE DEF new
  <2> QED
    BY <1>1, <1>3, <2>1, <2>2, <2>3
<1> QED
  BY <1>2, <1>3

LEMMA CompletedFacts ==
    ASSUME JobsOK, NEW j \in DOMAIN jobs, NEW answer \in Answers
    PROVE  /\ Completed(j, answer) \in Seq(JobRecord) /\ Len(Completed(j, answer)) = Len(jobs)
           /\ DOMAIN Completed(j, answer) = DOMAIN jobs
           /\ \A i \in DOMAIN jobs :
                 /\ Completed(j, answer)[i].version = jobs[i].version
                 /\ Completed(j, answer)[i].accepted = jobs[i].accepted
                 /\ Completed(j, answer)[i].meeting = jobs[i].meeting
                 /\ Completed(j, answer)[i].told = jobs[i].told
                 /\ i # j \/ jobs[i].status # "pending" => Completed(j, answer)[i] = jobs[i]
           /\ Completed(j, answer)[j].status # "pending"
           /\ jobs[j].status = "pending" =>
                 /\ Completed(j, answer)[j].status = "completed"
                 /\ Completed(j, answer)[j].results = ResultRows(answer)
                 /\ Completed(j, answer)[j].chunks = ChunkRows(jobs[j].meeting)
<1>1. jobs \in Seq(JobRecord) /\ jobs[j] \in JobRecord
  BY DEF JobsOK
<1>2. CASE jobs[j].status # "pending"
  BY <1>1, <1>2 DEF Completed
<1>3. CASE jobs[j].status = "pending"
  <2> DEFINE rows == ResultRows(answer)
             chunks == ChunkRows(jobs[j].meeting)
             new == [[[jobs[j] EXCEPT !.status = "completed"] EXCEPT !.results = rows] EXCEPT !.chunks = chunks]
  <2>1. rows \in Rows /\ chunks \in ChunkSets /\ "completed" \in Terminal /\ "completed" # "pending"
    BY <1>1 DEF Rows, ChunkSets, JobRecord, Terminal
  <2>2. Completed(j, answer) = [jobs EXCEPT ![j] = new]
    BY <1>1, <1>3 DEF Completed
  <2> HIDE DEF rows, chunks
  <2>3. /\ new \in JobRecord /\ new.status = "completed" /\ new.version = jobs[j].version
        /\ new.accepted = jobs[j].accepted /\ new.meeting = jobs[j].meeting
        /\ new.results = rows /\ new.chunks = chunks /\ new.told = jobs[j].told
    BY <1>1, <2>1 DEF JobRecord
  <2> HIDE DEF new
  <2> QED
    BY <1>1, <1>3, <2>1, <2>2, <2>3 DEF rows, chunks
<1> QED
  BY <1>2, <1>3

(* The rows change in four ways. *)
Inserts(c) == Insert(c) /\ Len(jobs) < MaxJobs /\ jobs' = Append(jobs, NewJob(c))
Unread(c) == [NewJob(c) EXCEPT !.told = FALSE]
Leaves(c) == InsertUnread(c) /\ Len(jobs) < MaxJobs /\ jobs' = Append(jobs, Unread(c))
Finishes(j) == j \in DOMAIN jobs /\ \E status \in {"failed", "cancelled"} : jobs' = Finished(j, status)
Completes(j) == StoreCompleted(j) /\ j \in DOMAIN jobs /\ thread[j].answer \in Answers /\ jobs' = Completed(j, thread[j].answer)

LEMMA JobKinds ==
    ASSUME Types, References, [Next]_vars
    PROVE  \/ \E c \in Clients : Inserts(c) \/ Leaves(c)
           \/ \E j \in DOMAIN jobs : Finishes(j) \/ Completes(j)
           \/ UNCHANGED jobs
<1>1. ASSUME NEW c \in Clients, Command(c)
      PROVE  UNCHANGED jobs
  BY <1>1 DEF Command, Start, Retry, ReadProfile, Cancel, ReadToSave, ReadToTest
<1>2. ASSUME NEW c \in Clients, CommandStep(c)
      PROVE  Inserts(c) \/ Leaves(c) \/ (\E j \in DOMAIN jobs : Finishes(j)) \/ UNCHANGED jobs
  <2>1. CASE Insert(c) \/ InsertUnread(c)
    BY <2>1 DEF Insert, Inserts, InsertUnread, Leaves, Unread
  <2>2. CASE Unspawned(c)
    BY <2>2 DEF Unspawned, FinishRow, Finishes, References, Terminal
  <2>3. CASE CancelRow(c) \/ CancelRowUnread(c)
    BY <2>3 DEF CancelRow, CancelRowUnread, Finishes, References, Terminal
  <2>4. CASE \/ Claim(c) \/ Announce(c) \/ Spawn(c) \/ SpawnRefused(c) \/ RaiseFlag(c) \/ CancelState(c) \/ Save(c)
             \/ (\E passed \in BOOLEAN : Probe(c, passed)) \/ Record(c)
    BY <2>4 DEF Claim, Announce, Spawn, SpawnRefused, RaiseFlag, CancelState, Save, Probe, Record
  <2> QED
    BY <1>2, <2>1, <2>2, <2>3, <2>4 DEF CommandStep
<1>3. ASSUME NEW j \in JobIds, ThreadStep(j)
      PROVE  (j \in DOMAIN jobs /\ (Finishes(j) \/ Completes(j))) \/ UNCHANGED jobs
  <2>1. CASE StoreCompleted(j)
    BY <2>1 DEF StoreCompleted, Completes, References, CarriesSummary, SummaryFits
  <2>2. CASE StoreOther(j)
    BY <2>2 DEF StoreOther, FinishRow, Finishes, References, Terminal
  <2>3. CASE \/ TryRequest(j) \/ Send(j) \/ (\E answer \in Answers : AnswerGood(j, answer)) \/ (\E retryable \in BOOLEAN : AnswerBad(j, retryable))
             \/ FinishRun(j) \/ Tell(j) \/ Release(j)
    BY <2>3 DEF TryRequest, Send, AnswerGood, AnswerBad, FinishRun, Tell, Release
  <2> QED
    BY <1>3, <2>1, <2>2, <2>3 DEF ThreadStep
<1>4. CASE ShutdownRow
  <2>1. CASE closing.job = 0
    BY <1>4, <2>1 DEF ShutdownRow
  <2>2. CASE closing.job # 0
    <3>1. closing.job \in DOMAIN jobs
      BY <2>2 DEF Types, JobsOK, ClosingOK, References
    <3> QED
      BY <1>4, <2>2, <3>1 DEF ShutdownRow, Finishes, Terminal
  <2> QED
    BY <2>1, <2>2
<1>5. CASE Shutdown \/ ShutdownLook \/ ShutdownState \/ Restart \/ UNCHANGED vars
  BY <1>5 DEF Shutdown, ShutdownLook, ShutdownState, Restart, vars
<1> QED
  BY <1>1, <1>2, <1>3, <1>4, <1>5 DEF Next, Finishes, Completes

LEMMA NewJobTyped ==
    ASSUME Types, NEW c \in Clients
    PROVE  /\ NewJob(c) \in JobRecord /\ NewJob(c).version = client[c].version
           /\ NewJob(c).accepted = client[c].accepted /\ NewJob(c).status = "pending"
           /\ NewJob(c).results = {} /\ NewJob(c).chunks = <<>> /\ NewJob(c).told = TRUE
           /\ Unread(c) \in JobRecord /\ Unread(c).version = client[c].version
           /\ Unread(c).accepted = client[c].accepted /\ Unread(c).status = "pending"
           /\ Unread(c).results = {} /\ Unread(c).chunks = <<>> /\ Unread(c).told = FALSE
<1>1. {} \in Rows /\ <<>> \in ChunkSets
  BY DEF Rows, ChunkSets
<1>2. /\ NewJob(c) \in JobRecord /\ NewJob(c).version = client[c].version
      /\ NewJob(c).accepted = client[c].accepted /\ NewJob(c).status = "pending"
      /\ NewJob(c).results = {} /\ NewJob(c).chunks = <<>> /\ NewJob(c).told = TRUE
  BY <1>1 DEF NewJob, JobRecord, Types, ClientsOK, CallRecord
<1> QED
  BY <1>2 DEF Unread, JobRecord

LEMMA JobsStep ==
    ASSUME Types, References, [Next]_vars
    PROVE  JobsOK' /\ JobsGrow
<1>1. jobs \in Seq(JobRecord) /\ Len(jobs) <= MaxJobs /\ MaxJobs \in Nat
  BY SummaryAssumption DEF Types, JobsOK
<1>2. ASSUME NEW c \in Clients, Inserts(c) \/ Leaves(c) PROVE JobsOK' /\ JobsGrow
  <2>1. PICK row \in JobRecord : jobs' = Append(jobs, row) /\ Len(jobs) < MaxJobs
    BY <1>2, NewJobTyped DEF Inserts, Leaves
  <2> QED
    BY <1>1, <2>1, AppendFacts DEF JobsOK, JobsGrow
<1>3. ASSUME NEW j \in DOMAIN jobs, Finishes(j) PROVE JobsOK' /\ JobsGrow
  <2>1. PICK status \in Terminal : jobs' = Finished(j, status)
    BY <1>3 DEF Finishes, Terminal
  <2> QED
    BY <1>1, <2>1, FinishedFacts DEF Types, JobsOK, JobsGrow
<1>4. CASE UNCHANGED jobs
  BY <1>1, <1>4 DEF JobsOK, JobsGrow
<1>5. ASSUME NEW j \in DOMAIN jobs, Completes(j) PROVE JobsOK' /\ JobsGrow
  BY <1>1, <1>5, CompletedFacts DEF Completes, Types, JobsOK, JobsGrow
<1> QED
  BY <1>2, <1>3, <1>4, <1>5, JobKinds

LEMMA JobCount ==
    ASSUME Types, References, [Next]_vars
    PROVE  /\ Len(jobs) \in Nat /\ Len(jobs') \in Nat /\ Len(jobs) <= Len(jobs')
           /\ DOMAIN jobs = 1..Len(jobs) /\ DOMAIN jobs' = 1..Len(jobs')
<1>1. JobsOK' /\ JobsGrow
  BY JobsStep
<1>2. jobs \in Seq(JobRecord) /\ jobs' \in Seq(JobRecord)
  BY <1>1 DEF Types, JobsOK
<1>3. DOMAIN jobs = 1..Len(jobs) /\ DOMAIN jobs' = 1..Len(jobs') /\ Len(jobs) \in Nat /\ Len(jobs') \in Nat
  BY <1>2
<1>4. Len(jobs) = 0 \/ Len(jobs) \in DOMAIN jobs'
  BY <1>1, <1>3 DEF JobsGrow
<1> QED
  BY <1>3, <1>4

(* The profile. *)
LEMMA ProfileStep ==
    ASSUME Types, References, [Next]_vars
    PROVE  ProfileOK' /\ ProfileGrows
<1>1. profile \in Seq(Version) /\ Len(profile) > 0
  BY DEF Types, ProfileOK
<1>2. ASSUME NEW v \in Version, profile' = Append(profile, v) PROVE ProfileOK' /\ ProfileGrows
  BY <1>1, <1>2, AppendFacts DEF ProfileOK, ProfileGrows
<1>3. CASE UNCHANGED profile
  BY <1>1, <1>3 DEF ProfileOK, ProfileGrows
<1>4. ASSUME NEW c \in Clients, Save(c) PROVE ProfileOK' /\ ProfileGrows
  <2>1. client[c].version \in DOMAIN profile /\ client[c].config \in Configs
    BY <1>4 DEF Save, References, Types, ClientsOK, CallRecord
  <2>2. profile[client[c].version] \in Version
    BY <1>1, <2>1
  <2>3. profile[client[c].version].number + 1 \in Nat
    BY <2>2 DEF Version
  <2>4. Untested(client[c].config, profile[client[c].version].number + 1) \in Version
    BY <2>1, <2>3 DEF Untested, Version
  <2> QED
    BY <1>2, <1>3, <1>4, <2>4 DEF Save
<1>5. ASSUME NEW c \in Clients, Record(c) PROVE ProfileOK' /\ ProfileGrows
  <2>1. client[c].version \in DOMAIN profile /\ client[c].pc = "record"
    BY <1>5 DEF Record, References
  <2>2. profile[client[c].version] \in Version /\ client[c].result \in {"passed", "failed"}
    BY <1>1, <2>1 DEF Types, ClientsOK, CallRecord, References
  <2>3. Tested(c) \in Version
    BY SMTT(30), <2>2 DEF Tested, Version
  <2> QED
    BY <1>2, <1>3, <1>5, <2>3 DEF Record
<1>6. (\E c \in Clients : Save(c) \/ Record(c)) \/ UNCHANGED profile
  BY ZenonT(40) DEF Next, vars, Command, Start, Retry, ReadProfile, Cancel, ReadToSave, ReadToTest,
         CommandStep, Claim, Insert, InsertUnread, Announce, Spawn, SpawnRefused, Unspawned, RaiseFlag, CancelRow, CancelRowUnread, CancelState, Probe,
         ThreadStep, TryRequest, Send, AnswerGood, AnswerBad, FinishRun, StoreCompleted, StoreOther, Tell, Release,
         Shutdown, ShutdownLook, ShutdownState, ShutdownRow, Restart
<1> QED
  BY <1>3, <1>4, <1>5, <1>6

-----------------------------------------------------------------------------
(* The threads and the commands. *)

(* Which steps write what. *)
LEMMA Writers ==
    ASSUME [Next]_vars
    PROVE  /\ (\E j \in JobIds : ThreadStep(j)) \/ (\E c \in Clients : Spawn(c)) \/ Restart \/ UNCHANGED thread
           /\ (\E c \in Clients : Command(c) \/ CommandStep(c)) \/ Restart \/ UNCHANGED client
           /\ \/ \E c \in Clients : Announce(c) \/ Unspawned(c) \/ CancelState(c)
              \/ (\E j \in JobIds : ThreadStep(j)) \/ Restart \/ UNCHANGED state
           /\ \/ \E c \in Clients : Claim(c) \/ Insert(c) \/ InsertUnread(c) \/ SpawnRefused(c)
              \/ (\E j \in JobIds : Release(j)) \/ Restart \/ UNCHANGED active
<1>1. ASSUME NEW c \in Clients, Command(c)
      PROVE  UNCHANGED <<thread, state, active>>
  BY <1>1 DEF Command, Start, Retry, ReadProfile, Cancel, ReadToSave, ReadToTest
<1>2. ASSUME NEW c \in Clients, CommandStep(c)
      PROVE  /\ Spawn(c) \/ UNCHANGED thread
             /\ Announce(c) \/ Unspawned(c) \/ CancelState(c) \/ UNCHANGED state
             /\ Claim(c) \/ Insert(c) \/ InsertUnread(c) \/ SpawnRefused(c) \/ UNCHANGED active
  BY <1>2 DEF CommandStep, Claim, Insert, InsertUnread, Announce, Spawn, SpawnRefused, Unspawned, RaiseFlag, CancelRow, CancelRowUnread, CancelState,
              Save, Probe, Record
<1>3. ASSUME NEW j \in JobIds, ThreadStep(j)
      PROVE  UNCHANGED client /\ (Release(j) \/ UNCHANGED active)
  BY <1>3 DEF ThreadStep, TryRequest, Send, AnswerGood, AnswerBad, FinishRun, StoreCompleted, StoreOther, Tell, Release
<1>4. CASE Shutdown \/ ShutdownLook \/ ShutdownState \/ ShutdownRow \/ UNCHANGED vars
  BY <1>4 DEF Shutdown, ShutdownLook, ShutdownState, ShutdownRow, vars
<1> QED
  BY <1>1, <1>2, <1>3, <1>4 DEF Next

(* A step of one thread leaves the others alone. *)
LEMMA ThreadStepTyped ==
    ASSUME Types, References, NEW j \in JobIds, ThreadStep(j)
    PROVE  /\ thread'[j] \in ThreadRecord /\ thread' = [thread EXCEPT ![j] = thread'[j]]
           /\ thread[j].pc \notin {"none", "ended"} /\ thread'[j].pc # "none"
           /\ thread'[j].pc \in {"finish", "store", "tell"} => thread'[j].outcome \in Terminal
           /\ thread'[j].config = thread[j].config \/ thread'[j].pc = "ended"
           /\ thread'[j].pc = "ended" <=> Release(j)
           /\ thread'[j].pc \in {"send", "asking"} => Chunked(jobs[j].meeting)
           /\ CarriesSummary(j)' => /\ thread'[j].answer \in Answers
                                    /\ AnswerValid(jobs[j].meeting, thread'[j].answer)
                                    /\ Chunked(jobs[j].meeting)
<1>1. thread \in [JobIds -> ThreadRecord] /\ thread[j] \in ThreadRecord
  BY DEF Types, ThreadsOK
<1>2. MaxChunks \in Nat /\ MaxRetries \in Nat /\ Seed \in Configs /\ NoAnswer \in Answers \cup {NoAnswer}
  BY SummaryAssumption, ContentAssumption
<1>3. /\ thread[j].pc \in {"finish", "store", "tell"} => thread[j].outcome \in Terminal
      /\ thread[j].pc \in {"send", "asking"} => Chunked(jobs[j].meeting)
      /\ CarriesSummary(j) => /\ thread[j].answer \in Answers
                              /\ AnswerValid(jobs[j].meeting, thread[j].answer)
                              /\ Chunked(jobs[j].meeting)
  BY DEF References, SummaryFits
<1> DEFINE Good(t) == /\ t \in ThreadRecord
                      /\ t.pc \notin {"none", "ended"}
                      /\ t.pc \in {"finish", "store", "tell"} => t.outcome \in Terminal
                      /\ t.config = thread[j].config
                      /\ t.pc \in {"send", "asking"} => Chunked(jobs[j].meeting)
                      /\ t.pc \in {"finish", "store", "tell"} /\ t.outcome = "completed" =>
                            /\ t.answer \in Answers /\ AnswerValid(jobs[j].meeting, t.answer)
                            /\ Chunked(jobs[j].meeting)
<1>4. ASSUME NEW t, Good(t), thread' = [thread EXCEPT ![j] = t], thread[j].pc \notin {"none", "ended"}, ~Release(j)
      PROVE  /\ thread'[j] \in ThreadRecord /\ thread' = [thread EXCEPT ![j] = thread'[j]]
             /\ thread[j].pc \notin {"none", "ended"} /\ thread'[j].pc # "none"
             /\ thread'[j].pc \in {"finish", "store", "tell"} => thread'[j].outcome \in Terminal
             /\ thread'[j].config = thread[j].config \/ thread'[j].pc = "ended"
             /\ thread'[j].pc = "ended" <=> Release(j)
             /\ thread'[j].pc \in {"send", "asking"} => Chunked(jobs[j].meeting)
             /\ CarriesSummary(j)' => /\ thread'[j].answer \in Answers
                                      /\ AnswerValid(jobs[j].meeting, thread'[j].answer)
                                      /\ Chunked(jobs[j].meeting)
  <2>1. thread'[j] = t
    BY <1>1, <1>4
  <2> QED
    BY <1>4, <2>1 DEF CarriesSummary
(* Every step but Release leaves a good thread. *)
<1>5. ASSUME NEW outcome \in Terminal, NEW answer \in Answers \cup {NoAnswer}, Returns(j, outcome, answer),
             outcome = "completed" => /\ answer \in Answers /\ AnswerValid(jobs[j].meeting, answer)
                                      /\ Chunked(jobs[j].meeting)
      PROVE  \E t : Good(t) /\ thread' = [thread EXCEPT ![j] = t]
  <2> DEFINE t == [thread[j] EXCEPT !.pc = "finish", !.outcome = outcome, !.answer = answer, !.item = 0, !.try = 0]
  <2>1. thread' = [thread EXCEPT ![j] = t]
    BY <1>1, <1>5 DEF Returns
  <2>4. 0 \in 0..(MaxChunks + 1) /\ 0 \in 0..(MaxRetries + 1)
    BY <1>2
  <2> HIDE DEF Good
  <2>2. /\ t \in ThreadRecord /\ t.pc = "finish" /\ t.outcome = outcome /\ t.answer = answer
        /\ t.config = thread[j].config
    BY <1>1, <2>4 DEF ThreadRecord
  <2> USE DEF Good
  <2>3. Good(t)
    <3> HIDE DEF t
    <3> QED
      BY <1>5, <2>2
  <2> QED
    BY <2>1, <2>3
<1>6. ASSUME NEW pc \in {"send", "store", "tell"}, NEW outcome \in Terminal \cup {"none"}, To(j, pc, outcome),
             pc # "send" => outcome \in Terminal, pc = "send" => Chunked(jobs[j].meeting),
             pc # "send" /\ outcome = "completed" => CarriesSummary(j)
      PROVE  \E t : Good(t) /\ thread' = [thread EXCEPT ![j] = t]
  <2> DEFINE t == [thread[j] EXCEPT !.pc = pc, !.outcome = outcome]
  <2>1. thread' = [thread EXCEPT ![j] = t]
    BY <1>1, <1>6 DEF To
  <2>2. /\ t \in ThreadRecord /\ t.pc = pc /\ t.outcome = outcome /\ t.answer = thread[j].answer
        /\ t.config = thread[j].config
    BY <1>1, <1>6 DEF ThreadRecord
  <2>3. Good(t)
    <3> HIDE DEF t
    <3> QED
      BY <1>3, <1>6, <2>2
  <2> QED
    BY <2>1, <2>3
<1>7. ASSUME TryRequest(j) PROVE \E t : Good(t) /\ thread' = [thread EXCEPT ![j] = t]
  BY <1>2, <1>5, <1>6, <1>7 DEF TryRequest, EndsWith, Terminal
<1>8. ASSUME Send(j) PROVE \E t : Good(t) /\ thread' = [thread EXCEPT ![j] = t]
  <2> DEFINE n == thread[j].late + (IF jobs[j].status = "cancelled" THEN 1 ELSE 0)
             t == [thread[j] EXCEPT !.pc = "asking", !.late = n]
  <2>1. n \in Nat
    BY <1>1 DEF ThreadRecord
  <2>2. thread' = [thread EXCEPT ![j] = t]
    BY <1>1, <1>8 DEF Send
  <2> HIDE DEF n
  <2>3. t \in ThreadRecord /\ t.pc = "asking" /\ t.config = thread[j].config
    BY <1>1, <2>1 DEF ThreadRecord
  <2>4. thread[j].pc = "send"
    BY <1>8 DEF Send
  <2>5. Good(t)
    <3> HIDE DEF t
    <3> QED
      BY <1>3, <2>3, <2>4
  <2> QED
    BY <2>2, <2>5
<1>9. ASSUME NEW answer \in Answers, AnswerGood(j, answer) PROVE \E t : Good(t) /\ thread' = [thread EXCEPT ![j] = t]
  <2>1. Chunked(jobs[j].meeting)
    BY <1>3, <1>9 DEF AnswerGood
  <2>2. ASSUME MoreItems(j), thread' = [thread EXCEPT ![j].pc = "ready", ![j].item = @ + 1, ![j].try = 1]
        PROVE  \E t : Good(t) /\ thread' = [thread EXCEPT ![j] = t]
    <3> DEFINE n == thread[j].item + 1
               t == [thread[j] EXCEPT !.pc = "ready", !.item = n, !.try = 1]
    <3>1. n \in 0..(MaxChunks + 1) /\ 1 \in 0..(MaxRetries + 1)
      BY <1>1, <1>2, <2>1, <2>2 DEF MoreItems, Chunked, ThreadRecord
    <3>2. thread' = [thread EXCEPT ![j] = t]
      BY <1>1, <2>2
    <3> HIDE DEF n
    <3>3. t \in ThreadRecord /\ t.pc = "ready" /\ t.config = thread[j].config
      BY <1>1, <3>1 DEF ThreadRecord
    <3>4. Good(t)
      <4> HIDE DEF t
      <4> QED
        BY <3>3
    <3> QED
      BY <3>2, <3>4
  <2> QED
    BY <1>2, <1>5, <1>9, <2>1, <2>2 DEF AnswerGood, EndsWith, Terminal
<1>10. ASSUME NEW retryable \in BOOLEAN, AnswerBad(j, retryable)
       PROVE  \E t : Good(t) /\ thread' = [thread EXCEPT ![j] = t]
  <2>1. ASSUME ~LastTry(j), thread' = [thread EXCEPT ![j].pc = "ready", ![j].try = @ + 1]
        PROVE  \E t : Good(t) /\ thread' = [thread EXCEPT ![j] = t]
    <3> DEFINE n == thread[j].try + 1
               t == [thread[j] EXCEPT !.pc = "ready", !.try = n]
    <3>1. n \in 0..(MaxRetries + 1)
      BY <1>1, <1>2, <2>1 DEF LastTry, ThreadRecord
    <3>2. thread' = [thread EXCEPT ![j] = t]
      BY <1>1, <2>1
    <3> HIDE DEF n
    <3>3. t \in ThreadRecord /\ t.pc = "ready" /\ t.config = thread[j].config
      BY <1>1, <3>1 DEF ThreadRecord
    <3>4. Good(t)
      <4> HIDE DEF t
      <4> QED
        BY <3>3
    <3> QED
      BY <3>2, <3>4
  <2> QED
    BY <1>2, <1>5, <1>10, <2>1 DEF AnswerBad, EndsWith, Terminal
<1>11. ASSUME FinishRun(j) PROVE \E t : Good(t) /\ thread' = [thread EXCEPT ![j] = t]
  <2> DEFINE outcome == IF thread[j].outcome = "completed" /\ cancel THEN "cancelled" ELSE thread[j].outcome
  <2>1. thread[j].pc = "finish" /\ To(j, "store", outcome)
    BY <1>11 DEF FinishRun
  <2>2. outcome \in Terminal /\ (outcome = "completed" => CarriesSummary(j))
    BY <1>3, <2>1 DEF Terminal, CarriesSummary
  <2> HIDE DEF outcome
  <2> QED
    BY <1>6, <2>1, <2>2
<1>12. ASSUME StoreCompleted(j) PROVE \E t : Good(t) /\ thread' = [thread EXCEPT ![j] = t]
  <2>1. CarriesSummary(j) /\ (To(j, "tell", "completed") \/ To(j, "store", "failed"))
    BY <1>12 DEF StoreCompleted, AfterStore, CarriesSummary
  <2> QED
    BY <1>6, <2>1 DEF Terminal
<1>13. ASSUME StoreOther(j) PROVE \E t : Good(t) /\ thread' = [thread EXCEPT ![j] = t]
  <2>1. thread[j].outcome \in Terminal /\ thread[j].outcome # "completed" /\ To(j, "tell", thread[j].outcome)
    BY <1>13 DEF StoreOther, Terminal
  <2> QED
    BY <1>6, <2>1
<1>14. ASSUME Tell(j) PROVE \E t : Good(t) /\ thread' = [thread EXCEPT ![j] = t]
  <2> DEFINE t == [thread[j] EXCEPT !.pc = "release", !.answer = NoAnswer]
  <2>1. thread' = [thread EXCEPT ![j] = t]
    BY <1>1, <1>14 DEF Tell
  <2>2. t \in ThreadRecord /\ t.pc = "release" /\ t.config = thread[j].config
    BY <1>1, <1>2 DEF ThreadRecord
  <2>3. Good(t)
    <3> HIDE DEF t
    <3> QED
      BY <2>2
  <2> QED
    BY <2>1, <2>3
<1>15. ThreadStep(j) /\ ~Release(j) => (\E t : Good(t) /\ thread' = [thread EXCEPT ![j] = t])
  BY <1>7, <1>8, <1>9, <1>10, <1>11, <1>12, <1>13, <1>14 DEF ThreadStep
<1>16. thread[j].pc \notin {"none", "ended"}
  BY DEF ThreadStep, TryRequest, Send, AnswerGood, AnswerBad, FinishRun, StoreCompleted, StoreOther, Tell, Release
<1>17. CASE ~Release(j)
  <2> HIDE DEF Good
  <2> QED
    BY <1>4, <1>15, <1>16, <1>17
<1>18. CASE Release(j)
  <2> DEFINE t == [NoThread EXCEPT !.pc = "ended"]
  <2>1. t \in ThreadRecord /\ t.pc = "ended"
    BY <1>2 DEF NoThread, ThreadRecord
  <2>2. thread' = [thread EXCEPT ![j] = t]
    BY <1>18 DEF Release
  <2> HIDE DEF t
  <2>3. thread'[j] = t
    BY <1>1, <2>2
  <2> QED
    BY <1>16, <1>18, <2>1, <2>2, <2>3 DEF CarriesSummary
<1> QED
  BY <1>17, <1>18

LEMMA ThreadsStep ==
    ASSUME Types, References, [Next]_vars
    PROVE  ThreadsOK'
<1>1. thread \in [JobIds -> ThreadRecord] /\ MaxChunks \in Nat /\ MaxRetries \in Nat /\ Seed \in Configs
  BY SummaryAssumption, ContentAssumption DEF Types, ThreadsOK
<1>2. ASSUME NEW j \in JobIds, ThreadStep(j) PROVE ThreadsOK'
  BY <1>1, <1>2, ThreadStepTyped DEF ThreadsOK
<1>3. ASSUME NEW c \in Clients, Spawn(c) PROVE ThreadsOK'
  <2>1. client[c].config \in Configs
    BY DEF Types, ClientsOK, CallRecord
  <2>2. [NoThread EXCEPT !.pc = "ready", !.config = client[c].config, !.item = 1, !.try = 1] \in ThreadRecord
    <3>1. NoThread \in ThreadRecord /\ 1 \in 0..(MaxChunks + 1) /\ 1 \in 0..(MaxRetries + 1)
      BY <1>1 DEF NoThread, ThreadRecord
    <3> QED
      BY <2>1, <3>1 DEF ThreadRecord
  <2> QED
    BY <1>1, <1>3, <2>2 DEF Spawn, ThreadsOK
<1>4. CASE Restart
  <2>1. NoThread \in ThreadRecord
    BY <1>1 DEF NoThread, ThreadRecord
  <2> QED
    BY <1>4, <2>1 DEF Restart, ThreadsOK
<1>5. CASE UNCHANGED thread
  BY <1>1, <1>5 DEF ThreadsOK
<1> QED
  BY <1>2, <1>3, <1>4, <1>5, Writers

LEMMA NoCallTyped == NoCall \in CallRecord /\ NoCall.pc = "idle"
<1>1. SomeMeeting \in Meetings
  BY SummaryAssumption DEF SomeMeeting
<1> QED
  BY <1>1, SummaryAssumption DEF NoCall, CallRecord

(* A command that begins names what it will need. *)
LEMMA CommandTyped ==
    ASSUME Types, References, NEW c \in Clients, Command(c)
    PROVE  /\ client'[c] \in CallRecord /\ client' = [client EXCEPT ![c] = client'[c]]
           /\ client[c].pc = "idle"
           /\ client'[c].pc \in {"claim", "flag", "save", "probe"}
           /\ client'[c].pc = "flag" => client'[c].job \in DOMAIN jobs
           /\ client'[c].pc \in {"claim", "save", "probe"} => client'[c].version \in DOMAIN profile
           /\ client'[c].pc \in {"claim", "probe"} => client'[c].config = profile[client'[c].version].config
           /\ client'[c].pc = "claim" => client'[c].config \in LocalConfigs \/ client'[c].accepted
<1>1. /\ client \in [Clients -> CallRecord] /\ NoCall \in CallRecord
      /\ jobs \in Seq(JobRecord) /\ profile \in Seq(Version) /\ Len(profile) > 0
  BY NoCallTyped DEF Types, ClientsOK, JobsOK, ProfileOK
<1>2. Latest \in DOMAIN profile /\ Latest \in Nat /\ profile[Latest].config \in Configs
  <2>1. Latest \in DOMAIN profile /\ Latest \in Nat
    BY <1>1 DEF Latest
  <2>2. profile[Latest] \in Version
    BY <1>1, <2>1
  <2> QED
    BY <2>1, <2>2 DEF Version
<1>3. ASSUME NEW m \in Meetings, NEW accepted \in BOOLEAN, ReadProfile(c, m, accepted)
      PROVE  /\ client'[c] \in CallRecord /\ client' = [client EXCEPT ![c] = client'[c]]
             /\ client[c].pc = "idle" /\ client'[c].pc = "claim" /\ client'[c].version = Latest
             /\ client'[c].config = profile[Latest].config
             /\ client'[c].config \in LocalConfigs \/ client'[c].accepted
  <2> DEFINE call == [NoCall EXCEPT !.pc = "claim", !.meeting = m, !.version = Latest,
                                    !.config = profile[Latest].config, !.accepted = accepted]
  <2>1. /\ call \in CallRecord /\ call.pc = "claim" /\ call.version = Latest
        /\ call.config = profile[Latest].config /\ call.accepted = accepted
    BY <1>1, <1>2 DEF NoCall, CallRecord
  <2>2. /\ client' = [client EXCEPT ![c] = call] /\ client[c].pc = "idle"
        /\ profile[Latest].config \in LocalConfigs \/ accepted
    BY <1>3 DEF ReadProfile
  <2> HIDE DEF call
  <2> QED
    BY <1>1, <2>1, <2>2
<1>4. CASE Start(c)
  BY <1>2, <1>3, <1>4 DEF Start
<1>5. ASSUME NEW j \in JobIds, Retry(c, j)
      PROVE  \E m \in Meetings, accepted \in BOOLEAN : ReadProfile(c, m, accepted)
  <2>1. j \in DOMAIN jobs
    BY <1>1, <1>5 DEF Retry, JobIds
  <2>2. jobs[j] \in JobRecord
    BY <1>1, <2>1
  <2>3. jobs[j].meeting \in Meetings
    BY <2>2 DEF JobRecord
  <2> QED
    BY <1>5, <2>3 DEF Retry
<1>6. ASSUME NEW j \in JobIds, Cancel(c, j)
      PROVE  /\ client'[c] \in CallRecord /\ client' = [client EXCEPT ![c] = client'[c]]
             /\ client[c].pc = "idle" /\ client'[c].pc = "flag" /\ client'[c].job \in DOMAIN jobs
  <2>1. j \in DOMAIN jobs /\ j \in Nat
    BY <1>1, <1>6 DEF Cancel, JobIds
  <2> QED
    BY <1>1, <1>6, <2>1 DEF Cancel, NoCall, CallRecord
<1>7. ASSUME NEW config \in Configs, ReadToSave(c, config)
      PROVE  /\ client'[c] \in CallRecord /\ client' = [client EXCEPT ![c] = client'[c]]
             /\ client[c].pc = "idle" /\ client'[c].pc = "save" /\ client'[c].version = Latest
  BY <1>1, <1>2, <1>7 DEF ReadToSave, NoCall, CallRecord
<1>8. CASE ReadToTest(c)
  BY <1>1, <1>2, <1>8 DEF ReadToTest, NoCall, CallRecord
<1> QED
  BY <1>2, <1>3, <1>4, <1>5, <1>6, <1>7, <1>8 DEF Command

(* The places a command goes through. *)
LEMMA CommandStepTyped ==
    ASSUME Types, References, NEW c \in Clients, CommandStep(c)
    PROVE  /\ client'[c] \in CallRecord /\ client' = [client EXCEPT ![c] = client'[c]]
           /\ \/ Claim(c) /\ client'[c].pc \in {"idle", "insert"}
              \/ Inserts(c) /\ client'[c].pc = "announce" /\ client'[c].job = Len(jobs) + 1
                 /\ client'[c].config = client[c].config
              \/ Insert(c) /\ UNCHANGED jobs /\ client'[c].pc = "idle"
              \/ Leaves(c) /\ client'[c].pc = "idle"
              \/ Announce(c) /\ client'[c].pc = "spawn"
              \/ SpawnRefused(c) /\ client'[c].pc = "unspawned"
              \/ RaiseFlag(c) /\ client'[c].pc = "row"
              \/ CancelRow(c) /\ client'[c].pc \in {"idle", "state"}
              \/ CancelRowUnread(c) /\ client'[c].pc = "idle"
              \/ (\E passed \in BOOLEAN : Probe(c, passed)) /\ client'[c].pc = "record"
                   /\ client'[c].result # "none"
              \/ Spawn(c) /\ client'[c].pc = "idle"
              \/ Unspawned(c) /\ client'[c].pc = "idle"
              \/ (CancelState(c) \/ Save(c) \/ Record(c)) /\ client'[c].pc = "idle"
           /\ client'[c].pc \in {"insert", "record"} =>
                /\ client'[c].version = client[c].version /\ client'[c].config = client[c].config
                /\ client'[c].accepted = client[c].accepted
           /\ client'[c].pc \in {"spawn", "unspawned", "row", "state"} =>
                client'[c].job = client[c].job /\ client'[c].config = client[c].config
<1>1. /\ client \in [Clients -> CallRecord] /\ client[c] \in CallRecord /\ NoCall \in CallRecord /\ NoCall.pc = "idle"
      /\ Len(jobs) \in Nat
  BY NoCallTyped DEF Types, ClientsOK, JobsOK
<1>2. CASE Claim(c)
  BY <1>1, <1>2 DEF Claim, CallRecord
<1>3. CASE Insert(c)
  <2>1. CASE /\ Len(jobs) < MaxJobs /\ jobs' = Append(jobs, NewJob(c))
             /\ client' = [client EXCEPT ![c].pc = "announce", ![c].job = Len(jobs) + 1]
    <3> DEFINE n == Len(jobs) + 1
    <3>0. n \in Nat
      BY <1>1
    <3>1. client' = [client EXCEPT ![c].pc = "announce", ![c].job = n]
      BY <2>1
    <3> HIDE DEF n
    <3>2. /\ client' \in [Clients -> CallRecord] /\ \A d \in Clients : d # c => client'[d] = client[d]
          /\ client'[c].pc = "announce" /\ client'[c].job = n /\ client'[c].config = client[c].config
      BY <1>1, <3>0, <3>1 DEF CallRecord
    <3>3. client' = [client EXCEPT ![c] = client'[c]] /\ client'[c] \in CallRecord
      BY <1>1, <3>2
    <3>4. Inserts(c)
      BY <1>3, <2>1 DEF Inserts
    <3> QED
      BY <3>1, <3>2, <3>3, <3>4 DEF n
  <2>2. CASE client' = [client EXCEPT ![c] = NoCall] /\ UNCHANGED jobs
    BY <1>1, <1>3, <2>2
  <2> QED
    BY <1>3, <2>1, <2>2 DEF Insert
<1>4. CASE Announce(c)
  BY <1>1, <1>4 DEF Announce, CallRecord
<1>5. CASE SpawnRefused(c)
  BY <1>1, <1>5 DEF SpawnRefused, CallRecord
<1>6. CASE RaiseFlag(c)
  BY <1>1, <1>6 DEF RaiseFlag, CallRecord
<1>7. CASE CancelRow(c)
  <2>1. CASE client' = [client EXCEPT ![c].pc = "state"]
    BY <1>1, <1>7, <2>1 DEF CallRecord
  <2>2. CASE client' = [client EXCEPT ![c] = NoCall]
    BY <1>1, <1>7, <2>2
  <2> QED
    BY <1>7, <2>1, <2>2 DEF CancelRow
<1>8. ASSUME NEW passed \in BOOLEAN, Probe(c, passed)
      PROVE  /\ client'[c] \in CallRecord /\ client' = [client EXCEPT ![c] = client'[c]]
             /\ client'[c].pc = "record" /\ client'[c].result # "none"
             /\ client'[c].version = client[c].version /\ client'[c].config = client[c].config
             /\ client'[c].accepted = client[c].accepted
  BY <1>1, <1>8 DEF Probe, CallRecord
<1>9. CASE Spawn(c) \/ Unspawned(c) \/ CancelState(c) \/ CancelRowUnread(c) \/ Save(c) \/ Record(c)
  BY <1>1, <1>9 DEF Spawn, Unspawned, CancelState, CancelRowUnread, Save, Record
<1>10. CASE InsertUnread(c)
  <2>1. Leaves(c)
    BY <1>10 DEF InsertUnread, Leaves, Unread
  <2>2. client' = [client EXCEPT ![c] = NoCall]
    BY <1>10 DEF InsertUnread
  <2> QED
    BY <1>1, <2>1, <2>2
<1> QED
  BY <1>2, <1>3, <1>4, <1>5, <1>6, <1>7, <1>8, <1>9, <1>10 DEF CommandStep

LEMMA ClientsStep ==
    ASSUME Types, References, [Next]_vars
    PROVE  ClientsOK'
<1>1. client \in [Clients -> CallRecord]
  BY DEF Types, ClientsOK
<1>2. ASSUME NEW c \in Clients, Command(c) \/ CommandStep(c) PROVE ClientsOK'
  BY <1>1, <1>2, CommandTyped, CommandStepTyped DEF ClientsOK
<1>3. CASE Restart
  BY <1>3, NoCallTyped DEF Restart, ClientsOK
<1>4. CASE UNCHANGED client
  BY <1>1, <1>4 DEF ClientsOK
<1> QED
  BY <1>2, <1>3, <1>4, Writers

(* The announced state, the flags and the shutdown. *)
LEMMA StateStep ==
    ASSUME Types, References, [Next]_vars
    PROVE  StateOK' /\ state'.job <= Len(jobs')
<1>1. /\ state \in [job : Nat, status : Statuses, result : Shown] /\ state.job <= Len(jobs) /\ jobs \in Seq(JobRecord)
      /\ Len(jobs) \in Nat /\ Len(jobs') \in Nat /\ Len(jobs) <= Len(jobs')
  BY JobCount DEF Types, JobsOK, StateOK, References
<1>2. ASSUME NEW status \in Statuses, NEW result \in Shown,
             \/ state' = state \/ state' = [state EXCEPT !.status = status]
             \/ state' = [state EXCEPT !.status = status, !.result = result]
      PROVE  StateOK' /\ state'.job <= Len(jobs')
  <2>1. CASE state' = state
    BY <1>1, <2>1 DEF StateOK
  <2>2. CASE state' = [state EXCEPT !.status = status]
    BY <1>1, <2>2 DEF StateOK
  <2>3. CASE state' = [state EXCEPT !.status = status, !.result = result]
    <3> HIDE DEF Shown
    <3>1. state'.job = state.job /\ state'.status = status /\ state'.result = result
      BY <1>1, <2>3
    <3>2. state' \in [job : Nat, status : Statuses, result : Shown]
      BY <1>1, <2>3
    <3> QED
      BY <1>1, <3>1, <3>2 DEF StateOK
  <2> QED
    BY <1>2, <2>1, <2>2, <2>3
<1>9. {} \in Shown
  BY DEF Shown
<1>3. ASSUME NEW c \in Clients, Announce(c) PROVE StateOK' /\ state'.job <= Len(jobs')
  <2>1. client[c].job \in DOMAIN jobs
    BY <1>3 DEF Announce, References
  <2>2. client[c].job \in Nat /\ client[c].job <= Len(jobs)
    BY <1>1, <2>1
  <2> QED
    BY <1>1, <1>3, <1>9, <2>2 DEF Announce, StateOK, Statuses
<1>4. ASSUME NEW c \in Clients, Unspawned(c) PROVE StateOK' /\ state'.job <= Len(jobs')
  BY <1>2, <1>4, <1>9 DEF Unspawned, Statuses, Terminal
<1>5. ASSUME NEW c \in Clients, CancelState(c) PROVE StateOK' /\ state'.job <= Len(jobs')
  BY <1>2, <1>5, <1>9 DEF CancelState, Announced, Statuses, Terminal
<1>6. ASSUME NEW j \in JobIds, ThreadStep(j) PROVE StateOK' /\ state'.job <= Len(jobs')
  <2>1. ASSUME NEW status \in Statuses, Progress(j, status) PROVE StateOK' /\ state'.job <= Len(jobs')
    BY <1>2, <1>9, <2>1 DEF Progress
  <2>2. CASE TryRequest(j) \/ (\E answer \in Answers : AnswerGood(j, answer)) \/ \E retryable \in BOOLEAN : AnswerBad(j, retryable)
    <3>1. Stage(j) \in Statuses /\ {"cancelled", "completed", "failed"} \subseteq Statuses
      BY DEF Stage, Statuses, Terminal
    <3>2. (\E status \in Statuses : Progress(j, status)) \/ UNCHANGED state
      BY <2>2, <3>1 DEF TryRequest, AnswerGood, AnswerBad, EndsWith
    <3> QED
      BY <1>1, <2>1, <3>2 DEF StateOK
  <2>3. CASE Tell(j)
    <3> DEFINE result == IF thread[j].outcome = "completed" THEN ShownFromAnswer(thread[j].answer) ELSE {}
    <3>1. thread[j].outcome \in Statuses /\ result \in Shown
      BY <1>9, <2>3 DEF Tell, References, Statuses, CarriesSummary, SummaryFits, Shown
    <3>2. state' = [state EXCEPT !.status = thread[j].outcome, !.result = result]
      BY <2>3 DEF Tell
    <3> HIDE DEF result
    <3> QED
      BY <1>2, <3>1, <3>2
  <2>4. CASE Send(j) \/ FinishRun(j) \/ StoreCompleted(j) \/ StoreOther(j) \/ Release(j)
    <3>1. UNCHANGED state
      BY <2>4 DEF Send, FinishRun, StoreCompleted, StoreOther, Release
    <3> QED
      BY <1>1, <3>1 DEF StateOK
  <2> QED
    BY <1>6, <2>2, <2>3, <2>4 DEF ThreadStep
<1>7. CASE Restart
  BY <1>1, <1>7, <1>9 DEF Restart, Nobody, StateOK, Statuses
<1>8. CASE UNCHANGED state
  BY <1>1, <1>8 DEF StateOK
<1> QED
  BY <1>3, <1>4, <1>5, <1>6, <1>7, <1>8, Writers

LEMMA FlagsStep ==
    ASSUME Types, References, [Next]_vars
    PROVE  FlagsOK' /\ ClosingOK' /\ closing'.job <= Len(jobs')
<1>1. /\ active \in BOOLEAN /\ cancel \in BOOLEAN
      /\ closing \in [pc : {"no", "look", "state", "row", "done"}, job : Nat, spared : SUBSET JobIds]
      /\ closing.job <= Len(jobs)
      /\ state \in [job : Nat, status : Statuses, result : Shown] /\ state.job <= Len(jobs)
  BY DEF Types, FlagsOK, ClosingOK, StateOK, References
<1>2. Len(jobs) \in Nat /\ Len(jobs') \in Nat /\ Len(jobs) <= Len(jobs')
  BY JobCount
<1>3. active' \in BOOLEAN
  <2>1. CASE \E c \in Clients : Claim(c) \/ Insert(c) \/ InsertUnread(c) \/ SpawnRefused(c)
    BY <1>1, <2>1 DEF Claim, Insert, InsertUnread, SpawnRefused
  <2>2. CASE (\E j \in JobIds : Release(j)) \/ Restart \/ UNCHANGED active
    BY <1>1, <2>2 DEF Release, Restart
  <2> QED
    BY <2>1, <2>2, Writers
<1>4. /\ cancel' \in BOOLEAN
      /\ \/ Shutdown \/ ShutdownLook \/ ShutdownState \/ ShutdownRow \/ Restart \/ UNCHANGED closing
         \/ \E inserted \in SUBSET JobIds : closing' = [closing EXCEPT !.spared = @ \cup inserted]
  <2>1. ASSUME NEW c \in Clients, Command(c) PROVE UNCHANGED <<cancel, closing>>
    BY <2>1 DEF Command, Start, Retry, ReadProfile, Cancel, ReadToSave, ReadToTest
  <2>2. ASSUME NEW c \in Clients, CommandStep(c)
        PROVE  /\ cancel' \in BOOLEAN
               /\ \/ UNCHANGED closing
                  \/ \E inserted \in SUBSET JobIds : closing' = [closing EXCEPT !.spared = @ \cup inserted]
    <3>1. CASE Insert(c) \/ InsertUnread(c)
      <4>1. Len(jobs) < MaxJobs => Len(jobs) + 1 \in JobIds
        BY <1>2, SummaryAssumption DEF JobIds
      <4>2. PICK inserted \in SUBSET JobIds : LowerFlag(inserted)
        BY <3>1, <4>1 DEF Insert, InsertUnread
      <4> QED
        BY <4>2 DEF LowerFlag
    <3>2. CASE ~Insert(c) /\ ~InsertUnread(c)
      BY <1>1, <2>2, <3>2 DEF CommandStep, Claim, Announce, Spawn, SpawnRefused, Unspawned, RaiseFlag, CancelRow,
         CancelRowUnread, CancelState, Save, Probe, Record
    <3> QED
      BY <3>1, <3>2
  <2>3. ASSUME NEW j \in JobIds, ThreadStep(j) PROVE UNCHANGED <<cancel, closing>>
    BY <2>3 DEF ThreadStep, TryRequest, Send, AnswerGood, AnswerBad, FinishRun, StoreCompleted, StoreOther, Tell,
                Release
  <2>4. CASE Shutdown \/ ShutdownLook \/ ShutdownState \/ ShutdownRow \/ Restart \/ UNCHANGED vars
    BY <1>1, <2>4 DEF Shutdown, ShutdownLook, ShutdownState, ShutdownRow, Restart, vars
  <2> QED
    BY <1>1, <2>1, <2>2, <2>3, <2>4 DEF Next
<1>5. ClosingOK' /\ closing'.job <= Len(jobs')
  <2>1. CASE Shutdown \/ ShutdownLook \/ ShutdownRow
    BY <1>1, <1>2, <2>1 DEF Shutdown, ShutdownLook, ShutdownRow, ClosingOK
  <2>2. CASE ShutdownState
    BY <1>1, <1>2, <2>2 DEF ShutdownState, ClosingOK
  <2>3. CASE Restart
    BY <1>1, <1>2, <2>3 DEF Restart, Idle, ClosingOK
  <2>4. CASE UNCHANGED closing
    BY <1>1, <1>2, <2>4 DEF ClosingOK
  <2>5. ASSUME NEW inserted \in SUBSET JobIds, closing' = [closing EXCEPT !.spared = @ \cup inserted]
        PROVE  ClosingOK' /\ closing'.job <= Len(jobs')
    BY <1>1, <1>2, <2>5 DEF ClosingOK
  <2> QED
    BY <1>4, <2>1, <2>2, <2>3, <2>4, <2>5
<1> QED
  BY <1>3, <1>4, <1>5 DEF FlagsOK

LEMMA TypesStep ==
    ASSUME Types, References, [Next]_vars
    PROVE  Types'
  BY JobsStep, ProfileStep, FlagsStep, StateStep, ThreadsStep, ClientsStep DEF Types

LEMMA ReferencesStep ==
    ASSUME Types, References, [Next]_vars
    PROVE  References'
<1>1. /\ JobsGrow /\ ProfileGrows /\ \A j \in DOMAIN jobs : j \in DOMAIN jobs'
      /\ jobs \in Seq(JobRecord) /\ jobs' \in Seq(JobRecord) /\ DOMAIN jobs = 1..Len(jobs)
      /\ Len(jobs) \in Nat
  BY JobsStep, ProfileStep, JobCount DEF JobsGrow, Types, JobsOK
<1>2. ASSUME NEW c \in Clients, Inserts(c) \/ Leaves(c)
      PROVE  /\ DOMAIN jobs' = 1..(Len(jobs) + 1) /\ jobs'[Len(jobs) + 1].version \in DOMAIN profile
  <2>1. PICK row \in JobRecord : jobs' = Append(jobs, row) /\ row.version \in DOMAIN profile
    BY <1>2, NewJobTyped DEF Inserts, Leaves, Insert, InsertUnread, References
  <2> QED
    BY <1>1, <2>1, AppendFacts
<1>3. ASSUME NEW j \in DOMAIN jobs' PROVE jobs'[j].version \in DOMAIN profile'
  <2>1. CASE j \in DOMAIN jobs
    BY <1>1, <2>1 DEF JobsGrow, ProfileGrows, References
  <2>2. ASSUME NEW c \in Clients, Inserts(c) \/ Leaves(c), j \notin DOMAIN jobs PROVE jobs'[j].version \in DOMAIN profile'
    <3>1. j = Len(jobs) + 1
      BY <1>1, <1>2, <2>2
    <3> QED
      BY <1>1, <1>2, <2>2, <3>1 DEF ProfileGrows
  <2>3. ASSUME NEW i \in DOMAIN jobs, Finishes(i) \/ Completes(i) PROVE DOMAIN jobs' = DOMAIN jobs
    BY <2>3, FinishedFacts, CompletedFacts DEF Finishes, Completes, Types, Terminal
  <2> QED
    BY <2>1, <2>2, <2>3, JobKinds
<1>4. ASSUME NEW j \in JobIds
      PROVE  /\ thread'[j].pc # "none" => j \in DOMAIN jobs'
             /\ thread'[j].pc \in {"finish", "store", "tell"} => thread'[j].outcome \in Terminal
             /\ thread'[j].pc \in {"send", "asking"} => Chunked(jobs'[j].meeting)
             /\ CarriesSummary(j)' => SummaryFits(j)'
  <2>1. thread \in [JobIds -> ThreadRecord]
    BY DEF Types, ThreadsOK
  <2>2. CASE thread'[j] = thread[j]
    BY <1>1, <2>2 DEF References, JobsGrow, CarriesSummary, SummaryFits
  <2>3. ASSUME NEW i \in JobIds, ThreadStep(i) PROVE thread'[j] = thread[j] \/ j = i
    BY <2>1, <2>3, ThreadStepTyped
  <2>4. CASE ThreadStep(j)
    <3>1. j \in DOMAIN jobs /\ jobs'[j].meeting = jobs[j].meeting
      BY <1>1, <2>4, ThreadStepTyped DEF References, JobsGrow
    <3> QED
      BY <1>1, <2>4, <3>1, ThreadStepTyped DEF SummaryFits
  <2>5. ASSUME NEW c \in Clients, Spawn(c)
        PROVE  \/ thread'[j] = thread[j]
               \/ j = client[c].job /\ j \in DOMAIN jobs /\ thread'[j].pc = "ready"
    BY <2>1, <2>5 DEF Spawn, References, NoThread
  <2>6. CASE Restart
    BY <2>6 DEF Restart, NoThread, CarriesSummary
  <2> QED
    BY <1>1, <2>2, <2>3, <2>4, <2>5, <2>6, Writers DEF CarriesSummary
<1>5. ASSUME NEW d \in Clients
      PROVE  /\ client'[d].pc \in {"announce", "spawn", "unspawned", "flag", "row", "state"} =>
                  client'[d].job \in DOMAIN jobs'
             /\ client'[d].pc \in {"claim", "insert", "save", "probe", "record"} =>
                  client'[d].version \in DOMAIN profile'
             /\ client'[d].pc = "record" => client'[d].result # "none"
  <2>1. client \in [Clients -> CallRecord]
    BY DEF Types, ClientsOK
  <2>2. CASE client'[d] = client[d]
    BY <1>1, <2>2 DEF References, ProfileGrows
  <2>3. ASSUME NEW c \in Clients, Command(c) \/ CommandStep(c) PROVE client'[d] = client[d] \/ d = c
    BY <2>1, <2>3, CommandTyped, CommandStepTyped
  <2>4. CASE Command(d)
    <3>1. /\ client'[d].pc \in {"claim", "flag", "save", "probe"}
          /\ client'[d].pc = "flag" => client'[d].job \in DOMAIN jobs
          /\ client'[d].pc \in {"claim", "save", "probe"} => client'[d].version \in DOMAIN profile
      BY <2>4, CommandTyped
    <3> QED
      BY <1>1, <3>1 DEF ProfileGrows
  <2>5. CASE CommandStep(d)
    <3>1. CASE client'[d].pc \in {"insert", "record"}
      <4>1. /\ client'[d].version = client[d].version /\ client[d].pc \in {"claim", "probe"}
            /\ client'[d].pc = "record" => client'[d].result # "none"
        BY <2>5, <3>1, CommandStepTyped DEF Claim, Probe
      <4> QED
        BY <1>1, <3>1, <4>1 DEF References, ProfileGrows
    <3>2. CASE client'[d].pc \in {"spawn", "unspawned", "row", "state"}
      <4>1. client'[d].job = client[d].job /\ client[d].pc \in {"announce", "spawn", "flag", "row"}
        BY <2>5, <3>2, CommandStepTyped DEF Announce, SpawnRefused, RaiseFlag, CancelRow
      <4> QED
        BY <1>1, <3>2, <4>1 DEF References
    <3>3. CASE client'[d].pc = "announce"
      <4>1. Inserts(d) /\ client'[d].job = Len(jobs) + 1
        BY <2>5, <3>3, CommandStepTyped
      <4> QED
        BY <1>1, <1>2, <3>3, <4>1
    <3>4. client'[d].pc \in {"idle", "insert", "announce", "spawn", "unspawned", "row", "state", "record"}
      BY <2>5, CommandStepTyped
    <3> QED
      BY <3>1, <3>2, <3>3, <3>4
  <2>6. CASE Restart
    BY <2>6 DEF Restart, NoCall
  <2> QED
    BY <2>2, <2>3, <2>4, <2>5, <2>6, Writers
<1> QED
  BY <1>3, <1>4, <1>5, StateStep, FlagsStep DEF References

-----------------------------------------------------------------------------
(* One at a time. *)

LEMMA ExclusiveStep ==
    ASSUME Types, References, Exclusive, [Next]_vars
    PROVE  Exclusive'
<1>1. client \in [Clients -> CallRecord] /\ thread \in [JobIds -> ThreadRecord] /\ active \in BOOLEAN
  BY DEF Types, ClientsOK, ThreadsOK, FlagsOK
<1>2. ASSUME UNCHANGED active, \A c \in Clients : Starting(c)' <=> Starting(c),
             \A j \in JobIds : Running(j)' <=> Running(j)
      PROVE  Exclusive'
  BY <1>2 DEF Exclusive, BusyAre
<1>3. ASSUME NEW c \in Clients, Command(c) PROVE Exclusive'
  <2>1. UNCHANGED <<active, thread>>
    BY <1>3 DEF Command, Start, Retry, ReadProfile, Cancel, ReadToSave, ReadToTest
  <2>2. \A d \in Clients : Starting(d)' <=> Starting(d)
    BY <1>1, <1>3, CommandTyped DEF Starting
  <2> QED
    BY ZenonT(40), <1>2, <2>1, <2>2 DEF Running
<1>4. ASSUME NEW c \in Clients, CommandStep(c) PROVE Exclusive'
  <2>1. \A d \in Clients : d # c => (Starting(d)' <=> Starting(d))
    BY <1>1, <1>4, CommandStepTyped DEF Starting
  <2>2. CASE UNCHANGED <<active, thread>> /\ (Starting(c)' <=> Starting(c))
    BY <1>2, <2>1, <2>2 DEF Running
  <2>3. CASE Claim(c)
    <3>1. UNCHANGED thread /\ active' = TRUE /\ ~Starting(c)
      BY <2>3 DEF Claim, Starting
    <3>2. CASE active
      <4>1. ~Starting(c)'
        BY <1>1, <2>3, <3>2 DEF Claim, Starting, NoCall
      <4> QED
        BY <2>2, <3>1, <3>2, <4>1
    <3>3. CASE ~active
      <4>1. Starting(c)'
        BY <1>1, <2>3, <3>3 DEF Claim, Starting
      <4>2. (\A d \in Clients : Starting(d)' <=> d \in {c}) /\ \A j \in JobIds : Running(j)' <=> j \in {}
        BY <2>1, <3>1, <3>3, <4>1 DEF Exclusive, BusyAre, Running
      <4> QED
        BY <3>1, <4>2 DEF Exclusive, BusyAre
    <3> QED
      BY <3>2, <3>3
  <2>4. CASE Insert(c)
    <3>1. UNCHANGED thread /\ Starting(c)
      BY <2>4 DEF Insert, Starting
    <3>2. CASE client' = [client EXCEPT ![c].pc = "announce", ![c].job = Len(jobs) + 1] /\ UNCHANGED active
      <4>1. Starting(c)'
        BY <1>1, <3>2 DEF Starting, CallRecord
      <4> QED
        BY <2>2, <3>1, <3>2, <4>1
    <3>3. CASE client' = [client EXCEPT ![c] = NoCall] /\ active' = FALSE
      <4>1. ~Starting(c)'
        BY <1>1, <3>3 DEF Starting, NoCall
      <4>2. (\A d \in Clients : Starting(d)' <=> d \in {}) /\ \A j \in JobIds : Running(j)' <=> j \in {}
        BY <2>1, <3>1, <4>1 DEF Exclusive, BusyAre, Running
      <4> QED
        BY <3>3, <4>2 DEF Exclusive, BusyAre
    <3> QED
      BY <2>4, <3>2, <3>3 DEF Insert
  <2>9. CASE InsertUnread(c)
    <3>1. UNCHANGED thread /\ active' = FALSE /\ Starting(c) /\ ~Starting(c)'
      BY <1>1, <2>9 DEF InsertUnread, Starting, NoCall
    <3>2. (\A d \in Clients : Starting(d)' <=> d \in {}) /\ \A i \in JobIds : Running(i)' <=> i \in {}
      BY <2>1, <3>1 DEF Exclusive, BusyAre, Running
    <3> QED
      BY <3>1, <3>2 DEF Exclusive, BusyAre
  <2>5. CASE Announce(c)
    <3>1. UNCHANGED <<active, thread>> /\ Starting(c) /\ Starting(c)'
      BY <1>1, <2>5 DEF Announce, Starting
    <3> QED
      BY <2>2, <3>1
  <2>6. CASE Spawn(c)
    <3>1. PICK j \in JobIds : j = client[c].job
      <4>1. client[c].job \in DOMAIN jobs
        BY <2>6 DEF Spawn, References
      <4> QED
        BY <4>1, SummaryAssumption DEF Types, JobsOK, JobIds
    <3>2. /\ UNCHANGED active /\ Starting(c) /\ ~Starting(c)'
      BY <1>1, <2>6 DEF Spawn, Starting, NoCall
    <3>3. Running(j)' /\ \A i \in JobIds : i # j => (Running(i)' <=> Running(i))
      <4>1. PICK x : x.pc = "ready" /\ thread' = [thread EXCEPT ![j] = x]
        <5>1. [NoThread EXCEPT !.pc = "ready", !.config = client[c].config, !.item = 1, !.try = 1].pc = "ready"
          BY DEF NoThread
        <5> QED
          BY <2>6, <3>1, <5>1 DEF Spawn
      <4> QED
        BY <1>1, <3>1, <4>1 DEF Running
    <3>4. active /\ (\A d \in Clients : Starting(d) => d = c) /\ \A i \in JobIds : ~Running(i)
      BY <3>2 DEF Exclusive, BusyAre
    <3>5. (\A d \in Clients : ~Starting(d)') /\ \A i \in JobIds : Running(i)' <=> i = j
      BY <2>1, <3>2, <3>3, <3>4
    <3> QED
      BY <3>1, <3>2, <3>4, <3>5 DEF Exclusive, BusyAre
  <2>7. CASE SpawnRefused(c)
    <3>1. UNCHANGED thread /\ active' = FALSE /\ Starting(c) /\ ~Starting(c)'
      BY <1>1, <2>7 DEF SpawnRefused, Starting
    <3>2. (\A d \in Clients : Starting(d)' <=> d \in {}) /\ \A i \in JobIds : Running(i)' <=> i \in {}
      BY <2>1, <3>1 DEF Exclusive, BusyAre, Running
    <3> QED
      BY <3>1, <3>2 DEF Exclusive, BusyAre
  <2>8. CASE \/ Unspawned(c) \/ RaiseFlag(c) \/ CancelRow(c) \/ CancelRowUnread(c) \/ CancelState(c) \/ Save(c) \/ Record(c)
             \/ \E passed \in BOOLEAN : Probe(c, passed)
    <3>1. UNCHANGED <<active, thread>> /\ ~Starting(c)
      BY ZenonT(40), <2>8 DEF Unspawned, RaiseFlag, CancelRow, CancelRowUnread, CancelState, Save, Record, Probe, Starting
    <3>2. ~Starting(c)'
      BY <1>4, <2>8, CommandStepTyped DEF Starting, Claim, Inserts, Leaves, Insert, InsertUnread, Announce, SpawnRefused, Spawn, Unspawned,
         RaiseFlag, CancelRow, CancelRowUnread, CancelState, Save, Record, Probe
    <3> QED
      BY <2>2, <3>1, <3>2
  <2> QED
    BY <1>4, <2>3, <2>4, <2>5, <2>6, <2>7, <2>8, <2>9 DEF CommandStep
<1>5. ASSUME NEW j \in JobIds, ThreadStep(j) PROVE Exclusive'
  <2>1. UNCHANGED client /\ Running(j) /\ \A i \in JobIds : i # j => (Running(i)' <=> Running(i))
    <3>1. UNCHANGED client
      BY <1>5 DEF ThreadStep, TryRequest, Send, AnswerGood, AnswerBad, FinishRun, StoreCompleted, StoreOther, Tell,
                  Release
    <3> QED
      BY <1>1, <1>5, <3>1, ThreadStepTyped DEF Running
  <2>2. CASE Release(j)
    <3>1. active' = FALSE /\ ~Running(j)'
      BY <1>5, <2>2, ThreadStepTyped DEF Release, Running
    <3>2. (\A d \in Clients : Starting(d)' <=> d \in {}) /\ \A i \in JobIds : Running(i)' <=> i \in {}
      BY <2>1, <3>1 DEF Exclusive, BusyAre, Starting
    <3> QED
      BY <3>1, <3>2 DEF Exclusive, BusyAre
  <2>3. CASE ~Release(j)
    <3>1. UNCHANGED active
      BY <1>5, <2>3 DEF ThreadStep, TryRequest, Send, AnswerGood, AnswerBad, FinishRun, StoreCompleted, StoreOther, Tell
    <3>2. Running(j)'
      BY <1>5, <2>3, ThreadStepTyped DEF Running
    <3> QED
      BY <1>2, <2>1, <3>1, <3>2 DEF Starting
  <2> QED
    BY <2>2, <2>3
<1>6. CASE Restart
  <2>1. active' = FALSE /\ (\A c \in Clients : ~Starting(c)') /\ \A j \in JobIds : ~Running(j)'
    BY <1>6 DEF Restart, Starting, Running, NoCall, NoThread
  <2> QED
    BY <2>1 DEF Exclusive, BusyAre
<1>7. CASE Shutdown \/ ShutdownLook \/ ShutdownState \/ ShutdownRow \/ UNCHANGED vars
  <2>1. UNCHANGED <<active, client, thread>>
    BY <1>7 DEF Shutdown, ShutdownLook, ShutdownState, ShutdownRow, vars
  <2> QED
    BY <1>2, <2>1 DEF Starting, Running
<1> QED
  BY <1>3, <1>4, <1>5, <1>6, <1>7 DEF Next

(* The predicate in the words of the runs. *)
LEMMA ExclusiveCounts ==
    ASSUME Exclusive, active \in BOOLEAN
    PROVE  OneJobAtATime
<1> DEFINE busy == {<<"start", c>> : c \in {x \in Clients : Starting(x)}}
                     \cup {<<"run", j>> : j \in {x \in JobIds : Running(x)}}
<1>1. ASSUME NEW c \in Clients, BusyAre({c}, {}) PROVE busy = {<<"start", c>>}
  BY <1>1 DEF BusyAre
<1>2. ASSUME NEW j \in JobIds, BusyAre({}, {j}) PROVE busy = {<<"run", j>>}
  BY <1>2 DEF BusyAre
<1>3. ASSUME BusyAre({}, {}) PROVE busy = {}
  BY <1>3 DEF BusyAre
<1>4. Cardinality(busy) = IF active THEN 1 ELSE 0
  BY Zenon, <1>1, <1>2, <1>3, FS_Singleton, FS_EmptySet DEF Exclusive
<1> QED
  BY <1>4 DEF OneJobAtATime

-----------------------------------------------------------------------------
(* Pending jobs. *)

LEMMA OrphansStay ==
    ASSUME [Next]_vars, ~Restart
    PROVE  orphans \subseteq orphans'
<1>1. ASSUME NEW c \in Clients, Command(c) PROVE UNCHANGED orphans
  BY <1>1 DEF Command, Start, Retry, ReadProfile, Cancel, ReadToSave, ReadToTest
<1>2. ASSUME NEW c \in Clients, CommandStep(c) PROVE orphans \subseteq orphans'
  BY <1>2 DEF CommandStep, Claim, Insert, InsertUnread, Announce, Spawn, SpawnRefused, Unspawned, FinishRow, RaiseFlag, CancelRow, CancelRowUnread,
              CancelState, Save, Probe, Record
<1>3. ASSUME NEW j \in JobIds, ThreadStep(j) PROVE orphans \subseteq orphans'
  BY <1>3 DEF ThreadStep, TryRequest, Send, AnswerGood, AnswerBad, FinishRun, StoreCompleted, StoreOther, FinishRow,
              Tell, Release
<1>4. CASE Shutdown \/ ShutdownLook \/ ShutdownState \/ ShutdownRow \/ UNCHANGED vars
  BY <1>4 DEF Shutdown, ShutdownLook, ShutdownState, ShutdownRow, vars
<1> QED
  BY <1>1, <1>2, <1>3, <1>4 DEF Next

(* A job whose outcome was sent to storage. *)
LEMMA FinishRowFacts ==
    ASSUME JobsOK, NEW j \in DOMAIN jobs, NEW status \in Terminal, FinishRow(j, status)
    PROVE  jobs'[j].status # "pending" \/ j \in orphans'
  BY FinishedFacts DEF FinishRow

(* Where a thread goes. *)
LEMMA ToFacts ==
    ASSUME ThreadsOK, NEW j \in JobIds, NEW pc, NEW outcome, To(j, pc, outcome)
    PROVE  thread'[j].pc = pc
<1>1. thread \in [JobIds -> ThreadRecord] /\ thread' = [thread EXCEPT ![j].pc = pc, ![j].outcome = outcome]
  BY DEF ThreadsOK, To
<1> QED
  BY <1>1 DEF ThreadRecord

LEMMA SettledStep ==
    ASSUME Types, References, StoredIsSettled, [Next]_vars
    PROVE  StoredIsSettled'
<1>1. /\ thread \in [JobIds -> ThreadRecord] /\ JobsOK /\ JobsGrow
  BY JobsStep DEF Types, ThreadsOK
<1>2. CASE Restart
  BY <1>2 DEF Restart, NoThread, StoredIsSettled
<1> SUFFICES ASSUME ~Restart, NEW j \in JobIds, thread'[j].pc \in {"tell", "release", "ended"}
             PROVE  jobs'[j].status # "pending" \/ j \in orphans'
  BY <1>2 DEF StoredIsSettled
<1>3. CASE thread[j].pc \in {"tell", "release", "ended"}
  <2>1. j \in DOMAIN jobs /\ (jobs[j].status # "pending" \/ j \in orphans)
    BY <1>3 DEF References, StoredIsSettled
  <2> QED
    BY <1>1, <2>1, OrphansStay DEF JobsGrow
<1>4. CASE thread[j].pc \notin {"tell", "release", "ended"}
  <2>1. ThreadStep(j)
    <3>1. ASSUME NEW i \in JobIds, ThreadStep(i) PROVE i = j
      BY <1>1, <1>4, <3>1, ThreadStepTyped
    <3>2. ASSUME NEW c \in Clients, Spawn(c) PROVE FALSE
      BY <1>1, <1>4, <3>2 DEF Spawn, NoThread
    <3> QED
      BY <1>4, <3>1, <3>2, Writers
  <2>2. j \in DOMAIN jobs
    BY <2>1, ThreadStepTyped DEF References
  <2>3. CASE StoreCompleted(j)
    <3>1. jobs' = Completed(j, thread[j].answer) /\ thread[j].answer \in Answers
      <4>1. ASSUME NEW outcome, To(j, "store", outcome) PROVE FALSE
        BY <4>1, ToFacts DEF Types
      <4>2. CarriesSummary(j)
        BY <2>3 DEF StoreCompleted, CarriesSummary
      <4> QED
        BY <2>3, <4>1, <4>2 DEF StoreCompleted, AfterStore, References, SummaryFits
    <3> QED
      BY <1>1, <2>2, <3>1, CompletedFacts
  <2>4. CASE StoreOther(j)
    BY <1>1, <2>2, <2>4, FinishRowFacts DEF StoreOther, Terminal
  <2>5. CASE TryRequest(j) \/ (\E answer \in Answers : AnswerGood(j, answer)) \/ FinishRun(j) \/ \E retryable \in BOOLEAN : AnswerBad(j, retryable)
    <3>1. ASSUME NEW outcome, NEW pc \in {"finish", "send", "store"}, To(j, pc, outcome) PROVE FALSE
      BY <3>1, ToFacts DEF Types
    <3>2. ASSUME thread' = [thread EXCEPT ![j].pc = "ready", ![j].item = @ + 1, ![j].try = 1]
          PROVE  FALSE
      BY <1>1, <3>2 DEF ThreadRecord
    <3>3. ASSUME thread' = [thread EXCEPT ![j].pc = "ready", ![j].try = @ + 1]
          PROVE  FALSE
      BY <1>1, <3>3 DEF ThreadRecord
    <3>4. ASSUME NEW outcome, NEW answer, Returns(j, outcome, answer) PROVE FALSE
      BY <1>1, <3>4 DEF Returns, ThreadRecord
    <3> QED
      BY <2>5, <3>1, <3>2, <3>3, <3>4 DEF TryRequest, AnswerGood, FinishRun, AnswerBad, EndsWith
  <2>6. CASE Send(j)
    BY <1>1, <2>6 DEF Send, ThreadRecord
  <2>7. CASE Tell(j) \/ Release(j)
    BY <1>4, <2>7 DEF Tell, Release
  <2> QED
    BY <2>1, <2>3, <2>4, <2>5, <2>6, <2>7 DEF ThreadStep
<1> QED
  BY <1>3, <1>4

LEMMA WorkedOnStep ==
    ASSUME Types, References, PendingIsWorkedOn, StoredIsSettled, [Next]_vars
    PROVE  PendingIsWorkedOn'
<1>1. /\ thread \in [JobIds -> ThreadRecord] /\ client \in [Clients -> CallRecord]
      /\ JobsOK /\ JobsOK' /\ JobsGrow /\ jobs \in Seq(JobRecord)
  BY JobsStep DEF Types, ThreadsOK, ClientsOK, JobsOK
<1>2. CASE Restart
  BY <1>2 DEF Restart, PendingIsWorkedOn
<1> SUFFICES ASSUME ~Restart, NEW j \in DOMAIN jobs', jobs'[j].status = "pending"
             PROVE  \/ Running(j)' \/ j \in orphans'
                    \/ \E c \in Clients : client'[c].job = j /\ client'[c].pc \in {"announce", "spawn", "unspawned"}
  BY <1>2 DEF PendingIsWorkedOn
<1>3. j \in JobIds
  BY <1>1, SummaryAssumption DEF JobsOK, JobIds
<1>4. CASE j \notin DOMAIN jobs
  <2>1. ASSUME NEW c \in Clients, Inserts(c) PROVE client'[c].job = j /\ client'[c].pc = "announce"
    <3>1. jobs' = Append(jobs, NewJob(c)) /\ NewJob(c) \in JobRecord /\ client[c].pc = "insert"
      BY <2>1, NewJobTyped DEF Inserts, Insert
    <3>2. j = Len(jobs) + 1
      BY <1>1, <1>4, <3>1, AppendFacts
    <3>3. jobs' # jobs
      BY <1>1, <3>1, AppendFacts
    <3>4. client' = [client EXCEPT ![c].pc = "announce", ![c].job = Len(jobs) + 1]
      BY <2>1, <3>3 DEF Inserts, Insert
    <3> DEFINE n == Len(jobs) + 1
    <3>5. client' = [client EXCEPT ![c].pc = "announce", ![c].job = n] /\ j = n
      BY <3>2, <3>4
    <3> HIDE DEF n
    <3> QED
      BY <1>1, <3>5 DEF CallRecord
  <2>2. ASSUME NEW i \in DOMAIN jobs, Finishes(i) \/ Completes(i) PROVE FALSE
    BY <1>1, <1>4, <2>2, FinishedFacts, CompletedFacts DEF Finishes, Completes, Terminal
  <2>3. ASSUME NEW c \in Clients, Leaves(c) PROVE j \in orphans'
    <3>1. jobs' = Append(jobs, Unread(c)) /\ Unread(c) \in JobRecord
      BY <2>3, NewJobTyped DEF Leaves
    <3>2. j = Len(jobs) + 1
      BY <1>1, <1>4, <3>1, AppendFacts
    <3> QED
      BY <2>3, <3>2 DEF Leaves, InsertUnread
  <2> QED
    BY <1>4, <2>1, <2>2, <2>3, JobKinds
<1>5. CASE j \in DOMAIN jobs
  <2>1. jobs[j].status = "pending"
    BY <1>1, <1>5 DEF JobsGrow
  <2>2. CASE j \in orphans
    BY <2>2, OrphansStay
  <2>3. CASE Running(j)
    <3>1. CASE thread'[j] = thread[j]
      BY <2>3, <3>1 DEF Running
    <3>2. CASE ThreadStep(j)
      <4>1. CASE Release(j)
        <5>1. j \in orphans
          BY <1>3, <2>1, <4>1 DEF Release, StoredIsSettled
        <5> QED
          BY <5>1, OrphansStay
      <4>2. CASE ~Release(j)
        BY <1>3, <3>2, <4>2, ThreadStepTyped DEF Running
      <4> QED
        BY <4>1, <4>2
    <3>3. ASSUME NEW i \in JobIds, ThreadStep(i) PROVE thread'[j] = thread[j] \/ i = j
      BY <1>1, <1>3, <3>3, ThreadStepTyped
    <3>4. ASSUME NEW c \in Clients, Spawn(c) PROVE thread'[j] = thread[j] \/ Running(j)'
      BY <1>1, <1>3, <3>4 DEF Spawn, NoThread, Running
    <3> QED
      BY <1>3, <3>1, <3>2, <3>3, <3>4, Writers
  <2>4. ASSUME NEW c \in Clients, client[c].job = j, client[c].pc \in {"announce", "spawn", "unspawned"}
        PROVE  \/ Running(j)' \/ j \in orphans'
               \/ client'[c].job = j /\ client'[c].pc \in {"announce", "spawn", "unspawned"}
    <3>1. CASE client'[c] = client[c]
      BY <2>4, <3>1
    <3>2. ASSUME NEW d \in Clients, Command(d) \/ CommandStep(d) PROVE client'[c] = client[c] \/ d = c
      BY <1>1, <3>2, CommandTyped, CommandStepTyped
    <3>3. ~Command(c)
      BY <2>4, CommandTyped
    <3>4. CASE CommandStep(c)
      <4>1. Announce(c) \/ SpawnRefused(c) \/ Spawn(c) \/ Unspawned(c)
        BY <2>4, <3>4 DEF CommandStep, Claim, Insert, InsertUnread, RaiseFlag, CancelRow, CancelRowUnread, CancelState, Save, Probe, Record
      <4>2. CASE Announce(c) \/ SpawnRefused(c)
        BY <1>1, <2>4, <4>2 DEF Announce, SpawnRefused, CallRecord
      <4>3. CASE Spawn(c)
        <5>1. PICK x : x.pc = "ready" /\ thread' = [thread EXCEPT ![j] = x]
          <6>1. [NoThread EXCEPT !.pc = "ready", !.config = client[c].config, !.item = 1, !.try = 1].pc = "ready"
            BY DEF NoThread
          <6> QED
            BY <2>4, <4>3, <6>1 DEF Spawn
        <5> QED
          BY <1>1, <1>3, <5>1 DEF Running
      <4>4. CASE Unspawned(c)
        <5>1. FinishRow(j, "failed")
          BY <2>4, <4>4 DEF Unspawned
        <5> QED
          BY <1>1, <1>5, <5>1, FinishRowFacts DEF Terminal
      <4> QED
        BY <4>1, <4>2, <4>3, <4>4
    <3> QED
      BY <3>1, <3>2, <3>3, <3>4, Writers
  <2> QED
    BY <1>5, <2>1, <2>2, <2>3, <2>4 DEF PendingIsWorkedOn
<1> QED
  BY <1>4, <1>5

-----------------------------------------------------------------------------
(* What the rows say of a request. *)

LEMMA AnsweredStays ==
    ASSUME [Next]_vars
    PROVE  answered \subseteq answered'
<1>1. ASSUME NEW c \in Clients, Command(c) PROVE UNCHANGED answered
  BY <1>1 DEF Command, Start, Retry, ReadProfile, Cancel, ReadToSave, ReadToTest
<1>2. ASSUME NEW c \in Clients, CommandStep(c) PROVE answered \subseteq answered'
  BY <1>2 DEF CommandStep, Claim, Insert, InsertUnread, Announce, Spawn, SpawnRefused, Unspawned, RaiseFlag, CancelRow, CancelRowUnread,
              CancelState, Save, Probe, Record
<1>3. ASSUME NEW j \in JobIds, ThreadStep(j) PROVE UNCHANGED answered
  BY <1>3 DEF ThreadStep, TryRequest, Send, AnswerGood, AnswerBad, FinishRun, StoreCompleted, StoreOther, Tell,
              Release
<1>4. CASE Shutdown \/ ShutdownLook \/ ShutdownState \/ ShutdownRow \/ Restart \/ UNCHANGED vars
  BY <1>4 DEF Shutdown, ShutdownLook, ShutdownState, ShutdownRow, Restart, vars
<1> QED
  BY ZenonT(40), <1>1, <1>2, <1>3, <1>4 DEF Next

LEMMA CarriesStep ==
    ASSUME Types, References, CarriesItsVersion, [Next]_vars
    PROVE  CarriesItsVersion'
<1>1. /\ client \in [Clients -> CallRecord] /\ jobs \in Seq(JobRecord)
      /\ JobsGrow /\ ProfileGrows /\ answered \subseteq answered'
  BY JobsStep, ProfileStep, AnsweredStays DEF Types, ClientsOK, JobsOK
<1> SUFFICES ASSUME NEW d \in Clients
             PROVE  /\ client'[d].pc \in {"claim", "insert", "probe", "record"} =>
                          profile'[client'[d].version].config = client'[d].config
                    /\ client'[d].pc \in {"claim", "insert"} =>
                          client'[d].config \in LocalConfigs \/ client'[d].accepted
                    /\ client'[d].pc \in {"announce", "spawn"} =>
                          /\ profile'[jobs'[client'[d].job].version].config = client'[d].config
                          /\ client'[d].config \in LocalConfigs \/ jobs'[client'[d].job].accepted
                    /\ client'[d].pc = "record" /\ client'[d].result = "passed" => client'[d].config \in answered'
  BY DEF CarriesItsVersion
<1>2. CASE client'[d] = client[d]
  <2>1. client[d].pc \in {"claim", "insert", "probe", "record"} =>
           profile'[client[d].version] = profile[client[d].version]
    BY <1>1 DEF References, ProfileGrows
  <2>2. client[d].pc \in {"announce", "spawn"} =>
           /\ jobs'[client[d].job].version = jobs[client[d].job].version
           /\ jobs'[client[d].job].accepted = jobs[client[d].job].accepted
           /\ profile'[jobs[client[d].job].version] = profile[jobs[client[d].job].version]
    BY <1>1 DEF References, ProfileGrows, JobsGrow
  <2> QED
    BY <1>1, <1>2, <2>1, <2>2 DEF CarriesItsVersion
<1>3. ASSUME NEW c \in Clients, Command(c) \/ CommandStep(c) PROVE client'[d] = client[d] \/ d = c
  BY <1>1, <1>3, CommandTyped, CommandStepTyped
<1>4. CASE Command(d)
  <2>1. /\ client'[d].pc \in {"claim", "flag", "save", "probe"}
        /\ client'[d].pc \in {"claim", "probe"} =>
              client'[d].version \in DOMAIN profile /\ client'[d].config = profile[client'[d].version].config
        /\ client'[d].pc = "claim" => client'[d].config \in LocalConfigs \/ client'[d].accepted
    BY <1>4, CommandTyped
  <2> QED
    BY <1>1, <2>1 DEF ProfileGrows
<1>5. CASE CommandStep(d)
  <2>1. CASE client'[d].pc \in {"insert", "record"}
    <3>1. /\ client'[d].version = client[d].version /\ client'[d].config = client[d].config
          /\ client'[d].accepted = client[d].accepted /\ client[d].pc \in {"claim", "probe"}
          /\ client'[d].pc = "insert" => client[d].pc = "claim"
      BY <1>5, <2>1, CommandStepTyped DEF Claim, Probe
    <3>2. profile'[client[d].version] = profile[client[d].version]
      BY <1>1, <3>1 DEF References, ProfileGrows
    <3>3. client'[d].pc = "record" /\ client'[d].result = "passed" => client'[d].config \in answered'
      <4>1. ASSUME client'[d].pc = "record" PROVE \E passed \in BOOLEAN : Probe(d, passed)
        BY <1>5, <4>1, CommandStepTyped
      <4>2. ASSUME NEW passed \in BOOLEAN, Probe(d, passed), client'[d].result = "passed"
            PROVE  client[d].config \in answered'
        <5>1. client'[d].result = IF passed THEN "passed" ELSE "failed"
          BY <1>1, <4>2 DEF Probe, CallRecord
        <5>2. passed = TRUE
          BY <4>2, <5>1
        <5> QED
          BY <4>2, <5>2 DEF Probe
      <4> QED
        BY <3>1, <4>1, <4>2
    <3> QED
      BY <2>1, <3>1, <3>2, <3>3 DEF CarriesItsVersion
  <2>2. CASE client'[d].pc = "spawn"
    <3>1. client'[d].job = client[d].job /\ client'[d].config = client[d].config /\ client[d].pc = "announce"
      BY <1>5, <2>2, CommandStepTyped DEF Announce
    <3>2. /\ jobs'[client[d].job].version = jobs[client[d].job].version
          /\ jobs'[client[d].job].accepted = jobs[client[d].job].accepted
          /\ profile'[jobs[client[d].job].version] = profile[jobs[client[d].job].version]
      BY <1>1, <3>1 DEF References, ProfileGrows, JobsGrow
    <3> QED
      BY <2>2, <3>1, <3>2 DEF CarriesItsVersion
  <2>3. CASE client'[d].pc = "announce"
    <3>1. Inserts(d) /\ client'[d].job = Len(jobs) + 1 /\ client'[d].config = client[d].config
      BY <1>5, <2>3, CommandStepTyped
    <3>2. /\ jobs' = Append(jobs, NewJob(d)) /\ NewJob(d) \in JobRecord /\ client[d].pc = "insert"
          /\ NewJob(d).version = client[d].version /\ NewJob(d).accepted = client[d].accepted
      BY <3>1, NewJobTyped DEF Inserts, Insert
    <3>3. jobs'[client'[d].job] = NewJob(d)
      BY <1>1, <3>1, <3>2, AppendFacts
    <3>4. profile'[client[d].version] = profile[client[d].version]
      BY <1>1, <3>2 DEF References, ProfileGrows
    <3> QED
      BY <2>3, <3>1, <3>2, <3>3, <3>4 DEF CarriesItsVersion
  <2>4. client'[d].pc \in {"idle", "insert", "announce", "spawn", "unspawned", "row", "state", "record"}
    BY <1>5, CommandStepTyped
  <2> QED
    BY <2>1, <2>2, <2>3, <2>4
<1>6. CASE Restart
  BY <1>6 DEF Restart, NoCall
<1> QED
  BY <1>2, <1>3, <1>4, <1>5, <1>6, Writers

LEMMA ProvenanceStep ==
    ASSUME Types, References, CarriesItsVersion, ProvenanceIsTrue, [Next]_vars
    PROVE  ProvenanceIsTrue'
<1>1. /\ thread \in [JobIds -> ThreadRecord] /\ JobsOK /\ JobsOK' /\ JobsGrow /\ ProfileGrows
  BY JobsStep, ProfileStep DEF Types, ThreadsOK
<1> SUFFICES ASSUME NEW j \in DOMAIN jobs', thread'[j].pc \notin {"none", "ended"}
             PROVE  /\ profile'[jobs'[j].version].config = thread'[j].config
                    /\ thread'[j].config \in LocalConfigs \/ jobs'[j].accepted
  BY DEF ProvenanceIsTrue, Running
<1>2. j \in JobIds
  BY <1>1, SummaryAssumption DEF JobsOK, JobIds
<1>3. CASE Running(j) /\ thread'[j].config = thread[j].config
  <2>1. j \in DOMAIN jobs
    BY <1>2, <1>3 DEF Running, References
  <2>2. /\ jobs'[j].version = jobs[j].version /\ jobs'[j].accepted = jobs[j].accepted
        /\ profile'[jobs[j].version] = profile[jobs[j].version]
    BY <1>1, <2>1 DEF JobsGrow, ProfileGrows, References
  <2> QED
    BY <1>3, <2>1, <2>2 DEF ProvenanceIsTrue
<1>4. CASE thread'[j] = thread[j]
  BY <1>3, <1>4 DEF Running
<1>5. ASSUME NEW i \in JobIds, ThreadStep(i) PROVE thread'[j] = thread[j] \/ (Running(j) /\ thread'[j].config = thread[j].config)
  BY <1>1, <1>2, <1>5, ThreadStepTyped DEF Running
<1>6. ASSUME NEW c \in Clients, Spawn(c), thread'[j] # thread[j]
      PROVE  /\ profile'[jobs'[j].version].config = thread'[j].config
             /\ thread'[j].config \in LocalConfigs \/ jobs'[j].accepted
  <2>1. j = client[c].job
    BY <1>1, <1>2, <1>6 DEF Spawn
  <2>2. thread'[j].config = client[c].config
    <3>1. PICK x : x.config = client[c].config /\ thread' = [thread EXCEPT ![j] = x]
      <4>1. [NoThread EXCEPT !.pc = "ready", !.config = client[c].config, !.item = 1, !.try = 1].config = client[c].config
        BY DEF NoThread
      <4> QED
        BY <1>6, <2>1, <4>1 DEF Spawn
    <3> QED
      BY <1>1, <1>2, <3>1
  <2>3. client[c].pc = "spawn" /\ j \in DOMAIN jobs /\ UNCHANGED <<jobs, profile>>
    BY <1>6, <2>1 DEF Spawn, References
  <2> QED
    BY <2>1, <2>2, <2>3 DEF CarriesItsVersion
<1>7. ~Restart
  BY <1>2 DEF Restart, NoThread
<1> QED
  BY <1>3, <1>4, <1>5, <1>6, <1>7, Writers

LEMMA TestedStep ==
    ASSUME Types, References, CarriesItsVersion, PassedMeansTested, [Next]_vars
    PROVE  PassedMeansTested'
<1>1. profile \in Seq(Version) /\ answered \subseteq answered' /\ profile' \in Seq(Version)
  BY ProfileStep, AnsweredStays DEF Types, ProfileOK
<1>2. ASSUME NEW v \in Version, profile' = Append(profile, v), v.test = "passed" => v.config \in answered
      PROVE  PassedMeansTested'
  BY <1>1, <1>2, AppendFacts DEF PassedMeansTested
<1>3. CASE UNCHANGED profile
  BY <1>1, <1>3 DEF PassedMeansTested
<1>4. ASSUME NEW c \in Clients, Save(c), ~UNCHANGED profile PROVE PassedMeansTested'
  <2>1. client[c].version \in DOMAIN profile /\ client[c].config \in Configs
    BY <1>4 DEF Save, References, Types, ClientsOK, CallRecord
  <2>2. profile[client[c].version] \in Version
    BY <1>1, <2>1
  <2>3. profile[client[c].version].number + 1 \in Nat
    BY <2>2 DEF Version
  <2>4. Untested(client[c].config, profile[client[c].version].number + 1) \in Version
    BY <2>1, <2>3 DEF Untested, Version
  <2> QED
    BY <1>2, <1>4, <2>4 DEF Save, Untested
<1>5. ASSUME NEW c \in Clients, Record(c), ~UNCHANGED profile PROVE PassedMeansTested'
  <2>1. client[c].version \in DOMAIN profile /\ client[c].pc = "record"
    BY <1>5 DEF Record, References
  <2>2. profile[client[c].version] \in Version /\ client[c].result \in {"passed", "failed"}
    BY <1>1, <2>1 DEF Types, ClientsOK, CallRecord, References
  <2>3. /\ Tested(c) \in Version /\ Tested(c).test = client[c].result
        /\ Tested(c).config = profile[client[c].version].config
    BY <2>2 DEF Tested, Version
  <2>4. profile[client[c].version].config = client[c].config
    BY <2>1 DEF CarriesItsVersion
  <2>5. client[c].result = "passed" => client[c].config \in answered
    BY ZenonT(40), <2>1 DEF CarriesItsVersion
  <2> QED
    BY <1>2, <1>5, <2>3, <2>4, <2>5 DEF Record
<1>6. (\E c \in Clients : Save(c) \/ Record(c)) \/ UNCHANGED profile
  BY DEF Next, vars, Command, Start, Retry, ReadProfile, Cancel, ReadToSave, ReadToTest,
         CommandStep, Claim, Insert, InsertUnread, Announce, Spawn, SpawnRefused, Unspawned, RaiseFlag, CancelRow, CancelRowUnread, CancelState, Probe,
         ThreadStep, TryRequest, Send, AnswerGood, AnswerBad, FinishRun, StoreCompleted, StoreOther, Tell, Release,
         Shutdown, ShutdownLook, ShutdownState, ShutdownRow, Restart
<1> QED
  BY <1>3, <1>4, <1>5, <1>6

-----------------------------------------------------------------------------
(* The theorems. *)

LEMMA InitInv ==
    ASSUME Init
    PROVE  SummaryInv
<1>1. Seed \in Configs /\ MaxJobs \in Nat /\ MaxChunks \in Nat /\ MaxRetries \in Nat
  BY SummaryAssumption, ContentAssumption
<1>2. /\ jobs = <<>> /\ profile = <<Untested(Seed, 1)>> /\ Untested(Seed, 1) \in Version
      /\ thread = [j \in JobIds |-> NoThread] /\ client = [c \in Clients |-> NoCall]
  BY <1>1 DEF Init, Untested, Version
<1>3. NoThread \in ThreadRecord /\ NoCall \in CallRecord
  BY <1>1, NoCallTyped DEF NoThread, ThreadRecord
<1>4. Types
  <2>1. JobsOK
    BY <1>1, <1>2 DEF JobsOK
  <2>2. ProfileOK
    BY <1>2 DEF ProfileOK
  <2>3. FlagsOK /\ StateOK /\ ClosingOK
    BY DEF Init, FlagsOK, StateOK, ClosingOK, Nobody, Statuses, Shown, Idle
  <2>4. ThreadsOK /\ ClientsOK
    BY <1>2, <1>3 DEF ThreadsOK, ClientsOK
  <2> QED
    BY <2>1, <2>2, <2>3, <2>4 DEF Types
<1>5. \A j \in JobIds : thread[j].pc = "none"
  BY <1>2 DEF NoThread
<1>6. \A c \in Clients : client[c].pc = "idle"
  BY <1>2 DEF NoCall
<1>7. DOMAIN jobs = {} /\ Len(jobs) = 0
  BY <1>2
<1>8. References
  BY <1>5, <1>6, <1>7 DEF References, Init, Nobody, CarriesSummary, Idle
<1>9. Exclusive
  BY <1>5, <1>6 DEF Exclusive, BusyAre, Starting, Running, Init
<1>10. PendingIsWorkedOn /\ StoredIsSettled /\ CarriesItsVersion /\ ProvenanceIsTrue
  BY <1>5, <1>6, <1>7 DEF PendingIsWorkedOn, StoredIsSettled, CarriesItsVersion, ProvenanceIsTrue
<1>11. PassedMeansTested
  BY <1>2 DEF PassedMeansTested, Untested
<1> QED
  BY <1>4, <1>8, <1>9, <1>10, <1>11 DEF SummaryInv

LEMMA StepInv ==
    ASSUME SummaryInv, [Next]_vars
    PROVE  SummaryInv' /\ JobsGrow
  BY TypesStep, ReferencesStep, ExclusiveStep, WorkedOnStep, SettledStep, CarriesStep, ProvenanceStep, TestedStep,
     JobsStep DEF SummaryInv

(* For any number of commands, configurations, chunks and retries: types,    *)
(* references, exclusiveness, ownership and provenance hold together.       *)
THEOREM SummaryInvariant == Spec => []SummaryInv
<1>1. Init => SummaryInv
  BY InitInv
<1>2. SummaryInv /\ [Next]_vars => SummaryInv'
  BY StepInv
<1> QED
  BY <1>1, <1>2, PTL DEF Spec

(* One summary is started or run at a time, whatever commands overlap, and  *)
(* every pending job is in somebody's hands or among the named exceptions.  *)
THEOREM JobsAlwaysInHand == Spec => []JobsAreInHand
<1>1. SummaryInv => JobsAreInHand
  <2> SUFFICES ASSUME SummaryInv PROVE JobsAreInHand
    OBVIOUS
  <2>1. OneJobAtATime /\ PendingIsWorkedOn
    BY ExclusiveCounts DEF SummaryInv, Types, FlagsOK
  <2>2. TypeOK
    <3>1. \A j \in DOMAIN jobs : jobs[j].status \in {"pending"} \cup Terminal
      <4>1. \A j \in DOMAIN jobs : jobs[j] \in JobRecord
        BY DEF SummaryInv, Types, JobsOK
      <4> QED
        BY <4>1 DEF JobRecord
    <3>2. state.job \in 0..Len(jobs) /\ state.status \in Statuses
      <4>1. Len(jobs) \in Nat /\ state.job \in Nat /\ state.job <= Len(jobs) /\ state.status \in Statuses
        BY DEF SummaryInv, Types, JobsOK, StateOK, References
      <4> QED
        BY <4>1
    <3>3. \A j \in JobIds : thread[j].item \in 0..(MaxChunks + 1) /\ thread[j].try \in 0..(MaxRetries + 1)
      BY DEF SummaryInv, Types, ThreadsOK, ThreadRecord
    <3> QED
      BY <3>1, <3>2, <3>3 DEF TypeOK, SummaryInv, References, Types, FlagsOK, Statuses
  <2> QED
    BY <2>1, <2>2 DEF JobsAreInHand
<1> QED
  BY <1>1, SummaryInvariant, PTL

(* The version of the profile a job names is the one its requests use, with *)
(* the consent it needs, and "passed" is said only of what has answered.    *)
THEOREM ProfileAlwaysTells == Spec => []ProfileTells
<1>1. SummaryInv => ProfileTells
  BY DEF SummaryInv, ProfileTells
<1> QED
  BY <1>1, SummaryInvariant, PTL

(* Whoever comes late - a cancel, the thread, the shutdown - a finished job  *)
(* keeps its row.                                                           *)
THEOREM FinishedJobsAreFinal == Spec => FinishedJobsStay
<1>1. SummaryInv /\ [Next]_vars =>
        [\A j \in DOMAIN jobs : jobs[j].status \in Terminal => jobs'[j] = jobs[j]]_vars
  <2>1. ASSUME SummaryInv, [Next]_vars PROVE JobsGrow
    BY <2>1, StepInv
  <2>2. "pending" \notin Terminal
    BY DEF Terminal
  <2> QED
    BY <2>1, <2>2 DEF JobsGrow
<1> QED
  BY <1>1, SummaryInvariant, PTL DEF Spec, FinishedJobsStay

-----------------------------------------------------------------------------
(* The rows of an answer and what is shown of them. *)

LEMMA DivFacts ==
    ASSUME NEW a \in Nat, NEW b \in Nat, b > 0
    PROVE  /\ a \div b \in Nat /\ b * (a \div b) \in Nat
           /\ b * (a \div b) <= a /\ a < b * (a \div b) + b
  BY SMT

LEMMA TimesGrows ==
    ASSUME NEW b \in Nat, NEW x \in Nat, NEW y \in Nat, x <= y
    PROVE  b * x <= b * y /\ b * x \in Nat /\ b * y \in Nat
  BY SMT

(* Every position has its row. *)
LEMMA EveryRowIsReached ==
    ASSUME NEW n \in Nat, NEW q \in Nat, q > 0, NEW i \in 1..n
    PROVE  /\ (n + q - 1) \div q \in Nat
           /\ \E k \in 1..q : (i - 1) \div ((n + q - 1) \div q) = k - 1
<1> DEFINE p == (n + q - 1) \div q
           d == (i - 1) \div p
<1>1. p \in Nat /\ q * p \in Nat /\ q * p <= n + q - 1 /\ n + q - 1 < q * p + q
  <2>1. n + q - 1 \in Nat
    OBVIOUS
  <2> QED
    BY <2>1, DivFacts
<1> HIDE DEF p
<1>2. n <= q * p
  BY <1>1
<1>3. p > 0
  <2>1. p = 0 => q * p = 0
    BY <1>1
  <2> QED
    BY <1>1, <1>2, <2>1
<1>4. d \in Nat /\ p * d \in Nat /\ p * d <= i - 1
  <2>1. i - 1 \in Nat
    OBVIOUS
  <2> QED
    BY <1>1, <1>3, <2>1, DivFacts
<1> HIDE DEF d
<1>5. d < q
  <2> SUFFICES ASSUME q <= d PROVE FALSE
    BY <1>4
  <2>1. p * q <= p * d /\ p * q \in Nat
    BY <1>1, <1>4, TimesGrows
  <2>2. p * q = q * p
    BY <1>1
  <2> QED
    BY <1>2, <1>4, <2>1, <2>2
<1>6. d + 1 \in 1..q /\ d = (d + 1) - 1
  BY <1>4, <1>5
<1> QED
  BY <1>1, <1>6 DEF d, p

LEMMA ChunksCoverTranscript ==
    ASSUME NEW m \in Meetings, Chunked(m)
    PROVE  UNION {ChunkRows(m)[k] : k \in DOMAIN ChunkRows(m)} = Ids(m)
<1> DEFINE T == Transcript[m]
<1>1. T \in Seq([id : STRING, at : Nat, chars : Nat]) /\ MaxChunks \in Nat
  BY ContentAssumption
<1>2. Len(T) \in Nat /\ DOMAIN T = 1..Len(T)
  BY <1>1
<1>3. ChunkCount(m) \in Nat /\ ChunkCount(m) > 0
  BY <1>1 DEF Chunked
<1>4. Ids(m) = {T[i].id : i \in 1..Len(T)}
  BY <1>2 DEF Ids, Segments, ToSet
<1>5. DOMAIN ChunkRows(m) = 1..ChunkCount(m) /\ \A k \in 1..ChunkCount(m) : ChunkRows(m)[k] = ChunkRow(m, k)
  BY DEF ChunkRows
<1>6. \A k \in 1..ChunkCount(m) : ChunkRow(m, k) \subseteq Ids(m)
  BY <1>4 DEF ChunkRow
<1>7. ASSUME NEW i \in 1..Len(T) PROVE \E k \in 1..ChunkCount(m) : T[i].id \in ChunkRow(m, k)
  <2>1. \E k \in 1..ChunkCount(m) : (i - 1) \div PerRow(m) = k - 1
    BY <1>2, <1>3, <1>7, EveryRowIsReached DEF PerRow
  <2> QED
    BY <2>1 DEF ChunkRow
<1>8. \A x \in Ids(m) : \E i \in 1..Len(T) : x = T[i].id
  BY <1>4
<1> HIDE DEF T
<1> QED
  BY <1>5, <1>6, <1>7, <1>8

(* The items of an answer and their citations. *)
CitationAt(a, e) == a[e[1]][e[2]]

LEMMA ItemFacts ==
    ASSUME NEW a \in Answers, NEW e \in Items(a)
    PROVE  /\ e[1] \in Kinds /\ CitationAt(a, e) \in ToSet(a[e[1]])
           /\ CitationAt(a, e).unlinked \in BOOLEAN
<1>1. PICK k \in Kinds : \E i \in 1..Len(a[k]) : e = <<k, i>>
  BY DEF Items
<1>2. PICK i \in 1..Len(a[k]) : e = <<k, i>>
  BY <1>1
<1> DEFINE C == [unlinked : BOOLEAN, meeting : Meetings, segment : STRING, at : Nat]
           q == a[k]
<1>3. q \in Seq(C)
  BY ContentAssumption
<1> HIDE DEF C, q
<1>4. i \in DOMAIN q /\ q[i] \in C
  BY <1>2, <1>3 DEF q
<1>5. e[1] = k /\ CitationAt(a, e) = a[k][i]
  BY <1>2 DEF CitationAt
<1>6. a[k][i] \in ToSet(a[k])
  BY <1>4 DEF ToSet, q
<1>7. a[k][i].unlinked \in BOOLEAN
  BY <1>4 DEF q, C
<1> QED
  BY <1>5, <1>6, <1>7

LEMMA CitesAreIds ==
    ASSUME NEW m \in Meetings, NEW a \in Answers, AnswerValid(m, a), NEW row \in ResultRows(a)
    PROVE  row.cites \subseteq Ids(m)
<1>1. CASE row = [kind |-> "overview", index |-> 1, cites |-> {}]
  BY <1>1
<1>2. ASSUME NEW e \in Items(a), row = [kind |-> e[1], index |-> e[2], cites |-> CitedBy(a[e[1]][e[2]])]
      PROVE  row.cites \subseteq Ids(m)
  <2>1. CitationValid(m, CitationAt(a, e))
    BY ItemFacts DEF AnswerValid
  <2>2. row.cites = CitedBy(CitationAt(a, e))
    BY <1>2 DEF CitationAt
  <2> QED
    BY <2>1, <2>2 DEF CitationValid, CitedBy, Ids
<1> QED
  BY <1>1, <1>2 DEF ResultRows

(* An item as the rows show it. *)
ShownItem(a, e) ==
    [kind |-> e[1], index |-> e[2], segment |-> IF CitationAt(a, e).unlinked THEN Nothing ELSE CitationAt(a, e).segment,
     unlinked |-> CitationAt(a, e).unlinked]

ShownItems(a) == {ShownItem(a, e) : e \in Items(a)}

LEMMA LooseAnswer ==
    ASSUME NEW a \in Answers
    PROVE  WithoutLoose(ShownFromAnswer(a)) = ShownItems(a)
<1> DEFINE live(e) == [kind |-> e[1], index |-> e[2], segment |-> CitationAt(a, e).segment,
                       unlinked |-> CitationAt(a, e).unlinked]
           cut(x) == [x EXCEPT !.segment = IF x.unlinked THEN Nothing ELSE @]
<1>1. ShownFromAnswer(a) = {live(e) : e \in Items(a)}
  BY DEF ShownFromAnswer, CitationAt
<1>2. \A e \in Items(a) : cut(live(e)) = ShownItem(a, e)
  BY DEF ShownItem
<1>3. WithoutLoose(ShownFromAnswer(a)) = {cut(x) : x \in ShownFromAnswer(a)}
  BY DEF WithoutLoose
<1> HIDE DEF live, cut
<1> QED
  BY <1>1, <1>2, <1>3 DEF ShownItems

LEMMA ShownOfRows ==
    ASSUME NEW a \in Answers
    PROVE  ShownFromRows(ResultRows(a)) = ShownItems(a)
<1> DEFINE row(e) == [kind |-> e[1], index |-> e[2], cites |-> CitedBy(CitationAt(a, e))]
           shown(r) == IF r.cites = {}
                       THEN {[kind |-> r.kind, index |-> r.index, segment |-> Nothing, unlinked |-> TRUE]}
                       ELSE {[kind |-> r.kind, index |-> r.index, segment |-> s, unlinked |-> FALSE] : s \in r.cites}
           items == {row(e) : e \in Items(a)}
<1>1. {r \in ResultRows(a) : r.kind # "overview"} = items
  <2>1. ResultRows(a) = {[kind |-> "overview", index |-> 1, cites |-> {}]} \cup items
    BY DEF ResultRows, CitationAt
  <2>2. \A r \in items : r.kind # "overview"
    <3>1. \A e \in Items(a) : row(e).kind \in Kinds
      BY ItemFacts
    <3>2. "overview" \notin Kinds
      BY DEF Kinds
    <3> HIDE DEF row
    <3> QED
      BY <3>1, <3>2
  <2>3. [kind |-> "overview", index |-> 1, cites |-> {}].kind = "overview"
    OBVIOUS
  <2> HIDE DEF items
  <2> QED
    BY <2>1, <2>2, <2>3
<1>2. ASSUME NEW e \in Items(a) PROVE shown(row(e)) = {ShownItem(a, e)}
  <2>1. CitationAt(a, e).unlinked \in BOOLEAN
    BY ItemFacts
  <2>2. CASE CitationAt(a, e).unlinked = TRUE
    BY <2>2 DEF CitedBy, ShownItem
  <2>3. CASE CitationAt(a, e).unlinked = FALSE
    BY <2>3 DEF CitedBy, ShownItem
  <2> QED
    BY <2>1, <2>2, <2>3
<1>3. ShownFromRows(ResultRows(a)) = UNION {shown(r) : r \in items}
  BY <1>1 DEF ShownFromRows
<1> HIDE DEF shown, row
<1> QED
  BY <1>2, <1>3 DEF ShownItems

LEMMA ShownItemsAreTight ==
    ASSUME NEW a \in Answers
    PROVE  WithoutLoose(ShownItems(a)) = ShownItems(a)
<1> DEFINE cut(x) == [x EXCEPT !.segment = IF x.unlinked THEN Nothing ELSE @]
<1>1. \A e \in Items(a) : cut(ShownItem(a, e)) = ShownItem(a, e)
  <2> SUFFICES ASSUME NEW e \in Items(a) PROVE cut(ShownItem(a, e)) = ShownItem(a, e)
    OBVIOUS
  <2>1. CitationAt(a, e).unlinked \in BOOLEAN
    BY ItemFacts
  <2>2. CASE CitationAt(a, e).unlinked = TRUE
    BY <2>2 DEF ShownItem
  <2>3. CASE CitationAt(a, e).unlinked = FALSE
    BY <2>3 DEF ShownItem
  <2> QED
    BY <2>1, <2>2, <2>3
<1>2. WithoutLoose(ShownItems(a)) = {cut(x) : x \in ShownItems(a)}
  BY DEF WithoutLoose
<1> HIDE DEF cut
<1> QED
  BY <1>1, <1>2 DEF ShownItems
-----------------------------------------------------------------------------
(* What is stored and what is shown. *)

(* A completed job has the rows of an answer that was accepted for its       *)
(* meeting; any other job has none.                                         *)
RowsTell ==
    \A j \in DOMAIN jobs :
        IF jobs[j].status = "completed"
        THEN /\ Chunked(jobs[j].meeting) /\ jobs[j].chunks = ChunkRows(jobs[j].meeting)
             /\ \E a \in Answers : AnswerValid(jobs[j].meeting, a) /\ jobs[j].results = ResultRows(a)
        ELSE jobs[j].results = {} /\ jobs[j].chunks = <<>>

Starter(c) == client[c].pc \in {"announce", "spawn"}

(* A job that is being started has no thread; it is the latest one, and is   *)
(* announced before its thread begins.                                      *)
JobOfStart(c) ==
    /\ client[c].pc \in {"announce", "spawn", "unspawned"} =>
          thread[client[c].job].pc = "none" /\ jobs[client[c].job].status # "completed" /\ jobs[client[c].job].told
    /\ Starter(c) => client[c].job = Len(jobs)
    /\ client[c].pc = "spawn" => state.job = client[c].job
    /\ client[c].pc = "unspawned" => client[c].job <= state.job
    /\ client[c].pc = "state" => jobs[client[c].job].status = "cancelled"

Hands ==
    /\ \A c \in Clients : JobOfStart(c)
    /\ \A c, d \in Clients : Starter(c) /\ client[d].pc = "unspawned" => client[c].job # client[d].job

RunsAreAnnounced == \A j \in JobIds : Running(j) => state.job = j

NotYetShown == \A j \in DOMAIN jobs : state.job = j /\ thread[j].pc = "none" => state.status # "completed"

Tells(j) == thread[j].pc = "tell" /\ thread[j].outcome = "completed"

OnlyItsRunCompletes ==
    \A j \in DOMAIN jobs :
        /\ jobs[j].status = "completed" => thread[j].pc \in {"none", "release", "ended"} \/ Tells(j)
        /\ Tells(j) => jobs[j].status = "completed" /\ jobs[j].results = ResultRows(thread[j].answer)

IsOver(j) == state.job = j /\ thread[j].pc \in {"release", "ended"}

ShownIsWhole ==
    \A j \in DOMAIN jobs : IsOver(j) /\ state.status = "completed" =>
        /\ jobs[j].status = "completed"
        /\ \E a \in Answers : jobs[j].results = ResultRows(a) /\ state.result = ShownFromAnswer(a)

StoredIsAnnounced ==
    \A j \in DOMAIN jobs : IsOver(j) /\ jobs[j].status = "completed" =>
        state.status = "completed" \/ \E k \in 1..(j - 1) : thread[k].pc = "none" /\ jobs[k].told

(* A job that may still send a request, or whose thread will. *)
Asks(j) == thread[j].pc \in {"ready", "send", "asking"}
Underway(j) == Asks(j) \/ \E c \in Clients : Starter(c) /\ client[c].job = j

ToBeCancelled(j) ==
    \/ jobs[j].status = "cancelled"
    \/ \E c \in Clients : client[c].pc = "row" /\ client[c].job = j
    \/ closing.pc = "row" /\ closing.job = j

(* The flag is up before the row says so, and stays up as long as the run   *)
(* looks at it - unless the job has been spared by the shutdown.            *)
FlagIsUp == \A j \in DOMAIN jobs \ closing.spared : Underway(j) /\ ToBeCancelled(j) => cancel

(* While the shutdown looks for a job to cancel, the flag it has raised is up *)
(* for every job that it has not spared.                                     *)
ClosingWarns ==
    closing.pc \in {"look", "state"} => \A j \in DOMAIN jobs \ closing.spared : Underway(j) => cancel

LateOnce ==
    \A j \in JobIds \ closing.spared :
        /\ thread[j].late <= 1
        /\ thread[j].late > 0 => j \in DOMAIN jobs /\ jobs[j].status = "cancelled" /\ thread[j].pc # "send"

(* The inductive invariant of the results. *)
ResultsInv ==
    /\ SummaryInv
    /\ RowsTell /\ Hands /\ RunsAreAnnounced /\ NotYetShown /\ OnlyItsRunCompletes
    /\ ShownIsWhole /\ StoredIsAnnounced
    /\ FlagIsUp /\ ClosingWarns /\ LateOnce

LEMMA Numbers ==
    ASSUME SummaryInv
    PROVE  /\ DOMAIN jobs = 1..Len(jobs) /\ Len(jobs) \in Nat /\ Len(jobs) <= MaxJobs /\ MaxJobs \in Nat
           /\ DOMAIN jobs \subseteq JobIds /\ state.job \in Nat /\ state.job <= Len(jobs)
           /\ closing.job \in Nat /\ closing.job <= Len(jobs)
<1>1. jobs \in Seq(JobRecord) /\ Len(jobs) <= MaxJobs /\ MaxJobs \in Nat
  BY SummaryAssumption DEF SummaryInv, Types, JobsOK
<1>2. DOMAIN jobs = 1..Len(jobs) /\ Len(jobs) \in Nat
  BY <1>1
<1>3. state.job \in Nat /\ closing.job \in Nat /\ state.job <= Len(jobs) /\ closing.job <= Len(jobs)
  BY DEF SummaryInv, Types, StateOK, ClosingOK, References
<1> QED
  BY <1>1, <1>2, <1>3 DEF JobIds

(* Two starts do not overlap, nor a start and a run, nor two runs. *)
LEMMA OneIsBusy ==
    ASSUME SummaryInv, NEW c \in Clients, Starting(c)
    PROVE  /\ \A d \in Clients : Starting(d) => d = c
           /\ \A j \in JobIds : ~Running(j)
  BY DEF SummaryInv, Exclusive, BusyAre

LEMMA StarterStarts ==
    ASSUME NEW c \in Clients, Starter(c)
    PROVE  Starting(c)
  BY DEF Starter, Starting

(* The places a run goes through, and what it takes along. *)
Moves(j) ==
    \/ /\ TryRequest(j) /\ thread[j].pc = "ready" /\ UNCHANGED jobs
       /\ thread'[j].pc = "finish" \/ (~cancel /\ thread'[j].pc = "send")
       /\ thread'[j].late = thread[j].late
    \/ /\ Send(j) /\ thread[j].pc = "send" /\ thread'[j].pc = "asking" /\ UNCHANGED jobs
       /\ thread'[j].late = IF jobs[j].status = "cancelled" THEN thread[j].late + 1 ELSE thread[j].late
    \/ /\ thread[j].pc = "asking" /\ thread'[j].pc \in {"ready", "finish"} /\ UNCHANGED jobs
       /\ thread'[j].late = thread[j].late
       /\ (\E answer \in Answers : AnswerGood(j, answer)) \/ (\E retryable \in BOOLEAN : AnswerBad(j, retryable))
    \/ /\ FinishRun(j) /\ thread[j].pc = "finish" /\ thread'[j].pc = "store" /\ UNCHANGED jobs
       /\ thread'[j].late = thread[j].late
    \/ /\ StoreCompleted(j) /\ thread[j].pc = "store" /\ thread'[j].late = thread[j].late
       /\ \/ /\ thread'[j].pc = "tell" /\ thread'[j].outcome = "completed" /\ thread'[j].answer = thread[j].answer
             /\ jobs[j].status = "pending" /\ jobs' = Completed(j, thread[j].answer)
          \/ thread'[j].pc = "store" /\ UNCHANGED jobs
    \/ /\ StoreOther(j) /\ thread[j].pc = "store" /\ thread'[j].late = thread[j].late
       /\ thread'[j].pc = "tell" /\ thread'[j].outcome # "completed"
    \/ /\ Tell(j) /\ thread[j].pc = "tell" /\ thread'[j].pc = "release" /\ UNCHANGED jobs
       /\ thread'[j].late = thread[j].late
    \/ /\ Release(j) /\ thread[j].pc = "release" /\ thread'[j].pc = "ended" /\ UNCHANGED jobs
       /\ thread'[j].late = 0

LEMMA ThreadMoves ==
    ASSUME SummaryInv, NEW j \in JobIds, ThreadStep(j)
    PROVE  Moves(j)
<1>1. thread \in [JobIds -> ThreadRecord] /\ thread[j] \in ThreadRecord
  BY DEF SummaryInv, Types, ThreadsOK
<1>2. ASSUME NEW pc, NEW outcome, To(j, pc, outcome)
      PROVE  /\ thread'[j].pc = pc /\ thread'[j].outcome = outcome /\ thread'[j].answer = thread[j].answer
             /\ thread'[j].late = thread[j].late
  <2>1. thread'[j] = [[thread[j] EXCEPT !.pc = pc] EXCEPT !.outcome = outcome]
    BY <1>1, <1>2 DEF To
  <2> QED
    BY <1>1, <2>1 DEF ThreadRecord
<1>3. ASSUME NEW outcome, NEW answer, Returns(j, outcome, answer)
      PROVE  thread'[j].pc = "finish" /\ thread'[j].late = thread[j].late
  <2>1. thread'[j] = [thread[j] EXCEPT !.pc = "finish", !.outcome = outcome, !.answer = answer, !.item = 0, !.try = 0]
    BY <1>1, <1>3 DEF Returns
  <2> QED
    BY <1>1, <2>1 DEF ThreadRecord
<1>4. ASSUME TryRequest(j) PROVE Moves(j)
  <2>1. ASSUME NEW outcome, EndsWith(j, outcome) PROVE thread'[j].pc = "finish" /\ thread'[j].late = thread[j].late
    BY <1>3, <2>1 DEF EndsWith
  <2>2. CASE cancel \/ ~Chunked(jobs[j].meeting)
    BY <1>4, <2>1, <2>2 DEF TryRequest, StopRequested, Moves
  <2>3. CASE ~cancel /\ Chunked(jobs[j].meeting)
    <3>1. To(j, "send", "none")
      BY <1>4, <2>3 DEF TryRequest, StopRequested
    <3> QED
      BY <1>2, <1>4, <2>3, <3>1 DEF TryRequest, Moves
  <2> QED
    BY <2>2, <2>3
<1>5. ASSUME Send(j) PROVE Moves(j)
  <2> DEFINE n == thread[j].late + (IF jobs[j].status = "cancelled" THEN 1 ELSE 0)
  <2>1. n = IF jobs[j].status = "cancelled" THEN thread[j].late + 1 ELSE thread[j].late
    BY <1>1 DEF ThreadRecord
  <2>2. thread'[j] = [[thread[j] EXCEPT !.pc = "asking"] EXCEPT !.late = n]
    BY <1>1, <1>5 DEF Send
  <2> HIDE DEF n
  <2>3. thread'[j].pc = "asking" /\ thread'[j].late = n
    BY <1>1, <2>2 DEF ThreadRecord
  <2> QED
    BY <1>5, <2>1, <2>3 DEF Send, Moves
<1>6. ASSUME NEW answer \in Answers, AnswerGood(j, answer) PROVE Moves(j)
  <2>1. CASE thread' = [thread EXCEPT ![j].pc = "ready", ![j].item = @ + 1, ![j].try = 1]
    <3>1. thread'[j] = [[[thread[j] EXCEPT !.pc = "ready"] EXCEPT !.item = thread[j].item + 1] EXCEPT !.try = 1]
      BY <1>1, <2>1 DEF ThreadRecord
    <3>2. thread'[j].pc = "ready" /\ thread'[j].late = thread[j].late
      BY <1>1, <3>1 DEF ThreadRecord
    <3> QED
      BY <1>6, <3>2 DEF AnswerGood, Moves
  <2>2. CASE \E outcome, kept : Returns(j, outcome, kept)
    BY <1>3, <1>6, <2>2 DEF AnswerGood, Moves
  <2> QED
    BY <1>6, <2>1, <2>2 DEF AnswerGood, EndsWith
<1>7. ASSUME NEW retryable \in BOOLEAN, AnswerBad(j, retryable) PROVE Moves(j)
  <2>1. CASE thread' = [thread EXCEPT ![j].pc = "ready", ![j].try = @ + 1]
    <3>1. thread'[j] = [[thread[j] EXCEPT !.pc = "ready"] EXCEPT !.try = thread[j].try + 1]
      BY <1>1, <2>1 DEF ThreadRecord
    <3>2. thread'[j].pc = "ready" /\ thread'[j].late = thread[j].late
      BY <1>1, <3>1 DEF ThreadRecord
    <3> QED
      BY <1>7, <3>2 DEF AnswerBad, Moves
  <2>2. CASE \E outcome, kept : Returns(j, outcome, kept)
    BY <1>3, <1>7, <2>2 DEF AnswerBad, Moves
  <2> QED
    BY <1>7, <2>1, <2>2 DEF AnswerBad, EndsWith
<1>8. ASSUME FinishRun(j) PROVE Moves(j)
  BY <1>2, <1>8 DEF FinishRun, Moves
<1>9. ASSUME StoreCompleted(j) PROVE Moves(j)
  <2>1. CASE To(j, "tell", "completed") /\ jobs[j].status = "pending" /\ jobs' = Completed(j, thread[j].answer)
    BY <1>2, <1>9, <2>1 DEF StoreCompleted, Moves
  <2>2. CASE To(j, "store", "failed") /\ UNCHANGED jobs
    BY <1>2, <1>9, <2>2 DEF StoreCompleted, Moves
  <2> QED
    BY <1>9, <2>1, <2>2 DEF StoreCompleted, AfterStore, Completed
<1>10. ASSUME StoreOther(j) PROVE Moves(j)
  <2>1. To(j, "tell", thread[j].outcome) /\ thread[j].outcome # "completed"
    BY <1>10 DEF StoreOther
  <2> QED
    BY <1>2, <1>10, <2>1 DEF StoreOther, Moves
<1>11. ASSUME Tell(j) PROVE Moves(j)
  <2>1. thread'[j] = [thread[j] EXCEPT !.pc = "release", !.answer = NoAnswer]
    BY <1>1, <1>11 DEF Tell
  <2>2. thread'[j].pc = "release" /\ thread'[j].late = thread[j].late
    BY <1>1, <2>1 DEF ThreadRecord
  <2> QED
    BY <1>11, <2>2 DEF Tell, Moves
<1>12. ASSUME Release(j) PROVE Moves(j)
  <2>1. thread'[j] = [NoThread EXCEPT !.pc = "ended"]
    BY <1>1, <1>12 DEF Release
  <2>2. thread'[j].pc = "ended" /\ thread'[j].late = 0
    BY <2>1 DEF NoThread
  <2> QED
    BY <1>12, <2>2 DEF Release, Moves
<1> QED
  BY <1>4, <1>5, <1>6, <1>7, <1>8, <1>9, <1>10, <1>11, <1>12 DEF ThreadStep

(* What a step of a run does to the other threads and to what is announced. *)
LEMMA ThreadSays ==
    ASSUME ResultsInv, NEW j \in JobIds, ThreadStep(j)
    PROVE  /\ \A i \in JobIds : i # j => thread'[i] = thread[i]
           /\ j \in DOMAIN jobs /\ state.job = j /\ state'.job = j
           /\ thread[j].pc \notin {"none", "ended"} /\ thread'[j].pc # "none"
           /\ \/ Tell(j) \/ state' = state
              \/ thread'[j].pc \notin {"none", "release", "ended"}
           /\ UNCHANGED client
<1>1. SummaryInv /\ Types /\ References
  BY DEF ResultsInv, SummaryInv
<1>2. /\ thread' = [thread EXCEPT ![j] = thread'[j]] /\ thread[j].pc \notin {"none", "ended"}
      /\ thread'[j].pc # "none"
  BY <1>1, ThreadStepTyped
<1>3. thread \in [JobIds -> ThreadRecord] /\ state \in [job : Nat, status : Statuses, result : Shown]
  BY <1>1 DEF Types, ThreadsOK, StateOK
<1>4. j \in DOMAIN jobs /\ state.job = j
  BY <1>1, <1>2 DEF References, ResultsInv, RunsAreAnnounced, Running
<1>5. Moves(j)
  BY <1>1, ThreadMoves
<1>6. ASSUME NEW status, Progress(j, status) PROVE state'.job = j
  BY <1>3, <1>4, <1>6 DEF Progress
<1>7. UNCHANGED client
  BY DEF ThreadStep, TryRequest, Send, AnswerGood, AnswerBad, FinishRun, StoreCompleted, StoreOther, Tell, Release
<1>8. CASE TryRequest(j) \/ (\E answer \in Answers : AnswerGood(j, answer))
           \/ (\E retryable \in BOOLEAN : AnswerBad(j, retryable))
  <2>1. state'.job = j
    BY <1>4, <1>6, <1>8 DEF TryRequest, AnswerGood, AnswerBad, EndsWith
  <2>2. thread[j].pc \in {"ready", "asking"}
    BY <1>8 DEF TryRequest, AnswerGood, AnswerBad
  <2>3. thread'[j].pc \notin {"none", "release", "ended"}
    BY <1>5, <2>2 DEF Moves
  <2> QED
    BY <1>2, <1>3, <1>4, <1>7, <2>1, <2>3
<1>9. CASE Tell(j)
  <2>1. state'.job = j
    BY <1>3, <1>4, <1>9 DEF Tell
  <2> QED
    BY <1>2, <1>3, <1>4, <1>7, <1>9, <2>1
<1>10. CASE Send(j) \/ FinishRun(j) \/ StoreCompleted(j) \/ StoreOther(j) \/ Release(j)
  <2>1. UNCHANGED state
    BY <1>10 DEF Send, FinishRun, StoreCompleted, StoreOther, Release
  <2> QED
    BY <1>2, <1>3, <1>4, <1>7, <2>1
<1> QED
  BY <1>8, <1>9, <1>10 DEF ThreadStep

(* What the other steps do to threads. *)
LEMMA SpawnFacts ==
    ASSUME ResultsInv, NEW c \in Clients, Spawn(c)
    PROVE  /\ client[c].job \in DOMAIN jobs /\ client[c].job \in JobIds /\ client[c].job = state.job
           /\ jobs[client[c].job].status # "completed" /\ UNCHANGED <<jobs, state>>
           /\ thread'[client[c].job].pc = "ready" /\ thread'[client[c].job].late = 0
           /\ \A i \in JobIds : i # client[c].job => thread'[i] = thread[i]
           /\ client'[c].pc = "idle"
<1>1. /\ thread \in [JobIds -> ThreadRecord] /\ client \in [Clients -> CallRecord]
      /\ client[c].pc = "spawn" /\ SummaryInv
  BY DEF ResultsInv, SummaryInv, Types, ThreadsOK, ClientsOK, Spawn
<1>2. client[c].job \in DOMAIN jobs
  BY <1>1 DEF SummaryInv, References
<1>3. client[c].job \in JobIds
  BY <1>1, <1>2, Numbers
<1>4. PICK t : t.pc = "ready" /\ t.late = 0 /\ thread' = [thread EXCEPT ![client[c].job] = t]
  <2> DEFINE t == [NoThread EXCEPT !.pc = "ready", !.config = client[c].config, !.item = 1, !.try = 1]
  <2>1. t.pc = "ready" /\ t.late = 0
    BY DEF NoThread
  <2>2. thread' = [thread EXCEPT ![client[c].job] = t]
    BY DEF Spawn
  <2> QED
    BY <2>1, <2>2
<1>5. client[c].job = state.job /\ jobs[client[c].job].status # "completed"
  BY <1>1 DEF ResultsInv, Hands, JobOfStart
<1>6. UNCHANGED <<jobs, state>> /\ client'[c].pc = "idle"
  BY <1>1 DEF Spawn, NoCall
<1> QED
  BY <1>1, <1>2, <1>3, <1>4, <1>5, <1>6

(* A row that is completed now either was, or is completed by its run.       *)
LEMMA WhoCompletes ==
    ASSUME ResultsInv, [Next]_vars, NEW j \in DOMAIN jobs, jobs'[j].status = "completed"
    PROVE  \/ jobs[j].status = "completed" /\ jobs'[j] = jobs[j]
           \/ /\ StoreCompleted(j) /\ jobs[j].status = "pending" /\ thread[j].answer \in Answers
              /\ jobs' = Completed(j, thread[j].answer) /\ CarriesSummary(j)
<1>1. SummaryInv /\ Types /\ References /\ JobsOK
  BY DEF ResultsInv, SummaryInv, Types
<1>2. JobsGrow
  BY <1>1, JobsStep
<1>3. CASE jobs[j].status # "pending"
  BY <1>2, <1>3 DEF JobsGrow
<1>4. CASE jobs[j].status = "pending"
  <2>1. jobs'[j] # jobs[j]
    BY <1>4
  <2>2. ASSUME NEW c \in Clients, Inserts(c) PROVE FALSE
    <3>1. jobs' = Append(jobs, NewJob(c)) /\ jobs \in Seq(JobRecord) /\ NewJob(c) \in JobRecord
      BY <1>1, <2>2, NewJobTyped DEF Inserts, JobsOK
    <3> QED
      BY <2>1, <3>1, AppendFacts
  <2>6. ASSUME NEW c \in Clients, Leaves(c) PROVE FALSE
    <3>1. jobs' = Append(jobs, Unread(c)) /\ jobs \in Seq(JobRecord) /\ Unread(c) \in JobRecord
      BY <1>1, <2>6, NewJobTyped DEF Leaves, JobsOK
    <3> QED
      BY <2>1, <3>1, AppendFacts
  <2>3. ASSUME NEW i \in DOMAIN jobs, Finishes(i) PROVE FALSE
    <3>1. PICK status \in {"failed", "cancelled"} : jobs' = Finished(i, status)
      BY <2>3 DEF Finishes
    <3>2. status \in Terminal
      BY <3>1 DEF Terminal
    <3> QED
      BY <1>1, <1>4, <2>1, <3>1, <3>2, FinishedFacts
  <2>4. ASSUME NEW i \in DOMAIN jobs, Completes(i) PROVE i = j
    BY <1>1, <2>1, <2>4, CompletedFacts DEF Completes
  <2>5. CASE Completes(j)
    BY <1>4, <2>5 DEF Completes, StoreCompleted, CarriesSummary
  <2> QED
    BY <1>1, <2>1, <2>2, <2>3, <2>4, <2>5, <2>6, JobKinds
<1> QED
  BY <1>3, <1>4

(* The types after a step, and the rows. *)
LEMMA Basics ==
    ASSUME ResultsInv, [Next]_vars
    PROVE  /\ SummaryInv /\ SummaryInv' /\ Types /\ References /\ JobsOK /\ JobsOK' /\ JobsGrow
           /\ jobs \in Seq(JobRecord) /\ jobs' \in Seq(JobRecord)
           /\ thread \in [JobIds -> ThreadRecord] /\ client \in [Clients -> CallRecord]
           /\ state \in [job : Nat, status : Statuses, result : Shown]
           /\ DOMAIN jobs = 1..Len(jobs) /\ Len(jobs) \in Nat /\ DOMAIN jobs \subseteq JobIds
           /\ DOMAIN jobs' \subseteq JobIds /\ DOMAIN jobs \subseteq DOMAIN jobs'
           /\ state.job <= Len(jobs) /\ state'.job <= Len(jobs')
<1>1. SummaryInv /\ SummaryInv' /\ JobsGrow
  BY StepInv DEF ResultsInv
<1>2. Types /\ References /\ Types' /\ References'
  BY <1>1 DEF SummaryInv
<1>3. /\ JobsOK /\ JobsOK' /\ jobs \in Seq(JobRecord) /\ jobs' \in Seq(JobRecord)
      /\ thread \in [JobIds -> ThreadRecord] /\ client \in [Clients -> CallRecord]
      /\ state \in [job : Nat, status : Statuses, result : Shown]
      /\ state.job <= Len(jobs) /\ state'.job <= Len(jobs')
  BY <1>2 DEF Types, JobsOK, ThreadsOK, ClientsOK, StateOK, References
<1>4. DOMAIN jobs = 1..Len(jobs) /\ Len(jobs) \in Nat /\ DOMAIN jobs \subseteq JobIds
  BY <1>1, Numbers
<1>5. DOMAIN jobs' \subseteq JobIds
  BY <1>3, SummaryAssumption DEF JobsOK, JobIds
<1> QED
  BY <1>1, <1>2, <1>3, <1>4, <1>5 DEF JobsGrow

(* A new row. *)
LEMMA InsertedRow ==
    ASSUME ResultsInv, [Next]_vars, NEW c \in Clients, Inserts(c)
    PROVE  /\ Starting(c) /\ client[c].pc = "insert" /\ Len(jobs) + 1 \in JobIds
           /\ DOMAIN jobs' = 1..(Len(jobs) + 1) /\ Len(jobs') = Len(jobs) + 1
           /\ jobs'[Len(jobs) + 1].status = "pending" /\ jobs'[Len(jobs) + 1].results = {}
           /\ jobs'[Len(jobs) + 1].chunks = <<>>
           /\ \A j \in DOMAIN jobs : jobs'[j] = jobs[j]
           /\ cancel' = FALSE /\ UNCHANGED <<thread, state>>
           /\ closing'.pc = closing.pc /\ closing'.job = closing.job
           /\ closing.pc \in {"look", "state"} => Len(jobs) + 1 \in closing'.spared
           /\ client'[c].pc = "announce" /\ client'[c].job = Len(jobs) + 1 /\ jobs'[Len(jobs) + 1].told
           /\ \A d \in Clients : d # c => client'[d] = client[d]
<1>1. jobs \in Seq(JobRecord) /\ Len(jobs) \in Nat /\ Types /\ References /\ client \in [Clients -> CallRecord]
  BY Basics
<1>2. /\ jobs' = Append(jobs, NewJob(c)) /\ NewJob(c) \in JobRecord /\ Insert(c) /\ Len(jobs) < MaxJobs
      /\ NewJob(c).status = "pending" /\ NewJob(c).results = {} /\ NewJob(c).chunks = <<>> /\ NewJob(c).told
  BY <1>1, NewJobTyped DEF Inserts
<1>3. /\ DOMAIN jobs' = 1..(Len(jobs) + 1) /\ Len(jobs') = Len(jobs) + 1
      /\ jobs'[Len(jobs) + 1] = NewJob(c) /\ \A j \in DOMAIN jobs : jobs'[j] = jobs[j]
  BY <1>1, <1>2, AppendFacts
<1>4. Len(jobs) + 1 \in JobIds
  BY <1>1, <1>2, SummaryAssumption DEF JobIds
<1>5. Starting(c) /\ client[c].pc = "insert" /\ cancel' = FALSE /\ UNCHANGED <<thread, state>>
  BY <1>2 DEF Insert, LowerFlag, Starting
<1>7. /\ closing'.pc = closing.pc /\ closing'.job = closing.job
      /\ closing.pc \in {"look", "state"} => Len(jobs) + 1 \in closing'.spared
  <2> DEFINE n == Len(jobs) + 1
  <2>1. jobs' # jobs
    BY <1>1, <1>3
  <2>2. LowerFlag({n}) /\ ClosingOK
    BY <1>1, <1>2, <2>1 DEF Insert, Types
  <2> HIDE DEF n
  <2>3. /\ closing'.pc = closing.pc /\ closing'.job = closing.job
        /\ closing.pc \in {"look", "state"} => n \in closing'.spared
    BY <2>2 DEF LowerFlag, ClosingOK
  <2> QED
    BY <2>3 DEF n
<1>6. client'[c].pc = "announce" /\ client'[c].job = Len(jobs) + 1 /\ \A d \in Clients : d # c => client'[d] = client[d]
  <2> DEFINE n == Len(jobs) + 1
  <2>1. jobs' # jobs
    BY <1>1, <1>3
  <2>2. client' = [client EXCEPT ![c].pc = "announce", ![c].job = n]
    BY <1>2, <2>1 DEF Insert
  <2> HIDE DEF n
  <2>3. client'[c].pc = "announce" /\ client'[c].job = n /\ \A d \in Clients : d # c => client'[d] = client[d]
    BY <1>1, <2>2 DEF CallRecord
  <2> QED
    BY <2>3 DEF n
<1> QED
  BY <1>2, <1>3, <1>4, <1>5, <1>6, <1>7

(* A new row whose command has failed. *)
LEMMA LeftRow ==
    ASSUME ResultsInv, [Next]_vars, NEW c \in Clients, Leaves(c)
    PROVE  /\ Starting(c) /\ client[c].pc = "insert" /\ client'[c].pc = "idle"
           /\ DOMAIN jobs' = 1..(Len(jobs) + 1) /\ Len(jobs') = Len(jobs) + 1
           /\ jobs'[Len(jobs) + 1].status = "pending" /\ jobs'[Len(jobs) + 1].results = {}
           /\ jobs'[Len(jobs) + 1].chunks = <<>>
           /\ \A j \in DOMAIN jobs : jobs'[j] = jobs[j]
<1>1. jobs \in Seq(JobRecord) /\ Len(jobs) \in Nat /\ Types /\ References /\ client \in [Clients -> CallRecord]
  BY Basics
<1>2. /\ jobs' = Append(jobs, Unread(c)) /\ Unread(c) \in JobRecord /\ InsertUnread(c)
      /\ Unread(c).status = "pending" /\ Unread(c).results = {} /\ Unread(c).chunks = <<>>
  BY <1>1, NewJobTyped DEF Leaves
<1>3. /\ DOMAIN jobs' = 1..(Len(jobs) + 1) /\ Len(jobs') = Len(jobs) + 1
      /\ jobs'[Len(jobs) + 1] = Unread(c) /\ \A j \in DOMAIN jobs : jobs'[j] = jobs[j]
  BY <1>1, <1>2, AppendFacts
<1>4. Starting(c) /\ client[c].pc = "insert" /\ client'[c].pc = "idle"
  BY <1>1, <1>2 DEF InsertUnread, Starting, NoCall
<1> QED
  BY <1>2, <1>3, <1>4

LEMMA RowsTellStep ==
    ASSUME ResultsInv, [Next]_vars
    PROVE  RowsTell'
<1> SUFFICES ASSUME NEW j \in DOMAIN jobs'
             PROVE  IF jobs'[j].status = "completed"
                    THEN /\ Chunked(jobs'[j].meeting) /\ jobs'[j].chunks = ChunkRows(jobs'[j].meeting)
                         /\ \E a \in Answers : AnswerValid(jobs'[j].meeting, a) /\ jobs'[j].results = ResultRows(a)
                    ELSE jobs'[j].results = {} /\ jobs'[j].chunks = <<>>
  BY DEF RowsTell
<1>1. /\ JobsOK /\ Types /\ References /\ JobsGrow /\ DOMAIN jobs = 1..Len(jobs) /\ Len(jobs) \in Nat /\ RowsTell
      /\ DOMAIN jobs \subseteq JobIds
  BY Basics DEF ResultsInv
<1>2. CASE UNCHANGED jobs
  BY <1>1, <1>2 DEF RowsTell
<1>3. ASSUME NEW c \in Clients, Inserts(c)
      PROVE  \/ jobs'[j].status # "completed" /\ jobs'[j].results = {} /\ jobs'[j].chunks = <<>>
             \/ j \in DOMAIN jobs /\ jobs'[j] = jobs[j]
  <2>1. DOMAIN jobs' = 1..(Len(jobs) + 1)
    BY <1>3, InsertedRow
  <2>2. j = Len(jobs) + 1 \/ j \in DOMAIN jobs
    BY <1>1, <2>1
  <2> QED
    BY <1>3, <2>2, InsertedRow
<1>7. ASSUME NEW c \in Clients, Leaves(c)
      PROVE  \/ jobs'[j].status # "completed" /\ jobs'[j].results = {} /\ jobs'[j].chunks = <<>>
             \/ j \in DOMAIN jobs /\ jobs'[j] = jobs[j]
  <2>1. DOMAIN jobs' = 1..(Len(jobs) + 1)
    BY <1>7, LeftRow
  <2>2. j = Len(jobs) + 1 \/ j \in DOMAIN jobs
    BY <1>1, <2>1
  <2> QED
    BY <1>7, <2>2, LeftRow
<1>4. ASSUME NEW i \in DOMAIN jobs, Finishes(i)
      PROVE  \/ j \in DOMAIN jobs /\ jobs'[j] = jobs[j]
             \/ jobs'[j].status # "completed" /\ jobs'[j].results = {} /\ jobs'[j].chunks = <<>>
  <2>1. PICK status \in {"failed", "cancelled"} : jobs' = Finished(i, status)
    BY <1>4 DEF Finishes
  <2>2. status \in Terminal /\ status # "completed"
    BY <2>1 DEF Terminal
  <2>3. j \in DOMAIN jobs /\ (i # j \/ jobs[i].status # "pending" => jobs'[j] = jobs[j])
    BY <1>1, <2>1, <2>2, FinishedFacts
  <2>4. CASE i = j /\ jobs[j].status = "pending"
    <3>1. jobs'[j].status = status /\ jobs'[j].results = jobs[j].results /\ jobs'[j].chunks = jobs[j].chunks
      BY <1>1, <2>1, <2>2, <2>4, FinishedFacts
    <3> QED
      BY <1>1, <2>2, <2>3, <2>4, <3>1 DEF RowsTell
  <2> QED
    BY <2>3, <2>4
<1>5. ASSUME NEW i \in DOMAIN jobs, Completes(i)
      PROVE  \/ j \in DOMAIN jobs /\ jobs'[j] = jobs[j]
             \/ /\ jobs'[j].status = "completed" /\ Chunked(jobs'[j].meeting)
                /\ jobs'[j].chunks = ChunkRows(jobs'[j].meeting)
                /\ \E a \in Answers : AnswerValid(jobs'[j].meeting, a) /\ jobs'[j].results = ResultRows(a)
  <2>1. jobs' = Completed(i, thread[i].answer) /\ thread[i].answer \in Answers /\ CarriesSummary(i) /\ i \in JobIds
    BY <1>1, <1>5 DEF Completes, StoreCompleted, CarriesSummary
  <2>2. SummaryFits(i)
    BY <1>1, <2>1 DEF References
  <2>3. j \in DOMAIN jobs /\ (i # j \/ jobs[i].status # "pending" => jobs'[j] = jobs[j])
    BY <1>1, <2>1, CompletedFacts
  <2>4. CASE i = j /\ jobs[j].status = "pending"
    <3>1. /\ jobs'[j].status = "completed" /\ jobs'[j].results = ResultRows(thread[j].answer)
          /\ jobs'[j].chunks = ChunkRows(jobs[j].meeting) /\ jobs'[j].meeting = jobs[j].meeting
      BY <1>1, <2>1, <2>4, CompletedFacts
    <3> QED
      BY <2>1, <2>2, <2>4, <3>1 DEF SummaryFits
  <2> QED
    BY <2>3, <2>4
<1>6. CASE j \in DOMAIN jobs /\ jobs'[j] = jobs[j]
  BY <1>1, <1>6 DEF RowsTell
<1> QED
  BY <1>1, <1>2, <1>3, <1>4, <1>5, <1>6, <1>7, JobKinds

-----------------------------------------------------------------------------
(* Whose thread moves: that of a running job, or of the job that starts. *)
LEMMA StillWithoutThread ==
    ASSUME ResultsInv, [Next]_vars, NEW j \in JobIds, thread[j].pc = "none",
           \A c \in Clients : Spawn(c) => client[c].job # j
    PROVE  thread'[j].pc = "none"
<1>1. ASSUME NEW i \in JobIds, ThreadStep(i) PROVE thread'[j] = thread[j]
  BY <1>1, ThreadSays
<1>2. ASSUME NEW c \in Clients, Spawn(c) PROVE thread'[j] = thread[j]
  BY <1>2, SpawnFacts
<1>3. CASE Restart
  BY <1>3 DEF Restart, NoThread
<1> QED
  BY <1>1, <1>2, <1>3, Writers

LEMMA JobOfStartStep ==
    ASSUME ResultsInv, [Next]_vars, NEW c \in Clients
    PROVE  JobOfStart(c)'
<1>1. /\ SummaryInv /\ Types /\ References /\ JobsOK /\ JobsGrow /\ client \in [Clients -> CallRecord]
      /\ DOMAIN jobs = 1..Len(jobs) /\ Len(jobs) \in Nat /\ DOMAIN jobs \subseteq JobIds
      /\ DOMAIN jobs \subseteq DOMAIN jobs' /\ state.job <= Len(jobs)
      /\ state \in [job : Nat, status : Statuses, result : Shown]
  BY Basics
<1>2. Hands /\ JobOfStart(c)
  BY DEF ResultsInv, Hands
<1>3. client[c].pc \in {"announce", "spawn", "unspawned", "state"} => client[c].job \in DOMAIN jobs
  BY <1>1 DEF References
(* Of a job without a thread: nobody completes it. *)
<1>4. ASSUME NEW j \in DOMAIN jobs, thread[j].pc = "none", jobs[j].status # "completed"
      PROVE  jobs'[j].status # "completed"
  <2>1. ~StoreCompleted(j)
    BY <1>4 DEF StoreCompleted
  <2> QED
    BY <1>4, <2>1, WhoCompletes
(* Two starts do not overlap. *)
<1>5. ASSUME Starter(c), NEW d \in Clients, Starting(d) PROVE d = c
  BY <1>1, <1>5, OneIsBusy, StarterStarts
<1>6. CASE client'[c] = client[c]
  <2>1. ASSUME client[c].pc \in {"announce", "spawn", "unspawned"}
        PROVE  /\ thread'[client[c].job].pc = "none" /\ jobs'[client[c].job].status # "completed"
               /\ jobs'[client[c].job].told
    <3>1. ASSUME NEW d \in Clients, Spawn(d), client[d].job = client[c].job PROVE FALSE
      <4>1. d # c
        BY <1>6, <2>1, <3>1, SpawnFacts
      <4>2. Starter(d) /\ Starting(d)
        BY <3>1 DEF Spawn, Starter, Starting
      <4>3. CASE Starter(c)
        BY <1>5, <4>1, <4>2, <4>3
      <4>4. CASE client[c].pc = "unspawned"
        BY <1>2, <3>1, <4>2, <4>4 DEF Hands
      <4> QED
        BY <2>1, <4>3, <4>4 DEF Starter
    <3>2. client[c].job \in DOMAIN jobs /\ client[c].job \in JobIds
      BY <1>1, <1>3, <2>1
    <3> QED
      BY <1>1, <1>2, <1>4, <2>1, <3>1, <3>2, StillWithoutThread DEF JobOfStart, JobsGrow
  <2>2. ASSUME Starter(c) PROVE Len(jobs') = Len(jobs)
    <3>1. ASSUME NEW d \in Clients, Inserts(d) PROVE FALSE
      <4>1. d = c
        BY <1>5, <2>2, <3>1, InsertedRow
      <4> QED
        BY <1>6, <3>1, <4>1, InsertedRow
    <3>4. ASSUME NEW d \in Clients, Leaves(d) PROVE FALSE
      <4>1. d = c
        BY <1>5, <2>2, <3>4, LeftRow
      <4> QED
        BY <1>6, <3>4, <4>1, LeftRow
    <3>2. ASSUME NEW i \in DOMAIN jobs, Finishes(i) PROVE Len(jobs') = Len(jobs)
      BY <1>1, <3>2, FinishedFacts DEF Finishes, Terminal
    <3>3. ASSUME NEW i \in DOMAIN jobs, Completes(i) PROVE Len(jobs') = Len(jobs)
      BY <1>1, <3>3, CompletedFacts DEF Completes
    <3> QED
      BY <1>1, <3>1, <3>2, <3>3, <3>4, JobKinds
  <2>3. ASSUME client[c].pc = "spawn" PROVE state'.job = state.job
    <3>1. ASSUME NEW d \in Clients, Announce(d) PROVE FALSE
      <4>1. Starting(d) /\ client[d].pc = "announce"
        BY <3>1 DEF Announce, Starting
      <4> QED
        BY <1>5, <2>3, <4>1 DEF Starter
    <3>2. ASSUME NEW d \in Clients, Unspawned(d) \/ CancelState(d) PROVE state'.job = state.job
      BY <1>1, <3>2 DEF Unspawned, CancelState, Announced
    <3>3. ASSUME NEW j \in JobIds, ThreadStep(j) PROVE state'.job = state.job
      BY <3>3, ThreadSays
    <3>4. ~Restart
      BY <1>6, <2>3 DEF Restart, NoCall
    <3> QED
      BY <3>1, <3>2, <3>3, <3>4, Writers
  <2>4. ASSUME client[c].pc = "unspawned" PROVE client[c].job <= state'.job
    <3>1. ASSUME NEW d \in Clients, Announce(d) PROVE client[c].job <= state'.job
      <4>1. client[d].job = Len(jobs) /\ state'.job = client[d].job
        BY <1>2, <3>1 DEF Announce, Hands, JobOfStart, Starter
      <4> QED
        BY <1>1, <1>3, <2>4, <4>1
    <3>2. ASSUME NEW d \in Clients, Unspawned(d) \/ CancelState(d) PROVE state'.job = state.job
      BY <1>1, <3>2 DEF Unspawned, CancelState, Announced
    <3>3. ASSUME NEW j \in JobIds, ThreadStep(j) PROVE state'.job = state.job
      BY <3>3, ThreadSays
    <3>4. ~Restart
      BY <1>6, <2>4 DEF Restart, NoCall
    <3>5. client[c].job <= state.job
      BY <1>2, <2>4 DEF JobOfStart
    <3> QED
      BY <3>1, <3>2, <3>3, <3>4, <3>5, Writers
  <2>5. ASSUME client[c].pc = "state" PROVE jobs'[client[c].job].status = "cancelled"
    <3>1. jobs[client[c].job].status = "cancelled" /\ client[c].job \in DOMAIN jobs
      BY <1>2, <1>3, <2>5 DEF JobOfStart
    <3> QED
      BY <1>1, <3>1 DEF JobsGrow
  <2> QED
    BY <1>2, <1>6, <2>1, <2>2, <2>3, <2>4, <2>5 DEF JobOfStart, Starter
<1>7. CASE Command(c)
  <2>1. client'[c].pc \in {"claim", "flag", "save", "probe"}
    BY <1>1, <1>7, CommandTyped
  <2> QED
    BY <2>1 DEF JobOfStart, Starter
<1>8. CASE CommandStep(c)
  <2>1. CASE client'[c].pc = "announce"
    <3>1. Inserts(c)
      BY <1>1, <1>8, <2>1, CommandStepTyped
    <3>2. thread[Len(jobs) + 1].pc = "none"
      <4>1. Len(jobs) + 1 \in JobIds
        BY <3>1, InsertedRow
      <4>2. Len(jobs) + 1 \notin DOMAIN jobs
        BY <1>1
      <4> QED
        BY <1>1, <4>1, <4>2 DEF References
    <3> QED
      BY <2>1, <3>1, <3>2, InsertedRow DEF JobOfStart, Starter
  <2>2. CASE client'[c].pc \in {"spawn", "unspawned"}
    <3>1. /\ client'[c].job = client[c].job
          /\ \/ Announce(c) /\ client'[c].pc = "spawn"
             \/ SpawnRefused(c) /\ client'[c].pc = "unspawned"
      BY <1>1, <1>8, <2>2, CommandStepTyped
    <3>2. /\ UNCHANGED <<jobs, thread>> /\ Starter(c)
          /\ Announce(c) => state'.job = client[c].job
          /\ SpawnRefused(c) => state' = state /\ client[c].pc = "spawn"
      BY <3>1 DEF Announce, SpawnRefused, Starter
    <3>3. /\ thread[client[c].job].pc = "none" /\ jobs[client[c].job].status # "completed"
          /\ jobs[client[c].job].told
          /\ client[c].job = Len(jobs) /\ (client[c].pc = "spawn" => state.job = client[c].job)
      BY <1>2, <3>2 DEF JobOfStart, Starter
    <3> QED
      BY <1>1, <2>2, <3>1, <3>2, <3>3 DEF JobOfStart, Starter
  <2>3. CASE client'[c].pc = "state"
    <3>1. CancelRow(c) /\ client'[c].job = client[c].job
      BY <1>1, <1>8, <2>3, CommandStepTyped
    <3>2. client[c].job \in DOMAIN jobs
      BY <1>1, <3>1 DEF CancelRow, References
    <3>3. jobs[client[c].job].status = "pending" /\ jobs' = Finished(client[c].job, "cancelled")
      <4>1. ASSUME client' = [client EXCEPT ![c] = NoCall] PROVE FALSE
        BY <1>1, <2>3, <4>1 DEF NoCall
      <4> QED
        BY <3>1, <4>1 DEF CancelRow
    <3>4. jobs'[client[c].job].status = "cancelled"
      BY <1>1, <3>2, <3>3, FinishedFacts DEF Terminal
    <3> QED
      BY <2>3, <3>1, <3>4 DEF JobOfStart, Starter
  <2>4. CASE client'[c].pc \notin {"announce", "spawn", "unspawned", "state"}
    BY <2>4 DEF JobOfStart, Starter
  <2> QED
    BY <2>1, <2>2, <2>3, <2>4
<1>9. ASSUME NEW d \in Clients, Command(d) \/ CommandStep(d) PROVE client'[c] = client[c] \/ d = c
  BY <1>1, <1>9, CommandTyped, CommandStepTyped
<1>10. CASE Restart
  <2>1. client'[c].pc = "idle"
    BY <1>10 DEF Restart, NoCall
  <2> QED
    BY <2>1 DEF JobOfStart, Starter
<1> QED
  BY <1>6, <1>7, <1>8, <1>9, <1>10, Writers

LEMMA HandsStep ==
    ASSUME ResultsInv, [Next]_vars
    PROVE  Hands'
<1>1. /\ SummaryInv /\ Types /\ References /\ client \in [Clients -> CallRecord]
      /\ DOMAIN jobs = 1..Len(jobs) /\ Len(jobs) \in Nat
  BY Basics
<1>2. ASSUME NEW c \in Clients, NEW d \in Clients, Starter(c)', client'[d].pc = "unspawned"
      PROVE  client'[c].job # client'[d].job
  <2>1. ASSUME NEW e \in Clients, Command(e) PROVE client'[e].pc \notin {"announce", "spawn", "unspawned"}
    BY <1>1, <2>1, CommandTyped
  <2>2. ASSUME NEW e \in Clients, Command(e) \/ CommandStep(e) PROVE \A x \in Clients : x # e => client'[x] = client[x]
    BY <1>1, <2>2, CommandTyped, CommandStepTyped
  <2>3. CASE client'[c] = client[c] /\ client'[d] = client[d]
    BY <1>2, <2>3 DEF ResultsInv, Hands, Starter
  <2>4. CASE CommandStep(c) /\ c # d
    <3>1. client'[d] = client[d]
      BY <2>2, <2>4
    <3>2. \/ Inserts(c) /\ client'[c].job = Len(jobs) + 1
          \/ Announce(c) /\ client'[c].job = client[c].job
      BY <1>1, <1>2, <2>4, CommandStepTyped DEF Starter
    <3>3. client[d].job \in DOMAIN jobs
      BY <1>1, <1>2, <3>1 DEF References
    <3>4. CASE Inserts(c) /\ client'[c].job = Len(jobs) + 1
      BY <1>1, <3>1, <3>3, <3>4
    <3>5. CASE Announce(c) /\ client'[c].job = client[c].job
      <4>1. Starter(c)
        BY <3>5 DEF Announce, Starter
      <4> QED
        BY <1>2, <3>1, <3>5, <4>1 DEF ResultsInv, Hands
    <3> QED
      BY <3>2, <3>4, <3>5
  <2>5. CASE CommandStep(d) /\ c # d
    <3>1. client'[c] = client[c]
      BY <2>2, <2>5
    <3>2. SpawnRefused(d)
      BY <1>1, <1>2, <2>5, CommandStepTyped
    <3>3. Starting(d) /\ Starting(c)
      BY <1>2, <3>1, <3>2 DEF SpawnRefused, Starting, Starter
    <3> QED
      BY <1>1, <2>5, <3>3, OneIsBusy
  <2>6. c # d
    BY <1>2 DEF Starter
  <2>7. ~Restart
    BY <1>2 DEF Restart, NoCall
  <2> QED
    BY <1>2, <2>1, <2>2, <2>3, <2>4, <2>5, <2>6, <2>7, Writers DEF Starter
<1> QED
  BY <1>2, JobOfStartStep DEF Hands

-----------------------------------------------------------------------------
(* The announced state. *)

LEMMA AnnouncedRunsStep ==
    ASSUME ResultsInv, [Next]_vars
    PROVE  RunsAreAnnounced'
<1>1. SummaryInv /\ state \in [job : Nat, status : Statuses, result : Shown]
  BY Basics
<1> SUFFICES ASSUME NEW j \in JobIds, Running(j)' PROVE state'.job = j
  BY DEF RunsAreAnnounced
<1>2. ASSUME NEW c \in Clients, Spawn(c) PROVE state'.job = j
  <2>1. CASE client[c].job = j
    BY <1>2, <2>1, SpawnFacts
  <2>2. CASE client[c].job # j
    <3>1. Running(j)
      BY <1>2, <2>2, SpawnFacts DEF Running
    <3>2. Starting(c)
      BY <1>2 DEF Spawn, Starting
    <3> QED
      BY <1>1, <3>1, <3>2, OneIsBusy
  <2> QED
    BY <2>1, <2>2
<1>3. ASSUME NEW i \in JobIds, ThreadStep(i) PROVE state'.job = j
  <2>1. Running(j)
    BY <1>3, ThreadSays DEF Running
  <2> QED
    BY <1>3, <2>1, ThreadSays DEF ResultsInv, RunsAreAnnounced
<1>4. CASE UNCHANGED thread
  <2>1. Running(j) /\ state.job = j
    BY <1>4 DEF Running, ResultsInv, RunsAreAnnounced
  <2>2. ASSUME NEW c \in Clients, Announce(c) PROVE FALSE
    <3>1. Starting(c)
      BY <2>2 DEF Announce, Starting
    <3> QED
      BY <1>1, <2>1, <3>1, OneIsBusy
  <2>3. ASSUME NEW c \in Clients, Unspawned(c) \/ CancelState(c) PROVE state'.job = j
    BY <1>1, <2>1, <2>3 DEF Unspawned, CancelState, Announced
  <2>4. ~Restart
    BY DEF Restart, NoThread, Running
  <2> QED
    BY <1>3, <2>1, <2>2, <2>3, <2>4, Writers
<1>5. ~Restart
  BY DEF Restart, NoThread, Running
<1> QED
  BY <1>2, <1>3, <1>4, <1>5, Writers

LEMMA NotYetShownStep ==
    ASSUME ResultsInv, [Next]_vars
    PROVE  NotYetShown'
<1>1. /\ SummaryInv /\ state \in [job : Nat, status : Statuses, result : Shown] /\ DOMAIN jobs' \subseteq JobIds
      /\ DOMAIN jobs = 1..Len(jobs) /\ Len(jobs) \in Nat /\ state.job <= Len(jobs)
      /\ jobs' \in Seq(JobRecord)
  BY Basics
<1> SUFFICES ASSUME NEW j \in DOMAIN jobs', state'.job = j, thread'[j].pc = "none" PROVE state'.status # "completed"
  BY DEF NotYetShown
<1>2. j \in JobIds /\ j # 0
  BY <1>1
<1>3. ASSUME state.job = j, thread[j].pc = "none" PROVE state.status # "completed"
  <2>1. j \in DOMAIN jobs
    BY <1>1, <1>2, <1>3 DEF JobIds
  <2> QED
    BY <1>3, <2>1 DEF ResultsInv, NotYetShown
<1>4. ASSUME NEW i \in JobIds, ThreadStep(i) PROVE state'.status # "completed"
  <2>1. i = j
    BY <1>4, ThreadSays
  <2> QED
    BY <1>4, <2>1, ThreadSays
<1>5. ASSUME NEW c \in Clients, Spawn(c) PROVE state'.status # "completed"
  <2>1. thread'[j] = thread[j] /\ state' = state
    BY <1>2, <1>5, SpawnFacts
  <2> QED
    BY <1>3, <2>1
<1>6. ~Restart
  BY <1>2 DEF Restart, Nobody
<1>7. CASE UNCHANGED thread
  <2>1. ASSUME NEW c \in Clients, Announce(c) PROVE state'.status # "completed"
    BY <2>1 DEF Announce
  <2>2. ASSUME NEW c \in Clients, Unspawned(c) PROVE state'.status # "completed"
    BY <1>1, <2>2 DEF Unspawned
  <2>3. ASSUME NEW c \in Clients, CancelState(c) PROVE state'.status = "cancelled" \/ state' = state
    BY <1>1, <2>3 DEF CancelState, Announced
  <2> QED
    BY <1>3, <1>4, <1>6, <1>7, <2>1, <2>2, <2>3, Writers
<1> QED
  BY <1>4, <1>5, <1>6, <1>7, Writers

LEMMA OnlyItsRunStep ==
    ASSUME ResultsInv, [Next]_vars
    PROVE  OnlyItsRunCompletes'
<1>1. /\ SummaryInv /\ JobsOK /\ JobsGrow /\ DOMAIN jobs' \subseteq JobIds
      /\ DOMAIN jobs = 1..Len(jobs) /\ Len(jobs) \in Nat
  BY Basics
<1>2. ASSUME NEW j \in JobIds, ThreadStep(j) PROVE Moves(j)
  BY <1>1, <1>2, ThreadMoves
<1> SUFFICES ASSUME NEW j \in DOMAIN jobs'
             PROVE  /\ jobs'[j].status = "completed" => thread'[j].pc \in {"none", "release", "ended"} \/ Tells(j)'
                    /\ Tells(j)' => jobs'[j].status = "completed" /\ jobs'[j].results = ResultRows(thread'[j].answer)
  BY DEF OnlyItsRunCompletes
<1>3. j \in JobIds
  BY <1>1
<1>4. CASE j \notin DOMAIN jobs
  <2>1. thread'[j].pc = "none"
    <3>1. thread[j].pc = "none"
      BY <1>1, <1>3, <1>4 DEF SummaryInv, References
    <3>2. ASSUME NEW c \in Clients, Spawn(c) PROVE client[c].job # j
      BY <1>4, <3>2, SpawnFacts
    <3> QED
      BY <1>3, <3>1, <3>2, StillWithoutThread
  <2> QED
    BY <2>1 DEF Tells
<1>5. CASE j \in DOMAIN jobs
  <2>1. ASSUME jobs'[j].status = "completed" PROVE thread'[j].pc \in {"none", "release", "ended"} \/ Tells(j)'
    <3>1. CASE StoreCompleted(j) /\ jobs[j].status = "pending" /\ jobs' = Completed(j, thread[j].answer)
      <4>1. Moves(j) /\ thread[j].pc = "store"
        BY <1>2, <1>3, <3>1 DEF ThreadStep, StoreCompleted
      <4>2. jobs' # jobs
        BY <2>1, <3>1
      <4>3. thread'[j].pc = "tell" /\ thread'[j].outcome = "completed"
        BY <3>1, <4>1, <4>2 DEF Moves, StoreOther, StoreCompleted
      <4> QED
        BY <4>3 DEF Tells
    <3>2. CASE jobs[j].status = "completed"
      <4>1. thread[j].pc \in {"none", "release", "ended"} \/ Tells(j)
        BY <1>5, <3>2 DEF ResultsInv, OnlyItsRunCompletes
      <4>2. CASE thread'[j] = thread[j]
        BY <4>1, <4>2 DEF Tells
      <4>3. CASE ThreadStep(j)
        <5>1. Moves(j) /\ thread[j].pc \in {"release", "tell"}
          BY <1>2, <1>3, <4>1, <4>3, ThreadSays DEF Tells
        <5> QED
          BY <5>1 DEF Moves
      <4>4. ASSUME NEW i \in JobIds, ThreadStep(i), i # j PROVE thread'[j] = thread[j]
        BY <1>3, <4>4, ThreadSays
      <4>5. ASSUME NEW c \in Clients, Spawn(c) PROVE thread'[j] = thread[j]
        BY <1>3, <3>2, <4>5, SpawnFacts
      <4>6. CASE Restart
        BY <1>3, <4>6 DEF Restart, NoThread
      <4> QED
        BY <4>2, <4>3, <4>4, <4>5, <4>6, Writers
    <3> QED
      BY <1>5, <2>1, <3>1, <3>2, WhoCompletes
  <2>2. ASSUME Tells(j)' PROVE jobs'[j].status = "completed" /\ jobs'[j].results = ResultRows(thread'[j].answer)
    <3>1. CASE thread'[j] = thread[j]
      <4>1. Tells(j)
        BY <2>2, <3>1 DEF Tells
      <4>2. jobs[j].status = "completed" /\ jobs[j].results = ResultRows(thread[j].answer)
        BY <1>5, <4>1 DEF ResultsInv, OnlyItsRunCompletes
      <4>3. jobs'[j] = jobs[j]
        BY <1>1, <1>5, <4>2 DEF JobsGrow
      <4> QED
        BY <3>1, <4>2, <4>3
    <3>2. CASE ThreadStep(j)
      <4>1. Moves(j) /\ thread'[j].pc = "tell" /\ thread'[j].outcome = "completed"
        BY <1>2, <1>3, <2>2, <3>2 DEF Tells
      <4>2. /\ StoreCompleted(j) /\ thread'[j].answer = thread[j].answer /\ jobs[j].status = "pending"
            /\ jobs' = Completed(j, thread[j].answer)
        BY <4>1 DEF Moves
      <4>3. thread[j].answer \in Answers
        <5>1. CarriesSummary(j)
          BY <4>2 DEF StoreCompleted, CarriesSummary
        <5> QED
          BY <1>1, <1>3, <5>1 DEF SummaryInv, References, SummaryFits
      <4> QED
        BY <1>1, <1>5, <4>2, <4>3, CompletedFacts
    <3>3. ASSUME NEW i \in JobIds, ThreadStep(i), i # j PROVE thread'[j] = thread[j]
      BY <1>3, <3>3, ThreadSays
    <3>4. ASSUME NEW c \in Clients, Spawn(c) PROVE thread'[j] = thread[j]
      BY <1>3, <2>2, <3>4, SpawnFacts DEF Tells
    <3>5. ~Restart
      BY <1>3, <2>2 DEF Restart, NoThread, Tells
    <3> QED
      BY <3>1, <3>2, <3>3, <3>4, <3>5, Writers
  <2> QED
    BY <2>1, <2>2
<1> QED
  BY <1>4, <1>5

(* How a job that is over and announced came to be so: it was, and what is   *)
(* announced may have been changed by a command, or its run tells just now. *)
LEMMA OverFacts ==
    ASSUME ResultsInv, [Next]_vars, NEW j \in DOMAIN jobs', IsOver(j)'
    PROVE  /\ j \in DOMAIN jobs /\ j \in JobIds
           /\ \/ IsOver(j) /\ state' = state
              \/ Tell(j)
              \/ IsOver(j) /\ UNCHANGED <<jobs, thread>> /\ \E c \in Clients : Unspawned(c) \/ CancelState(c)
              \/ IsOver(j) /\ UNCHANGED thread /\ \E c \in Clients : Unspawned(c)
           /\ jobs'[j].status = "completed" => jobs[j].status = "completed" /\ jobs'[j] = jobs[j]
<1>1. /\ SummaryInv /\ DOMAIN jobs' \subseteq JobIds /\ state \in [job : Nat, status : Statuses, result : Shown]
      /\ DOMAIN jobs = 1..Len(jobs) /\ Len(jobs) \in Nat /\ state.job <= Len(jobs)
  BY Basics
<1>2. j \in JobIds /\ j # 0 /\ state'.job = j /\ thread'[j].pc \in {"release", "ended"}
  BY <1>1 DEF IsOver, JobIds
<1>3. ~Restart
  BY <1>2 DEF Restart, NoThread
<1>4. ASSUME NEW i \in JobIds, ThreadStep(i) PROVE i = j /\ (Tell(j) \/ (IsOver(j) /\ state' = state)) /\ j \in DOMAIN jobs
  <2>1. i = j /\ state.job = j /\ j \in DOMAIN jobs /\ Moves(j)
    BY <1>1, <1>2, <1>4, ThreadSays, ThreadMoves
  <2>2. Tell(j) \/ Release(j)
    BY <1>2, <2>1 DEF Moves
  <2>3. ASSUME Release(j) PROVE IsOver(j) /\ state' = state
    BY <2>1, <2>3 DEF Release, IsOver
  <2> QED
    BY <2>1, <2>2, <2>3
<1>5. ASSUME NEW c \in Clients, Spawn(c) PROVE IsOver(j) /\ state' = state
  <2>1. client[c].job # j
    BY <1>2, <1>5, SpawnFacts
  <2> QED
    BY <1>2, <1>5, <2>1, SpawnFacts DEF IsOver
<1>6. ASSUME NEW c \in Clients, Announce(c) PROVE FALSE
  <2>1. client[c].job = j /\ UNCHANGED thread /\ client[c].pc = "announce"
    BY <1>2, <1>6 DEF Announce
  <2> QED
    BY <1>2, <2>1 DEF ResultsInv, Hands, JobOfStart
<1>7. ASSUME UNCHANGED <<thread, state>> PROVE IsOver(j) /\ state' = state
  BY <1>2, <1>7 DEF IsOver
<1>8. ASSUME NEW c \in Clients, Unspawned(c) \/ CancelState(c) PROVE IsOver(j) /\ UNCHANGED thread
  <2>1. UNCHANGED thread /\ state'.job = state.job
    BY <1>1, <1>8 DEF Unspawned, CancelState, Announced
  <2> QED
    BY <1>2, <2>1 DEF IsOver
<1>9. \/ IsOver(j) /\ state' = state
      \/ Tell(j)
      \/ IsOver(j) /\ UNCHANGED <<jobs, thread>> /\ \E c \in Clients : Unspawned(c) \/ CancelState(c)
      \/ IsOver(j) /\ UNCHANGED thread /\ \E c \in Clients : Unspawned(c)
  <2>1. ASSUME NEW c \in Clients, CancelState(c) PROVE UNCHANGED jobs
    BY <2>1 DEF CancelState
  <2> QED
    BY <1>3, <1>4, <1>5, <1>6, <1>7, <1>8, <2>1, Writers
<1>10. j \in DOMAIN jobs
  <2>1. ASSUME IsOver(j) PROVE j \in DOMAIN jobs
    BY <1>1, <1>2, <2>1 DEF IsOver, JobIds
  <2>2. ASSUME Tell(j) PROVE j \in DOMAIN jobs
    BY <1>2, <1>4, <2>2 DEF ThreadStep
  <2> QED
    BY <1>9, <2>1, <2>2
<1>11. ASSUME jobs'[j].status = "completed" PROVE jobs[j].status = "completed" /\ jobs'[j] = jobs[j]
  <2>1. ~StoreCompleted(j)
    BY <1>9 DEF StoreCompleted, IsOver, Tell
  <2> QED
    BY <1>10, <1>11, <2>1, WhoCompletes
<1> QED
  BY <1>2, <1>9, <1>10, <1>11

LEMMA ShownIsWholeStep ==
    ASSUME ResultsInv, [Next]_vars
    PROVE  ShownIsWhole'
<1>1. /\ SummaryInv /\ JobsGrow /\ state \in [job : Nat, status : Statuses, result : Shown]
  BY Basics
<1> SUFFICES ASSUME NEW j \in DOMAIN jobs', IsOver(j)', state'.status = "completed"
             PROVE  /\ jobs'[j].status = "completed"
                    /\ \E a \in Answers : jobs'[j].results = ResultRows(a) /\ state'.result = ShownFromAnswer(a)
  BY DEF ShownIsWhole
<1>2. j \in DOMAIN jobs /\ j \in JobIds
  BY OverFacts
<1>3. CASE IsOver(j) /\ state' = state
  <2>1. /\ jobs[j].status = "completed"
        /\ \E a \in Answers : jobs[j].results = ResultRows(a) /\ state.result = ShownFromAnswer(a)
    BY <1>2, <1>3 DEF ResultsInv, ShownIsWhole
  <2>2. jobs'[j] = jobs[j]
    BY <1>1, <1>2, <2>1 DEF JobsGrow
  <2> QED
    BY <1>3, <2>1, <2>2
<1>4. CASE Tell(j)
  <2>1. /\ UNCHANGED jobs /\ thread[j].pc = "tell"
        /\ state' = [state EXCEPT !.status = thread[j].outcome,
                                  !.result = IF thread[j].outcome = "completed"
                                             THEN ShownFromAnswer(thread[j].answer) ELSE {}]
    BY <1>4 DEF Tell
  <2>2. thread[j].outcome = "completed" /\ state'.result = ShownFromAnswer(thread[j].answer)
    <3>1. state'.status = thread[j].outcome
      BY <1>1, <2>1
    <3> QED
      BY <1>1, <2>1, <3>1
  <2>3. Tells(j) /\ CarriesSummary(j)
    BY <2>1, <2>2 DEF Tells, CarriesSummary
  <2>4. jobs[j].status = "completed" /\ jobs[j].results = ResultRows(thread[j].answer)
    BY <1>2, <2>3 DEF ResultsInv, OnlyItsRunCompletes
  <2>5. thread[j].answer \in Answers
    BY <1>1, <1>2, <2>3 DEF SummaryInv, References, SummaryFits
  <2> QED
    BY <2>1, <2>2, <2>4, <2>5
<1>5. ASSUME NEW c \in Clients, Unspawned(c) PROVE FALSE
  BY <1>1, <1>5 DEF Unspawned
<1>6. ASSUME NEW c \in Clients, CancelState(c) PROVE state' = state
  BY <1>1, <1>6 DEF CancelState, Announced
<1> QED
  BY <1>3, <1>4, <1>5, <1>6, OverFacts

LEMMA StoredIsAnnouncedStep ==
    ASSUME ResultsInv, [Next]_vars
    PROVE  StoredIsAnnounced'
<1>1. /\ SummaryInv /\ JobsGrow /\ state \in [job : Nat, status : Statuses, result : Shown]
      /\ DOMAIN jobs \subseteq JobIds /\ DOMAIN jobs = 1..Len(jobs) /\ Len(jobs) \in Nat
  BY Basics
<1> SUFFICES ASSUME NEW j \in DOMAIN jobs', IsOver(j)', jobs'[j].status = "completed"
             PROVE  state'.status = "completed" \/ \E k \in 1..(j - 1) : thread'[k].pc = "none" /\ jobs'[k].told
  BY DEF StoredIsAnnounced
<1>2. j \in DOMAIN jobs /\ j \in JobIds /\ jobs[j].status = "completed" /\ jobs'[j] = jobs[j]
  BY OverFacts
<1>3. j \in Nat
  BY <1>1, <1>2
<1>4. CASE Tell(j)
  <2>1. thread[j].pc = "tell" /\ state' = [state EXCEPT !.status = thread[j].outcome,
                                  !.result = IF thread[j].outcome = "completed"
                                             THEN ShownFromAnswer(thread[j].answer) ELSE {}]
    BY <1>4 DEF Tell
  <2>2. thread[j].outcome = "completed"
    BY <1>2, <2>1 DEF ResultsInv, OnlyItsRunCompletes, Tells
  <2> QED
    BY <1>1, <2>1, <2>2
<1>5. ASSUME IsOver(j), NEW k \in 1..(j - 1), thread[k].pc = "none" /\ jobs[k].told
      PROVE  thread'[k].pc = "none" /\ jobs'[k].told
  <2>1. k \in JobIds /\ k \in DOMAIN jobs
    BY <1>1, <1>2, <1>3 DEF JobIds
  <2>2. ASSUME NEW c \in Clients, Spawn(c) PROVE client[c].job # k
    <3>1. client[c].job = j
      BY <1>5, <2>2, SpawnFacts DEF IsOver
    <3> QED
      BY <1>3, <3>1
  <2> QED
    BY <1>1, <1>5, <2>1, <2>2, StillWithoutThread DEF JobsGrow
<1>6. ASSUME IsOver(j), state'.status = state.status
      PROVE  state'.status = "completed" \/ \E k \in 1..(j - 1) : thread'[k].pc = "none" /\ jobs'[k].told
  <2>1. state.status = "completed" \/ \E k \in 1..(j - 1) : thread[k].pc = "none" /\ jobs[k].told
    BY <1>2, <1>6 DEF ResultsInv, StoredIsAnnounced
  <2> QED
    BY <1>5, <1>6, <2>1
<1>7. ASSUME IsOver(j), NEW c \in Clients, Unspawned(c)
      PROVE  \E k \in 1..(j - 1) : thread'[k].pc = "none" /\ jobs'[k].told
  <2>1. client[c].pc = "unspawned" /\ UNCHANGED thread
    BY <1>7 DEF Unspawned
  <2>2. /\ client[c].job \in DOMAIN jobs /\ thread[client[c].job].pc = "none" /\ client[c].job <= j
        /\ jobs[client[c].job].told
    BY <1>1, <1>7, <2>1 DEF SummaryInv, References, ResultsInv, Hands, JobOfStart, IsOver
  <2>3. client[c].job # j
    BY <1>7, <2>2 DEF IsOver
  <2>4. client[c].job \in 1..(j - 1) /\ jobs'[client[c].job].told
    BY <1>1, <1>3, <2>2, <2>3 DEF JobsGrow
  <2> QED
    BY <2>1, <2>2, <2>4
<1>8. ASSUME IsOver(j), NEW c \in Clients, CancelState(c) PROVE state'.status = state.status
  <2>1. jobs[client[c].job].status = "cancelled"
    BY <1>8 DEF CancelState, ResultsInv, Hands, JobOfStart
  <2>2. client[c].job # j
    BY <1>2, <2>1
  <2> QED
    BY <1>8, <2>2 DEF CancelState, Announced, IsOver
<1> QED
  BY <1>4, <1>6, <1>7, <1>8, OverFacts


-----------------------------------------------------------------------------
(* The flag. *)

(* A start lowers the flag, and nobody else does. *)
Lowers(c) == Insert(c) \/ InsertUnread(c)

LEMMA FlagWriters ==
    ASSUME [Next]_vars
    PROVE  /\ (\E c \in Clients : Lowers(c)) \/ cancel' = TRUE \/ Restart \/ UNCHANGED cancel
           /\ \/ (Shutdown /\ cancel' = TRUE) \/ ShutdownLook \/ ShutdownState \/ ShutdownRow \/ Restart
              \/ (\E c \in Clients : Lowers(c)) \/ UNCHANGED closing
           /\ \/ \E c \in Clients : Lowers(c) \/ Unspawned(c) \/ CancelRow(c) \/ CancelRowUnread(c)
              \/ \E j \in JobIds : StoreCompleted(j) \/ StoreOther(j)
              \/ ShutdownRow \/ UNCHANGED jobs
<1>1. ASSUME NEW c \in Clients, Command(c)
      PROVE  UNCHANGED <<cancel, closing, jobs>>
  BY <1>1 DEF Command, Start, Retry, ReadProfile, Cancel, ReadToSave, ReadToTest
<1>2. ASSUME NEW c \in Clients, CommandStep(c)
      PROVE  /\ Lowers(c) \/ cancel' = TRUE \/ UNCHANGED cancel
             /\ Lowers(c) \/ UNCHANGED closing
             /\ Lowers(c) \/ Unspawned(c) \/ CancelRow(c) \/ CancelRowUnread(c) \/ UNCHANGED jobs
  <2>1. CASE Insert(c) \/ InsertUnread(c)
    BY <2>1 DEF Lowers
  <2>2. CASE \/ Claim(c) \/ Announce(c) \/ Spawn(c) \/ SpawnRefused(c) \/ Unspawned(c) \/ RaiseFlag(c)
             \/ CancelRow(c) \/ CancelRowUnread(c) \/ CancelState(c) \/ Save(c)
             \/ (\E passed \in BOOLEAN : Probe(c, passed)) \/ Record(c)
    BY <2>2 DEF Claim, Announce, Spawn, SpawnRefused, Unspawned, RaiseFlag, CancelRow, CancelRowUnread, CancelState,
                Save, Probe, Record
  <2> QED
    BY <1>2, <2>1, <2>2 DEF CommandStep
<1>3. ASSUME NEW j \in JobIds, ThreadStep(j)
      PROVE  UNCHANGED <<cancel, closing>> /\ (StoreCompleted(j) \/ StoreOther(j) \/ UNCHANGED jobs)
  BY <1>3 DEF ThreadStep, TryRequest, Send, AnswerGood, AnswerBad, FinishRun, StoreCompleted, StoreOther, Tell, Release
<1>4. CASE Shutdown \/ ShutdownLook \/ ShutdownState \/ ShutdownRow \/ Restart \/ UNCHANGED vars
  BY <1>4 DEF Shutdown, ShutdownLook, ShutdownState, ShutdownRow, Restart, vars
<1> QED
  BY <1>1, <1>2, <1>3, <1>4 DEF Next

(* The shutdown moves on, and spares whom a start under its eyes begins. *)
LEMMA ClosingMoves ==
    ASSUME SummaryInv, [Next]_vars
    PROVE  \/ Restart
           \/ /\ closing.spared \subseteq closing'.spared
              /\ closing'.pc \in {"look", "state"} => cancel' = TRUE \/ closing.pc \in {"look", "state"}
              /\ closing'.pc = "row" => \/ closing.pc = "row" /\ closing'.job = closing.job
                                        \/ ShutdownState /\ closing.pc = "state"
<1>1. ClosingOK
  BY DEF SummaryInv, Types
<1>2. CASE Shutdown
  BY <1>1, <1>2 DEF Shutdown, ClosingOK
<1>3. CASE ShutdownLook
  BY <1>1, <1>3 DEF ShutdownLook, ClosingOK
<1>4. CASE ShutdownState
  BY <1>1, <1>4 DEF ShutdownState, ClosingOK
<1>5. CASE ShutdownRow
  BY <1>1, <1>5 DEF ShutdownRow, ClosingOK
<1>6. ASSUME NEW c \in Clients, Lowers(c)
      PROVE  closing.spared \subseteq closing'.spared /\ closing'.pc = closing.pc /\ closing'.job = closing.job
  <2>1. \E S : LowerFlag(S)
    BY <1>6 DEF Lowers, Insert, InsertUnread
  <2> QED
    BY <1>1, <2>1 DEF LowerFlag, ClosingOK
<1>7. CASE closing.spared \subseteq closing'.spared /\ closing'.pc = closing.pc /\ closing'.job = closing.job
  <2>1. closing'.pc \in {"look", "state"} => closing.pc \in {"look", "state"}
    BY <1>7
  <2>2. closing'.pc = "row" => closing.pc = "row" /\ closing'.job = closing.job
    BY <1>7
  <2> QED
    BY <1>7, <2>1, <2>2
<1>8. CASE UNCHANGED closing
  BY <1>7, <1>8
<1>9. CASE \E c \in Clients : Lowers(c)
  BY <1>6, <1>7, <1>9
<1> QED
  BY <1>2, <1>3, <1>4, <1>5, <1>8, <1>9, FlagWriters

LEMMA OtherCommands ==
    ASSUME SummaryInv, NEW c \in Clients, Command(c) \/ CommandStep(c)
    PROVE  \A d \in Clients : d # c => client'[d] = client[d]
<1>1. Types /\ References /\ client \in [Clients -> CallRecord]
  BY DEF SummaryInv, Types, ClientsOK
<1>2. client' = [client EXCEPT ![c] = client'[c]]
  BY <1>1, CommandTyped, CommandStepTyped
<1> QED
  BY <1>1, <1>2

(* Only a start brings a job under way. *)
LEMMA UnderwayBefore ==
    ASSUME ResultsInv, [Next]_vars, NEW j \in DOMAIN jobs', Underway(j)'
    PROVE  /\ ~Restart
           /\ \/ j \in DOMAIN jobs /\ Underway(j)
              \/ j = Len(jobs) + 1 /\ \E c \in Clients : Inserts(c)
<1>1. /\ SummaryInv /\ Types /\ References /\ DOMAIN jobs' \subseteq JobIds /\ j \in JobIds
  BY Basics
<1>2. ASSUME Asks(j)' PROVE ~Restart /\ j \in DOMAIN jobs /\ Underway(j)
  <2>1. ~Restart
    BY <1>1, <1>2 DEF Restart, NoThread, Asks
  <2>2. CASE thread'[j] = thread[j]
    <3>1. Asks(j)
      BY <1>2, <2>2 DEF Asks
    <3>2. j \in DOMAIN jobs
      BY <1>1, <3>1 DEF Asks, References
    <3> QED
      BY <2>1, <3>1, <3>2 DEF Underway
  <2>3. CASE ThreadStep(j)
    <3>1. Moves(j) /\ j \in DOMAIN jobs
      BY <1>1, <2>3, ThreadMoves, ThreadSays
    <3>2. thread[j].pc \in {"ready", "send", "asking"}
      BY <1>2, <3>1 DEF Asks, Moves
    <3> QED
      BY <2>1, <3>1, <3>2 DEF Asks, Underway
  <2>4. ASSUME NEW i \in JobIds, ThreadStep(i), i # j PROVE thread'[j] = thread[j]
    BY <1>1, <2>4, ThreadSays
  <2>5. ASSUME NEW c \in Clients, Spawn(c), client[c].job = j PROVE j \in DOMAIN jobs /\ Underway(j)
    <3>1. Starter(c) /\ j \in DOMAIN jobs
      BY <2>5, SpawnFacts DEF Spawn, Starter
    <3> QED
      BY <2>5, <3>1 DEF Underway
  <2>6. ASSUME NEW c \in Clients, Spawn(c), client[c].job # j PROVE thread'[j] = thread[j]
    BY <1>1, <2>6, SpawnFacts
  <2> QED
    BY <2>1, <2>2, <2>3, <2>4, <2>5, <2>6, Writers
<1>3. ASSUME NEW c \in Clients, Starter(c)', client'[c].job = j
      PROVE  /\ ~Restart
             /\ \/ j \in DOMAIN jobs /\ Underway(j)
                \/ j = Len(jobs) + 1 /\ Inserts(c)
  <2>1. ~Restart
    BY <1>3 DEF Restart, NoCall, Starter
  <2>2. ASSUME Starter(c), client[c].job = j PROVE j \in DOMAIN jobs /\ Underway(j)
    BY <1>1, <2>2 DEF References, Starter, Underway
  <2>3. CASE client'[c] = client[c]
    BY <1>3, <2>1, <2>2, <2>3 DEF Starter
  <2>4. CASE Command(c)
    BY <1>1, <1>3, <2>4, CommandTyped DEF Starter
  <2>5. CASE CommandStep(c)
    <3>1. \/ Inserts(c) /\ client'[c].job = Len(jobs) + 1
          \/ Announce(c) /\ client'[c].job = client[c].job
      BY <1>1, <1>3, <2>5, CommandStepTyped DEF Starter
    <3>2. Announce(c) => Starter(c)
      BY DEF Announce, Starter
    <3> QED
      BY <1>3, <2>1, <2>2, <3>1, <3>2
  <2>6. ASSUME NEW d \in Clients, Command(d) \/ CommandStep(d), d # c PROVE client'[c] = client[c]
    BY <1>1, <2>6, OtherCommands
  <2> QED
    BY <2>1, <2>3, <2>4, <2>5, <2>6, Writers
<1>4. Asks(j)' \/ \E c \in Clients : Starter(c)' /\ client'[c].job = j
  BY DEF Underway
<1> QED
  BY <1>2, <1>3, <1>4

(* A row says "cancelled" by the hand that raised the flag, or by a run that *)
(* does not look at the flag any more.                                      *)
LEMMA WhoCancels ==
    ASSUME ResultsInv, [Next]_vars, NEW j \in DOMAIN jobs, Underway(j), jobs'[j].status = "cancelled"
    PROVE  ToBeCancelled(j)
<1>1. /\ SummaryInv /\ Types /\ References /\ JobsOK /\ DOMAIN jobs \subseteq JobIds
      /\ DOMAIN jobs = 1..Len(jobs) /\ Len(jobs) \in Nat /\ jobs \in Seq(JobRecord)
      /\ closing.job \in Nat /\ closing.job <= Len(jobs)
  BY Basics, Numbers
<1>2. CASE jobs'[j] = jobs[j]
  BY <1>2 DEF ToBeCancelled
<1>3. ASSUME NEW c \in Clients, Lowers(c) PROVE jobs'[j] = jobs[j]
  <2>1. Inserts(c) \/ Leaves(c) \/ UNCHANGED jobs
    BY <1>3 DEF Lowers, Insert, InsertUnread, Inserts, Leaves, Unread
  <2> QED
    BY <2>1, InsertedRow, LeftRow
<1>4. ASSUME NEW c \in Clients, Unspawned(c) PROVE jobs'[j] = jobs[j]
  <2>1. client[c].job \in DOMAIN jobs /\ (jobs' = Finished(client[c].job, "failed") \/ UNCHANGED jobs)
    BY <1>1, <1>4 DEF Unspawned, FinishRow, References
  <2>2. "failed" \in Terminal
    BY DEF Terminal
  <2>3. CASE jobs' = Finished(client[c].job, "failed")
    BY <1>1, <2>1, <2>2, <2>3, FinishedFacts
  <2> QED
    BY <2>1, <2>3
<1>5. ASSUME NEW c \in Clients, CancelRow(c) \/ CancelRowUnread(c) PROVE ToBeCancelled(j)
  <2>1. /\ client[c].job \in DOMAIN jobs /\ client[c].pc = "row"
        /\ jobs' = Finished(client[c].job, "cancelled") \/ UNCHANGED jobs
    BY <1>1, <1>5 DEF CancelRow, CancelRowUnread, References
  <2>2. "cancelled" \in Terminal
    BY DEF Terminal
  <2>3. CASE client[c].job # j
    BY <1>1, <1>2, <2>1, <2>2, <2>3, FinishedFacts
  <2>4. CASE client[c].job = j
    BY <2>1, <2>4 DEF ToBeCancelled
  <2> QED
    BY <2>3, <2>4
<1>6. CASE ShutdownRow
  <2>1. closing.pc = "row" /\ (UNCHANGED jobs \/ (closing.job # 0 /\ jobs' = Finished(closing.job, "cancelled")))
    BY <1>6 DEF ShutdownRow
  <2>2. "cancelled" \in Terminal
    BY DEF Terminal
  <2>3. CASE closing.job # 0 /\ jobs' = Finished(closing.job, "cancelled") /\ closing.job # j
    <3>1. closing.job \in DOMAIN jobs
      BY <1>1, <2>3
    <3> QED
      BY <1>1, <1>2, <2>2, <2>3, <3>1, FinishedFacts
  <2>4. CASE closing.job = j
    BY <2>1, <2>4 DEF ToBeCancelled
  <2> QED
    BY <1>2, <2>1, <2>3, <2>4
<1>7. ASSUME NEW i \in JobIds, StoreCompleted(i) PROVE jobs'[j] = jobs[j]
  <2>1. CASE UNCHANGED jobs
    BY <2>1
  <2>2. CASE jobs' = Completed(i, thread[i].answer)
    <3>1. i \in DOMAIN jobs /\ thread[i].answer \in Answers
      BY <1>1, <1>7 DEF StoreCompleted, References, CarriesSummary, SummaryFits
    <3> QED
      BY <1>1, <2>2, <3>1, CompletedFacts
  <2> QED
    BY <1>7, <2>1, <2>2 DEF StoreCompleted
<1>8. ASSUME NEW i \in JobIds, StoreOther(i) PROVE jobs'[j] = jobs[j]
  <2>1. thread[i].pc = "store" /\ i \in DOMAIN jobs
    BY <1>1, <1>8 DEF StoreOther, References
  <2>2. i # j
    <3>1. ~Asks(i)
      BY <2>1 DEF Asks
    <3>2. ASSUME NEW c \in Clients, Starter(c) PROVE FALSE
      BY <1>1, <2>1, <3>2, OneIsBusy, StarterStarts DEF Running
    <3> QED
      BY <3>1, <3>2 DEF Underway
  <2>3. UNCHANGED jobs \/ \E status \in Terminal : jobs' = Finished(i, status)
    BY <1>8 DEF StoreOther, FinishRow, Terminal
  <2>4. ASSUME NEW status \in Terminal, jobs' = Finished(i, status) PROVE jobs'[j] = jobs[j]
    BY <1>1, <2>1, <2>2, <2>4, FinishedFacts
  <2> QED
    BY <2>3, <2>4
<1> QED
  BY <1>2, <1>3, <1>4, <1>5, <1>6, <1>7, <1>8, FlagWriters

(* A start does not lower the flag while a job is under way. *)
LEMMA NobodyLowers ==
    ASSUME ResultsInv, NEW c \in Clients, Lowers(c), NEW j \in JobIds
    PROVE  ~Underway(j)
<1>1. SummaryInv /\ Starting(c) /\ client[c].pc = "insert"
  BY DEF ResultsInv, Lowers, Insert, InsertUnread, Starting
<1>2. ~Asks(j)
  BY <1>1, OneIsBusy DEF Asks, Running
<1>3. ASSUME NEW d \in Clients, Starter(d) PROVE FALSE
  <2>1. d = c
    BY <1>1, <1>3, OneIsBusy, StarterStarts
  <2> QED
    BY <1>1, <1>3, <2>1 DEF Starter
<1> QED
  BY <1>2, <1>3 DEF Underway

(* A flag that is up for a job under way stays up. *)
LEMMA FlagStays ==
    ASSUME ResultsInv, [Next]_vars, NEW j \in JobIds, Underway(j), cancel, ~Restart
    PROVE  cancel'
  BY NobodyLowers, FlagWriters

LEMMA ClosingWarnsStep ==
    ASSUME ResultsInv, [Next]_vars
    PROVE  ClosingWarns'
<1>1. SummaryInv /\ Types /\ References /\ DOMAIN jobs \subseteq JobIds /\ DOMAIN jobs = 1..Len(jobs) /\ Len(jobs) \in Nat
  BY Basics
<1> SUFFICES ASSUME closing'.pc \in {"look", "state"}, NEW j \in DOMAIN jobs', j \notin closing'.spared, Underway(j)'
             PROVE  cancel'
  BY DEF ClosingWarns
<1>2. ~Restart
  BY UnderwayBefore
<1>3. /\ closing.spared \subseteq closing'.spared
      /\ cancel' = TRUE \/ closing.pc \in {"look", "state"}
  BY <1>1, <1>2, ClosingMoves
<1>4. CASE closing.pc \in {"look", "state"}
  <2>1. ASSUME NEW c \in Clients, Inserts(c), j = Len(jobs) + 1 PROVE FALSE
    BY <1>4, <2>1, InsertedRow
  <2>2. j \in DOMAIN jobs /\ Underway(j)
    BY <2>1, UnderwayBefore
  <2>3. cancel
    BY <1>3, <1>4, <2>2 DEF ResultsInv, ClosingWarns
  <2> QED
    BY <1>1, <1>2, <2>2, <2>3, FlagStays
<1> QED
  BY <1>3, <1>4

LEMMA FlagIsUpStep ==
    ASSUME ResultsInv, [Next]_vars
    PROVE  FlagIsUp'
<1>1. /\ SummaryInv /\ Types /\ References /\ DOMAIN jobs \subseteq JobIds
      /\ DOMAIN jobs = 1..Len(jobs) /\ Len(jobs) \in Nat
      /\ closing.job \in Nat /\ closing.job <= Len(jobs)
  BY Basics, Numbers
<1> SUFFICES ASSUME NEW j \in DOMAIN jobs', j \notin closing'.spared, Underway(j)', ToBeCancelled(j)' PROVE cancel'
  BY DEF FlagIsUp
<1>2. ~Restart
  BY UnderwayBefore
<1>5. j \notin closing.spared
  BY <1>1, <1>2, ClosingMoves
<1>3. ASSUME NEW c \in Clients, Inserts(c), j = Len(jobs) + 1 PROVE FALSE
  <2>1. jobs'[j].status # "cancelled" /\ closing'.job = closing.job /\ j \notin DOMAIN jobs
    <3>1. jobs'[Len(jobs) + 1].status = "pending" /\ closing'.job = closing.job
      BY <1>3, InsertedRow
    <3>2. j \notin DOMAIN jobs
      BY <1>1, <1>3
    <3> QED
      BY <1>3, <3>1, <3>2
  <2>2. ASSUME NEW d \in Clients, client'[d].pc = "row", client'[d].job = j PROVE FALSE
    <3>1. client'[d] = client[d]
      BY <1>3, <2>2, InsertedRow
    <3> QED
      BY <1>1, <2>1, <2>2, <3>1 DEF References
  <2>3. closing'.job # j
    BY <1>1, <1>3, <2>1
  <2> QED
    BY <2>1, <2>2, <2>3 DEF ToBeCancelled
<1>4. ASSUME j \in DOMAIN jobs, Underway(j) PROVE cancel'
  <2>1. ToBeCancelled(j) \/ cancel \/ cancel' = TRUE
    <3>1. CASE jobs'[j].status = "cancelled"
      BY <1>4, <3>1, WhoCancels
    <3>2. ASSUME NEW c \in Clients, client'[c].pc = "row", client'[c].job = j PROVE ToBeCancelled(j) \/ cancel' = TRUE
      <4>1. CASE client'[c] = client[c]
        BY <3>2, <4>1 DEF ToBeCancelled
      <4>2. CASE Command(c)
        BY <1>1, <3>2, <4>2, CommandTyped
      <4>3. CASE CommandStep(c)
        <5>1. RaiseFlag(c)
          BY <1>1, <3>2, <4>3, CommandStepTyped
        <5> QED
          BY <5>1 DEF RaiseFlag
      <4>4. ASSUME NEW d \in Clients, Command(d) \/ CommandStep(d), d # c PROVE client'[c] = client[c]
        BY <1>1, <4>4, OtherCommands
      <4> QED
        BY <1>2, <4>1, <4>2, <4>3, <4>4, Writers
    <3>3. ASSUME closing'.pc = "row", closing'.job = j PROVE ToBeCancelled(j) \/ cancel
      <4>1. CASE closing.pc = "row" /\ closing'.job = closing.job
        BY <3>3, <4>1 DEF ToBeCancelled
      <4>2. CASE closing.pc = "state"
        BY <1>4, <1>5, <4>2 DEF ResultsInv, ClosingWarns
      <4> QED
        BY <1>1, <1>2, <3>3, <4>1, <4>2, ClosingMoves
    <3> QED
      BY <3>1, <3>2, <3>3 DEF ToBeCancelled
  <2>2. cancel \/ cancel' = TRUE
    BY <1>4, <1>5, <2>1 DEF ResultsInv, FlagIsUp
  <2> QED
    BY <1>1, <1>2, <1>4, <2>2, FlagStays
<1> QED
  BY <1>3, <1>4, UnderwayBefore

LEMMA LateOnceStep ==
    ASSUME ResultsInv, [Next]_vars
    PROVE  LateOnce'
<1>1. /\ SummaryInv /\ JobsGrow /\ thread \in [JobIds -> ThreadRecord]
  BY Basics
<1> SUFFICES ASSUME NEW j \in JobIds, j \notin closing'.spared
             PROVE  /\ thread'[j].late <= 1
                    /\ thread'[j].late > 0 => /\ j \in DOMAIN jobs' /\ jobs'[j].status = "cancelled"
                                              /\ thread'[j].pc # "send"
  BY DEF LateOnce
<1>9. CASE Restart
  BY <1>9 DEF Restart, NoThread
<1> SUFFICES ASSUME ~Restart
             PROVE  /\ thread'[j].late <= 1
                    /\ thread'[j].late > 0 => /\ j \in DOMAIN jobs' /\ jobs'[j].status = "cancelled"
                                              /\ thread'[j].pc # "send"
  BY <1>9
<1>10. j \notin closing.spared
  BY <1>1, ClosingMoves
<1>2. /\ thread[j].late \in Nat /\ thread[j].late <= 1
      /\ thread[j].late > 0 => j \in DOMAIN jobs /\ jobs[j].status = "cancelled" /\ thread[j].pc # "send"
  BY <1>1, <1>10 DEF ResultsInv, LateOnce, ThreadRecord
<1>3. ASSUME j \in DOMAIN jobs, jobs[j].status = "cancelled" PROVE j \in DOMAIN jobs' /\ jobs'[j].status = "cancelled"
  BY <1>1, <1>3 DEF JobsGrow
<1>4. CASE thread'[j] = thread[j]
  BY <1>2, <1>3, <1>4
<1>5. ASSUME thread'[j].late = 0
      PROVE  /\ thread'[j].late <= 1
             /\ thread'[j].late > 0 => /\ j \in DOMAIN jobs' /\ jobs'[j].status = "cancelled"
                                       /\ thread'[j].pc # "send"
  BY <1>5
<1>6. CASE ThreadStep(j)
  <2>1. Moves(j) /\ j \in DOMAIN jobs
    BY <1>1, <1>6, ThreadMoves, ThreadSays
  <2>2. CASE thread'[j].late = thread[j].late /\ thread'[j].pc # "send"
    BY <1>2, <1>3, <2>2
  <2>3. CASE thread'[j].late = thread[j].late /\ thread'[j].pc = "send"
    <3>1. ~cancel /\ thread[j].pc = "ready"
      BY <2>1, <2>3 DEF Moves, Send, Release
    <3>2. jobs[j].status # "cancelled"
      BY <1>10, <2>1, <3>1 DEF ResultsInv, FlagIsUp, Underway, Asks, ToBeCancelled
    <3>3. thread[j].late = 0
      BY <1>2, <3>2
    <3> QED
      BY <1>5, <2>3, <3>3
  <2>4. CASE /\ thread[j].pc = "send" /\ thread'[j].pc = "asking" /\ UNCHANGED jobs
             /\ thread'[j].late = IF jobs[j].status = "cancelled" THEN thread[j].late + 1 ELSE thread[j].late
    <3>1. thread[j].late = 0
      BY <1>2, <2>4
    <3>2. CASE jobs[j].status = "cancelled"
      BY <2>1, <2>4, <3>1, <3>2
    <3>3. CASE jobs[j].status # "cancelled"
      BY <1>5, <2>4, <3>1, <3>3
    <3> QED
      BY <3>2, <3>3
  <2> QED
    BY <1>5, <2>1, <2>2, <2>3, <2>4 DEF Moves
<1>7. ASSUME NEW i \in JobIds, ThreadStep(i), i # j PROVE thread'[j] = thread[j]
  BY <1>7, ThreadSays
<1>8. ASSUME NEW c \in Clients, Spawn(c) PROVE thread'[j] = thread[j] \/ thread'[j].late = 0
  BY <1>8, SpawnFacts
<1> QED
  BY <1>4, <1>5, <1>6, <1>7, <1>8, Writers

-----------------------------------------------------------------------------
(* The theorems of the results. *)

LEMMA ResultsInit ==
    ASSUME Init
    PROVE  ResultsInv
<1>1. SummaryInv
  BY InitInv
<1>2. DOMAIN jobs = {}
  <2>1. jobs = <<>>
    BY DEF Init
  <2> QED
    BY <2>1
<1>3. \A j \in JobIds : thread[j].pc = "none" /\ thread[j].late = 0
  BY DEF Init, NoThread
<1>4. \A c \in Clients : client[c].pc = "idle"
  BY DEF Init, NoCall
<1>5. /\ RowsTell /\ NotYetShown /\ OnlyItsRunCompletes /\ ShownIsWhole /\ StoredIsAnnounced
      /\ FlagIsUp /\ ClosingWarns
  BY <1>2 DEF RowsTell, NotYetShown, OnlyItsRunCompletes, ShownIsWhole, StoredIsAnnounced, FlagIsUp, ClosingWarns
<1>6. Hands
  BY <1>4 DEF Hands, JobOfStart, Starter
<1>7. RunsAreAnnounced /\ LateOnce
  BY <1>3 DEF RunsAreAnnounced, Running, LateOnce
<1> QED
  BY <1>1, <1>5, <1>6, <1>7 DEF ResultsInv

(* For any transcripts and answers, any number of commands, jobs and        *)
(* retries: what is stored, what is announced and what the flag promises    *)
(* hold together through every step.                                        *)
THEOREM ResultsInvariant == Spec => []ResultsInv
<1>1. Init => ResultsInv
  BY ResultsInit
<1>2. ResultsInv /\ [Next]_vars => ResultsInv'
  <2> SUFFICES ASSUME ResultsInv, [Next]_vars PROVE ResultsInv'
    OBVIOUS
  <2>1. SummaryInv'
    BY Basics
  <2> QED
    BY <2>1, RowsTellStep, HandsStep, AnnouncedRunsStep, NotYetShownStep, OnlyItsRunStep, ShownIsWholeStep,
       StoredIsAnnouncedStep, FlagIsUpStep, ClosingWarnsStep, LateOnceStep DEF ResultsInv
<1> QED
  BY <1>1, <1>2, PTL DEF Spec

(* A completed summary accounts for every segment of its meeting and cites  *)
(* no other; it is announced as it is stored, and shown during the run as    *)
(* it will be read again - whatever cancels, refused writes, shutdowns and  *)
(* restarts come between.                                                   *)
THEOREM CompletedAlwaysAgrees == Spec => []CompletedAgrees
<1>1. ResultsInv => CompletedAgrees
  <2> SUFFICES ASSUME ResultsInv PROVE CompletedAgrees
    OBVIOUS
  <2>0. jobs \in Seq(JobRecord) /\ \A j \in DOMAIN jobs : jobs[j] \in JobRecord
    BY DEF ResultsInv, SummaryInv, Types, JobsOK
  <2>1. RowsAreWhole
    <3> SUFFICES ASSUME NEW j \in DOMAIN jobs
                 PROVE  IF jobs[j].status = "completed"
                        THEN /\ \E row \in jobs[j].results : row.kind = "overview"
                             /\ \A row \in jobs[j].results : row.cites \subseteq Ids(jobs[j].meeting)
                             /\ UNION {jobs[j].chunks[k] : k \in DOMAIN jobs[j].chunks} = Ids(jobs[j].meeting)
                        ELSE jobs[j].results = {} /\ jobs[j].chunks = <<>>
      BY DEF RowsAreWhole
    <3>1. CASE jobs[j].status # "completed"
      BY <3>1 DEF ResultsInv, RowsTell
    <3>2. CASE jobs[j].status = "completed"
      <4> DEFINE m == jobs[j].meeting
      <4>1. m \in Meetings
        BY <2>0 DEF JobRecord
      <4>2. /\ Chunked(m) /\ jobs[j].chunks = ChunkRows(m)
            /\ \E a \in Answers : AnswerValid(m, a) /\ jobs[j].results = ResultRows(a)
        BY <3>2 DEF ResultsInv, RowsTell
      <4>3. PICK a \in Answers : AnswerValid(m, a) /\ jobs[j].results = ResultRows(a)
        BY <4>2
      <4>4. \E row \in ResultRows(a) : row.kind = "overview"
        <5>1. [kind |-> "overview", index |-> 1, cites |-> {}] \in ResultRows(a)
          BY DEF ResultRows
        <5> QED
          BY <5>1
      <4> HIDE DEF m
      <4>5. \A row \in ResultRows(a) : row.cites \subseteq Ids(m)
        BY <4>1, <4>3, CitesAreIds
      <4>6. UNION {ChunkRows(m)[k] : k \in DOMAIN ChunkRows(m)} = Ids(m)
        BY <4>1, <4>2, ChunksCoverTranscript
      <4> QED
        BY <3>2, <4>2, <4>3, <4>4, <4>5, <4>6 DEF m
    <3> QED
      BY <3>1, <3>2
  <2>2. AnnouncedIsStored
    BY DEF AnnouncedIsStored, ResultsInv, ShownIsWhole, StoredIsAnnounced, IsOver
  <2>3. ShownIsStored
    <3> SUFFICES ASSUME NEW j \in DOMAIN jobs, thread[j].pc \in {"none", "release", "ended"},
                        SummaryStatus(j).status = "completed"
                 PROVE  WithoutLoose(SummaryStatus(j).result) = ShownFromRows(jobs[j].results)
      BY DEF ShownIsStored
    <3>1. CASE state.job = j /\ (active \/ state.status # "queued")
      <4>1. SummaryStatus(j).status = state.status /\ SummaryStatus(j).result = state.result
        BY <3>1 DEF SummaryStatus
      <4>2. state.status = "completed"
        BY <4>1
      <4>3. thread[j].pc # "none"
        BY <3>1, <4>2 DEF ResultsInv, NotYetShown
      <4>4. \E a \in Answers : jobs[j].results = ResultRows(a) /\ state.result = ShownFromAnswer(a)
        BY <3>1, <4>2, <4>3 DEF ResultsInv, ShownIsWhole, IsOver
      <4> QED
        BY <4>1, <4>4, LooseAnswer, ShownOfRows
    <3>2. CASE ~(state.job = j /\ (active \/ state.status # "queued"))
      <4>1. /\ SummaryStatus(j).status = IF jobs[j].status = "pending" THEN "queued" ELSE jobs[j].status
            /\ SummaryStatus(j).result = IF jobs[j].status = "completed" THEN ShownFromRows(jobs[j].results) ELSE {}
        BY <3>2 DEF SummaryStatus, FromStorage, StoredResult
      <4>2. jobs[j].status = "completed" /\ SummaryStatus(j).result = ShownFromRows(jobs[j].results)
        BY <4>1
      <4>3. \E a \in Answers : jobs[j].results = ResultRows(a)
        BY <4>2 DEF ResultsInv, RowsTell
      <4> QED
        BY <4>2, <4>3, ShownOfRows, ShownItemsAreTight
    <3> QED
      BY <3>1, <3>2
  <2> QED
    BY <2>1, <2>2, <2>3 DEF CompletedAgrees
<1> QED
  BY <1>1, ResultsInvariant, PTL

(* After a cancel, by the user or by the shutdown, at most the one request   *)
(* that had passed its last look at the flag leaves, however many chunks    *)
(* and retries were to come.  The exception is named: a job that starts      *)
(* between the shutdown's raising of the flag and its reading of which job   *)
(* runs lowers the flag, and goes on although its row is cancelled.          *)
THEOREM CancelAlwaysStopsRequests == Spec => []CancelStopsRequests
<1>1. ResultsInv => CancelStopsRequests
  BY DEF ResultsInv, LateOnce, CancelStopsRequests
<1> QED
  BY <1>1, ResultsInvariant, PTL

=============================================================================
