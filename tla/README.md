# MeetingRelay: a verification project

MeetingRelay is a Tauri desktop application that records a meeting (system audio and microphone), recognizes
speech locally, shows live text, stores confirmed text in SQLite, translates and summarizes it through cloud
services, and keeps a history that can be searched, repaired, exported and deleted.  This directory holds TLA+
models of the parts where several threads, several meetings, a failing step or a crash meet, the TLC
configurations that check them, and TLAPS proofs about them.  `PROJECT.json` maps every definition to the lines
it models, names the mutant each property was tried against, and lists the hazards the properties are aimed at.

Source files without a directory are in `src/apps/desktop/src-tauri/src/mvp/`; `main.ts` is
`src/apps/desktop/src/main.ts`.

## 1. Inventory

How a sentence travels: a device callback publishes packets (`audio.rs`) into a bounded channel; the
coordinator thread (`coordinator_loop`, `service.rs`) writes them to the raw archive, resamples, mixes and
segments them (`dsp.rs`), and submits interim and final segments to the recognition queue; the worker
recognizes them, commits finals through the storage writer thread (`storage.rs`), hands them to translation
and shows them in the snapshot, which the frontend polls.  All commands except `mvp_snapshot` run
concurrently on a pool of threads and share one mutex around `ServiceInner`, which they release while they
wait.

| Component | State it keeps | Operations | What is hard about it | What makes it correct |
|---|---|---|---|---|
| Recognition queue (`InferenceSubmitter`, `InferenceShared`, `inference_loop`) | channel of finals, one slot for the latest interim, `pending`, interim generations, shutdown flag, next sequence | submit, recognize, commit, publish, barrier, shutdown | counters and a mutex taken with `try_lock` moved by two threads; results published seconds late; a stop that waits for a counter | the counter is exact, a stop leaves no final unaccounted for, no interim outlives its final, finals in order |
| Pause, resume, stop (`PauseGate`, `coordinator_loop`) | flag, two pairs of epochs, stop flag, packets and open segment | `pause_windows`, `resume_windows`, `stop_windows_before` and the loop's answers | flag and epochs are separate atomics; calls overlap, time out and leave requests behind | audio before a pause is settled, audio in it is not transcribed, a stopped recording stays stopped, every call returns |
| Session control | `ServiceInner.session` and worker, the snapshot | prepare, preflight, start, stop, recover, open history, retry | checks made before a wait and used after it; failed starts that have to be undone | one meeting at a time is recorded, nothing is left held after a refused call, the snapshot tells what is recorded |
| Meeting storage | meetings, finals, recovery actions, deletion marks, translations, summaries, tags, exports, speakers | one transaction for each request | repeated and conflicting requests, states without guards | dense numbering, what was reported as saved is kept |
| Storage writer thread | channel of 8 requests, the request being served | request, reply | full channel, crash between commit and reply | each request takes effect once or not at all |
| Database migration and search index | schema version and checksum, tables, two search tables kept up by triggers | open, migrate, fill, search, list, page | files of eight releases; migration and index are two transactions; pages read while rows change | an opened file has every table and a complete index, pages show each row once |
| Translation (`translation.rs`) | queue, attempts, batch progress | submit, retry, batch, cancel, finish | late answers of earlier attempts, two retries at once, a final that is not yet shown | an attempt is finished once, shown texts are answers, no attempt is forgotten |
| Summaries and provider profile (`summary.rs`) | `active`, `cancel`, announced state, rows, versions of the profile | start, retry, cancel, finish, save, test | cancel racing the answer, a run and its row finishing apart, a global flag | one job at a time, one outcome for each job, consent and version as they were |
| Raw audio archive (`raw_audio.rs`) | a WAV file and a `SourceWriter` for each source, a manifest | append, finalize, drop, recover, delete, locate | two clocks, lost packets, partial writes, crash | manifest and file agree, positions keep their sound |
| Deletion vault (`governance.rs`) | directories, `recovery/<tombstone>`, tombstone rows | delete, restore, purge | renames and rows change in separate steps | nothing is lost but by a purge, a failed call undoes itself |
| Audio capture (`audio.rs`) | frame counters, bounded channel | publish, drop, device status | a full channel | losses are counted |
| Signal processing (`dsp.rs`, mixing in `service.rs`) | preroll, active segment, sample count; two source queues | push, flush, reset, drain | thresholds, preroll, late sources | segments cover the speech once |
| Speaker versions (`speaker.rs`) | a chain of labelled versions | diarize, rename, merge, undo | an edit of a version that is no longer the last | an edit builds on what the user saw |
| Export (`export.rs`, `document_export.rs`) | staging directory, files of a bundle, its record | render, stage, publish, record, clean up | two exports of one snapshot, failures after files are in place | files, hashes and record agree, formats tell the same |
| Live text mirror | text file beside the transcript | open, append, close | partial writes | a started meeting has one, a stopped one does not |
| Frontend (`main.ts`, `frontend-state.ts`) | record, versions, polls, library pages, request counters | click, poll, render | answers out of order, polls that stop, selections that change while a call is out | no view of another record, a running job is watched |
| Tauri shell (`lib.rs`) | windows, watchdog | close, shut down | bounded shutdown against a watchdog | the meeting is ended once |
| Secret store | operating system's store | get, set, delete | - | - |
| Recognition models, Cohere worker process | child process | decode | hanging process | outcomes reported once |
| Model worker contract (`src/crates/model-worker-contract`) | - (validated values and a trait) | - | - | - |
| Sherpa native worker | locked assets | native calls | - | - |
| Distribution and acceptance tools | - | scripts | - | - |

## 2. Modules

| Module | Models | Files |
|---|---|---|
| `InferenceQueue` | the recognition queue | `service.rs`: submitter, shared state, `inference_loop`, publication, and the points of start and stop that touch them |
| `PauseProtocol` | pause, resume and stop of one recording | `service.rs`: `PauseGate`, `coordinator_loop`, the three commands; `audio.rs` |
| `SessionControl` | the commands around a recording | `service.rs`, `storage.rs` (meeting rows) |
| `DurableTranscript` | abstract: what storage promises | none, it states the promise |
| `MeetingStore` | the storage writer and its transactions | `storage.rs` |
| `MeetingTimeline` | the positions of one recording's sound, and its recovery | `service.rs`, `raw_audio.rs`, `dsp.rs`, `audio.rs`, `storage.rs` |
| `RawAudioArchive` | the archive's files, ranges, gaps and manifest | `raw_audio.rs`, `service.rs` |
| `DeletionVault` | delete, restore, purge of one meeting | `governance.rs`, `service.rs`, `storage.rs` |
| `TranslationQueue` | live translation, retries, batches | `translation.rs`, `storage.rs`, `service.rs` |
| `SummaryContent` | operators: chunks of a transcript, accepted answers, stored rows, shown results | `summary.rs`, `service.rs`, `storage.rs` |
| `SummaryJobs` | summary jobs and the provider profile | `summary.rs`, `storage.rs`, `service.rs` |
| `SpeakerVersions` | operators: the chain of speaker versions | `speaker.rs`, `storage.rs` |
| `RecordsWindow` | the main window over speakers, summaries and snapshot | `main.ts`, `frontend-state.ts` |
| `SchemaMigration` | operators: what opening makes of a file of each release | `storage.rs` (`migrate` and its steps) |
| `SearchIndex` | operators: index rows, triggers, queries, pages | `storage.rs` |
| `MeetingLibrary` | the database file, its index and the library window | `storage.rs`, `main.ts` |
| `ExportProjection` | operators: what each export format tells | `export.rs`, `document_export.rs` |
| `ExportBundle` | staging, publication, record and cleanup of exports | `export.rs`, `storage.rs`, `main.ts` |

`MC*` modules give TLC its symmetries and constants; `*Proofs` modules hold the theorems.  A definition whose
comment begins with "Fault:" is not part of a specification: it is the definition below it with a mistake
the code could make, kept to show that a property detects it.  History variables, which no guard reads, record
what a property has to know of the past; each module says which of its variables they are.

**InferenceQueue.**  A session is a meeting and the coordinator that submits for it.  `pc[s]` is the place of
the coordinator inside `submit_final` or `submit_interim`, `wpc` that of the worker; each atomic operation,
each `try_lock`, each step under the snapshot mutex is an action.  `Spawn`, `Activate`, `Join` and `Barrier`
are the points of `start_windows` and `stop_windows_before` that touch the queue; `AbandonCoordinator` and
`AbandonBarrier` are its two deadlines.  The recognizer returns text, noise or an error; storage may refuse a
commit.  `RequestShutdown` is the shutdown of the service or of the
worker for another one, which a recovery may ask for under a running meeting (`replaced`, history).  Left out: the
lifetime of more than one worker and a recovery that shares this one and seeds its sequence (`SessionControl` has
both), sample bounds, the wording of errors.

**PauseProtocol.**  Packets are numbers; a packet is in the channel, the pipelines, submitted, settled or
skipped.  `at[c]` is the place of a client in its command, `cpc` that of the loop; the acknowledgement and the
clearing of the flag in `acknowledge_resume` are two actions because they are two stores.  `Settle` stands for
the recognition queue, which `QueueDrains` shows to settle what it has.  `before`, `quiet` and `alone` are
history: what had been captured when a pause was asked for, what was captured while one stood, and whether
calls have so far come one after the other, without a deadline.

**SessionControl.**  `inner` is the mutex, `session` and `worker` what it guards; `client[c]` is the place of a
command between two acquisitions of it, with the meeting and the worker it carries from the one to the other.  A start that fails undoes what it has done in the order of the code; one
whose row is committed and cannot be read back (`StartUnread`) undoes nothing.  Audio is reduced to the finals a
meeting's coordinator cuts; a worker drops a final whose meeting the snapshot does not show, as
`process_inference_task` does.  `history` says which of the races of section 6 have
happened (`opened`, `preflighted`, `crossed`, `replaced`), which rows storage or a late stop left as they were
(`orphans`), and which meetings a stop completed (`stopped`).

**MeetingStore.**  A client sends a request, the writer takes it, runs it as one transaction or fails it, and
replies; `Crash` may come between any two of these and loses channel and reply, not the tables.  A caller may
ask for any sequence, segment and text.  `told` is history: finals whose commit was answered with success.
A segment stands for segment and revision, the key of a final.  The other tables are with the component that
writes them.

**MeetingTimeline.**  A frame is a stretch of sound, named by its capture position.  Three numberings are kept
apart that the code takes for one: capture positions, places in the file, and the segmenter's positions.
`Hear`, `Miss`, `Pause`, `Resume`, `Stop` record; `Crash`, `Restart`, `BeginRecover`, `RecoverFrame`,
`RecoverFlush`, `EndRecover`, `AbortRecover`, `Finalize` are the ways an interrupted meeting may go;
`StopWindows` is the end of a stop, `FlushStop` the segmenter's `flush_stop`.  A segment starts with the last
`Preroll` frames, those of the segment just cut included, as `start_from_preroll` does.  A frame stands for at least
the run of blocks that starts a segment, and so is never below the minimum of speech.  One source; recoveries come
one after the other.  `late` is history: a final was committed after its recovery was over.

**RawAudioArchive.**  Packets of both sources are converted to 16 kHz samples as `source_frame_to_meeting_sample`
and its ceiling do, with exact arithmetic.  A file is its count of frames, the count in its header, and
whether a part of a frame hangs at its end; `content` and `heard` are history.  The samples themselves, changes
of format, and a coordinator left behind by a timed-out stop are left out.  A new file may be left before its header is
there; `Drop` rewrites the headers it can and ignores the others; `Rebuild` and `RebuildFails` go over the files of
any meeting that has ended, whole and recovered ones included, and may fail after some of them.

**DeletionVault.**  Each rename, measurement, removal and transaction is an action that may fail.  The vault of
a tombstone is `vault[t]`, the recovery root is folded into it; tombstone ids are fresh; directories without
bytes count as absent.  `orderly` is history: calls came one at a time and no failure of the kinds section 6
names was met.  `delete_raw_audio` and the retention preview are left out.

**TranslationQueue.**  A text is named by the attempt that brought it.  `Decorate`, the worker's `Take`,
`Answer`, `Publish`, the two kinds of retry and the batch with its progress are actions; `overlap` and
`orphans` are history: whether two batches were started past each other's check, and attempts left pending in
the ways section 6 names.

**SummaryJobs** (over the operators of **SummaryContent**).  The thread of a job asks for each chunk and for the
combination; storing the outcome, announcing it and releasing `active` are three actions.  A completed job
stores the rows of chunks and results; `SummaryStatus` shows the live result or reads the rows.  An answer is
the citations of its items; texts, the parent of a retry, its depth (`attempt`) and the numbers in the labels
of citations are left out.  The profile is a sequence of versions; a test reads a version, waits, and writes.
The four steps of `shutdown_before` are actions of their own, with commands served in between; a row may be
committed and not read back.  `told` and `spared` are history: the service knows the job of the row, and the job
began, lowering the flag, before the shutdown had seen which job runs.

**RecordsWindow** (over the operators of **SpeakerVersions**).  A handler of `main.ts` runs to its `await`; the
rest runs when the answer arrives, in any order.  Instead of comparing numbers, a request keeps which of the
counters have not been bumped since it was sent.  The service is reduced to chains of speaker versions, summary
jobs and the meeting in the snapshot.

**MeetingLibrary** (over **SchemaMigration** and **SearchIndex**).  A file of any release is found, migrated and
indexed in the transactions of the code, with a crash between them; then finals, translations, summaries,
speaker versions, deletions and purges change rows and index, while the library window loads page after page.
A text is seen from one query word.

**ExportBundle** (over `MeetingLibrary` and **ExportProjection**).  A command reads summary and snapshot, stages
each format, moves it to its name, reads it back and records the bundle; each of these may fail, and the
cleanup of the code follows; `GivesUp` and `CloseFails` are the errors after which nothing is cleaned.  A file is the set of facts a reader finds in it.  `raced`, `touched` and
`orphaned` are history: exports that ran at the same time, met a file the user had changed, or were cut short.

**How they compose.**  `PauseProtocol` uses of the queue only what `InferenceQueue` is shown to promise; the
sequences that `InferenceQueue` hands out are those `MeetingStore` accepts, and its ledger is the dense
numbering proved there; `MeetingTimeline` takes an accepted packet and its gap from the archive, whose
arithmetic `RawAudioArchive` has; `MeetingStore` is shown to implement `DurableTranscript`; `SessionControl`
takes the inside of pause, stop and recognition from the first two modules and adds what goes on around them;
`ExportBundle` and `MeetingLibrary` are checked as one system, since what an export reads is what the library
changes; `RecordsWindow` uses the version chain itself and of summaries only what `SummaryJobs` shows.

## 3. Runs

| Run | Bounds | States | What it shows |
|---|---|---|---|
| `inference_queue` | 2 meetings, channel of 1, 2 segments, 2 interims, 2 submissions or abandoned stops between them, the worker replaced at any step | 262,044 | `QueueInv` (the inductive invariant), `DurableInOrder`, `NoInterimOutlivesItsFinal`; under fairness `QueueDrains` |
| `pause_calls` | 2 clients, 4 calls and packets | 205,000 | `AnswersSettleAudio`, `PausedAudioStaysOut`, `StoppedIsNotRevived`; under fairness `CallsReturn` |
| `store_safety` | 1 meeting, 2 segments, 2 texts, 2 clients, channel of 1, sequences to 2, 1 crash | 350,354 | `StoreInv` (inductive: types, dense numbering, kept and answered rows), `ImplementsDurableTranscript` |
| `timeline_recovery` | 4 frames, segments of 3, preroll of 2, 1 pause, 1 lost packet, 1 lost final, 2 crashes, 3 recoveries | 4,864,919 | `TimelineIsTrue`, `RecoveryIsExact` |
| `vault_calls` | 2 clients, 4 calls, 2 failures of any kind, 1 crash | 704,974 | `FilesAreSomewhere`, `RecoverableDeletion`, `FilesFollowTheAnswer` |
| `archive_safety` | 44.1 kHz and 48 kHz, packets of 441 or 448 frames, 5 packets, 2 failures | 1,394,201 | `GapsInOrder`, `ArchiveTells`, `AlignedWithinDrift` |
| `translation_safety` | 2 segments, 2 languages, 2 retrying threads, channel of 1, 2 tries, 2 retry commands, 2 errors, 1 restart | 1,109,608 | `TextsAreAnswers`, `PendingHasOwner`, `ProgressAddsUp`, `FinishedAttemptsStay` |
| `summary_safety` | 2 clients, 2 configurations, 2 meetings (2 chunks, and one chunk too many), 2 answers, 1 retry, 2 jobs, 3 calls, 2 errors, 1 restart | 1,181,720 | `JobsAreInHand`, `CompletedAgrees`, `ProfileTells`, `CancelStopsRequests`, `FinishedJobsStay` |
| `session_control` | 2 clients, 2 languages, 2 meetings, 3 workers, 1 final each, 5 calls, 1 error, 1 restart | 287,710 | `RecordingIsSound`, `NothingLeftBehind`, `CompletedIsWhole`, `SnapshotTells` |
| `records_window` | 2 meetings, 3 requests, 3 speaker versions, 2 jobs, 1 error, 2 polls | 1,985,106 | `RecordIsConsistent`, `EditsBuildOnLatest`, `WindowKeepsWatching`, `WindowMovesForward` |
| `library_export` | files of versions 0 to 9, pages of 2, 2 changes, 3 loads, 2 exports by 2 threads | 611,318 | `OpenedDatabaseIsWhole`, `PagesAreExact`, `FolderAgrees`, `FormatsAgree`, `EditedFilesKept` |
| `interrupted_list` | a file of version 8, 1 change, 1 load | violation | `InterruptedAreOffered` fails, see section 6 |

Why the bounds are enough for what is asked:

* Two meetings and a channel of one give every way in which the work of one meeting meets the start of the
  next, and a full channel with a single final more.  Two segments and two interims are the least with which
  an interim replaces another, a final retires one, and finals could overtake each other.
* Calls and packets of `pause_calls` share one bound: a pause with a packet before and one in it, a pause and a
  resume with two packets, a pause and a resume that wait while a stop goes by are all among them.  The safety
  properties were also checked with five and six.
* Two segments, two texts and two sequences give the repeated request, the same key with another text, and the
  same key or number for another segment.  Meetings share no state in the transactions modelled, except that
  the start of the process goes through all of them.
* Four frames are a full segment and the tail behind it, which begins with a frame of it (preroll 2, the frame that
  starts the segment included); a first recovery that fails half-way, a crash and a
  second recovery need no more; with a third, the late final of the first can come behind those of the second.
  A second pause adds nothing to the first.
* A meeting has two directories; a call of another thread may come between any two of their steps, and four
  calls let a deletion be followed by a restore or a purge, and that by another deletion.  Two failures are the
  least with which a step of an undo fails as well.
* 441 frames at 44.1 kHz are a whole number of meeting samples, 448 are not; both come from common drivers.
  Five packets are enough for two gaps in one source.  Two failures are a write that drops the writer and a
  recovery that fails over what it left.
* A live translation and two retries, or two batches, are the least with which a late answer meets a newer
  attempt; one of the two segments is in the source language half of the time, the other is not.
* Two jobs are the one that runs and the one that is retried, cancelled or left over; three calls start one,
  cancel it and start the next.
  One transcript has two chunks of which the second row is shorter, the other has one chunk too
  many; one answer is accepted and one is not; the cut itself is compared with its definition over all
  transcripts of up to five segments (`CutIsGreedy`).
* Two meetings and five calls are: one is recorded and stopped while the other is prepared, started, opened,
  recovered or retried.  Three workers let a replaced one be replaced again.
* Three requests with two polls let any two answers overtake each other while a third changes the selection.
  Three versions are an analysis, an edit, and an edit or undo of either.
* Pages of two over four meetings, two of which began in the same second, have ties inside a page and across
  its boundary; of the two changes between pages one may remove, one may add a row.  The plans of
  `MeetingLibrary` and `ExportBundle` keep these bounds from multiplying: a behaviour pages through the library
  or exports, and only behaviours that begin with a current file do; a change and a fault come together only in a
  plan with one export.  The proofs have no such limits.

Deadlock is checked in `inference_queue`, `store_safety`, `timeline_recovery`, `vault_calls` and
`archive_safety`: there a request or a poll is always possible, or `Done` names the states in which nothing is
left to do.  The other systems come to the
end of their bounds (calls, requests, packets) and rightly stand still there.

## 4. Fairness

* `InferenceQueue.FairSpec`: the worker thread runs, so does a `submit` that has begun, and a stop that has
  joined its coordinator polls the barrier.  Nothing makes a coordinator submit or a user stop.  `QueueDrains`
  says that then a joined stop passes its barrier and a closed segment is settled.
* `PauseProtocol.FairSpec`: the coordinator thread runs (`recv_timeout` returns also without a packet), the
  recognition queue settles what it has, a command in progress proceeds.  `TimeOut` has no fairness:
  `CallsReturn` holds although no deadline ever has to pass.
* All are weak fairness: each of these steps, once possible, stays possible until it is taken.  No other run
  assumes fairness.

## 5. Proofs

The theorems hold for every value of the constants that satisfies the named assumptions (`QueueAssumption`,
`PauseAssumption`, `TimelineAssumption`, `StoreAssumption`, `VaultAssumption`, `RecordsAssumption`, `ArchiveAssumption`,
`TranslationAssumption`, `SummaryAssumption`, `LibraryBounds`, `ExportBounds`, `SessionAssumption`): finite sets of threads where they are counted,
bounds in `Nat`, a channel with at least one place, segments of at least one block, a positive sampling rate and page size, options that the
command accepts. TLC evaluates them in the runs.

**InferenceQueueProofs** (`QueueInvariant`, `TypeCorrect`, `PendingAlwaysExact`, `StoppedMeetingsSettled`;
`OrderInvariant`, `FinalsDurableInOrder`, `InterimsAlwaysInTime`).
That a stopped meeting's finals are settled is not inductive: that they are when `pending` is zero needs that
`pending` counts what there is (`PendingExact`), that each final not yet settled is at one of the places that
are counted (`NothingForgotten`), and that tasks at these places are of the kind and session they should be
(`SubmissionsWellFormed`, `QueuesWellFormed`).  `PendingExact` in turn needs that the slot's mutex has the
holder the program counters say (`MutexHeld`).  Their conjunction is `QueueInv`; the step from each conjunct to
its primed form is a lemma with a case for each action that can disturb it, and `BarrierMeansIdle` draws the
conclusion at the barrier.  Abandoned stops are included; so is a worker that a recovery replaces under a running
meeting, whose stop then waits for another worker and is not promised anything of this one (`replaced`).

A second invariant, `OrderInv`, is about order; `DurableInOrder` and `NoInterimOutlivesItsFinal` speak of the
table and the screen only, and are not inductive.  A final lies in the channel or with the worker behind those
of its meeting that were cut before it and ahead of those cut after (`Conveyed`, `Settles`); so what is committed
is later than what is in the table.  As long as no stop hit its deadline and no worker was replaced under a meeting (`Undisturbed`), one meeting at a time has anything with
the worker (`OneMeeting`), whose sequence is the number of its finals, save between a commit and the increment
(`SequenceAgrees`).  And an interim of the latest generation is of a segment that is open, or whose final is on
its way and will raise the generation first (`InterimsInTime`, `ViewInTime`); so the second look at the
generation, after the write, finds a late one.

**RecordingProofs**, the pause (`PauseInvariant`, `AnswersAlwaysSettle`, `PausedAudioAlwaysOut`, `StoppedStaysStopped`).
`PauseInv` says that each packet is in one place and the channel has no repeats (`OnePlace`), that
acknowledged epochs do not pass requested ones (`Epochs`), where a stop is on its way (`Ending`), and, as long
as calls did not overlap, that an unanswered resume is that of the one client in a call (`Single`), that the
loop takes no packets while a pause is in force (`PausePlace`), and what the two histories may contain
(`QuietAudio`, `EarlierAudio`).  The counts of `TypeOK` follow from `OnePlace` by cardinalities
(`PlacesAddUp`).  There is a lemma for each conjunct with a case for each action.

**RecordingProofs**, positions and recovery (`TimelineInvariant`; `TimelineHolds`, `RecoveryHolds`).
The invariant has four parts.  `FileInv`: the file holds frames as they were captured, and file and gaps share
out the meeting (`GapsFillTheFile` counts the gaps before each place of the file), so a manifest written by a stop
gives each position its sound.  `SoundInv`: without a pause the segmenter counts as the file does while one is
written, and a loss of the archive leaves a file that says nothing of later positions (`Tells`); so what was cut
plays what it was cut from.  What a recovery cuts it has read from the file (`Reads`), pauses or not.  `TailInv`:
up to where a recovery is, each place is silent, noise, behind a final's end, in the open segment or in the queue;
so one that lost nothing leaves nothing behind the finals.  `OnceInv` is what makes recoveries repeat nothing that
was saved when they began: finals end in order; a recovery starts behind all of them with an empty preroll, so what
it cuts starts behind all those of others (`FinalsBehind`, `QueuedBehind`); and two segments of one recovery are
`Apart`, the later one starting fewer than `Preroll` places before the end of the earlier one, since a segment is cut
only when it has as many frames, and the preroll then reaches no further back.  That the overlap is there is no
flaw: the repository's own test (`dsp.rs:836-844`) wants a continued segment to start before the last one ends.

The proof found what a run with two recoveries had not: that a recorded recovery leaves nothing unsaved on disk
is false.  See section 6; the property now speaks of the sound behind the finals, and the run has three.

**StorageProofs**, the meetings (`StoreInvariant`, `StoreTypeCorrect`, `SequencesAlwaysDense`, `SavedAlwaysKept`,
`StoreImplementsTranscript`).  `StoreInv` adds to types and dense numbering that the row of a commit answered
with success is there before the reply (`AnsweredIsThere`): this carries the fact from the transaction to the
client.  The refinement maps `finals` without their numbers to `transcript`: a commit is `Extend` (the existing
rows show that the segment is new), a reply to a commit is `Tell`, a purge is `Purge`, all else stutters.

**RecordsProofs**, the deletion vault (`VaultInvariant`, `VaultTypeCorrect`, `FilesAlwaysSomewhere`; `RecoveryInvariant`,
`DeletionAlwaysRecoverable`, `FilesAlwaysFollow`).  `VaultInv` adds to types and `FilesAreSomewhere` that a call
under way names a tombstone (`CallsNamed`).  Each rename is shown to move one directory between two of the
disjoint places.  What is promised of calls that have returned does not say what the lists of a call under way
hold; `RecoveryInv` does, for orderly calls.  One is under way at a time (`OneCall`).  A delete found everything
in place, what it staged is in its vault, and what it has not moved back is on its list (`DeleteTells`); a
restore is about the latest tombstone of a deleted meeting, moves what the manifest lists, and records nothing
before the vault is empty (`RestoreTells`); so a deleted meeting can get back what no purge destroyed even in the
middle of a call (`DeletedIsListed`), and a living one has it outside of a delete (`LivingIsThere`).  The proof
needs that an undo of a delete does not fail itself: with two failures files do stay behind, see section 6.

**RecordsProofs**, the window (`WindowIsTyped`, `LabelsBuildOnLatest`; `RecordHolds`, `RecordShown`;
`SummaryHolds`, `WindowForward`; `WindowWatches`).  A step of the window opens a record, sends a command, fires a
timer, serves a request or handles an answer (`StepKinds`), and what it does to requests on their way is to take
counters from them (`Weakened`): an answer never gets back a number the window has passed.  So `WindowTyped`
already gives that an edit of labels is stored over the version that was looked at: the click, the argument and
the parent are the same number.  `RecordInv` says that a request which still knows the selection is about it
(`OfSelected`), that one click of the speaker workspace has the current number (`LastClick`), and that an answer
which will be taken is no older than what is shown (`VersionOK`, `LabelsOK`); from it follow `RecordIsConsistent`
and half of `WindowMovesForward`.  For the other half `SummaryInv` says that a meeting has one command at a time
(`OneCommand`), that a poll which will be taken is of a meeting without a command and tells nothing older than what
is shown (`StatusOK`), that a started job is newer than the one shown and a cancelled one is that and is over
(`StartOK`, `CancelOK`).  `WatchInv` adds to `WindowKeepsWatching` that where a meeting is opened no session runs.
There is a lemma for each invariant and each kind of step.

**StorageProofs**, the raw audio (`ArchiveInvariant`, `ArchiveTypeCorrect`, `GapsAlwaysInOrder`; `TellInvariant`,
`ArchiveAlwaysTells`).  `ArchiveInv` adds that
an open writer covers at least one sample and a closed one has no gaps (`WriterSound`): the new gap starts at the
end of the last packet, which is behind every earlier gap, and the packet behind it is not empty.  `TellInv` adds to the parts of `ArchiveTells`
what holds before there is a manifest (`BeforeTheEnd`): no file has half a frame while it is written, since a
write that fails drops the writer, and none is dropped without the mark of a loss.  A header tells at most what
the file holds: it is zero when the file is made, and is only ever set to the frames counted, by a drop, a stop or a
recovery, each of which may stop half-way and leave it as it was.

**TranslationQueueProofs** (`TranslationInvariant`, `OnlyAnswersAreShown`, `NoAttemptIsForgotten`,
`AttemptsAreFinal`, `ProgressAlwaysAddsUp`).  A step begins a job, finishes one, is the restart, or leaves the attempts alone
(`StepKinds`); so attempts only grow (`AttemptsGrow`).  Beginning a job sets a pending row with a pending last
attempt, and a row takes an outcome only of its own segment and language; jobs in hand were begun (`InHand`),
and what the worker publishes has been stored (`StoredBeforeShown`).  A held job moves to other hands, is
finished, or is dropped with the channel (`HeldMoves`), which is how no attempt is forgotten.  For the progress of batches `BatchInv` says that a thread which runs a
batch stands where the counter does and has the rest of the total before it (`OneBatch`), that a thread which
has passed the check finds no batch running unless two passed it together (`overlap`), and that only a
batch passes that check or walks through a list (`BatchShape`).  The plan of a batch is counted, so segments are assumed finite.

**SummaryJobsProofs** (`SummaryInvariant`, `JobsAlwaysInHand`, `ProfileAlwaysTells`, `FinishedJobsAreFinal`;
`ResultsInvariant`, `CompletedAlwaysAgrees`, `CancelAlwaysStopsRequests`).
Rows change only by an insertion or by finishing a pending row (`JobKinds`), so jobs only grow (`JobsGrow`).
Who starts or runs a job is who `active` says (`Exclusive`, `BusyAre`), which gives the statement about
cardinalities; a row that was committed and not read back is an orphan with no thread;
`StoredIsSettled` carries the outcome from storage to the release; `CarriesItsVersion` carries
configuration and consent from the profile to the row and the thread.  A second invariant, `ResultsInv`, is
about what is stored and shown.  A completed row holds the rows of an answer that was accepted for its meeting
(`RowsTell`); the lemmas on `SummaryContent` turn that into what is promised: every segment falls into a row of
chunks (`ChunksCoverTranscript`, by division with remainder), a cited segment is one of the meeting
(`CitesAreIds`), and both ways of showing an answer are the same but for the names in unlinked citations
(`LooseAnswer`, `ShownOfRows`).  That the announced state is about the job that runs (`RunsAreAnnounced`) and
that only its own run completes a row (`OnlyItsRunCompletes`) need that a job in a starting command is the
latest and has no thread (`Hands`); the exception named in `AnnouncedIsStored` is the command whose thread
could not be started, which `Hands` follows as well.  For the cancel, `FlagIsUp` says that whoever is about to
cancel the row of a job under way has raised the flag, and nobody lowers it before that run is over, since a
start and a run exclude each other; then a request counts as late once, between the look and the sending
(`LateOnce`).  A shutdown raises the flag before it knows the job it will cancel (`ClosingWarns`): a job whose start
lowers it in between is `spared`, and all its requests may leave after its row is cancelled (section 6).

**SessionControlProofs** (`SessionInvariant`, `RecordingAlwaysSound`, `NothingIsLeftBehind`,
`CompletedAlwaysWhole`, `SnapshotAlwaysTells`).  `SessionInv` says who holds the mutex and that no session runs
while a start does (`Locked`), that a meeting is started or stopped by one call and is not the session meanwhile
(`Apart`), what each step of a start and of a stop finds (`StartsFind`, `StopsFind`), and for whom a coordinator
runs (`Recorders`).  That a completed meeting is whole follows the finals: they wait in the worker their meeting
was started with and in none that has ended (`Homes`); those cut are those stored and those that wait, or the
meeting is marked (`Counted`); and a stop waits for that worker (`Awaited`), so behind its barrier none waits.
Most steps of commands take and add no final of a coordinator (`Calm`, `CalmKeeps`); the others are the cut, the
end of a task and the barrier.  There is a lemma for each conjunct with a case for each action.  Its assumption
adds to the bounds that the value for a free mutex is not a client.

**ExportBundleProofs** (`DatabaseIsWhole`; `FormatsTellTheSame`; `FolderTellsTheSame`, `EditsStay`).
`DatabaseInv` says what the tables and the index hold at each phase of the start: before the migration what the
release of the file left (`FileKnown`, `AttemptsKept`), before the index is built everything but the labels, from
then on all (`IndexKept`).  A change replaces one meeting (`Whole1`), and the rows of the index are those of the
meetings one by one (`OneMeetingRows`), so there is a lemma for each change: its trigger adds and removes the rows
by which the meeting differs.  That a final adds no label needs that a recording has none
(`RecordingsUnlabelled`).  The formats are compared fact by fact, whatever the options: what Markdown, text and the
documents leave out or add is of kinds the property does not ask for.

`FolderInv` follows the files.  Every run has a number of its own (`RunsApart`) and every snapshot a generation
that no row has (`GenerationsBounded`), so an export begins with nothing of its own in the folder.  `Mine` says that
files of a run have names of its snapshot and formats it has published so far (`Placed`), and that an export which
answered an error has none, unless its cleanup stopped or a check returned without one (`Uncleaned`).  `Ours` says what an export finds under the names of its snapshot: unless another one
ran at the same time, a name that was free when it was checked is free when it is taken; unless the export was
disturbed the published files are there as written, and no row tells of them yet.  `FilesKnown` names for each file
who answers for it: a row, an export that goes on, a purge, or a disturbance that is on record; the next export of
that snapshot therefore finds a name taken only in the last case.  Two exports of one snapshot at the same time are
always on record (`RacesKnown`).  All exports are alike, so one lemma (`OneStep`) turns what a step does to its own
export and what it shows to the others (`Gentle`) into the invariant, and each action has a lemma that names the
export after it.  `EditsStay` follows from `Ours` for the rename and from the comparison in `cleanup_file`.

**Only model-checked.**  Liveness (`QueueDrains`, `CallsReturn`), which is out of this prover's reach, as are
`ENABLED`, induction over data and recursive operators; `AlignedWithinDrift` (a fold over the gaps and products
of variables); `PagesAreExact` (a page is made by a fold over the items).

## 6. Where the code departs from what is said of it

A run shows it:

* `interrupted_list`: the query of the recovery centre (`storage.rs:588`) selects `m.completion_error`, a column
  that `mvp_meetings` has in no release, so it fails on every file and an interrupted meeting is never offered,
  against `CHANGELOG.md:387`.  The query does not look at `deleted_at` either.

The other cases were seen with a weaker guard or without a history variable, and are excluded from the passing
properties by a condition of their own.  Each is a behaviour of the code the models have, not of the bounds.

*Recording.*  `acknowledge_resume` publishes its acknowledgement before it clears the flag: a pause requested in
between is acknowledged and undone.  A pause that overlaps a stop can leave buffered audio behind; one that
overlaps a resume loses the audio thrown away by its reset.  After a timed-out stop the coordinator or the tasks
left behind share the worker with the next meeting: its sequence may not fit, the worker may exit with a final
in its channel, an interim of the old meeting may show.  A recovery that passed its check before a start may replace
the worker under the running meeting (`service.rs:2125-2141`), whose stop then waits for the new worker only; or it
shares the worker and seeds its sequence, and the finals of the running meeting are refused as a gap (which marks
the meeting).  A resume that timed out may still resume later while
the snapshot says paused.

*Positions.*  `reset_resume_boundary` sets the segmenter's sample count to zero, so finals after a pause point at
sound from before it, and a recovery transcribes saved sound again; `TimelineIsTrue` and `RecoveryIsExact` say
so only for recordings that were never paused (of `RecoveryIsExact`, its part about repetition).  A recovery
starts behind the last of the finals, whichever that is: when one loses a final, gives up on the next, and that is
committed after all, later recoveries start behind it and the lost sound is not tried again; and a recovery that
began before that commit may transcribe the same sound a second time.  A manifest rebuilt after a crash has no gaps
and moves all sound behind a pause or a loss; a recovery asked for a meeting whose archive is whole replaces start and
gaps in the same way (`service.rs:2077-2083`), so `AlignedWithinDrift` speaks of the manifest of a stop.  A file
that was left without its header refuses the recovery of both sources, and the header of a dropped file that could
not be rewritten says zero frames (`raw_audio.rs:694-703` ignores the error).  At 44.1 kHz a packet of 448 frames ends at sample 163 (rounded up) and the next begins
at 162 (rounded down); `append` refuses the overlap, the archive is given up and the meeting marked incomplete.

*Vault.*  A restore of a meeting that was restored before finds the files in place, is refused, and its undo
moves the live meeting's files into the vault.  When a delete fails and the undo of it fails too, the meeting
lives on with files in the vault.  A purge that overlaps the undo of a restore destroys files of a
live meeting.  A restore that is committed but cannot be read back leaves a live meeting with its files in the
vault.  When a directory cannot be measured, `stage_selected` returns without moving the others back.  After a
crash between the renames and the row the files stay in the vault; nothing looks there at the next start.

*Translation.*  A completed row may be overwritten by a late failed answer or reset by a stale plan of a batch.
An answer with a carriage return is refused, its attempt pending until the restart.  A job sent while the worker
leaves stays pending.  Two batches can pass the check for a running one.  An answer that is faster than the
display of its final leaves the view pending; retries of a batch never reach the live snapshot.

*Summaries.*  The cancel flag is global: a cancel of a leftover job, or one that races completion and a new
start, cancels the job that runs.  Pending rows of a crash, of refused storage, or committed and not read back (`storage.rs:4389-4433`) are never
recovered, and a retry refuses them.  A start between the steps of a shutdown lowers the flag it has raised: the
row of the new job is cancelled, and its thread sends all its requests.  A cancel that races the last check leaves a row "cancelled" while the state says "failed".
"completed" is announced before the row is stored; a failed spawn lowers `active` before it announces "failed".
A provider test writes back the configuration it read, over one saved meanwhile.  The identities of segments
are spread evenly over the rows of chunks, whatever the chunks of the requests were, and the last row may be
empty.  An unlinked citation may name a segment that nobody checked: it is shown after the run and gone when the
summary is opened again, where the labels may be numbered differently too (`section_index` before kind).
`attempt` is the depth in a chain of retries: two jobs of a meeting may share one, and
`summary_job_for_meeting_version` then takes either.

*Session.*  A preflight during a stop makes the service ready or marks the row as interrupted, and the late end
of a stop sets "ready" over a new recording.  A retry of a translation replaces the session that is shown, whose
finals are then dropped (`ASR_FINAL_SESSION_MISMATCH`).  The check of a recovery is made under a lock it
releases; a recording may start meanwhile, lose its worker, or be shown as failed.  A pause may show another
session as paused than the one it asked.  A start is allowed after the shutdown.  The translation configuration
stays when the capture fails.  A start whose row is committed, and whose title cannot be written or which cannot be
read back (`storage.rs:4131-4134`), leaves it as recording until a preflight or the next start of the process.

*Window.*  A "more" page in flight when the filter changes is appended to the new page, and the cursor of a list
may be used for a search.  A failed poll of a summary ends the polling until the meeting is selected again.
After a reload during a recording the preflight renders "recording" and schedules no poll.  What was loaded for
the fallback meeting stays when the snapshot changes its meeting.  Late answers may be rendered over later ones.

*Library and export.*  The key of a search cursor is the same for several hits in one summary, so a page boundary
skips the others; `total` is that of the page.  A file with speakers and no trigram index would never have it
filled, as speaker rows are inserted before the test for emptiness.  A crash or a failed cleanup between
publication and record leaves files that make every later export of the unchanged meeting fail with
`MVP_EXPORT_TARGET_EXISTS`.  Of two overlapping exports of one snapshot the loser's cleanup can remove what the
winner recorded.  A partial write leaves the staging directory.
So does every check that returns with `?` (`export.rs:484-489`, `569-570`, and the check of a rendered text, which
refuses a carriage return): what was published before stays, without a row.  The removal of the staging directory
may fail after the record (`export.rs:242`): the command then answers an error for a bundle that is there and
recorded.  A target that cannot be looked up for another reason is cleaned up like a rename that failed, and the two
share an action.  A summary without any section cannot be met, as an accepted answer has an overview
(`summary.rs:678`, `service.rs:3764`).  The tables a file of version 6 or later should have are taken to be there.  Options are not part of the snapshot's id.  The
whole bundle of a long meeting is refused when a document format is among those asked for.  JSON has speakers
and times of segments whose lines the text formats drop.  Exported files survive deletion and purge.

## 7. Not modelled

Left out for good: the secret store, the recognition models and the worker process, the native worker and the
distribution tools (input and output, or scripts); the model worker contract, which has no state.  Left out of
components that are modelled in part: resampling, mixing, thresholds and run lengths of the segmenter, and the
clustering of embeddings (numeric); layout and bytes of documents (formatting); the deletion of raw audio by
itself and the retention preview; the rendering, the overlay window and the settings forms of the frontend; the
watchdog of a slow shutdown, a timer beside the process that can only end it, as a restart does anywhere.

## 8. What could follow

1. `EndpointSegmenter`: blocks of 20 ms, preroll, start and end of speech, greatest length, scaled down; checked
   against a reference definition of segments.  `SourceMixing`: two queues that wait for each other.
2. Proofs: the places of gaps in meeting samples (`AlignedWithinDrift`), once the provers can count
   through a fold.
3. Liveness of translation and summaries: the provider has a deadline in the code, so each job ends.
