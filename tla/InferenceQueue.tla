--------------------------- MODULE InferenceQueue ---------------------------
(***************************************************************************)
(* The recognition queue of the desktop service: coordinators submit       *)
(* interim and final segments (InferenceSubmitter), one worker thread      *)
(* recognizes them, commits finals and publishes interims (inference_loop, *)
(* process_inference_task, publish_if_current).  Each atomic or lock       *)
(* operation of the code is one step.  A session stands for the meeting    *)
(* whose coordinator submits; the text of a segment is abstracted to       *)
(* whether it is meaningful.                                               *)
(* A recovery of another meeting may replace the worker here; one that     *)
(* shares it, and seeds its counter, is in SessionControl.                 *)
(***************************************************************************)
EXTENDS Naturals, Sequences, FiniteSets

CONSTANTS
    Sessions,        \* the meetings one worker serves, one coordinator each
    NoSession,       \* no meeting
    Depth,           \* MAX_INFERENCE_QUEUE_DEPTH
    MaxSeg,          \* bound: segments a coordinator produces
    MaxRev,          \* bound: interim revisions per segment
    MaxWork,         \* bound: segments, revisions and abandoned stops of all sessions
    AbandonedStops   \* may a stop time out and leave its coordinator running?

VARIABLES
    phase,       \* the session as start_windows and stop_windows see it
    pc,          \* where the session's coordinator is inside submit()
    cur,         \* SegmentIdentity: current segment and its last revision
    out,         \* the task the coordinator is submitting, with its generation
    finals,      \* the bounded channel of final tasks
    slot,        \* InferenceShared.interim: the latest interim, or NoEntry
    ilock,       \* holder of the mutex around slot
    pending,     \* InferenceShared.pending
    latest,      \* InferenceShared.latest_interim
    shutdown,    \* InferenceShared.shutdown
    wpc,         \* where the worker is
    work,        \* the task the worker holds, generation 0 for a final
    heard,       \* what the recognizer returned for it
    session,     \* snapshot.session_id
    view,        \* snapshot.interim
    pubGen,      \* InferenceShared.published_interim
    record,      \* InferenceShared.published_interim_record
    seq,         \* InferenceShared.next_final_sequence
    ledger,      \* the finals SQLite holds for each meeting, in sequence order
    noise,       \* finals the recognizer found to hold no speech
    lost,        \* finals whose text never reached SQLite
    incomplete,  \* meetings whose RuntimeErrors are marked incomplete
    replaced     \* history: meetings under way when this worker was replaced

submitVars == <<phase, pc, cur, out>>
queueVars  == <<finals, slot, ilock, pending, latest, shutdown>>
workVars   == <<wpc, work, heard>>
viewVars   == <<session, view, pubGen, record>>
storeVars  == <<seq, ledger, noise, lost, incomplete, replaced>>
vars == <<submitVars, queueVars, workVars, viewVars, storeVars>>

-----------------------------------------------------------------------------
\* A definition introduced by "Fault:" is no part of the specification: it is
\* the definition below it with a mistake the code could make, which one of the
\* properties must detect.

\* The holders of the slot mutex that are no coordinator.
Worker == "worker"
Free   == "free"

ASSUME QueueAssumption ==
    /\ Sessions \cap {NoSession, Worker, Free} = {}
    /\ IsFiniteSet(Sessions)
    /\ Depth \in Nat \ {0}
    /\ MaxSeg \in Nat
    /\ MaxRev \in Nat
    /\ MaxWork \in Nat
    /\ AbandonedStops \in BOOLEAN

Task == [session : Sessions \cup {NoSession}, seg : Nat, rev : Nat, final : BOOLEAN]
NoTask == [session |-> NoSession, seg |-> 0, rev |-> 0, final |-> FALSE]

\* A task together with its interim generation; generations start at 1.
Entry == [gen : Nat, task : Task]
NoEntry == [gen |-> 0, task |-> NoTask]

Phases == {"new", "spawned", "active", "abandoned", "joined", "failed", "stopped"}

\* Coordinator positions at which it has counted a task in pending that is not,
\* or not yet, in a queue; "retired" still counts the interim it took away.
Counted == {"send", "retired"}
SubmitPcs == Counted \cup
    {"idle", "count", "mark", "bump", "retire", "take", "generation", "lock", "recount", "put"}
HoldsSlot == {"take", "recount", "put"}

WorkerBusy == {"stale", "decode", "settle", "advance", "publish", "gate", "write", "recheck", "finish"}
WorkerPcs == WorkerBusy \cup {"receive", "lock", "take", "wait", "exiting", "done"}

Heard == {"text", "noise", "error"}

\* publish_if_current keeps the snapshot mutex from gate to recheck.
SnapshotFree == wpc \notin {"gate", "write", "recheck"}

\* The coordinator's thread has not been joined.
Running(s) == phase[s] \in {"spawned", "active", "abandoned"}

\* stop_windows returned for every session that was started, or gave up.
NoSessionHeld == \A s \in Sessions : phase[s] \in {"new", "stopped", "abandoned", "failed"}

Init ==
    /\ phase = [s \in Sessions |-> "new"]
    /\ pc = [s \in Sessions |-> "idle"]
    /\ cur = [s \in Sessions |-> [seg |-> 1, rev |-> 0]]
    /\ out = [s \in Sessions |-> NoEntry]
    /\ finals = <<>> /\ slot = NoEntry /\ ilock = Free
    /\ pending = 0 /\ latest = 0 /\ shutdown = FALSE
    /\ wpc = "receive" /\ work = NoEntry /\ heard = "text"
    /\ session = NoSession /\ view = NoEntry /\ pubGen = 0 /\ record = NoTask
    /\ seq = 0 /\ ledger = [s \in Sessions |-> <<>>]
    /\ noise = {} /\ lost = {} /\ incomplete = {} /\ replaced = {}

-----------------------------------------------------------------------------
(* The session around the queue: start_windows and stop_windows_before.    *)

\* Fault: the previous meeting's sequence stays.
SequenceKept(s) == seq

\* Segments closed, revisions of the open ones and stops abandoned, together.
Work ==
    Cardinality({x \in Sessions \X (1..(MaxSeg + MaxRev)) :
                    x[2] < cur[x[1]].seg + cur[x[1]].rev})
    + Cardinality({s \in Sessions : phase[s] \in {"abandoned", "failed"}})

\* seed_durable_sequence, from the finals the meeting holds.
SeededSequence(s) == Len(ledger[s])

\* start_windows seeds the sequence, clears the interim and spawns the
\* coordinator; the meeting is new, its ledger empty.
Spawn(s) ==
    /\ phase[s] = "new" /\ NoSessionHeld /\ ~shutdown /\ SnapshotFree
    /\ phase' = [phase EXCEPT ![s] = "spawned"]
    /\ seq' = SeededSequence(s)
    /\ view' = NoEntry
    /\ UNCHANGED <<pc, cur, out, queueVars, workVars, session, pubGen, record,
                   ledger, noise, lost, incomplete, replaced>>

\* start_windows names the session in the snapshot only at its end.
Activate(s) ==
    /\ phase[s] = "spawned" /\ SnapshotFree
    /\ phase' = [phase EXCEPT ![s] = "active"]
    /\ session' = s
    /\ UNCHANGED <<pc, cur, out, queueVars, workVars, view, pubGen, record,
                   storeVars>>

\* stop_windows_before joined the coordinator.
Join(s) ==
    /\ phase[s] = "active" /\ pc[s] = "idle"
    /\ phase' = [phase EXCEPT ![s] = "joined"]
    /\ UNCHANGED <<pc, cur, out, queueVars, workVars, viewVars, storeVars>>

\* What barrier_before polls for.
BarrierOpen == pending = 0

\* barrier_before succeeded, and the meeting is finished.  A stop waits for the
\* worker it finds when it begins: not for this one, when it has been replaced.
Barrier(s) ==
    /\ phase[s] = "joined" /\ (BarrierOpen \/ s \in replaced)
    /\ phase' = [phase EXCEPT ![s] = "stopped"]
    /\ UNCHANGED <<pc, cur, out, queueVars, workVars, viewVars, storeVars>>

\* The join reached its deadline: stop returns an error, the coordinator runs on.
AbandonCoordinator(s) ==
    /\ AbandonedStops /\ Work < MaxWork /\ phase[s] = "active"
    /\ phase' = [phase EXCEPT ![s] = "abandoned"]
    /\ UNCHANGED <<pc, cur, out, queueVars, workVars, viewVars, storeVars>>

\* The barrier reached its deadline: stop returns an error, tasks remain.
AbandonBarrier(s) ==
    /\ AbandonedStops /\ Work < MaxWork /\ phase[s] = "joined" /\ pending # 0
    /\ phase' = [phase EXCEPT ![s] = "failed"]
    /\ UNCHANGED <<pc, cur, out, queueVars, workVars, viewVars, storeVars>>

\* shutdown_before, or ensure_inference_worker dropping this worker for one of
\* another language or model; start_windows keeps it out while it runs, and the
\* recovery of a recording does not ask whether a meeting is under way.
RequestShutdown ==
    /\ ~shutdown /\ \A s \in Sessions : phase[s] # "spawned"
    /\ shutdown' = TRUE
    /\ replaced' = replaced \cup {s \in Sessions : phase[s] = "active"}
    /\ UNCHANGED <<submitVars, finals, slot, ilock, pending, latest, workVars,
                   viewVars, seq, ledger, noise, lost, incomplete>>

-----------------------------------------------------------------------------
(* InferenceSubmitter::submit, by the coordinator of session s.            *)

\* The task SegmentIdentity::metadata names next.
NextTask(s, isFinal) ==
    [session |-> s, seg |-> cur[s].seg, rev |-> cur[s].rev + 1, final |-> isFinal]

\* A final closes its segment, an interim leaves it open.
NextIdentity(s, isFinal) ==
    IF isFinal THEN [seg |-> cur[s].seg + 1, rev |-> 0]
               ELSE [seg |-> cur[s].seg, rev |-> cur[s].rev + 1]

\* submit(): refused when the worker is told to shut down.
Submit(s, isFinal) ==
    /\ Running(s) /\ pc[s] = "idle"
    /\ cur[s].seg <= MaxSeg /\ Work < MaxWork
    /\ isFinal \/ cur[s].rev < MaxRev
    /\ cur' = [cur EXCEPT ![s] = NextIdentity(s, isFinal)]
    /\ IF shutdown
         THEN /\ lost' = IF isFinal THEN lost \cup {NextTask(s, TRUE)} ELSE lost
              /\ incomplete' = IF isFinal THEN incomplete \cup {s} ELSE incomplete
              /\ UNCHANGED <<pc, out>>
         ELSE /\ pc' = [pc EXCEPT ![s] = IF isFinal THEN "count" ELSE "generation"]
              /\ out' = [out EXCEPT ![s] = [gen |-> 0, task |-> NextTask(s, isFinal)]]
              /\ UNCHANGED <<lost, incomplete>>
    /\ UNCHANGED <<phase, queueVars, workVars, viewVars, seq, ledger, noise, replaced>>

\* submit_final counts the task before it is in the channel.
CountFinal(s) ==
    /\ pc[s] = "count"
    /\ pending' = pending + 1
    /\ pc' = [pc EXCEPT ![s] = "send"]
    /\ UNCHANGED <<phase, cur, out, finals, slot, ilock, latest, shutdown,
                   workVars, viewVars, storeVars>>

\* try_send found room.
SendFinal(s) ==
    /\ pc[s] = "send" /\ wpc # "done" /\ Len(finals) < Depth
    /\ finals' = Append(finals, out[s].task)
    /\ pc' = [pc EXCEPT ![s] = "bump"]
    /\ UNCHANGED <<phase, cur, out, slot, ilock, pending, latest, shutdown,
                   workVars, viewVars, storeVars>>

\* Fault: a rejected final stays counted.
GiveUpCounted(s) ==
    /\ pc[s] = "send" /\ (wpc = "done" \/ Len(finals) = Depth)
    /\ lost' = lost \cup {out[s].task}
    /\ pc' = [pc EXCEPT ![s] = "mark"]
    /\ UNCHANGED <<phase, cur, out, queueVars, workVars, viewVars, seq, ledger,
                   noise, incomplete, replaced>>

\* try_send failed: the backpressure deadline passed, or the worker is gone.
GiveUpFinal(s) ==
    /\ pc[s] = "send" /\ (wpc = "done" \/ Len(finals) = Depth)
    /\ pending' = pending - 1
    /\ lost' = lost \cup {out[s].task}
    /\ pc' = [pc EXCEPT ![s] = "mark"]
    /\ UNCHANGED <<phase, cur, out, finals, slot, ilock, latest, shutdown,
                   workVars, viewVars, seq, ledger, noise, incomplete, replaced>>

MarkIncomplete(s) ==
    /\ pc[s] = "mark"
    /\ incomplete' = incomplete \cup {s}
    /\ pc' = [pc EXCEPT ![s] = "idle"]
    /\ UNCHANGED <<phase, cur, out, queueVars, workVars, viewVars,
                   seq, ledger, noise, lost, replaced>>

\* Fault: an accepted final leaves the generation of the interims alone.
KeepGeneration(s) ==
    /\ pc[s] = "bump"
    /\ pc' = [pc EXCEPT ![s] = "retire"]
    /\ UNCHANGED <<phase, cur, out, queueVars, workVars, viewVars, storeVars>>

\* The accepted final makes every earlier interim stale.
BumpGeneration(s) ==
    /\ pc[s] = "bump"
    /\ latest' = latest + 1
    /\ pc' = [pc EXCEPT ![s] = "retire"]
    /\ UNCHANGED <<phase, cur, out, finals, slot, ilock, pending, shutdown,
                   workVars, viewVars, storeVars>>

\* interim.try_lock(): when it would block the queued interim stays.
LockToRetire(s) ==
    /\ pc[s] = "retire"
    /\ IF ilock = Free THEN ilock' = s /\ pc' = [pc EXCEPT ![s] = "take"]
                       ELSE ilock' = ilock /\ pc' = [pc EXCEPT ![s] = "idle"]
    /\ UNCHANGED <<phase, cur, out, finals, slot, pending, latest, shutdown,
                   workVars, viewVars, storeVars>>

\* Fault: the interim taken away stays counted.
RetireCounted(s) ==
    /\ pc[s] = "take"
    /\ slot' = NoEntry
    /\ ilock' = Free
    /\ pc' = [pc EXCEPT ![s] = "idle"]
    /\ UNCHANGED <<phase, cur, out, finals, pending, latest, shutdown,
                   workVars, viewVars, storeVars>>

RetireInterim(s) ==
    /\ pc[s] = "take"
    /\ slot' = NoEntry
    /\ ilock' = Free
    /\ pc' = [pc EXCEPT ![s] = IF slot = NoEntry THEN "idle" ELSE "retired"]
    /\ UNCHANGED <<phase, cur, out, finals, pending, latest, shutdown,
                   workVars, viewVars, storeVars>>

UncountRetired(s) ==
    /\ pc[s] = "retired"
    /\ pending' = pending - 1
    /\ pc' = [pc EXCEPT ![s] = "idle"]
    /\ UNCHANGED <<phase, cur, out, finals, slot, ilock, latest, shutdown,
                   workVars, viewVars, storeVars>>

\* submit_interim takes its generation before it knows whether it has the slot.
TakeGeneration(s) ==
    /\ pc[s] = "generation"
    /\ latest' = latest + 1
    /\ out' = [out EXCEPT ![s] = [gen |-> latest + 1, task |-> out[s].task]]
    /\ pc' = [pc EXCEPT ![s] = "lock"]
    /\ UNCHANGED <<phase, cur, finals, slot, ilock, pending, shutdown,
                   workVars, viewVars, storeVars>>

\* interim.try_lock(): ASR_INTERIM_DROPPED when it would block.
LockSlot(s) ==
    /\ pc[s] = "lock"
    /\ IF ilock = Free THEN ilock' = s /\ pc' = [pc EXCEPT ![s] = "recount"]
                       ELSE ilock' = ilock /\ pc' = [pc EXCEPT ![s] = "idle"]
    /\ UNCHANGED <<phase, cur, out, finals, slot, pending, latest, shutdown,
                   workVars, viewVars, storeVars>>

\* Only an interim that replaces none is counted.
CountInterim(s) ==
    /\ pc[s] = "recount"
    /\ pending' = IF slot = NoEntry THEN pending + 1 ELSE pending
    /\ pc' = [pc EXCEPT ![s] = "put"]
    /\ UNCHANGED <<phase, cur, out, finals, slot, ilock, latest, shutdown,
                   workVars, viewVars, storeVars>>

PutInterim(s) ==
    /\ pc[s] = "put"
    /\ slot' = out[s]
    /\ ilock' = Free
    /\ pc' = [pc EXCEPT ![s] = "idle"]
    /\ UNCHANGED <<phase, cur, out, finals, pending, latest, shutdown,
                   workVars, viewVars, storeVars>>

-----------------------------------------------------------------------------
(* inference_loop and process_inference_task, by the worker.               *)

\* finals.try_recv() goes before the interim.
ReceiveFinal ==
    /\ wpc = "receive" /\ finals # <<>>
    /\ work' = [gen |-> 0, task |-> Head(finals)]
    /\ finals' = Tail(finals)
    /\ wpc' = "stale"
    /\ UNCHANGED <<submitVars, heard, slot, ilock, pending, latest, shutdown,
                   viewVars, storeVars>>

NoFinal ==
    /\ wpc = "receive" /\ finals = <<>>
    /\ wpc' = "lock"
    /\ UNCHANGED <<submitVars, queueVars, work, heard, viewVars, storeVars>>

LockToTake ==
    /\ wpc = "lock" /\ ilock = Free
    /\ ilock' = Worker
    /\ wpc' = "take"
    /\ UNCHANGED <<submitVars, finals, slot, pending, latest, shutdown, work,
                   heard, viewVars, storeVars>>

TakeInterim ==
    /\ wpc = "take"
    /\ work' = slot
    /\ slot' = NoEntry
    /\ ilock' = Free
    /\ wpc' = IF slot = NoEntry THEN "wait" ELSE "stale"
    /\ UNCHANGED <<submitVars, heard, finals, pending, latest, shutdown,
                   viewVars, storeVars>>

\* Nothing scheduled: the worker exits, or parks for 20 ms and looks again.
Wait ==
    /\ wpc = "wait"
    /\ wpc' = IF shutdown /\ pending = 0 THEN "exiting" ELSE "receive"
    /\ UNCHANGED <<submitVars, queueVars, work, heard, viewVars, storeVars>>

\* The end of the thread drops the receiver.
DropReceiver ==
    /\ wpc = "exiting"
    /\ wpc' = "done"
    /\ UNCHANGED <<submitVars, queueVars, work, heard, viewVars, storeVars>>

StaleTask ==
    \/ ~work.task.final /\ work.gen # latest
    \/ session # work.task.session

\* A stale interim is dropped; a final of another session is lost.
CheckStale ==
    /\ wpc = "stale"
    /\ wpc' = IF StaleTask THEN "finish" ELSE "decode"
    /\ IF StaleTask /\ work.task.final
         THEN lost' = lost \cup {work.task} /\ incomplete' = incomplete \cup {work.task.session}
         ELSE UNCHANGED <<lost, incomplete>>
    /\ UNCHANGED <<submitVars, queueVars, work, heard, viewVars, seq, ledger, noise, replaced>>

\* interim_matches_final; the sample range follows from the segment.
InterimMatchesFinal ==
    /\ record.session = work.task.session
    /\ record.seg = work.task.seg
    /\ record.rev < work.task.rev

\* transcribe_with_recovery, its one restart included: text, text without
\* speech, or an error.  A noise interim is not published.
Recognize ==
    /\ wpc = "decode"
    /\ heard' \in Heard
    /\ wpc' = IF work.task.final THEN "settle"
              ELSE IF heard' = "noise" THEN "finish" ELSE "publish"
    /\ UNCHANGED <<submitVars, queueVars, work, viewVars, storeVars>>

\* meaningful_final_text_or_interim: its own text, or that of the interim the
\* user was shown for the same segment.
MeaningfulFinal == heard = "text" \/ (heard = "noise" /\ InterimMatchesFinal)

\* commit_final, acknowledged: SQLite takes the next sequence only.
CommitFinal ==
    /\ wpc = "settle" /\ MeaningfulFinal
    /\ seq + 1 = Len(ledger[work.task.session]) + 1
    /\ ledger' = [ledger EXCEPT ![work.task.session] = Append(@, work.task.seg)]
    /\ wpc' = "advance"
    /\ UNCHANGED <<submitVars, queueVars, work, heard, viewVars, seq, noise,
                   lost, incomplete, replaced>>

\* The recognizer failed, or storage refused the commit: the sequence is not
\* consumed.
LoseFinal ==
    /\ wpc = "settle" /\ (MeaningfulFinal \/ heard = "error")
    /\ lost' = lost \cup {work.task}
    /\ incomplete' = incomplete \cup {work.task.session}
    /\ wpc' = "publish"
    /\ UNCHANGED <<submitVars, queueVars, work, heard, viewVars, seq, ledger,
                   noise, replaced>>

DropNoise ==
    /\ wpc = "settle" /\ ~MeaningfulFinal /\ heard = "noise"
    /\ noise' = noise \cup {work.task}
    /\ wpc' = "publish"
    /\ UNCHANGED <<submitVars, queueVars, work, heard, viewVars, seq, ledger,
                   lost, incomplete, replaced>>

\* advance_durable_sequence_after_ack: fetch_max with the committed sequence.
AdvanceSequence ==
    /\ wpc = "advance"
    /\ LET committed == Len(ledger[work.task.session])
       IN  seq' = IF committed > seq THEN committed ELSE seq
    /\ wpc' = "publish"
    /\ UNCHANGED <<submitVars, queueVars, work, heard, viewVars, ledger, noise,
                   lost, incomplete, replaced>>

\* publish_if_current without an interim gate: a final takes the interim away.
PublishFinal ==
    /\ wpc = "publish" /\ work.task.final
    /\ IF session = work.task.session
         THEN view' = NoEntry /\ pubGen' = 0 /\ record' = NoTask
         ELSE UNCHANGED <<view, pubGen, record>>
    /\ wpc' = "finish"
    /\ UNCHANGED <<submitVars, queueVars, work, heard, session, storeVars>>

\* publish_if_current locks the snapshot, then the slot.
LockSnapshot ==
    /\ wpc = "publish" /\ ~work.task.final
    /\ wpc' = "gate"
    /\ UNCHANGED <<submitVars, queueVars, work, heard, viewVars, storeVars>>

PassGate ==
    /\ wpc = "gate" /\ ilock = Free
    /\ IF work.gen = latest /\ session = work.task.session
         THEN wpc' = "write" /\ ilock' = Worker
         ELSE wpc' = "finish" /\ ilock' = ilock
    /\ UNCHANGED <<submitVars, finals, slot, pending, latest, shutdown, work,
                   heard, viewVars, storeVars>>

\* The closure of publish_if_current; empty when the recognizer failed.
WriteInterim ==
    /\ wpc = "write"
    /\ IF heard = "text"
         THEN view' = work /\ pubGen' = work.gen /\ record' = work.task
         ELSE UNCHANGED <<view, pubGen, record>>
    /\ wpc' = "recheck"
    /\ UNCHANGED <<submitVars, queueVars, work, heard, session, storeVars>>

\* A task submitted meanwhile takes the interim back.
RecheckInterim ==
    /\ wpc = "recheck"
    /\ IF work.gen # latest THEN view' = NoEntry /\ pubGen' = 0
                            ELSE UNCHANGED <<view, pubGen>>
    /\ ilock' = Free
    /\ wpc' = "finish"
    /\ UNCHANGED <<submitVars, finals, slot, pending, latest, shutdown, work,
                   heard, session, record, storeVars>>

FinishTask ==
    /\ wpc = "finish"
    /\ pending' = pending - 1
    /\ wpc' = "receive"
    /\ UNCHANGED <<submitVars, finals, slot, ilock, latest, shutdown, work,
                   heard, viewVars, storeVars>>

-----------------------------------------------------------------------------
(* public_snapshot, the view every command returns, with scrub_stale_interim. *)
PublicSnapshot ==
    /\ SnapshotFree
    /\ IF pubGen # 0 /\ pubGen # latest
         THEN view' = NoEntry /\ pubGen' = 0
         ELSE UNCHANGED <<view, pubGen>>
    /\ UNCHANGED <<submitVars, queueVars, workVars, session, record, storeVars>>

-----------------------------------------------------------------------------
SubmitStep(s) ==
    \/ CountFinal(s) \/ SendFinal(s) \/ GiveUpFinal(s) \/ MarkIncomplete(s)
    \/ BumpGeneration(s) \/ LockToRetire(s) \/ RetireInterim(s) \/ UncountRetired(s)
    \/ TakeGeneration(s) \/ LockSlot(s) \/ CountInterim(s) \/ PutInterim(s)

WorkerStep ==
    \/ ReceiveFinal \/ NoFinal \/ LockToTake \/ TakeInterim \/ Wait \/ DropReceiver
    \/ CheckStale \/ Recognize \/ CommitFinal \/ LoseFinal \/ DropNoise
    \/ AdvanceSequence \/ PublishFinal \/ LockSnapshot \/ PassGate
    \/ WriteInterim \/ RecheckInterim \/ FinishTask

SessionStep(s) ==
    \/ Spawn(s) \/ Activate(s) \/ Join(s) \/ Barrier(s)
    \/ AbandonCoordinator(s) \/ AbandonBarrier(s)

Next ==
    \/ \E s \in Sessions : SessionStep(s) \/ SubmitStep(s)
    \/ \E s \in Sessions, isFinal \in BOOLEAN : Submit(s, isFinal)
    \/ WorkerStep
    \/ RequestShutdown
    \/ PublicSnapshot

Spec == Init /\ [][Next]_vars

\* The worker thread and a submit() under way keep running; a stop, once the
\* coordinator is joined, polls the barrier.  Nothing forces a coordinator to
\* submit, a user to stop, or a client to read a snapshot.
Fairness ==
    /\ WF_vars(WorkerStep)
    /\ \A s \in Sessions : WF_vars(SubmitStep(s)) /\ WF_vars(Barrier(s))

FairSpec == Spec /\ Fairness

-----------------------------------------------------------------------------
TypeOK ==
    /\ phase \in [Sessions -> Phases]
    /\ pc \in [Sessions -> SubmitPcs]
    /\ cur \in [Sessions -> [seg : Nat, rev : Nat]]
    /\ out \in [Sessions -> Entry]
    /\ finals \in Seq(Task) /\ Len(finals) <= Depth
    /\ slot \in Entry
    /\ ilock \in Sessions \cup {Worker, Free}
    /\ pending \in Nat /\ latest \in Nat /\ shutdown \in BOOLEAN
    /\ wpc \in WorkerPcs /\ work \in Entry /\ heard \in Heard
    /\ session \in Sessions \cup {NoSession}
    /\ view \in Entry /\ pubGen \in Nat /\ record \in Task
    /\ seq \in Nat /\ ledger \in [Sessions -> Seq(Nat)]
    /\ noise \subseteq Task /\ lost \subseteq Task /\ incomplete \subseteq Sessions
    /\ replaced \subseteq Sessions
-----------------------------------------------------------------------------
(* What the queue promises.                                                *)

\* The final of segment n of session s is in SQLite, or was found to hold no
\* speech, or is known to be missing from a meeting marked incomplete.
Settled(s, n) ==
    \/ \E i \in DOMAIN ledger[s] : ledger[s][i] = n
    \/ \E t \in noise : t.session = s /\ t.seg = n
    \/ s \in incomplete /\ \E t \in lost : t.session = s /\ t.seg = n

ClosedSegments(s) == 1..(cur[s].seg - 1)

\* Coordinators whose counted task is in no queue.
InTransit(f) == {s \in Sessions : f[s] \in Counted}

SlotCounted == slot # NoEntry \/ \E s \in Sessions : pc[s] = "put"

InSlot   == IF SlotCounted THEN 1 ELSE 0
InWorker == IF wpc \in WorkerBusy THEN 1 ELSE 0

\* pending, which both barriers, the queue depth and the worker's exit read, is
\* at every step the number of tasks that are queued, held by the worker or
\* between the two: no interleaving of the counting steps of submit_final,
\* submit_interim and finish_task loses or repeats one (service.rs 4626-4706).
PendingExact ==
    pending = Len(finals) + InSlot + InWorker + Cardinality(InTransit(pc))

\* Once stop_windows passed join and barrier, every final its coordinator
\* produced is settled: finish_session_meeting never completes a meeting that
\* silently misses a segment (service.rs 3224-3247).  The exception is a meeting
\* whose worker a recovery has replaced under it: its stop waits for another.
StoppedMeetingSettled ==
    \A s \in Sessions \ replaced : phase[s] = "stopped" =>
        \A n \in ClosedSegments(s) : Settled(s, n)

\* No stop has hit its deadline, and no worker was replaced under a meeting.  Then
\* the next meeting never starts beside what the last one left; after either, it
\* may, and the properties that say so are void.
Undisturbed ==
    /\ \A s \in Sessions : phase[s] \notin {"abandoned", "failed"}
    /\ replaced = {}

\* Finals of a meeting become durable in the order its coordinator closed the
\* segments, none twice, whatever was dropped between them.
LedgerInOrder ==
    \A s \in Sessions : \A i, j \in DOMAIN ledger[s] :
        i < j => ledger[s][i] < ledger[s][j]

\* The shared counter the worker takes the next sequence from agrees with
\* SQLite whenever it is used, so that no commit is refused as a gap or a
\* reordering (service.rs 4708-4720, storage.rs 3401).
SequenceFits ==
    Undisturbed /\ wpc = "settle" => seq = Len(ledger[work.task.session])

\* What public_snapshot would return now.
PublicInterim == IF pubGen # 0 /\ pubGen # latest THEN NoEntry ELSE view

\* The coordinator has not yet returned from submitting the final of t's segment.
FinalUnderway(t) ==
    /\ pc[t.session] \in {"count", "send", "mark", "bump"}
    /\ out[t.session].task.final /\ out[t.session].task.seg = t.seg

\* No command returns an interim of a segment whose final was accepted, nor one
\* of another session, however late the worker publishes it: the generation
\* checks of publish_if_current and scrub_stale_interim (service.rs 5314-5341), as
\* long as the worker that published is the one that is asked.
NoInterimOutlivesItsFinal ==
    Undisturbed /\ SnapshotFree /\ PublicInterim # NoEntry =>
        LET t == PublicInterim.task
        IN  /\ t.session = session
            /\ \/ t.seg = cur[t.session].seg
               \/ FinalUnderway(t)
               \/ \E f \in lost : f.session = t.session /\ f.seg = t.seg

\* What reaches SQLite does so in order, and under the number SQLite expects.
DurableInOrder == LedgerInOrder /\ SequenceFits

-----------------------------------------------------------------------------
(* The inductive invariant behind PendingExact and StoppedMeetingSettled.  *)

\* The slot mutex has the holder the program counters say.
MutexHeld ==
    /\ \A s \in Sessions : ilock = s <=> pc[s] \in HoldsSlot
    /\ ilock = Worker <=> wpc \in {"take", "write", "recheck"}

\* A coordinator submits tasks of its own session; one that is not running is
\* not inside submit().
SubmissionsWellFormed ==
    \A s \in Sessions :
        /\ pc[s] # "idle" => out[s].task.session = s
        /\ pc[s] \in {"count", "send", "mark"} => out[s].task.final
        /\ pc[s] = "mark" => out[s].task \in lost
        /\ pc[s] \in {"generation", "lock", "recount", "put"} => ~out[s].task.final
        /\ pc[s] \in {"lock", "recount", "put"} => out[s].gen > 0
        /\ ~Running(s) => pc[s] = "idle"

\* The channel carries finals and the slot an interim, each of a session.
QueuesWellFormed ==
    /\ \A i \in DOMAIN finals : finals[i].final /\ finals[i].session \in Sessions
    /\ ~slot.task.final
    /\ wpc \in WorkerBusy /\ work.task.final => work.task.session \in Sessions
    /\ wpc \in {"settle", "advance"} => work.task.final

\* The final of segment n is somewhere between its coordinator and its outcome.
InFlight(s, n) ==
    \/ pc[s] \in {"count", "send", "mark"} /\ out[s].task.seg = n
    \/ \E i \in DOMAIN finals : finals[i].session = s /\ finals[i].seg = n
    \/ /\ wpc \in {"stale", "decode", "settle"}
       /\ work.task.final /\ work.task.session = s /\ work.task.seg = n

\* While GiveUpFinal and MarkIncomplete are under way the final is lost but its
\* meeting not yet marked: InFlight covers that window.
NothingForgotten ==
    \A s \in Sessions : \A n \in ClosedSegments(s) : InFlight(s, n) \/ Settled(s, n)

QueueInv ==
    /\ TypeOK
    /\ MutexHeld
    /\ SubmissionsWellFormed
    /\ QueuesWellFormed
    /\ PendingExact
    /\ NothingForgotten
    /\ StoppedMeetingSettled

-----------------------------------------------------------------------------
(* Liveness, under FairSpec.                                               *)

\* A stop that joined its coordinator gets past the barrier - unless its worker is
\* replaced meanwhile and an abandoned coordinator leaves a task to the old one.
BarrierReturns ==
    \A s \in Sessions : phase[s] = "joined" ~>
        (phase[s] \in {"stopped", "failed"} \/ (shutdown /\ ~Undisturbed))

\* Every segment the coordinator closed is eventually settled, as long as no stop
\* was abandoned and no worker replaced under the meeting: a worker told to shut
\* down drops what comes too late for it.
FinalsSettle ==
    \A s \in Sessions, n \in 1..MaxSeg :
        (n \in ClosedSegments(s)) ~> (Settled(s, n) \/ ~Undisturbed)

\* Neither a stop nor a final waits for ever on the worker.
QueueDrains == BarrierReturns /\ FinalsSettle

=============================================================================
