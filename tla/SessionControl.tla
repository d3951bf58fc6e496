--------------------------- MODULE SessionControl ---------------------------
(***************************************************************************)
(* The commands of the desktop service that start, pause, stop, open and   *)
(* recover meetings (mvp/service.rs), on the threads of a pool.            *)
(*                                                                         *)
(* They share the mutex `inner` with the session and the recognition       *)
(* worker, the live snapshot under a mutex of its own, and the rows of the *)
(* meetings.  A start holds `inner` from its checks to the end; a stop     *)
(* takes the session out and works without the lock; pause and resume look *)
(* the session up again after they have waited; a recovery checks, and     *)
(* then works without the lock; the retry of a translation opens its       *)
(* meeting with no check at all.  The recognition worker drops a final     *)
(* whose meeting is not the one in the snapshot.                           *)
(*                                                                         *)
(* Audio is abstracted to the finals a meeting's coordinator submits; the  *)
(* modules PauseProtocol and InferenceQueue have the steps inside.         *)
(***************************************************************************)
EXTENDS Naturals, Sequences, FiniteSets

CONSTANTS
    Clients,    \* threads of commands
    Languages,  \* languages a recognition worker may be prepared for
    MaxMeetings, MaxWorkers, MaxFinals, MaxCalls, MaxErrors, MaxRestarts  \* bounds

ASSUME SessionAssumption ==
    /\ "free" \notin Clients
    /\ MaxMeetings \in Nat /\ MaxWorkers \in Nat \ {0} /\ MaxFinals \in Nat

VARIABLES
    inner,     \* who holds the mutex: a client or "free"
    session,   \* the meeting of the running session, 0 for none
    stored,    \* the state of each meeting's row
    lifecycle, \* lifecycle of the snapshot
    shown,     \* session_id of the snapshot, 0 for none
    worker,    \* the recognition worker in `inner`, 0 for none
    workers,   \* every worker that was prepared: language, sequence counter, tasks
    coord,     \* the coordinator of each meeting
    gate,      \* the pause gate of each meeting: TRUE when it is paused
    finals,    \* per meeting: finals its coordinator cut, those of them that are stored
               \*   (live), and all that are stored
    lang,      \* the language each meeting is started with
    marked,    \* per meeting: session_errors says that it is incomplete
    mirrors,   \* live_text_mirrors
    client,    \* the commands
    history,   \* which of the races named below have happened, and orphaned rows
    tally      \* numbers of calls, errors and restarts

vars == <<inner, session, stored, lifecycle, shown, worker, workers, coord, gate, finals,
          marked, mirrors, client, history, tally, lang>>

-----------------------------------------------------------------------------
(* Values. *)

Meetings == 1..MaxMeetings
Gens == 1..MaxWorkers
Blocking == {"starting", "recording", "paused", "stopping"}
Idle == [pc |-> "idle", m |-> 0, gen |-> 0]
NoHistory == [opened |-> FALSE, preflighted |-> FALSE, crossed |-> FALSE, replaced |-> FALSE,
              orphans |-> {}, stopped |-> {}]

May(what, bound) == tally[what] < bound /\ tally' = [tally EXCEPT ![what] = @ + 1]
Err == May("errors", MaxErrors)
Call(c) == client[c].pc = "idle" /\ May("calls", MaxCalls)
To(c, pc) == client' = [client EXCEPT ![c].pc = pc]
Return(c) == client' = [client EXCEPT ![c] = Idle]

Doing(c, pcs) == client[c].pc \in pcs
StartPcs == {"prepare", "capture", "name"}
StopPcs == {"join", "barrier", "finish", "ready"}
Stopping == {client[c].m : c \in {x \in Clients : Doing(x, StopPcs)}}
Starting == {client[c].m : c \in {x \in Clients : Doing(x, StartPcs)}}

(* Fault: only the session is looked at. *)
BlockedBySession == session # 0

(* history_open_blocked *)
HistoryOpenBlocked == session # 0 \/ lifecycle \in Blocking

(* A row is left as it is, by a failure. *)
LeaveRow(m) ==
    /\ Err
    /\ history' = [history EXCEPT !.orphans = @ \cup {m}]
    /\ UNCHANGED stored

(* finish_meeting_on_writer: whatever the state was.  Storage may refuse.   *)
FinishRow(m, state) ==
    \/ /\ stored' = [stored EXCEPT ![m] = state]
       /\ UNCHANGED <<history, tally>>
    \/ LeaveRow(m)

(* A meeting enters the snapshot unchecked; `opened` says that another one  *)
(* was being recorded, started or stopped.                                  *)
ShowMeeting(m) ==
    /\ shown' = m
    /\ history' = [history EXCEPT !.opened =
                      @ \/ ({session} \cup Starting \cup Stopping) \ {0, m} # {}]

-----------------------------------------------------------------------------
(* The recognition worker. *)

Tasks(gen) == IF gen = 0 THEN <<>> ELSE workers[gen].tasks

Serves(l) == worker # 0 /\ workers[worker].lang = l

(* ensure_inference_worker: a worker that was prepared for another language *)
(* is told to end, and is waited for while `inner` is held.                 *)
MayPrepare(l) ==
    \/ Serves(l)
    \/ Len(workers) < MaxWorkers /\ Tasks(worker) = <<>>

Prepared(l) ==
    IF Serves(l) THEN [gen |-> worker, all |-> workers]
    ELSE [gen |-> Len(workers) + 1,
          all |-> Append(IF worker = 0 THEN workers ELSE [workers EXCEPT ![worker].ended = TRUE],
                         [lang |-> l, sequence |-> 0, tasks |-> <<>>, ended |-> FALSE])]

WorkerBusy(l) == worker # 0 /\ workers[worker].lang # l /\ Tasks(worker) # <<>>

Submit(m, gen, by) ==
    workers' = [workers EXCEPT ![gen].tasks = Append(@, [m |-> m, by |-> by, begun |-> FALSE])]

Mark(task) == marked' = IF task.by = "coordinator" THEN [marked EXCEPT ![task.m] = TRUE] ELSE marked

(* Fault: a final of another session is dropped without a word. *)
DropSilently(task) == UNCHANGED marked

DropStale(task) == Mark(task)

(* The task is looked at; it is dropped unless its meeting is shown. *)
BeginTask(gen) ==
    /\ gen <= Len(workers) /\ Tasks(gen) # <<>> /\ ~Head(Tasks(gen)).begun
    /\ LET task == Head(Tasks(gen)) IN
       IF shown = task.m
       THEN /\ workers' = [workers EXCEPT ![gen].tasks[1].begun = TRUE]
            /\ UNCHANGED marked
       ELSE /\ workers' = [workers EXCEPT ![gen].tasks = Tail(@)]
            /\ DropStale(task)
    /\ UNCHANGED <<inner, session, stored, lifecycle, shown, worker, coord, gate, finals, mirrors,
                   client, history, tally>>

(* It is recognized and committed under the next number of the worker's     *)
(* counter, which storage refuses if it is not the meeting's next one.      *)
CommitTask(gen) ==
    /\ gen <= Len(workers) /\ Tasks(gen) # <<>> /\ Head(Tasks(gen)).begun
    /\ LET task == Head(Tasks(gen)) IN
       IF workers[gen].sequence = finals[task.m].saved
       THEN /\ finals' = [finals EXCEPT ![task.m].saved = @ + 1,
                           ![task.m].live = IF task.by = "coordinator" THEN @ + 1 ELSE @]
            /\ workers' = [workers EXCEPT ![gen].sequence = @ + 1, ![gen].tasks = Tail(@)]
            /\ UNCHANGED marked
       ELSE /\ workers' = [workers EXCEPT ![gen].tasks = Tail(@)]
            /\ Mark(task)
            /\ UNCHANGED finals
    /\ UNCHANGED <<inner, session, stored, lifecycle, shown, worker, coord, gate, mirrors, client,
                   history, tally>>

(* The coordinator of a meeting: it cuts finals, and ends when it is told.  *)
(* A final that no worker takes makes the meeting incomplete.               *)
CutFinal(m) ==
    /\ coord[m].pc \in {"running", "told"}
    /\ ~gate[m] /\ finals[m].cut < MaxFinals
    /\ finals' = [finals EXCEPT ![m].cut = @ + 1]
    /\ IF workers[coord[m].gen].ended
       THEN marked' = [marked EXCEPT ![m] = TRUE] /\ UNCHANGED workers
       ELSE Submit(m, coord[m].gen, "coordinator") /\ UNCHANGED marked
    /\ UNCHANGED <<inner, session, stored, lifecycle, shown, worker, coord, gate, mirrors, client,
                   history, tally>>

CoordinatorEnds(m) ==
    /\ coord[m].pc = "told"
    /\ coord' = [coord EXCEPT ![m].pc = "ended"]
    /\ UNCHANGED <<inner, session, stored, lifecycle, shown, worker, workers, gate, finals, marked,
                   mirrors, client, history, tally>>

-----------------------------------------------------------------------------
(* start_windows *)

New(m) == m \in Meetings /\ stored[m] = "none" /\ \A x \in Meetings : x < m => stored[x] # "none"

(* Checks, the worker and the row; `inner` is held from here to the end. *)
Start(c, m) ==
    /\ inner = "free" /\ Call(c)
    /\ session = 0 /\ lifecycle = "ready" /\ New(m)
    /\ MayPrepare(lang[m])
    /\ worker' = Prepared(lang[m]).gen /\ workers' = Prepared(lang[m]).all
    /\ stored' = [stored EXCEPT ![m] = "recording"]
    /\ inner' = c
    /\ client' = [client EXCEPT ![c] = [pc |-> "prepare", m |-> m, gen |-> worker']]
    /\ UNCHANGED <<session, lifecycle, shown, coord, gate, finals, marked, mirrors, history>>

(* The row is committed, and then its title cannot be written or it cannot  *)
(* be read back: the start fails and does not know which row it leaves.     *)
StartUnread(c) ==
    /\ client[c].pc = "prepare"
    /\ LeaveRow(client[c].m)
    /\ inner' = "free" /\ Return(c)
    /\ UNCHANGED <<session, lifecycle, shown, worker, workers, coord, gate, finals, marked, mirrors>>

(* The archive, the translation or the mirror of the live text cannot be    *)
(* opened: the row is interrupted, the snapshot is left as it is.           *)
StartRefused(c) ==
    /\ client[c].pc = "prepare"
    /\ FinishRow(client[c].m, "interrupted")
    /\ inner' = "free" /\ Return(c)
    /\ UNCHANGED <<session, lifecycle, shown, worker, workers, coord, gate, finals, marked, mirrors>>

StartPrepare(c) ==
    LET m == client[c].m IN
    /\ client[c].pc = "prepare"
    /\ mirrors' = mirrors \cup {m}
    /\ workers' = [workers EXCEPT ![worker].sequence = finals[m].saved]
    /\ lifecycle' = "starting"
    /\ To(c, "capture")
    /\ UNCHANGED <<inner, session, stored, shown, worker, coord, gate, finals, marked, history, tally>>

Failed == "error"

(* Fault: the mirror of the live text stays open. *)
MirrorKept(m) == mirrors

MirrorClosed(m) == mirrors \ {m}

(* The devices or the coordinator's thread cannot be started. *)
StartFailed(c) ==
    LET m == client[c].m IN
    /\ client[c].pc = "capture"
    /\ mirrors' = MirrorClosed(m)
    /\ FinishRow(m, "interrupted")
    /\ lifecycle' = Failed
    /\ inner' = "free" /\ Return(c)
    /\ UNCHANGED <<session, shown, worker, workers, coord, gate, finals, marked>>

StartCapture(c) ==
    /\ client[c].pc = "capture"
    /\ coord' = [coord EXCEPT ![client[c].m] = [pc |-> "running", gen |-> client[c].gen]]
    /\ To(c, "name")
    /\ UNCHANGED <<inner, session, stored, lifecycle, shown, worker, workers, gate, finals, marked,
                   mirrors, history, tally>>

StartName(c) ==
    LET m == client[c].m IN
    /\ client[c].pc = "name"
    /\ session' = m /\ shown' = m /\ lifecycle' = "recording"
    /\ inner' = "free" /\ Return(c)
    /\ UNCHANGED <<stored, worker, workers, coord, gate, finals, marked, mirrors, history, tally>>

-----------------------------------------------------------------------------
(* pause_windows, resume_windows *)

Pause(c) ==
    /\ inner = "free" /\ Call(c)
    /\ session # 0 /\ lifecycle # "paused"
    /\ gate' = [gate EXCEPT ![session] = TRUE]
    /\ client' = [client EXCEPT ![c] = [Idle EXCEPT !.pc = "pausing", !.m = session, !.gen = worker]]
    /\ UNCHANGED <<inner, session, stored, lifecycle, shown, worker, workers, coord, finals, marked,
                   mirrors, history>>

(* Its coordinator answered and the worker has nothing left, or takes too   *)
(* long, which is shown as a pause with an error.                           *)
PauseAnswered(c) ==
    /\ client[c].pc = "pausing"
    /\ coord[client[c].m].pc = "running"
    /\ (Tasks(client[c].gen) = <<>> /\ UNCHANGED tally) \/ Err
    /\ To(c, "paused")
    /\ UNCHANGED <<inner, session, stored, lifecycle, shown, worker, workers, coord, gate, finals,
                   marked, mirrors, history>>

(* A coordinator that left its loop does not answer; one that is slow may   *)
(* still resume later.                                                      *)
WaitInVain(c) ==
    /\ Doing(c, {"pausing", "resuming"})
    /\ (coord[client[c].m].pc # "running" /\ UNCHANGED tally) \/ Err
    /\ gate' = [gate EXCEPT ![client[c].m] = @ /\ client[c].pc = "pausing"]
    /\ history' = [history EXCEPT !.crossed = @ \/ client[c].pc = "resuming"]
    /\ Return(c)
    /\ UNCHANGED <<inner, session, stored, lifecycle, shown, worker, workers, coord, finals,
                   marked, mirrors>>

(* The session is looked up again, and is whatever session runs now. *)
ShowAs(c, state) ==
    /\ inner = "free"
    /\ lifecycle' = IF session = 0 THEN lifecycle ELSE state
    /\ history' = [history EXCEPT !.crossed = @ \/ session # client[c].m]
    /\ Return(c)
    /\ UNCHANGED <<inner, session, stored, shown, worker, workers, coord, gate, finals, marked,
                   mirrors, tally>>

PauseShow(c) == client[c].pc = "paused" /\ ShowAs(c, "paused")

(* `crossed` says that a pause and a resume of a meeting were under way     *)
(* together (PauseProtocol has their steps).                                *)
Resume(c) ==
    /\ inner = "free" /\ Call(c)
    /\ session # 0 /\ lifecycle # "recording"
    /\ client' = [client EXCEPT ![c] = [Idle EXCEPT !.pc = "resuming", !.m = session, !.gen = worker]]
    /\ UNCHANGED <<inner, session, stored, lifecycle, shown, worker, workers, coord, gate, finals,
                   marked, mirrors, history>>

(* acknowledge_resume opens the gate. *)
ResumeAnswered(c) ==
    /\ client[c].pc = "resuming" /\ coord[client[c].m].pc = "running"
    /\ gate' = [gate EXCEPT ![client[c].m] = FALSE]
    /\ history' = [history EXCEPT !.crossed = @ \/ \E d \in Clients \ {c} :
                       Doing(d, {"pausing", "paused", "resuming", "resumed"})]
    /\ To(c, "resumed")
    /\ UNCHANGED <<inner, session, stored, lifecycle, shown, worker, workers, coord, finals, marked,
                   mirrors, tally>>

ResumeShow(c) == client[c].pc = "resumed" /\ ShowAs(c, "recording")

-----------------------------------------------------------------------------
(* stop_windows_before *)

Stop(c) ==
    /\ inner = "free" /\ Call(c)
    /\ session # 0
    /\ session' = 0 /\ lifecycle' = "stopping"
    /\ coord' = [coord EXCEPT ![session].pc = "told"]
    /\ client' = [client EXCEPT ![c] = [pc |-> "join", m |-> session, gen |-> worker]]
    /\ UNCHANGED <<inner, stored, shown, worker, workers, gate, finals, marked, mirrors, history>>

StopJoin(c) ==
    /\ client[c].pc = "join" /\ coord[client[c].m].pc = "ended"
    /\ To(c, "barrier")
    /\ UNCHANGED <<inner, session, stored, lifecycle, shown, worker, workers, coord, gate, finals,
                   marked, mirrors, history, tally>>

Barrier(c) == Tasks(client[c].gen) = <<>>

StopBarrier(c) ==
    /\ client[c].pc = "barrier" /\ Barrier(c)
    /\ mirrors' = MirrorClosed(client[c].m)
    /\ To(c, "finish")
    /\ UNCHANGED <<inner, session, stored, lifecycle, shown, worker, workers, coord, gate, finals,
                   marked, history, tally>>

(* The deadline passes while the coordinator or the worker is waited for:   *)
(* the meeting is left as it is.                                            *)
StopTimeout(c) ==
    /\ Doing(c, {"join", "barrier"}) /\ Err
    /\ lifecycle' = "error"
    /\ history' = [history EXCEPT !.orphans = @ \cup {client[c].m}]
    /\ Return(c)
    /\ UNCHANGED <<inner, session, stored, shown, worker, workers, coord, gate, finals, marked, mirrors>>

(* Storage may refuse, or commit the row and fail to read it back.          *)
StopFinish(c) ==
    LET m == client[c].m IN
    /\ client[c].pc = "finish"
    /\ \/ /\ stored' = [stored EXCEPT ![m] = IF marked[m] THEN "interrupted" ELSE "completed"]
          /\ history' = [history EXCEPT !.stopped = IF marked[m] THEN @ ELSE @ \cup {m}]
          /\ \/ To(c, "ready") /\ UNCHANGED <<lifecycle, tally>>
             \/ Err /\ lifecycle' = "error" /\ Return(c)
       \/ LeaveRow(m) /\ lifecycle' = "error" /\ Return(c)
    /\ UNCHANGED <<inner, session, shown, worker, workers, coord, gate, finals, marked, mirrors>>

StopReady(c) ==
    /\ client[c].pc = "ready"
    /\ lifecycle' = "ready"
    /\ Return(c)
    /\ UNCHANGED <<inner, session, stored, shown, worker, workers, coord, gate, finals, marked,
                   mirrors, history, tally>>

-----------------------------------------------------------------------------
(* preflight_windows, prepare_language_windows *)

(* Fault: a preflight does not look for a session. *)
PreflightAlways == TRUE

PreflightMay == session = 0

(* Rows that say "recording" become interrupted; `preflighted` says that a  *)
(* stop was working on one.                                                 *)
Preflight(c) ==
    /\ inner = "free" /\ Call(c)
    /\ PreflightMay
    /\ \/ /\ stored' = [m \in Meetings |-> IF stored[m] = "recording" THEN "interrupted" ELSE stored[m]]
          /\ lifecycle' \in {"ready", "error"}
       \/ UNCHANGED stored /\ lifecycle' \in {"booting", "error"}
    /\ history' = [history EXCEPT !.preflighted = @ \/ Stopping # {}]
    /\ UNCHANGED <<inner, session, shown, worker, workers, coord, gate, finals, marked, mirrors, client>>

PrepareLanguage(c, l) ==
    /\ inner = "free" /\ Call(c)
    /\ session = 0 /\ lifecycle = "ready"
    /\ MayPrepare(l)
    /\ worker' = Prepared(l).gen /\ workers' = Prepared(l).all
    /\ UNCHANGED <<inner, session, stored, lifecycle, shown, coord, gate, finals, marked, mirrors,
                   client, history>>

(* A worker that does not end in time is lost to the service. *)
WorkerLeftBehind(c, l) ==
    /\ inner = "free" /\ Call(c)
    /\ session = 0 /\ lifecycle = "ready" /\ WorkerBusy(l)
    /\ worker' = 0
    /\ UNCHANGED <<inner, session, stored, lifecycle, shown, workers, coord, gate, finals, marked,
                   mirrors, client, history>>

(* The new worker cannot load its model: there is none, and `fail` shows it *)
(* whatever the lifecycle was.                                              *)
NoWorker(l) ==
    /\ ~Serves(l) /\ Tasks(worker) = <<>>
    /\ worker' = 0 /\ lifecycle' = "error"
    /\ workers' = IF worker = 0 THEN workers ELSE [workers EXCEPT ![worker].ended = TRUE]

PrepareFailed(c, l) ==
    /\ inner = "free" /\ Call(c)
    /\ session = 0 /\ lifecycle = "ready"
    /\ NoWorker(l)
    /\ UNCHANGED <<inner, session, stored, shown, coord, gate, finals, marked, mirrors, client, history>>

-----------------------------------------------------------------------------
(* open_meeting, open_recent: the check and the opening hold `inner`. *)
Open(c, m) ==
    /\ inner = "free" /\ Call(c)
    /\ stored[m] # "none" /\ ~HistoryOpenBlocked
    /\ shown' = m
    /\ UNCHANGED <<inner, session, stored, lifecycle, worker, workers, coord, gate, finals, marked,
                   mirrors, client, history>>

(* retry_translation_segment, after the provider has answered. *)
OpenAfterRetry(c, m) ==
    /\ Call(c)
    /\ finals[m].saved > 0
    /\ ShowMeeting(m)
    /\ UNCHANGED <<inner, session, stored, lifecycle, worker, workers, coord, gate, finals, marked,
                   mirrors, client>>

-----------------------------------------------------------------------------
(* apply_recovery_action: the check releases `inner` at once. *)

Recover(c, m, action) ==
    /\ inner = "free" /\ Call(c)
    /\ stored[m] # "none" /\ ~HistoryOpenBlocked
    /\ client' = [client EXCEPT ![c] = [Idle EXCEPT !.pc = action, !.m = m]]
    /\ UNCHANGED <<inner, session, stored, lifecycle, shown, worker, workers, coord, gate, finals,
                   marked, mirrors, history>>

RecoverShow(c) ==
    /\ client[c].pc = "recover"
    /\ ShowMeeting(client[c].m)
    /\ To(c, "tail")
    /\ UNCHANGED <<inner, session, stored, lifecycle, worker, workers, coord, gate, finals, marked,
                   mirrors, tally>>

(* recover_raw_tail takes the worker of the meeting's language and seeds    *)
(* its counter; `replaced` says that a session was using another worker.    *)
RecoverWorker(c) ==
    LET m == client[c].m  p == Prepared(lang[m]) IN
    /\ client[c].pc = "tail" /\ inner = "free"
    /\ MayPrepare(lang[m])
    /\ worker' = p.gen
    /\ workers' = [p.all EXCEPT ![p.gen].sequence = finals[m].saved]
    /\ client' = [client EXCEPT ![c].pc = "submit", ![c].gen = p.gen]
    /\ history' = [history EXCEPT !.replaced = @ \/ (session # 0 /\ p.gen # worker)]
    /\ UNCHANGED <<inner, session, stored, lifecycle, shown, coord, gate, finals, marked, mirrors, tally>>

RecoverSubmit(c) ==
    /\ client[c].pc = "submit"
    /\ ~workers[client[c].gen].ended
    /\ Submit(client[c].m, client[c].gen, "recovery")
    /\ To(c, "drain")
    /\ UNCHANGED <<inner, session, stored, lifecycle, shown, worker, coord, gate, finals, marked,
                   mirrors, history, tally>>

RecoverDrained(c) ==
    /\ client[c].pc = "drain" /\ Tasks(client[c].gen) = <<>>
    /\ To(c, "record")
    /\ UNCHANGED <<inner, session, stored, lifecycle, shown, worker, workers, coord, gate, finals,
                   marked, mirrors, history, tally>>

RecoverNoWorker(c) ==
    /\ client[c].pc = "tail" /\ inner = "free" /\ Err
    /\ NoWorker(lang[client[c].m])
    /\ history' = [history EXCEPT !.replaced = @ \/ session # 0]
    /\ Return(c)
    /\ UNCHANGED <<inner, session, stored, shown, coord, gate, finals, marked, mirrors>>

RecoverFailed(c) ==
    /\ Doing(c, {"tail", "submit", "drain"})
    /\ Return(c)
    /\ UNCHANGED <<inner, session, stored, lifecycle, shown, worker, workers, coord, gate, finals,
                   marked, mirrors, history, tally>>

(* record_recovery_action_on_writer *)
Finalized(m) == IF stored[m] = "interrupted" THEN "completed" ELSE stored[m]

RecoverRecord(c) ==
    LET m == client[c].m IN
    /\ Doing(c, {"record", "finalize"})
    /\ client[c].pc = "record" => stored[m] = "interrupted"
    /\ stored' = IF client[c].pc = "finalize" THEN [stored EXCEPT ![m] = Finalized(m)] ELSE stored
    /\ ShowMeeting(m)
    /\ Return(c)
    /\ UNCHANGED <<inner, session, lifecycle, worker, workers, coord, gate, finals, marked, mirrors, tally>>

RecoverRecordRefused(c) ==
    /\ client[c].pc = "record" /\ stored[client[c].m] # "interrupted"
    /\ Return(c)
    /\ UNCHANGED <<inner, session, stored, lifecycle, shown, worker, workers, coord, gate, finals,
                   marked, mirrors, history, tally>>

-----------------------------------------------------------------------------
(* The process ends, killed or by the watchdog of the close handler, and    *)
(* the next one begins.                                                     *)
Restart ==
    /\ May("restarts", MaxRestarts)
    /\ inner' = "free" /\ session' = 0 /\ lifecycle' = "booting" /\ shown' = 0
    /\ worker' = 0 /\ workers' = <<>>
    /\ coord' = [m \in Meetings |-> [pc |-> "none", gen |-> 0]]
    /\ gate' = [m \in Meetings |-> FALSE]
    /\ marked' = [m \in Meetings |-> FALSE] /\ mirrors' = {}
    /\ client' = [c \in Clients |-> Idle]
    /\ history' = [NoHistory EXCEPT !.orphans = {m \in Meetings : stored[m] = "recording"},
                                    !.stopped = history.stopped]
    /\ UNCHANGED <<stored, finals>>

Init ==
    /\ inner = "free" /\ session = 0 /\ lifecycle = "booting" /\ shown = 0
    /\ worker = 0 /\ workers = <<>>
    /\ stored = [m \in Meetings |-> "none"]
    /\ coord = [m \in Meetings |-> [pc |-> "none", gen |-> 0]]
    /\ gate = [m \in Meetings |-> FALSE]
    /\ finals = [m \in Meetings |-> [cut |-> 0, live |-> 0, saved |-> 0]]
    /\ marked = [m \in Meetings |-> FALSE] /\ mirrors = {}
    /\ client = [c \in Clients |-> Idle]
    /\ history = NoHistory
    /\ lang \in [Meetings -> Languages]
    /\ tally = [calls |-> 0, errors |-> 0, restarts |-> 0]

Command(c) ==
    \/ \E l \in Languages : PrepareLanguage(c, l) \/ WorkerLeftBehind(c, l) \/ PrepareFailed(c, l)
    \/ Pause(c) \/ Resume(c) \/ Stop(c) \/ Preflight(c)
    \/ \E m \in Meetings : \/ Start(c, m) \/ Open(c, m) \/ OpenAfterRetry(c, m)
                           \/ \E action \in {"recover", "finalize"} : Recover(c, m, action)

Continue(c) ==
    \/ StartUnread(c) \/ StartRefused(c) \/ StartPrepare(c) \/ StartFailed(c) \/ StartCapture(c) \/ StartName(c)
    \/ PauseAnswered(c) \/ WaitInVain(c) \/ PauseShow(c) \/ ResumeAnswered(c) \/ ResumeShow(c)
    \/ StopJoin(c) \/ StopBarrier(c) \/ StopTimeout(c) \/ StopFinish(c) \/ StopReady(c)
    \/ RecoverShow(c) \/ RecoverWorker(c) \/ RecoverNoWorker(c) \/ RecoverSubmit(c)
    \/ RecoverDrained(c) \/ RecoverFailed(c) \/ RecoverRecord(c) \/ RecoverRecordRefused(c)

Next ==
    /\ UNCHANGED lang
    /\ \/ \E c \in Clients : Command(c) \/ Continue(c)
       \/ \E gen \in Gens : BeginTask(gen) \/ CommitTask(gen)
       \/ \E m \in Meetings : CutFinal(m) \/ CoordinatorEnds(m)
       \/ Restart

Spec == Init /\ [][Next]_vars

-----------------------------------------------------------------------------
TypeOK ==
    /\ inner \in Clients \cup {"free"} /\ session \in {0} \cup Meetings /\ shown \in {0} \cup Meetings
    /\ worker \in 0..Len(workers)
    /\ \A m \in Meetings : /\ stored[m] \in {"none", "recording", "interrupted", "completed"}
                          /\ finals[m].live <= finals[m].cut /\ finals[m].live <= finals[m].saved
    /\ lifecycle \in Blocking \cup {"booting", "ready", "error"}

(* The meeting of the session is recorded, by a coordinator whose finals go  *)
(* to the worker the service holds: no preflight, prepare, failed start or   *)
(* late stop of another meeting takes its row, its thread or its worker away.*)
(* Only a recovery that passed its check before the start replaces the       *)
(* worker.                                                                   *)
SessionIsRecorded ==
    session # 0 =>
        /\ stored[session] = "recording"
        /\ coord[session].pc = "running"
        /\ coord[session].gen = worker \/ history.replaced

(* A row that says "recording", and an open mirror of the live text, belong  *)
(* to the session or to a start or stop in progress, so that no failure of a *)
(* start leaves one behind.  The exceptions are named: a stop that timed     *)
(* out, a row storage refused to change, and one that it committed for a     *)
(* start and answered with an error.                                         *)
NothingLeftBehind ==
    \A m \in Meetings : (stored[m] = "recording" \/ m \in mirrors) =>
        m = session \/ m \in Starting \cup Stopping \cup history.orphans

(* A meeting that a stop completed is whole: its coordinator has ended, and  *)
(* every final it cut is stored, whatever was opened, recovered, prepared or *)
(* started meanwhile; a final that was dropped makes the meeting incomplete. *)
CompletedIsWhole ==
    \A m \in history.stopped :
        /\ coord[m].pc \in {"ended", "none"}
        /\ finals[m].live = finals[m].cut

(* The snapshot shows the meeting that is recorded, and keeps showing it     *)
(* while it is stopped, which is what lets its last finals through.  Only a  *)
(* recovery that passed its check before the start, the retry of a           *)
(* translation, which does not check, and an opening that a preflight in the *)
(* middle of a stop let pass put another one there.                          *)
ShownIsTheSession ==
    ~history.opened =>
        /\ session # 0 => shown = session
        /\ lifecycle = "stopping" /\ ~history.preflighted => shown \in Stopping

(* Meetings can be opened as soon as nothing is recorded, started or         *)
(* stopped: no failure leaves the service blocked until it is restarted.     *)
(* And while a session runs the snapshot says so, unless a preflight came in *)
(* the middle of a stop or a recovery took the worker of the session.        *)
LifecycleTells ==
    /\ session = 0 /\ Starting = {} /\ Stopping = {} => ~HistoryOpenBlocked
    /\ session # 0 /\ ~history.preflighted /\ ~history.replaced =>
           lifecycle \in {"recording", "paused"}

(* One meeting is recorded at a time: the coordinator of the last one has    *)
(* ended before another one starts, unless its stop timed out or a preflight *)
(* made the service ready in the middle of it.                               *)
OneRecorder ==
    ~history.preflighted /\ history.orphans = {} =>
        Cardinality({m \in Meetings : coord[m].pc \in {"running", "told"}}) <= 1

(* A session that is shown as paused has its gate shut, or is just being     *)
(* resumed, unless commands of that kind crossed each other, a stop or a     *)
(* deadline.                                                                 *)
PausedIsPaused ==
    session # 0 /\ lifecycle = "paused" /\ ~history.crossed =>
        gate[session] \/ \E c \in Clients : client[c].pc = "resumed"

(* One recording is under way at most, and nobody takes it apart. *)
RecordingIsSound == TypeOK /\ SessionIsRecorded /\ OneRecorder

(* The snapshot, by which the next commands are judged, tells what happens. *)
SnapshotTells == ShownIsTheSession /\ LifecycleTells /\ PausedIsPaused

=============================================================================
