------------------------ MODULE SessionControlProofs ------------------------
(***************************************************************************)
(* What SessionControl promises for any number of clients, meetings,       *)
(* workers and languages, and for any calls, errors and restarts.          *)
(***************************************************************************)
EXTENDS SessionControl, FiniteSetTheorems, TLAPS

-----------------------------------------------------------------------------
(* The invariant.                                                          *)

Pcs == {"idle", "pausing", "paused", "resuming", "resumed",
        "recover", "tail", "submit", "drain", "record", "finalize"} \cup StartPcs \cup StopPcs

Task   == [m : Meetings, by : {"coordinator", "recovery"}, begun : BOOLEAN]
Worker == [lang : Languages, sequence : Nat, tasks : Seq(Task), ended : BOOLEAN]

\* Every variable but the tally of the bounds has its type; a call and a
\* coordinator name a worker that exists.
PlaceTypes ==
    /\ inner \in Clients \cup {"free"}
    /\ session \in {0} \cup Meetings /\ shown \in {0} \cup Meetings
    /\ lifecycle \in Blocking \cup {"booting", "ready", "error"}
    /\ mirrors \subseteq Meetings
    /\ lang \in [Meetings -> Languages]
RowTypes ==
    /\ stored \in [Meetings -> {"none", "recording", "interrupted", "completed"}]
    /\ gate \in [Meetings -> BOOLEAN] /\ marked \in [Meetings -> BOOLEAN]
    /\ finals \in [Meetings -> [cut : Nat, live : Nat, saved : Nat]]
WorkerTypes == workers \in Seq(Worker) /\ worker \in 0..Len(workers)
CoordTypes ==
    coord \in [Meetings -> [pc : {"none", "running", "told", "ended"}, gen : 0..Len(workers)]]
CallTypes ==
    client \in [Clients -> [pc : Pcs, m : {0} \cup Meetings, gen : 0..Len(workers)]]
HistoryTypes ==
    history \in [opened : BOOLEAN, preflighted : BOOLEAN, crossed : BOOLEAN, replaced : BOOLEAN,
                 orphans : SUBSET Meetings, stopped : SUBSET Meetings]

Types == PlaceTypes /\ RowTypes /\ WorkerTypes /\ CoordTypes /\ CallTypes /\ HistoryTypes

\* A call is about a meeting that exists, and hands a tail to a worker.
Named ==
    \A c \in Clients :
        /\ client[c].pc # "idle" => client[c].m \in Meetings /\ stored[client[c].m] # "none"
        /\ client[c].pc = "submit" => client[c].gen # 0

\* A start holds the mutex, and there is no session meanwhile.
Locked ==
    /\ \A c \in Clients : Doing(c, StartPcs) => inner = c /\ session = 0
    /\ inner \in Clients \cup {"free"}
    /\ inner # "free" => Doing(inner, StartPcs)

\* Who starts or stops a meeting: one call, and not while it is the session.
Works(c, m) == client[c].m = m /\ Doing(c, StartPcs \cup StopPcs)

Apart ==
    /\ \A c, d \in Clients, m \in Meetings : Works(c, m) /\ Works(d, m) => c = d
    /\ \A c \in Clients, m \in Meetings : Works(c, m) => session # m

\* A meeting without a row has nothing else.
RowsFirst ==
    \A m \in Meetings : stored[m] = "none" => coord[m].pc = "none" /\ m \notin mirrors

\* Of a meeting that has no coordinator yet nothing has been cut.
Fresh ==
    \A m \in Meetings :
        stored[m] = "none" \/ (\E c \in Clients : Doing(c, StartPcs) /\ client[c].m = m) =>
            m \notin history.stopped /\ (coord[m].pc = "none" => finals[m].cut = 0)

\* What each step of a start and of a stop finds.
StartsFind ==
    \A c \in Clients : Doing(c, StartPcs) =>
        /\ stored[client[c].m] = "recording" /\ worker # 0 /\ client[c].gen = worker
        /\ client[c].pc = "name" => coord[client[c].m] = [pc |-> "running", gen |-> worker]
        /\ client[c].pc # "name" => coord[client[c].m].pc = "none"
        /\ client[c].pc = "prepare" => client[c].m \notin mirrors

StopsFind ==
    \A c \in Clients : Doing(c, StopPcs) =>
        /\ coord[client[c].m].pc \in {"told", "ended"}
        /\ client[c].pc # "join" => coord[client[c].m].pc = "ended"
        /\ client[c].pc \in {"finish", "ready"} => client[c].m \notin mirrors
        /\ client[c].pc = "ready" => stored[client[c].m] # "recording"

\* A coordinator runs for the session or for a start that is nearly done, and
\* ends for a stop.
Recorders ==
    \A m \in Meetings :
        /\ coord[m].pc = "running" =>
             m = session \/ \E c \in Clients : client[c].pc = "name" /\ client[c].m = m
        /\ coord[m].pc = "told" =>
             m \in history.orphans \/ \E c \in Clients : client[c].pc = "join" /\ client[c].m = m

\* A row that says "recording" and an open mirror are the session's, a call's or
\* an orphan's.
Owned ==
    \A m \in Meetings : stored[m] = "recording" \/ m \in mirrors =>
        m = session \/ m \in history.orphans \/ \E c \in Clients : Works(c, m)

\* Unless a preflight comes in its middle a stop is alone, and nothing can start.
StopIsAlone ==
    ~history.preflighted =>
        \A c \in Clients : Doing(c, StopPcs) =>
            /\ session = 0 /\ lifecycle # "ready"
            /\ \A d \in Clients : Doing(d, StartPcs \cup StopPcs) => d = c

\* What blocks the history is under way.
Blocked ==
    /\ \A c \in Clients : client[c].pc = "prepare" => lifecycle # "starting"
    /\ lifecycle = "starting" => \E c \in Clients : Doing(c, StartPcs)
    /\ lifecycle = "stopping" => \E c \in Clients : Doing(c, StopPcs)
    /\ lifecycle \in {"recording", "paused"} => session # 0
    /\ session # 0 /\ ~history.preflighted /\ ~history.replaced => lifecycle \in {"recording", "paused"}

\* The session is shown, and so is the meeting that is stopped.
Shown ==
    ~history.opened =>
        /\ session # 0 => shown = session
        /\ lifecycle = "stopping" /\ ~history.preflighted =>
             \E c \in Clients : Doing(c, StopPcs) /\ client[c].m = shown

\* The gate of a recording that is pausing is shut.
Gates ==
    ~history.crossed =>
        /\ \A c \in Clients : Doing(c, {"pausing", "paused"}) => gate[client[c].m]
        /\ session # 0 /\ lifecycle = "paused" =>
             gate[session] \/ \E c \in Clients : client[c].pc = "resumed"

\* The finals of a meeting's coordinator among the tasks of a worker.
Waits(tasks, m) == {i \in DOMAIN tasks : tasks[i].m = m /\ tasks[i].by = "coordinator"}
Waiting(m, g) == Waits(workers[g].tasks, m)

\* Finals wait in the worker their meeting was started with, and in none that
\* has ended.
Homes ==
    /\ \A g \in DOMAIN workers : workers[g].ended => workers[g].tasks = <<>>
    /\ \A m \in Meetings, g \in DOMAIN workers :
         Waiting(m, g) # {} => coord[m].pc # "none" /\ coord[m].gen = g
    /\ \A m \in Meetings : coord[m].pc # "none" => coord[m].gen \in DOMAIN workers

\* No final is stored that was not cut, and unless the meeting is marked each
\* that was cut is stored or waits.
Counted ==
    \A m \in Meetings :
        /\ finals[m].live <= finals[m].cut /\ finals[m].live <= finals[m].saved
        /\ coord[m].pc # "none" =>
             /\ finals[m].live + Cardinality(Waiting(m, coord[m].gen)) <= finals[m].cut
             /\ ~marked[m] => finals[m].live + Cardinality(Waiting(m, coord[m].gen)) = finals[m].cut

\* The worker a stop waits for is the one its finals are in, unless that one
\* has ended; behind the barrier none is left.
Awaited ==
    /\ session # 0 => coord[session].gen = worker \/ workers[coord[session].gen].ended
    /\ \A c \in Clients :
         /\ Doing(c, {"join", "barrier"}) =>
              coord[client[c].m].gen = client[c].gen \/ workers[coord[client[c].m].gen].ended
         /\ Doing(c, {"finish", "ready"}) => Waiting(client[c].m, coord[client[c].m].gen) = {}

\* What a stop has completed stays whole.
Whole ==
    \A m \in history.stopped :
        /\ coord[m].pc \in {"ended", "none"} /\ finals[m].live = finals[m].cut
        /\ coord[m].pc = "ended" => Waiting(m, coord[m].gen) = {}

SessionInv ==
    /\ Types /\ Named /\ Locked /\ Apart /\ RowsFirst /\ Fresh /\ StartsFind /\ StopsFind
    /\ Recorders
    /\ SessionIsRecorded /\ Owned /\ StopIsAlone /\ Blocked /\ Shown /\ Gates
    /\ Homes /\ Counted /\ Awaited /\ Whole

-----------------------------------------------------------------------------
(* How calls go on.                                                        *)

\* Where a call is after one of its steps.
Moves(c, pc, m, gen) ==
    /\ client'[c].pc = pc /\ client'[c].m = m /\ client'[c].gen = gen
    /\ \A d \in Clients \ {c} : client'[d] = client[d]

\* A start whose row cannot be read back leaves what a start leaves whose row
\* cannot be interrupted.
LEMMA UnreadIsRefused == \A c \in Clients : StartUnread(c) => StartRefused(c)
  BY DEF StartUnread, StartRefused, FinishRow

\* Each action that moves a call moves that one alone.
LEMMA HowCallsMove ==
    ASSUME SessionInv, NEW c \in Clients
    PROVE  /\ Pause(c) => Moves(c, "pausing", session, worker)
           /\ Resume(c) => Moves(c, "resuming", session, worker)
           /\ Stop(c) => Moves(c, "join", session, worker)
           /\ \A m \in Meetings : Start(c, m) => Moves(c, "prepare", m, worker')
           /\ \A m \in Meetings : \A action \in {"recover", "finalize"} : Recover(c, m, action) => Moves(c, action, m, 0)
           /\ StartRefused(c) => Moves(c, "idle", 0, 0)
           /\ StartPrepare(c) => Moves(c, "capture", client[c].m, client[c].gen)
           /\ StartFailed(c) => Moves(c, "idle", 0, 0)
           /\ StartCapture(c) => Moves(c, "name", client[c].m, client[c].gen)
           /\ StartName(c) => Moves(c, "idle", 0, 0)
           /\ PauseAnswered(c) => Moves(c, "paused", client[c].m, client[c].gen)
           /\ WaitInVain(c) => Moves(c, "idle", 0, 0)
           /\ PauseShow(c) => Moves(c, "idle", 0, 0)
           /\ ResumeAnswered(c) => Moves(c, "resumed", client[c].m, client[c].gen)
           /\ ResumeShow(c) => Moves(c, "idle", 0, 0)
           /\ StopJoin(c) => Moves(c, "barrier", client[c].m, client[c].gen)
           /\ StopBarrier(c) => Moves(c, "finish", client[c].m, client[c].gen)
           /\ StopTimeout(c) => Moves(c, "idle", 0, 0)
           /\ StopFinish(c) => Moves(c, "ready", client[c].m, client[c].gen) \/ Moves(c, "idle", 0, 0)
           /\ StopReady(c) => Moves(c, "idle", 0, 0)
           /\ RecoverShow(c) => Moves(c, "tail", client[c].m, client[c].gen)
           /\ RecoverWorker(c) => Moves(c, "submit", client[c].m, worker')
           /\ RecoverNoWorker(c) => Moves(c, "idle", 0, 0)
           /\ RecoverSubmit(c) => Moves(c, "drain", client[c].m, client[c].gen)
           /\ RecoverDrained(c) => Moves(c, "record", client[c].m, client[c].gen)
           /\ RecoverFailed(c) => Moves(c, "idle", 0, 0)
           /\ RecoverRecord(c) => Moves(c, "idle", 0, 0)
           /\ RecoverRecordRefused(c) => Moves(c, "idle", 0, 0)
<1> USE DEF SessionInv, Types, CallTypes, Moves, Idle
<1>1. ASSUME Pause(c) PROVE Moves(c, "pausing", session, worker)
  BY <1>1 DEF Pause, Call
<1>2. ASSUME Resume(c) PROVE Moves(c, "resuming", session, worker)
  BY <1>2 DEF Resume, Call
<1>3. ASSUME Stop(c) PROVE Moves(c, "join", session, worker)
  BY <1>3 DEF Stop, Call
<1>4. ASSUME NEW m \in Meetings, Start(c, m) PROVE Moves(c, "prepare", m, worker')
  BY <1>4 DEF Start, Call
<1>5. ASSUME NEW m \in Meetings, NEW action \in {"recover", "finalize"}, Recover(c, m, action) PROVE Moves(c, action, m, 0)
  BY <1>5 DEF Recover, Call
<1>6. ASSUME StartRefused(c) PROVE Moves(c, "idle", 0, 0)
  BY <1>6 DEF StartRefused, Return
<1>7. ASSUME StartPrepare(c) PROVE Moves(c, "capture", client[c].m, client[c].gen)
  BY <1>7 DEF StartPrepare, To
<1>8. ASSUME StartFailed(c) PROVE Moves(c, "idle", 0, 0)
  BY <1>8 DEF StartFailed, Return
<1>9. ASSUME StartCapture(c) PROVE Moves(c, "name", client[c].m, client[c].gen)
  BY <1>9 DEF StartCapture, To
<1>10. ASSUME StartName(c) PROVE Moves(c, "idle", 0, 0)
  BY <1>10 DEF StartName, Return
<1>11. ASSUME PauseAnswered(c) PROVE Moves(c, "paused", client[c].m, client[c].gen)
  BY <1>11 DEF PauseAnswered, To
<1>12. ASSUME WaitInVain(c) PROVE Moves(c, "idle", 0, 0)
  BY <1>12 DEF WaitInVain, Return
<1>13. ASSUME PauseShow(c) PROVE Moves(c, "idle", 0, 0)
  BY <1>13 DEF PauseShow, ShowAs, Return
<1>14. ASSUME ResumeAnswered(c) PROVE Moves(c, "resumed", client[c].m, client[c].gen)
  BY <1>14 DEF ResumeAnswered, To
<1>15. ASSUME ResumeShow(c) PROVE Moves(c, "idle", 0, 0)
  BY <1>15 DEF ResumeShow, ShowAs, Return
<1>16. ASSUME StopJoin(c) PROVE Moves(c, "barrier", client[c].m, client[c].gen)
  BY <1>16 DEF StopJoin, To
<1>17. ASSUME StopBarrier(c) PROVE Moves(c, "finish", client[c].m, client[c].gen)
  BY <1>17 DEF StopBarrier, To
<1>18. ASSUME StopTimeout(c) PROVE Moves(c, "idle", 0, 0)
  BY <1>18 DEF StopTimeout, Return
<1>19. ASSUME StopFinish(c) PROVE Moves(c, "ready", client[c].m, client[c].gen) \/ Moves(c, "idle", 0, 0)
  BY <1>19 DEF StopFinish, LeaveRow, To, Return
<1>20. ASSUME StopReady(c) PROVE Moves(c, "idle", 0, 0)
  BY <1>20 DEF StopReady, Return
<1>21. ASSUME RecoverShow(c) PROVE Moves(c, "tail", client[c].m, client[c].gen)
  BY ZenonT(40), <1>21 DEF RecoverShow, To
<1>22. ASSUME RecoverWorker(c) PROVE Moves(c, "submit", client[c].m, worker')
  BY <1>22 DEF RecoverWorker
<1>23. ASSUME RecoverNoWorker(c) PROVE Moves(c, "idle", 0, 0)
  BY <1>23 DEF RecoverNoWorker, Return
<1>24. ASSUME RecoverSubmit(c) PROVE Moves(c, "drain", client[c].m, client[c].gen)
  BY <1>24 DEF RecoverSubmit, To
<1>25. ASSUME RecoverDrained(c) PROVE Moves(c, "record", client[c].m, client[c].gen)
  BY <1>25 DEF RecoverDrained, To
<1>26. ASSUME RecoverFailed(c) PROVE Moves(c, "idle", 0, 0)
  BY <1>26 DEF RecoverFailed, Return
<1>27. ASSUME RecoverRecord(c) PROVE Moves(c, "idle", 0, 0)
  BY <1>27 DEF RecoverRecord, Return
<1>28. ASSUME RecoverRecordRefused(c) PROVE Moves(c, "idle", 0, 0)
  BY <1>28 DEF RecoverRecordRefused, Return
<1> QED
  BY <1>1, <1>2, <1>3, <1>4, <1>5, <1>6, <1>7, <1>8, <1>9, <1>10, <1>11, <1>12,
     <1>13, <1>14, <1>15, <1>16, <1>17, <1>18, <1>19, <1>20, <1>21, <1>22, <1>23, <1>24,
     <1>25, <1>26, <1>27, <1>28

\* No meeting has the number that stands for none.
LEMMA NoMeeting == 0 \notin Meetings
  BY SessionAssumption DEF Meetings

\* Nobody starts while the mutex is free, and one call at most does.  A meeting
\* is started or stopped by one call, and is not the session meanwhile.
LEMMA WhoWorks ==
    ASSUME SessionInv
    PROVE  /\ inner = "free" => \A d \in Clients : ~Doing(d, StartPcs)
           /\ \A c, d \in Clients : Doing(c, StartPcs) /\ Doing(d, StartPcs) => c = d
           /\ \A d \in Clients : Doing(d, StartPcs) => session = 0 /\ inner # "free"
           /\ \A d \in Clients : Doing(d, StartPcs \cup StopPcs) =>
                 client[d].m \in Meetings /\ client[d].m # session /\ stored[client[d].m] # "none"
           /\ \A c, d \in Clients :
                 Doing(c, StartPcs \cup StopPcs) /\ Doing(d, StartPcs \cup StopPcs)
                 /\ client[c].m = client[d].m => c = d
           /\ Stopping = {} => \A d \in Clients : ~Doing(d, StopPcs)
<1>1. inner = "free" => \A d \in Clients : ~Doing(d, StartPcs)
  BY SessionAssumption DEF SessionInv, Locked
<1>2. \A c, d \in Clients : Doing(c, StartPcs) /\ Doing(d, StartPcs) => c = d
  BY DEF SessionInv, Locked
<1>3. \A d \in Clients : Doing(d, StartPcs) => session = 0 /\ inner # "free"
  BY <1>1 DEF SessionInv, Locked
<1>4. \A d \in Clients : Doing(d, StartPcs \cup StopPcs) =>
          client[d].m \in Meetings /\ client[d].m # session /\ stored[client[d].m] # "none"
  BY DEF SessionInv, Named, Apart, Works, Doing, StartPcs, StopPcs
<1>5. \A c, d \in Clients :
          Doing(c, StartPcs \cup StopPcs) /\ Doing(d, StartPcs \cup StopPcs)
          /\ client[c].m = client[d].m => c = d
  BY <1>4 DEF SessionInv, Apart, Works
<1>6. Stopping = {} => \A d \in Clients : ~Doing(d, StopPcs)
  BY DEF Stopping
<1> QED
  BY <1>1, <1>2, <1>3, <1>4, <1>5, <1>6

-----------------------------------------------------------------------------
(* The queue of a worker: how many finals of a meeting are in it.          *)

LEMMA WaitsAreFinite ==
    ASSUME NEW q \in Seq(Task), NEW m
    PROVE  /\ IsFiniteSet(Waits(q, m)) /\ Cardinality(Waits(q, m)) \in Nat
           /\ Cardinality(Waits(q, m)) = 0 <=> Waits(q, m) = {}
<1>1. IsFiniteSet(1..Len(q))
  BY FS_Interval, Len(q) \in Nat
<1>2. Waits(q, m) \in SUBSET (1..Len(q))
  BY DEF Waits
<1> QED
  BY <1>1, <1>2, FS_Subset, FS_CardinalityType, FS_EmptySet

\* Nothing waits in an empty queue.
LEMMA NothingWaits == \A m : Waits(<<>>, m) = {} /\ Cardinality(Waits(<<>>, m)) = 0
  BY FS_EmptySet DEF Waits

\* A task is put at the end of it.
LEMMA WaitsPut ==
    ASSUME NEW q \in Seq(Task), NEW t \in Task, NEW m
    PROVE  /\ t.m = m /\ t.by = "coordinator" =>
                Cardinality(Waits(Append(q, t), m)) = Cardinality(Waits(q, m)) + 1
           /\ ~(t.m = m /\ t.by = "coordinator") => Waits(Append(q, t), m) = Waits(q, m)
<1> DEFINE n == Len(q) + 1
<1>1. /\ Len(q) \in Nat /\ DOMAIN q = 1..Len(q) /\ DOMAIN Append(q, t) = 1..n
      /\ Append(q, t)[n] = t /\ \A i \in 1..Len(q) : Append(q, t)[i] = q[i]
  OBVIOUS
<1>2. n \notin Waits(q, m)
  BY <1>1 DEF Waits
<1>3. CASE t.m = m /\ t.by = "coordinator"
  <2>1. Waits(Append(q, t), m) = Waits(q, m) \cup {n}
    BY <1>1, <1>3 DEF Waits
  <2>2. IsFiniteSet(Waits(q, m))
    BY WaitsAreFinite
  <2>3. Cardinality(Waits(q, m) \cup {n}) = Cardinality(Waits(q, m)) + 1
    BY <2>2, <1>2, FS_AddElement
  <2> QED
    BY <2>1, <2>3, <1>3
<1>4. CASE ~(t.m = m /\ t.by = "coordinator")
  BY <1>1, <1>4 DEF Waits
<1> QED
  BY <1>3, <1>4

\* The first task is taken from it.
LEMMA WaitsTaken ==
    ASSUME NEW q \in Seq(Task), q # <<>>, NEW m
    PROVE  /\ Head(q).m = m /\ Head(q).by = "coordinator" =>
                Cardinality(Waits(q, m)) = Cardinality(Waits(Tail(q), m)) + 1
           /\ ~(Head(q).m = m /\ Head(q).by = "coordinator") =>
                Cardinality(Waits(q, m)) = Cardinality(Waits(Tail(q), m))
<1> DEFINE S == Waits(q, m) \ {1}
           T == Waits(Tail(q), m)
           f == [i \in S |-> i - 1]
<1>1. /\ Len(q) \in Nat \ {0} /\ Tail(q) \in Seq(Task) /\ Len(Tail(q)) = Len(q) - 1
      /\ \A i \in 1..(Len(q) - 1) : Tail(q)[i] = q[i + 1]
      /\ Head(q) = q[1] /\ DOMAIN q = 1..Len(q) /\ DOMAIN Tail(q) = 1..(Len(q) - 1)
  OBVIOUS
<1>2. S \subseteq 2..Len(q) /\ T \subseteq 1..(Len(q) - 1)
  BY <1>1 DEF Waits
<1>3. \A i \in S : i - 1 \in T
  <2> TAKE i \in S
  <2>1. i - 1 \in 1..(Len(q) - 1) /\ (i - 1) + 1 = i
    BY <1>1, <1>2
  <2>2. Tail(q)[i - 1] = q[i]
    BY <1>1, <2>1
  <2> QED
    BY <1>1, <2>1, <2>2 DEF Waits
<1>4. \A j \in T : j + 1 \in S /\ (j + 1) - 1 = j
  BY <1>1, <1>2 DEF Waits
<1>5. f \in [S -> T]
  BY <1>3
<1>6. \A i, k \in S : f[i] = f[k] => i = k
  BY <1>2
<1>7. \A j \in T : \E i \in S : f[i] = j
  BY <1>4
<1>8. f \in Bijection(S, T)
  BY <1>5, <1>6, <1>7 DEF Bijection, Injection, Surjection, IsInjective
<1>9. IsFiniteSet(Waits(q, m)) /\ Cardinality(Waits(q, m)) \in Nat
  BY WaitsAreFinite
<1>10. IsFiniteSet(S) /\ Cardinality(S) = IF 1 \in Waits(q, m) THEN Cardinality(Waits(q, m)) - 1
                                          ELSE Cardinality(Waits(q, m))
  BY <1>9, FS_RemoveElement
<1>11. Cardinality(T) = Cardinality(S)
  <2> HIDE DEF f, S, T
  <2>1. ExistsBijection(S, T)
    BY <1>8 DEF ExistsBijection
  <2> QED
    BY <2>1, <1>10, FS_Bijection
<1>12. 1 \in Waits(q, m) <=> Head(q).m = m /\ Head(q).by = "coordinator"
  BY <1>1 DEF Waits
<1> QED
  BY <1>9, <1>10, <1>11, <1>12

\* The first task is begun.
LEMMA WaitsBegun ==
    ASSUME NEW q \in Seq(Task), q # <<>>, NEW m
    PROVE  /\ [q EXCEPT ![1].begun = TRUE] \in Seq(Task)
           /\ Waits([q EXCEPT ![1].begun = TRUE], m) = Waits(q, m)
<1> DEFINE r == [q EXCEPT ![1].begun = TRUE]
<1>1. 1 \in DOMAIN q /\ q[1] \in Task /\ Len(q) \in Nat /\ DOMAIN q = 1..Len(q)
  OBVIOUS
<1>2. r = [q EXCEPT ![1] = [q[1] EXCEPT !.begun = TRUE]]
  OBVIOUS
<1>3. [q[1] EXCEPT !.begun = TRUE] \in Task
  BY <1>1 DEF Task
<1>4. r \in Seq(Task)
  BY <1>1, <1>2, <1>3
<1>5. DOMAIN r = DOMAIN q /\ \A i \in DOMAIN q : r[i].m = q[i].m /\ r[i].by = q[i].by
  BY <1>1 DEF Task
<1> QED
  BY <1>4, <1>5 DEF Waits

\* One worker is exchanged for another.
LEMMA WorkerPut ==
    ASSUME NEW ws \in Seq(Worker), NEW g \in DOMAIN ws, NEW w \in Worker
    PROVE  /\ [ws EXCEPT ![g] = w] \in Seq(Worker)
           /\ Len([ws EXCEPT ![g] = w]) = Len(ws) /\ DOMAIN [ws EXCEPT ![g] = w] = DOMAIN ws
           /\ [ws EXCEPT ![g] = w][g] = w
           /\ \A h \in DOMAIN ws : h # g => [ws EXCEPT ![g] = w][h] = ws[h]
  OBVIOUS

-----------------------------------------------------------------------------
(* What happens to the workers.                                            *)

\* No final of a coordinator comes or goes, and only idle workers end.
CalmTo(ws) ==
    /\ ws \in Seq(Worker) /\ DOMAIN workers \subseteq DOMAIN ws /\ Len(workers) <= Len(ws)
    /\ \A g \in DOMAIN ws : ws[g].ended => ws[g].tasks = <<>>
    /\ \A g \in DOMAIN workers :
         /\ workers[g].ended => ws[g].ended
         /\ \A m \in Meetings : Waits(ws[g].tasks, m) = Waits(workers[g].tasks, m)
    /\ \A g \in DOMAIN ws \ DOMAIN workers : ws[g].tasks = <<>>

\* The worker of a session that is exchanged has ended.
Calm ==
    /\ CalmTo(workers') /\ worker' \in 0..Len(workers')
    /\ worker' # worker /\ worker # 0 /\ session # 0 => workers'[worker].ended

\* The first task of a worker is taken.
Took(gen) ==
    /\ gen \in DOMAIN workers /\ workers[gen].tasks # <<>>
    /\ workers' \in Seq(Worker) /\ Len(workers') = Len(workers) /\ DOMAIN workers' = DOMAIN workers
    /\ workers'[gen].tasks = Tail(workers[gen].tasks) /\ workers'[gen].ended = workers[gen].ended
    /\ \A h \in DOMAIN workers : h # gen => workers'[h] = workers[h]

\* What a worker of the list is.
LEMMA WorkerTells ==
    ASSUME SessionInv, NEW g \in DOMAIN workers
    PROVE  /\ workers[g] \in Worker /\ workers[g].tasks \in Seq(Task) /\ workers[g].sequence \in Nat
           /\ workers[g].ended \in BOOLEAN /\ workers[g].lang \in Languages
           /\ workers[g].ended => workers[g].tasks = <<>>
           /\ workers \in Seq(Worker) /\ Len(workers) \in Nat /\ DOMAIN workers = 1..Len(workers)
<1>1. workers \in Seq(Worker)
  BY DEF SessionInv, Types, WorkerTypes
<1>2. workers[g] \in Worker
  BY <1>1
<1> QED
  BY <1>1, <1>2 DEF Worker, SessionInv, Homes

\* The counter of a worker is set to the last sequence of a meeting.
LEMMA SeededIsCalm ==
    ASSUME NEW ws, CalmTo(ws), NEW g \in DOMAIN ws, NEW n \in Nat
    PROVE  /\ CalmTo([ws EXCEPT ![g].sequence = n])
           /\ Len([ws EXCEPT ![g].sequence = n]) = Len(ws)
           /\ \A h \in DOMAIN ws : [ws EXCEPT ![g].sequence = n][h].ended = ws[h].ended
<1> DEFINE w == [ws[g] EXCEPT !.sequence = n]
           new == [ws EXCEPT ![g] = w]
<1>1. ws \in Seq(Worker) /\ ws[g] \in Worker
  BY DEF CalmTo
<1>2. w \in Worker /\ w.tasks = ws[g].tasks /\ w.ended = ws[g].ended
  BY <1>1 DEF Worker
<1>3. /\ new \in Seq(Worker) /\ Len(new) = Len(ws) /\ DOMAIN new = DOMAIN ws /\ new[g] = w
      /\ \A h \in DOMAIN ws : h # g => new[h] = ws[h]
  BY <1>1, <1>2, WorkerPut
<1>4. \A h \in DOMAIN ws : new[h].tasks = ws[h].tasks /\ new[h].ended = ws[h].ended
  BY <1>2, <1>3
<1>5. CalmTo(new)
  BY <1>3, <1>4 DEF CalmTo
<1>6. new = [ws EXCEPT ![g].sequence = n]
  OBVIOUS
<1> QED
  BY <1>3, <1>4, <1>5, <1>6

\* A worker without tasks ends.
LEMMA EndedIsCalm ==
    ASSUME SessionInv, NEW g \in DOMAIN workers, workers[g].tasks = <<>>
    PROVE  /\ CalmTo([workers EXCEPT ![g].ended = TRUE])
           /\ Len([workers EXCEPT ![g].ended = TRUE]) = Len(workers)
           /\ [workers EXCEPT ![g].ended = TRUE][g].ended
<1> DEFINE w == [workers[g] EXCEPT !.ended = TRUE]
           new == [workers EXCEPT ![g] = w]
<1>1. workers \in Seq(Worker) /\ workers[g] \in Worker
  BY WorkerTells
<1>2. w \in Worker /\ w.tasks = <<>> /\ w.ended
  BY <1>1 DEF Worker
<1>3. /\ new \in Seq(Worker) /\ Len(new) = Len(workers) /\ DOMAIN new = DOMAIN workers /\ new[g] = w
      /\ \A h \in DOMAIN workers : h # g => new[h] = workers[h]
  BY <1>1, <1>2, WorkerPut
<1>4. \A h \in DOMAIN workers : new[h].tasks = workers[h].tasks /\ (workers[h].ended => new[h].ended)
  BY <1>2, <1>3
<1>5. \A h \in DOMAIN new : new[h].ended => new[h].tasks = <<>>
  BY <1>2, <1>3, WorkerTells
<1>6. Len(workers) \in Nat
  BY <1>1
<1>7. CalmTo(new)
  BY <1>3, <1>4, <1>5, <1>6 DEF CalmTo
<1>8. new = [workers EXCEPT ![g].ended = TRUE]
  OBVIOUS
<1> QED
  BY <1>2, <1>3, <1>7, <1>8

\* Nothing happens to the workers.
LEMMA SameIsCalm == ASSUME SessionInv PROVE CalmTo(workers)
<1>1. workers \in Seq(Worker) /\ Len(workers) \in Nat
  BY DEF SessionInv, Types, WorkerTypes
<1> QED
  BY <1>1 DEF CalmTo, SessionInv, Homes

\* A new worker begins with nothing.
LEMMA AddedIsCalm ==
    ASSUME SessionInv, NEW ws, CalmTo(ws), NEW l \in Languages
    PROVE  LET new == Append(ws, [lang |-> l, sequence |-> 0, tasks |-> <<>>, ended |-> FALSE])
           IN  /\ CalmTo(new) /\ Len(new) = Len(ws) + 1
               /\ \A h \in DOMAIN ws : new[h] = ws[h]
<1> DEFINE w == [lang |-> l, sequence |-> 0, tasks |-> <<>>, ended |-> FALSE]
           new == Append(ws, w)
<1>1. ws \in Seq(Worker) /\ w \in Worker
  BY DEF CalmTo, Worker
<1>2. /\ new \in Seq(Worker) /\ Len(new) = Len(ws) + 1 /\ Len(ws) \in Nat
      /\ DOMAIN new = 1..(Len(ws) + 1) /\ DOMAIN ws = 1..Len(ws)
      /\ new[Len(ws) + 1] = w /\ \A h \in DOMAIN ws : new[h] = ws[h]
  BY <1>1
<1>3. \A h \in DOMAIN new : h \in DOMAIN ws \/ new[h].tasks = <<>>
  BY <1>2
<1>4. DOMAIN workers \subseteq DOMAIN ws
  BY DEF CalmTo
<1>5. /\ DOMAIN workers \subseteq DOMAIN new
      /\ \A h \in DOMAIN workers : new[h] = ws[h]
      /\ \A h \in DOMAIN new \ DOMAIN workers : new[h].tasks = <<>>
      /\ \A h \in DOMAIN new : new[h].ended => new[h].tasks = <<>>
  <2>1. DOMAIN ws \subseteq DOMAIN new
    BY <1>2
  <2>2. \A h \in DOMAIN ws : ws[h].ended => ws[h].tasks = <<>>
    BY DEF CalmTo
  <2>3. \A h \in DOMAIN ws \ DOMAIN workers : ws[h].tasks = <<>>
    BY DEF CalmTo
  <2>4. \A h \in DOMAIN ws : new[h] = ws[h]
    BY <1>2
  <2> HIDE DEF new
  <2> QED
    BY <1>3, <1>4, <2>1, <2>2, <2>3, <2>4
<1>6. Len(workers) <= Len(new)
  <2>1. Len(workers) <= Len(ws) /\ Len(workers) \in Nat
    BY DEF CalmTo, SessionInv, Types, WorkerTypes
  <2> QED
    BY <2>1, <1>2
<1>7. CalmTo(new)
  BY <1>2, <1>5, <1>6 DEF CalmTo
<1> QED
  BY <1>2, <1>7

\* A worker is prepared: the one there is stays, or ends and another one begins.
LEMMA PreparedIsCalm ==
    ASSUME SessionInv, NEW l \in Languages, MayPrepare(l)
    PROVE  /\ CalmTo(Prepared(l).all) /\ Prepared(l).gen \in 1..Len(Prepared(l).all)
           /\ DOMAIN Prepared(l).all = 1..Len(Prepared(l).all) /\ Len(Prepared(l).all) \in Nat
           /\ Prepared(l).gen # worker /\ worker # 0 => Prepared(l).all[worker].ended
<1>1. workers \in Seq(Worker) /\ Len(workers) \in Nat /\ worker \in 0..Len(workers)
      /\ DOMAIN workers = 1..Len(workers)
  BY DEF SessionInv, Types, WorkerTypes
<1>2. CASE Serves(l)
  BY <1>1, <1>2, SameIsCalm DEF Prepared, Serves
<1>3. CASE ~Serves(l)
  <2> DEFINE ws == IF worker = 0 THEN workers ELSE [workers EXCEPT ![worker].ended = TRUE]
             new == Append(ws, [lang |-> l, sequence |-> 0, tasks |-> <<>>, ended |-> FALSE])
  <2>1. Tasks(worker) = <<>> /\ (worker # 0 => workers[worker].tasks = <<>>)
    BY <1>3 DEF MayPrepare, Tasks
  <2>2. CalmTo(ws) /\ Len(ws) = Len(workers) /\ (worker # 0 => ws[worker].ended)
    <3>1. CASE worker = 0
      BY <3>1, SameIsCalm
    <3>2. CASE worker # 0
      <4>1. worker \in DOMAIN workers
        BY <1>1, <3>2
      <4> QED
        BY <2>1, <3>2, <4>1, EndedIsCalm
    <3> QED
      BY <3>1, <3>2
  <2>3. DOMAIN ws = 1..Len(ws)
    BY <2>2 DEF CalmTo
  <2>4. Prepared(l).gen = Len(workers) + 1 /\ Prepared(l).all = new
    BY <1>3 DEF Prepared
  <2>5. CalmTo(new) /\ Len(new) = Len(ws) + 1 /\ \A h \in DOMAIN ws : new[h] = ws[h]
    <3> HIDE DEF ws
    <3> QED BY <2>2, AddedIsCalm
  <2>6. DOMAIN new = 1..Len(new)
    BY <2>5 DEF CalmTo
  <2>7. worker # 0 => new[worker].ended
    BY <2>2, <2>3, <2>5, <1>1
  <2> HIDE DEF new, ws
  <2> QED
    BY <1>1, <2>2, <2>4, <2>5, <2>6, <2>7
<1> QED
  BY <1>2, <1>3

\* The worker ends and there is none.
LEMMA NoWorkerIsCalm ==
    ASSUME SessionInv, NEW l, NoWorker(l)
    PROVE  Calm
<1>1. workers \in Seq(Worker) /\ Len(workers) \in Nat /\ worker \in 0..Len(workers)
      /\ DOMAIN workers = 1..Len(workers)
  BY DEF SessionInv, Types, WorkerTypes
<1>2. /\ worker' = 0 /\ (worker # 0 => workers[worker].tasks = <<>>)
      /\ workers' = IF worker = 0 THEN workers ELSE [workers EXCEPT ![worker].ended = TRUE]
  BY DEF NoWorker, Tasks
<1>3. CASE worker = 0
  BY <1>1, <1>2, <1>3, SameIsCalm DEF Calm
<1>4. CASE worker # 0
  <2>1. worker \in DOMAIN workers
    BY <1>1, <1>4
  <2>2. workers[worker].tasks = <<>> /\ workers' = [workers EXCEPT ![worker].ended = TRUE]
    BY <1>2, <1>4
  <2>3. CalmTo(workers') /\ Len(workers') = Len(workers) /\ workers'[worker].ended
    BY <2>1, <2>2, EndedIsCalm
  <2> QED
    BY <1>1, <1>2, <2>3 DEF Calm
<1> QED
  BY <1>3, <1>4

\* A task is handed to a worker that has not ended.
LEMMA SubmitTells ==
    ASSUME SessionInv, NEW g \in DOMAIN workers, ~workers[g].ended, NEW m \in Meetings,
           NEW by \in {"coordinator", "recovery"}, Submit(m, g, by)
    PROVE  /\ workers' \in Seq(Worker) /\ Len(workers') = Len(workers) /\ DOMAIN workers' = DOMAIN workers
           /\ workers'[g].tasks = Append(workers[g].tasks, [m |-> m, by |-> by, begun |-> FALSE])
           /\ workers'[g].ended = workers[g].ended
           /\ \A h \in DOMAIN workers : h # g => workers'[h] = workers[h]
<1> DEFINE t == [m |-> m, by |-> by, begun |-> FALSE]
           w == [workers[g] EXCEPT !.tasks = Append(workers[g].tasks, t)]
           new == [workers EXCEPT ![g] = w]
<1>1. workers \in Seq(Worker) /\ workers[g] \in Worker /\ workers[g].tasks \in Seq(Task) /\ t \in Task
  BY WorkerTells DEF Task
<1>2. Append(workers[g].tasks, t) \in Seq(Task)
  BY <1>1
<1>3. w \in Worker /\ w.tasks = Append(workers[g].tasks, t) /\ w.ended = workers[g].ended
  BY <1>1, <1>2 DEF Worker
<1>4. /\ new \in Seq(Worker) /\ Len(new) = Len(workers) /\ DOMAIN new = DOMAIN workers /\ new[g] = w
      /\ \A h \in DOMAIN workers : h # g => new[h] = workers[h]
  BY <1>1, <1>3, WorkerPut
<1>5. workers' = new
  BY DEF Submit
<1> QED
  BY <1>3, <1>4, <1>5

\* The tail of a recovery is handed to a worker.
LEMMA RecoveredIsCalm ==
    ASSUME SessionInv, NEW g \in DOMAIN workers, ~workers[g].ended, NEW m \in Meetings,
           Submit(m, g, "recovery")
    PROVE  CalmTo(workers')
<1> DEFINE t == [m |-> m, by |-> "recovery", begun |-> FALSE]
<1>1. /\ workers' \in Seq(Worker) /\ Len(workers') = Len(workers) /\ DOMAIN workers' = DOMAIN workers
      /\ workers'[g].tasks = Append(workers[g].tasks, t) /\ workers'[g].ended = workers[g].ended
      /\ \A h \in DOMAIN workers : h # g => workers'[h] = workers[h]
  BY SubmitTells
<1>2. \A x \in Meetings : Waits(workers'[g].tasks, x) = Waits(workers[g].tasks, x)
  <2> TAKE x \in Meetings
  <2>1. workers[g].tasks \in Seq(Task) /\ t \in Task /\ t.by # "coordinator"
    BY WorkerTells DEF Task
  <2>2. Waits(Append(workers[g].tasks, t), x) = Waits(workers[g].tasks, x)
    <3> HIDE DEF t
    <3> QED BY <2>1, WaitsPut
  <2> QED
    BY <2>2, <1>1
<1>3. Len(workers) \in Nat
  BY WorkerTells
<1>4. \A h \in DOMAIN workers :
          /\ workers[h].ended => workers'[h].ended
          /\ workers'[h].ended => workers'[h].tasks = <<>>
          /\ \A x \in Meetings : Waits(workers'[h].tasks, x) = Waits(workers[h].tasks, x)
  <2> TAKE h \in DOMAIN workers
  <2>1. CASE h = g
    BY <1>1, <1>2, <2>1
  <2>2. CASE h # g
    BY <1>1, <2>2, WorkerTells
  <2> QED
    BY <2>1, <2>2
<1> QED
  BY <1>1, <1>3, <1>4 DEF CalmTo

\* A step of a call takes no task and adds none of a coordinator.
LEMMA CallsAreCalm ==
    ASSUME SessionInv, NEW c \in Clients
    PROVE  /\ \A l \in Languages : PrepareLanguage(c, l) \/ PrepareFailed(c, l) => Calm
           /\ \A m \in Meetings : Start(c, m) => Calm /\ worker' # 0
           /\ StartPrepare(c) \/ RecoverNoWorker(c) \/ RecoverSubmit(c) => Calm
           /\ RecoverWorker(c) => Calm /\ worker' # 0
<1>1. workers \in Seq(Worker) /\ Len(workers) \in Nat /\ worker \in 0..Len(workers)
      /\ DOMAIN workers = 1..Len(workers) /\ lang \in [Meetings -> Languages]
      /\ \A x \in Meetings : finals[x].saved \in Nat
  BY DEF SessionInv, Types, WorkerTypes, PlaceTypes, RowTypes
<1>2. ASSUME NEW l \in Languages, PrepareLanguage(c, l) PROVE Calm
  BY <1>2, PreparedIsCalm DEF PrepareLanguage, Calm
<1>3. ASSUME NEW l \in Languages, PrepareFailed(c, l) PROVE Calm
  BY <1>3, NoWorkerIsCalm DEF PrepareFailed
<1>4. ASSUME NEW m \in Meetings, Start(c, m) PROVE Calm /\ worker' # 0
  <2>1. lang[m] \in Languages
    BY <1>1
  <2>2. MayPrepare(lang[m]) /\ worker' = Prepared(lang[m]).gen /\ workers' = Prepared(lang[m]).all
    BY <1>4 DEF Start
  <2> QED
    BY <2>1, <2>2, PreparedIsCalm DEF Calm
<1>5. ASSUME StartPrepare(c) PROVE Calm
  <2>1. worker \in DOMAIN workers /\ client[c].m \in Meetings
    BY <1>1, <1>5, WhoWorks DEF StartPrepare, Doing, StartPcs, StopPcs, SessionInv, StartsFind
  <2>2. worker' = worker /\ workers' = [workers EXCEPT ![worker].sequence = finals[client[c].m].saved]
    BY <1>5 DEF StartPrepare
  <2> DEFINE n == finals[client[c].m].saved
  <2>3. CalmTo(workers) /\ n \in Nat /\ workers' = [workers EXCEPT ![worker].sequence = n]
    BY <1>1, <2>1, <2>2, SameIsCalm
  <2>4. CalmTo(workers') /\ Len(workers') = Len(workers)
    <3> HIDE DEF n
    <3> QED BY <2>1, <2>3, SeededIsCalm
  <2> QED
    BY <1>1, <2>2, <2>4 DEF Calm
<1>6. ASSUME RecoverNoWorker(c) PROVE Calm
  BY <1>6, NoWorkerIsCalm DEF RecoverNoWorker
<1>7. ASSUME RecoverSubmit(c) PROVE Calm
  <2>1. client[c].gen \in DOMAIN workers /\ client[c].m \in Meetings
    BY <1>1, <1>7 DEF RecoverSubmit, SessionInv, Named, Types, CallTypes
  <2>2. ~workers[client[c].gen].ended /\ Submit(client[c].m, client[c].gen, "recovery") /\ worker' = worker
    BY <1>7 DEF RecoverSubmit
  <2>3. CalmTo(workers')
    BY <2>1, <2>2, RecoveredIsCalm
  <2>4. Len(workers') = Len(workers)
    BY <2>1, <2>2, SubmitTells
  <2> QED
    BY <1>1, <2>2, <2>3, <2>4 DEF Calm
<1>8. ASSUME RecoverWorker(c) PROVE Calm /\ worker' # 0
  <2> DEFINE m == client[c].m
             p == Prepared(lang[m])
  <2>1. m \in Meetings /\ lang[m] \in Languages
    BY ZenonT(40), <1>1, <1>8 DEF RecoverWorker, SessionInv, Named
  <2>2. MayPrepare(lang[m]) /\ worker' = p.gen /\ workers' = [p.all EXCEPT ![p.gen].sequence = finals[m].saved]
    BY ZenonT(40), <1>8 DEF RecoverWorker
  <2>3. /\ CalmTo(p.all) /\ p.gen \in 1..Len(p.all) /\ p.gen \in DOMAIN p.all /\ Len(p.all) \in Nat
        /\ DOMAIN workers \subseteq DOMAIN p.all
        /\ p.gen # worker /\ worker # 0 => p.all[worker].ended
    BY <2>1, <2>2, PreparedIsCalm DEF CalmTo
  <2>4. CalmTo(workers') /\ Len(workers') = Len(p.all)
        /\ \A h \in DOMAIN p.all : workers'[h].ended = p.all[h].ended
    <3> HIDE DEF p, m
    <3> QED BY SMTT(30), <1>1, <2>1, <2>2, <2>3, SeededIsCalm
  <2> HIDE DEF p, m
  <2> QED
    BY SMTT(30), <1>1, <2>2, <2>3, <2>4 DEF Calm
<1> QED
  BY <1>2, <1>3, <1>4, <1>5, <1>6, <1>7, <1>8

\* A worker begins its first task, or takes it from its queue.
LEMMA TasksAreTaken ==
    ASSUME SessionInv, NEW gen \in Gens
    PROVE  /\ BeginTask(gen) =>
                \/ CalmTo(workers') /\ marked' = marked /\ Len(workers') = Len(workers)
                \/ Took(gen) /\ Mark(Head(workers[gen].tasks))
           /\ CommitTask(gen) => Took(gen)
<1>1. workers \in Seq(Worker) /\ Len(workers) \in Nat /\ DOMAIN workers = 1..Len(workers)
  BY DEF SessionInv, Types, WorkerTypes
<1>2. ASSUME gen <= Len(workers), Tasks(gen) # <<>>
      PROVE  /\ gen \in DOMAIN workers /\ Tasks(gen) = workers[gen].tasks
             /\ workers[gen].tasks # <<>> /\ workers[gen].tasks \in Seq(Task) /\ workers[gen] \in Worker
             /\ ~workers[gen].ended /\ workers[gen].sequence \in Nat
  <2>1. gen \in DOMAIN workers /\ Tasks(gen) = workers[gen].tasks
    BY <1>1, <1>2 DEF Gens, Tasks
  <2> QED
    BY <1>2, <2>1, WorkerTells
<1>3. ASSUME gen <= Len(workers), Tasks(gen) # <<>>,
             NEW n \in Nat,
             workers' = [workers EXCEPT ![gen] = [workers[gen] EXCEPT !.sequence = n, !.tasks = Tail(@)]]
      PROVE  Took(gen)
  <2> DEFINE w == [workers[gen] EXCEPT !.sequence = n, !.tasks = Tail(@)]
  <2>1. Tail(workers[gen].tasks) \in Seq(Task)
    BY <1>2, <1>3
  <2>2. w \in Worker /\ w.tasks = Tail(workers[gen].tasks) /\ w.ended = workers[gen].ended
    BY <1>2, <1>3, <2>1 DEF Worker
  <2>3. workers' = [workers EXCEPT ![gen] = w]
    BY <1>3
  <2> HIDE DEF w
  <2> QED
    BY <1>1, <1>2, <1>3, <2>2, <2>3, WorkerPut DEF Took
<1>4. ASSUME gen <= Len(workers), Tasks(gen) # <<>>, workers' = [workers EXCEPT ![gen].tasks = Tail(@)]
      PROVE  Took(gen)
  <2> DEFINE w == [workers[gen] EXCEPT !.tasks = Tail(@)]
  <2>1. Tail(workers[gen].tasks) \in Seq(Task)
    BY <1>2, <1>4
  <2>2. w \in Worker /\ w.tasks = Tail(workers[gen].tasks) /\ w.ended = workers[gen].ended
    BY <1>2, <1>4, <2>1 DEF Worker
  <2>3. workers' = [workers EXCEPT ![gen] = w]
    BY <1>4
  <2> HIDE DEF w
  <2> QED
    <3>1. gen \in DOMAIN workers /\ workers[gen].tasks # <<>>
      BY <1>2, <1>4
    <3>2. /\ workers' \in Seq(Worker) /\ Len(workers') = Len(workers) /\ DOMAIN workers' = DOMAIN workers
          /\ workers'[gen] = w /\ \A h \in DOMAIN workers : h # gen => workers'[h] = workers[h]
      BY <1>1, <2>2, <2>3, <3>1, WorkerPut
    <3> QED
      BY <2>2, <3>1, <3>2 DEF Took
<1>5. ASSUME gen <= Len(workers), Tasks(gen) # <<>>, workers' = [workers EXCEPT ![gen].tasks[1].begun = TRUE]
      PROVE  CalmTo(workers') /\ Len(workers') = Len(workers)
  <2> DEFINE q == [workers[gen].tasks EXCEPT ![1].begun = TRUE]
             w == [workers[gen] EXCEPT !.tasks = q]
  <2>1. q \in Seq(Task) /\ \A m : Waits(q, m) = Waits(workers[gen].tasks, m)
    BY <1>2, <1>5, WaitsBegun
  <2>2. w \in Worker /\ w.tasks = q /\ ~w.ended
    <3> HIDE DEF q
    <3> QED BY <1>2, <1>5, <2>1 DEF Worker
  <2>3. workers' = [workers EXCEPT ![gen] = w]
    BY <1>5
  <2> HIDE DEF w, q
  <2>4. /\ workers' \in Seq(Worker) /\ Len(workers') = Len(workers) /\ DOMAIN workers' = DOMAIN workers
        /\ workers'[gen] = w /\ \A h \in DOMAIN workers : h # gen => workers'[h] = workers[h]
    <3>1. gen \in DOMAIN workers
      BY <1>2, <1>5
    <3> QED
      BY <1>1, <2>2, <2>3, <3>1, WorkerPut
  <2>5. \A h \in DOMAIN workers :
            /\ workers[h].ended => workers'[h].ended
            /\ workers'[h].ended => workers'[h].tasks = <<>>
            /\ \A x \in Meetings : Waits(workers'[h].tasks, x) = Waits(workers[h].tasks, x)
    BY <1>2, <1>5, <2>1, <2>2, <2>4, WorkerTells
  <2> QED
    BY <1>1, <2>4, <2>5 DEF CalmTo
<1>6. ASSUME BeginTask(gen)
      PROVE  \/ CalmTo(workers') /\ marked' = marked /\ Len(workers') = Len(workers)
             \/ Took(gen) /\ Mark(Head(workers[gen].tasks))
  <2>1. gen <= Len(workers) /\ Tasks(gen) # <<>>
    BY <1>6 DEF BeginTask
  <2>2. \/ workers' = [workers EXCEPT ![gen].tasks[1].begun = TRUE] /\ marked' = marked
        \/ workers' = [workers EXCEPT ![gen].tasks = Tail(@)] /\ Mark(Head(workers[gen].tasks))
    BY <1>2, <1>6, <2>1 DEF BeginTask, DropStale
  <2> QED
    BY <1>4, <1>5, <2>1, <2>2
<1>7. ASSUME CommitTask(gen) PROVE Took(gen)
  <2>1. gen <= Len(workers) /\ Tasks(gen) # <<>> /\ workers[gen].sequence + 1 \in Nat
    BY <1>2, <1>7 DEF CommitTask
  <2>2. \/ workers' = [workers EXCEPT ![gen].sequence = @ + 1, ![gen].tasks = Tail(@)]
        \/ workers' = [workers EXCEPT ![gen].tasks = Tail(@)]
    BY <1>7 DEF CommitTask
  <2>3. CASE workers' = [workers EXCEPT ![gen].sequence = @ + 1, ![gen].tasks = Tail(@)]
    <3>1. workers' = [workers EXCEPT ![gen] = [workers[gen] EXCEPT !.sequence = workers[gen].sequence + 1,
                                                                  !.tasks = Tail(@)]]
      BY <2>3, <1>1, <1>2, <2>1
    <3> QED
      BY <1>3, <2>1, <3>1
  <2> QED
    BY <1>4, <2>1, <2>2, <2>3
<1> QED
  BY <1>6, <1>7

\* What a task that is taken was, and how many finals stay behind it.
LEMMA TookTells ==
    ASSUME SessionInv, NEW gen, Took(gen)
    PROVE  /\ Head(workers[gen].tasks) \in Task /\ ~workers[gen].ended /\ ~workers'[gen].ended
           /\ \A m \in Meetings :
                /\ Head(workers[gen].tasks).m = m /\ Head(workers[gen].tasks).by = "coordinator" =>
                     /\ Waits(workers[gen].tasks, m) # {}
                     /\ Cardinality(Waits(workers[gen].tasks, m)) = Cardinality(Waits(workers'[gen].tasks, m)) + 1
                /\ ~(Head(workers[gen].tasks).m = m /\ Head(workers[gen].tasks).by = "coordinator") =>
                     Cardinality(Waits(workers[gen].tasks, m)) = Cardinality(Waits(workers'[gen].tasks, m))
                /\ Waits(workers'[gen].tasks, m) # {} => Waits(workers[gen].tasks, m) # {}
                /\ Cardinality(Waits(workers[gen].tasks, m)) \in Nat
                /\ Cardinality(Waits(workers'[gen].tasks, m)) \in Nat
<1> DEFINE q == workers[gen].tasks
           r == workers'[gen].tasks
<1>1. gen \in DOMAIN workers /\ q # <<>> /\ r = Tail(q) /\ workers'[gen].ended = workers[gen].ended
  BY DEF Took
<1>2. q \in Seq(Task) /\ ~workers[gen].ended
  BY <1>1, WorkerTells
<1>3. Head(q) \in Task /\ r \in Seq(Task)
  BY <1>1, <1>2
<1>4. ASSUME NEW m \in Meetings
      PROVE  /\ Head(q).m = m /\ Head(q).by = "coordinator" =>
                  Waits(q, m) # {} /\ Cardinality(Waits(q, m)) = Cardinality(Waits(r, m)) + 1
             /\ ~(Head(q).m = m /\ Head(q).by = "coordinator") =>
                  Cardinality(Waits(q, m)) = Cardinality(Waits(r, m))
             /\ Waits(r, m) # {} => Waits(q, m) # {}
             /\ Cardinality(Waits(q, m)) \in Nat /\ Cardinality(Waits(r, m)) \in Nat
  <2> HIDE DEF q, r
  <2>1. /\ Cardinality(Waits(q, m)) \in Nat /\ Cardinality(Waits(r, m)) \in Nat
        /\ Cardinality(Waits(q, m)) = 0 <=> Waits(q, m) = {}
        /\ Cardinality(Waits(r, m)) = 0 <=> Waits(r, m) = {}
    BY <1>2, <1>3, WaitsAreFinite
  <2>2. /\ Head(q).m = m /\ Head(q).by = "coordinator" =>
             Cardinality(Waits(q, m)) = Cardinality(Waits(r, m)) + 1
        /\ ~(Head(q).m = m /\ Head(q).by = "coordinator") =>
             Cardinality(Waits(q, m)) = Cardinality(Waits(r, m))
    BY <1>1, <1>2, WaitsTaken
  <2> QED
    BY <2>1, <2>2
<1> QED
  BY <1>1, <1>2, <1>3, <1>4

\* A final is cut: its worker gets it, or its meeting is marked.
LEMMA CutTells ==
    ASSUME SessionInv, NEW m \in Meetings, CutFinal(m), NEW g, g = coord[m].gen
    PROVE  /\ g \in DOMAIN workers /\ coord[m].pc \in {"running", "told"} /\ ~gate[m]
           /\ workers' \in Seq(Worker) /\ Len(workers') = Len(workers) /\ DOMAIN workers' = DOMAIN workers
           /\ \A h \in DOMAIN workers : h # g => workers'[h] = workers[h]
           /\ workers'[g].ended = workers[g].ended
           /\ \A x \in Meetings : x # m => Waits(workers'[g].tasks, x) = Waits(workers[g].tasks, x)
           /\ \/ workers' = workers /\ marked' = [marked EXCEPT ![m] = TRUE]
              \/ /\ ~workers[g].ended /\ marked' = marked
                 /\ Cardinality(Waits(workers'[g].tasks, m)) = Cardinality(Waits(workers[g].tasks, m)) + 1
<1> DEFINE t == [m |-> m, by |-> "coordinator", begun |-> FALSE]
<1>1. g \in DOMAIN workers /\ coord[m].pc \in {"running", "told"} /\ ~gate[m]
  BY DEF CutFinal, SessionInv, Homes
<1>2. workers \in Seq(Worker) /\ workers[g].tasks \in Seq(Task)
  BY <1>1, WorkerTells
<1>3. CASE workers[g].ended
  BY <1>1, <1>2, <1>3 DEF CutFinal
<1>4. CASE ~workers[g].ended
  <2>1. Submit(m, g, "coordinator") /\ marked' = marked
    BY <1>4 DEF CutFinal
  <2>2. /\ workers' \in Seq(Worker) /\ Len(workers') = Len(workers) /\ DOMAIN workers' = DOMAIN workers
        /\ workers'[g].tasks = Append(workers[g].tasks, t) /\ workers'[g].ended = workers[g].ended
        /\ \A h \in DOMAIN workers : h # g => workers'[h] = workers[h]
    BY <1>1, <1>4, <2>1, SubmitTells
  <2>3. t \in Task /\ t.m = m /\ t.by = "coordinator"
    BY DEF Task
  <2> HIDE DEF t
  <2>4. Cardinality(Waits(workers'[g].tasks, m)) = Cardinality(Waits(workers[g].tasks, m)) + 1
    BY <1>2, <2>2, <2>3, WaitsPut
  <2>5. \A x \in Meetings : x # m => Waits(workers'[g].tasks, x) = Waits(workers[g].tasks, x)
    BY <1>2, <2>2, <2>3, WaitsPut
  <2> QED
    BY <1>1, <1>4, <2>1, <2>2, <2>4, <2>5
<1> QED
  BY <1>3, <1>4

\* As long as workers stay calm the finals in them stay where they are.
LEMMA CalmKeeps ==
    ASSUME SessionInv, Calm, UNCHANGED <<coord, finals, marked, session>>,
           history'.stopped = history.stopped
    PROVE  /\ Homes' /\ Counted' /\ Whole'
           /\ session' # 0 => coord'[session'].gen = worker' \/ workers'[coord'[session'].gen].ended
           /\ \A m \in Meetings : coord[m].pc # "none" =>
                 /\ workers[coord[m].gen].ended => workers'[coord[m].gen].ended
                 /\ Waits(workers'[coord[m].gen].tasks, m) = Waits(workers[coord[m].gen].tasks, m)
<1>1. /\ \A g \in DOMAIN workers' : workers'[g].ended => workers'[g].tasks = <<>>
      /\ DOMAIN workers \subseteq DOMAIN workers'
      /\ \A g \in DOMAIN workers : workers[g].ended => workers'[g].ended
      /\ \A g \in DOMAIN workers, m \in Meetings :
            Waits(workers'[g].tasks, m) = Waits(workers[g].tasks, m)
      /\ \A g \in DOMAIN workers' \ DOMAIN workers : workers'[g].tasks = <<>>
  BY DEF Calm, CalmTo
<1>2. \A m \in Meetings : coord[m].pc # "none" => coord[m].gen \in DOMAIN workers
  BY DEF SessionInv, Homes
<1>3. \A m \in Meetings : coord[m].pc # "none" =>
          /\ workers[coord[m].gen].ended => workers'[coord[m].gen].ended
          /\ Waits(workers'[coord[m].gen].tasks, m) = Waits(workers[coord[m].gen].tasks, m)
  BY <1>1, <1>2
<1>4. Homes'
  <2>1. \A m \in Meetings, g \in DOMAIN workers' :
            Waits(workers'[g].tasks, m) # {} => coord[m].pc # "none" /\ coord[m].gen = g
    <3> TAKE m \in Meetings, g \in DOMAIN workers'
    <3>1. CASE g \in DOMAIN workers
      BY <1>1, <3>1 DEF SessionInv, Homes, Waiting
    <3>2. CASE g \notin DOMAIN workers
      BY <1>1, <3>2, NothingWaits
    <3> QED
      BY <3>1, <3>2
  <2> QED
    BY <1>1, <1>2, <2>1 DEF Homes, Waiting
<1>5. Counted'
  BY <1>3 DEF SessionInv, Counted, Waiting
<1>6. Whole'
  BY <1>3 DEF SessionInv, Whole, Waiting, Types, HistoryTypes
<1>7. session' # 0 => coord'[session'].gen = worker' \/ workers'[coord'[session'].gen].ended
  <2> SUFFICES ASSUME session # 0
               PROVE  coord[session].gen = worker' \/ workers'[coord[session].gen].ended
    OBVIOUS
  <2>1. session \in Meetings /\ coord[session].pc # "none"
    BY DEF SessionInv, Types, PlaceTypes, SessionIsRecorded
  <2>2. coord[session].gen \in DOMAIN workers /\ 0 \notin DOMAIN workers
    BY <1>2, <2>1 DEF SessionInv, Types, WorkerTypes
  <2>3. CASE coord[session].gen = worker
    BY <2>2, <2>3 DEF Calm
  <2>4. CASE workers[coord[session].gen].ended
    BY ZenonT(40), <2>2, <2>4, <1>1
  <2> QED
    BY <2>3, <2>4 DEF SessionInv, Awaited
<1> QED
  BY <1>3, <1>4, <1>5, <1>6, <1>7

-----------------------------------------------------------------------------
(* What some steps leave alone.                                            *)

\* The exchange of a worker by a recovery touches nothing else.
LEMMA ExchangeTouches ==
    ASSUME SessionInv, NEW c \in Clients, RecoverWorker(c)
    PROVE  /\ UNCHANGED <<inner, session, stored, lifecycle, shown, coord, gate, finals, marked, mirrors>>
           /\ inner = "free" /\ client[c].pc = "tail"
           /\ history'.opened = history.opened /\ history'.preflighted = history.preflighted
           /\ history'.crossed = history.crossed /\ history'.orphans = history.orphans
           /\ history'.stopped = history.stopped
           /\ history.replaced => history'.replaced
           /\ session # 0 /\ worker' # worker => history'.replaced
           /\ history'.replaced \in BOOLEAN /\ worker' # 0
<1>1. worker' # 0
  BY CallsAreCalm
<1> QED
  BY <1>1 DEF RecoverWorker, SessionInv, Types, HistoryTypes

\* A meeting shown unchecked does not hide another unless the history says so.
LEMMA OpenedTells ==
    ASSUME SessionInv, NEW m, ShowMeeting(m)
    PROVE  /\ shown' = m
           /\ history'.preflighted = history.preflighted /\ history'.crossed = history.crossed
           /\ history'.orphans = history.orphans /\ history'.stopped = history.stopped
           /\ history'.replaced = history.replaced /\ history'.opened \in BOOLEAN
           /\ ~history'.opened =>
                /\ ~history.opened /\ (session # 0 => session = m)
                /\ \A d \in Clients : Doing(d, StopPcs) => client[d].m = m
<1>1. shown' = m /\ history' = [history EXCEPT !.opened =
                                   @ \/ ({session} \cup Starting \cup Stopping) \ {0, m} # {}]
  BY DEF ShowMeeting
<1>2. /\ history'.preflighted = history.preflighted /\ history'.crossed = history.crossed
      /\ history'.orphans = history.orphans /\ history'.stopped = history.stopped
      /\ history'.replaced = history.replaced
      /\ history'.opened = (history.opened \/ ({session} \cup Starting \cup Stopping) \ {0, m} # {})
  BY <1>1 DEF SessionInv, Types, HistoryTypes
<1>3. \A d \in Clients : Doing(d, StopPcs) => client[d].m \in Stopping /\ client[d].m # 0
  BY WhoWorks, NoMeeting DEF Stopping, Doing
<1> QED
  BY <1>1, <1>2, <1>3 DEF SessionInv, Types, HistoryTypes

\* A stop records how it ended, or is refused.
Finished(c) ==
    LET m == client[c].m IN
    /\ stored'[m] \in {"interrupted", "completed"} /\ lifecycle' = lifecycle
    /\ history'.orphans = history.orphans
    /\ history'.stopped = IF marked[m] THEN history.stopped ELSE history.stopped \cup {m}
    /\ Moves(c, "ready", m, client[c].gen)

Unfinished(c) ==
    /\ stored' = stored /\ lifecycle' = "error"
    /\ history'.orphans = history.orphans \cup {client[c].m} /\ history'.stopped = history.stopped
    /\ Moves(c, "idle", 0, 0)

\* The row is stored, and the stop is answered with an error.
Unanswered(c) ==
    LET m == client[c].m IN
    /\ stored'[m] \in {"interrupted", "completed"} /\ lifecycle' = "error"
    /\ history'.orphans = history.orphans
    /\ history'.stopped = IF marked[m] THEN history.stopped ELSE history.stopped \cup {m}
    /\ Moves(c, "idle", 0, 0)

\* The end of a stop is one of the three, and touches nothing else.
LEMMA FinishTells ==
    ASSUME SessionInv, NEW c \in Clients, StopFinish(c)
    PROVE  LET m == client[c].m IN
           /\ UNCHANGED <<inner, session, shown, worker, workers, coord, gate, finals, marked, mirrors>>
           /\ client[c].pc = "finish" /\ m \in Meetings /\ m # session /\ stored[m] # "none"
           /\ coord[m].pc = "ended" /\ m \notin mirrors
           /\ history'.opened = history.opened /\ history'.preflighted = history.preflighted
           /\ history'.crossed = history.crossed /\ history'.replaced = history.replaced
           /\ \A x \in Meetings : x # m => stored'[x] = stored[x]
           /\ \/ Finished(c) \/ Unfinished(c) \/ Unanswered(c)
<1> DEFINE m == client[c].m
<1> USE DEF Finished, Unfinished, Unanswered
<1>1. client[c].pc = "finish" /\ m \in Meetings /\ m # session /\ stored[m] # "none"
  BY WhoWorks DEF StopFinish, LeaveRow, Doing, StopPcs
<1>2. coord[m].pc = "ended" /\ m \notin mirrors
  BY <1>1 DEF SessionInv, StopsFind, Doing, StopPcs
<1>3. CASE /\ stored' = [stored EXCEPT ![m] = IF marked[m] THEN "interrupted" ELSE "completed"]
           /\ history' = [history EXCEPT !.stopped = IF marked[m] THEN @ ELSE @ \cup {m}]
           /\ To(c, "ready") /\ lifecycle' = lifecycle
  <2>1. Moves(c, "ready", m, client[c].gen)
    BY <1>3 DEF To, Moves, SessionInv, Types, CallTypes
  <2>2. /\ stored'[m] \in {"interrupted", "completed"}
        /\ \A x \in Meetings : x # m => stored'[x] = stored[x]
    BY <1>1, <1>3 DEF SessionInv, Types, RowTypes
  <2>3. /\ history'.opened = history.opened /\ history'.preflighted = history.preflighted
        /\ history'.crossed = history.crossed /\ history'.replaced = history.replaced
        /\ history'.orphans = history.orphans
        /\ history'.stopped = IF marked[m] THEN history.stopped ELSE history.stopped \cup {m}
    BY <1>3 DEF SessionInv, Types, HistoryTypes
  <2> QED
    BY <1>1, <1>2, <1>3, <2>1, <2>2, <2>3 DEF StopFinish, LeaveRow
<1>4. CASE /\ lifecycle' = "error" /\ history' = [history EXCEPT !.orphans = @ \cup {m}]
           /\ Return(c) /\ stored' = stored
  <2>1. Moves(c, "idle", 0, 0)
    BY <1>4 DEF Return, Idle, Moves, SessionInv, Types, CallTypes
  <2>2. /\ history'.opened = history.opened /\ history'.preflighted = history.preflighted
        /\ history'.crossed = history.crossed /\ history'.replaced = history.replaced
        /\ history'.orphans = history.orphans \cup {m} /\ history'.stopped = history.stopped
    BY <1>4 DEF SessionInv, Types, HistoryTypes
  <2> QED
    BY <1>1, <1>2, <1>4, <2>1, <2>2 DEF StopFinish, LeaveRow
<1>5. CASE /\ stored' = [stored EXCEPT ![m] = IF marked[m] THEN "interrupted" ELSE "completed"]
           /\ history' = [history EXCEPT !.stopped = IF marked[m] THEN @ ELSE @ \cup {m}]
           /\ lifecycle' = "error" /\ Return(c)
  <2>1. Moves(c, "idle", 0, 0)
    BY <1>5 DEF Return, Idle, Moves, SessionInv, Types, CallTypes
  <2>2. /\ stored'[m] \in {"interrupted", "completed"}
        /\ \A x \in Meetings : x # m => stored'[x] = stored[x]
    BY <1>1, <1>5 DEF SessionInv, Types, RowTypes
  <2>3. /\ history'.opened = history.opened /\ history'.preflighted = history.preflighted
        /\ history'.crossed = history.crossed /\ history'.replaced = history.replaced
        /\ history'.orphans = history.orphans
        /\ history'.stopped = IF marked[m] THEN history.stopped ELSE history.stopped \cup {m}
    BY <1>5 DEF SessionInv, Types, HistoryTypes
  <2> QED
    BY <1>1, <1>2, <1>5, <2>1, <2>2, <2>3 DEF StopFinish, LeaveRow
<1> QED
  BY <1>3, <1>4, <1>5 DEF StopFinish, LeaveRow

\* The row of a failed start says so, or is refused.
LEMMA RowTells ==
    ASSUME SessionInv, NEW m \in Meetings, FinishRow(m, "interrupted")
    PROVE  /\ history'.opened = history.opened /\ history'.preflighted = history.preflighted
           /\ history'.crossed = history.crossed /\ history'.replaced = history.replaced
           /\ history'.stopped = history.stopped
           /\ \A x \in Meetings : x # m => stored'[x] = stored[x]
           /\ \/ stored'[m] = "interrupted" /\ history'.orphans = history.orphans
              \/ stored' = stored /\ history'.orphans = history.orphans \cup {m}
  BY ZenonT(40) DEF FinishRow, LeaveRow, SessionInv, Types, HistoryTypes, RowTypes

\* A task ends with its final stored, or marks its meeting.
StoredOrMarked(t) ==
    \/ finals' = finals /\ Mark(t)
    \/ /\ marked' = marked
       /\ finals' \in [Meetings -> [cut : Nat, live : Nat, saved : Nat]]
       /\ \A x \in Meetings : x # t.m => finals'[x] = finals[x]
       /\ finals'[t.m].cut = finals[t.m].cut
       /\ finals'[t.m].saved = finals[t.m].saved + 1
       /\ finals'[t.m].live = IF t.by = "coordinator" THEN finals[t.m].live + 1
                              ELSE finals[t.m].live

\* A commit stores the first task as a final of its meeting, or marks it.
LEMMA CommitTells ==
    ASSUME SessionInv, NEW gen \in Gens, CommitTask(gen), NEW t, t = Head(workers[gen].tasks)
    PROVE  /\ Took(gen) /\ t \in Task
           /\ UNCHANGED <<inner, session, stored, lifecycle, shown, worker, coord, gate, mirrors, client, history>>
           /\ StoredOrMarked(t)
<1>1. Took(gen)
  BY TasksAreTaken
<1>2. t \in Task /\ Tasks(gen) = workers[gen].tasks /\ t.m \in Meetings
  <2>1. t \in Task
    BY <1>1, TookTells
  <2>2. gen # 0
    BY DEF Gens
  <2> QED
    BY <2>1, <2>2 DEF Tasks, Task
<1>3. finals \in [Meetings -> [cut : Nat, live : Nat, saved : Nat]]
  BY ZenonT(40) DEF SessionInv, Types, RowTypes
<1>4. \/ finals' = finals /\ Mark(t)
      \/ /\ marked' = marked
         /\ finals' = [finals EXCEPT ![t.m].saved = @ + 1,
                                     ![t.m].live = IF t.by = "coordinator" THEN @ + 1 ELSE @]
  BY <1>2 DEF CommitTask
<1>5. ASSUME finals' = [finals EXCEPT ![t.m].saved = @ + 1,
                                      ![t.m].live = IF t.by = "coordinator" THEN @ + 1 ELSE @]
      PROVE  /\ finals' \in [Meetings -> [cut : Nat, live : Nat, saved : Nat]]
             /\ \A x \in Meetings : x # t.m => finals'[x] = finals[x]
             /\ finals'[t.m].cut = finals[t.m].cut
             /\ finals'[t.m].saved = finals[t.m].saved + 1
             /\ finals'[t.m].live = IF t.by = "coordinator" THEN finals[t.m].live + 1
                                    ELSE finals[t.m].live
  <2> DEFINE a == t.m
  <2>1. a \in Meetings
    BY <1>2
  <2>2. CASE t.by = "coordinator"
    <3>1. finals' = [finals EXCEPT ![a].saved = @ + 1, ![a].live = @ + 1]
      BY <1>5, <2>2
    <3> HIDE DEF a
    <3>2. finals'[a].saved = finals[a].saved + 1
      BY <1>3, <2>1, <3>1
    <3>3. finals'[a].live = finals[a].live + 1
      BY <1>3, <2>1, <3>1
    <3>4. finals'[a].cut = finals[a].cut
      BY <1>3, <2>1, <3>1
    <3>5. \A x \in Meetings : x # a => finals'[x] = finals[x]
      BY <1>3, <2>1, <3>1
    <3>6. finals' \in [Meetings -> [cut : Nat, live : Nat, saved : Nat]]
      BY <1>3, <2>1, <3>1
    <3> QED
      BY ZenonT(40), <2>2, <3>2, <3>3, <3>4, <3>5, <3>6 DEF a
  <2>3. CASE t.by # "coordinator"
    <3>1. finals' = [finals EXCEPT ![a].saved = @ + 1, ![a].live = @]
      BY <1>5, <2>3
    <3> HIDE DEF a
    <3>2. finals'[a].saved = finals[a].saved + 1
      BY <1>3, <2>1, <3>1
    <3>3. finals'[a].live = finals[a].live
      BY <1>3, <2>1, <3>1
    <3>4. finals'[a].cut = finals[a].cut
      BY <1>3, <2>1, <3>1
    <3>5. \A x \in Meetings : x # a => finals'[x] = finals[x]
      BY <1>3, <2>1, <3>1
    <3>6. finals' \in [Meetings -> [cut : Nat, live : Nat, saved : Nat]]
      <4>1. finals[a] \in [cut : Nat, live : Nat, saved : Nat]
        BY <1>3, <2>1
      <4>2. finals' = [finals EXCEPT ![a] = [finals[a] EXCEPT !.saved = @ + 1]]
        BY <1>3, <2>1, <3>1, <4>1
      <4>3. [finals[a] EXCEPT !.saved = @ + 1] \in [cut : Nat, live : Nat, saved : Nat]
        BY <4>1
      <4> QED
        BY <1>3, <2>1, <4>2, <4>3
    <3> QED
      BY ZenonT(40), <2>3, <3>2, <3>3, <3>4, <3>5, <3>6 DEF a
  <2> QED
    BY <2>2, <2>3
<1> QED
  BY <1>1, <1>2, <1>4, <1>5 DEF CommitTask, StoredOrMarked

\* A cut is counted.
LEMMA CutCounts ==
    ASSUME SessionInv, NEW m \in Meetings, CutFinal(m)
    PROVE  /\ finals' \in [Meetings -> [cut : Nat, live : Nat, saved : Nat]]
           /\ \A x \in Meetings : x # m => finals'[x] = finals[x]
           /\ finals'[m].cut = finals[m].cut + 1 /\ finals'[m].live = finals[m].live
           /\ finals'[m].saved = finals[m].saved
<1>1. finals \in [Meetings -> [cut : Nat, live : Nat, saved : Nat]]
  BY DEF SessionInv, Types, RowTypes
<1>2. finals' = [finals EXCEPT ![m].cut = @ + 1]
  BY DEF CutFinal
<1>3. finals' \in [Meetings -> [cut : Nat, live : Nat, saved : Nat]] /\ finals'[m].cut = finals[m].cut + 1
  BY <1>1, <1>2
<1>4. /\ \A x \in Meetings : x # m => finals'[x] = finals[x]
      /\ finals'[m].live = finals[m].live /\ finals'[m].saved = finals[m].saved
  BY <1>1, <1>2
<1> QED
  BY <1>3, <1>4

-----------------------------------------------------------------------------
(* Every step.                                                             *)

\* The places keep their types.
LEMMA PlaceTypesStep ==
    ASSUME SessionInv, [Next]_vars
    PROVE  PlaceTypes'
<1>1. ASSUME UNCHANGED <<inner, session, shown, lifecycle, mirrors, lang>> PROVE PlaceTypes'
  BY ZenonT(40), <1>1 DEF SessionInv, Types, PlaceTypes
<1>2. ASSUME NEW c \in Clients, UNCHANGED lang,
             \/ Pause(c) \/ Resume(c) \/ StartCapture(c) \/ PauseAnswered(c) \/ WaitInVain(c)
             \/ ResumeAnswered(c) \/ StopJoin(c) \/ RecoverWorker(c) \/ RecoverSubmit(c)
             \/ RecoverDrained(c) \/ RecoverFailed(c) \/ RecoverRecordRefused(c)
             \/ \E l \in Languages : PrepareLanguage(c, l)
             \/ \E l \in Languages : WorkerLeftBehind(c, l)
             \/ \E m \in Meetings : \E action \in {"recover", "finalize"} : Recover(c, m, action)
      PROVE  UNCHANGED <<inner, session, shown, lifecycle, mirrors, lang>>
  BY <1>2 DEF PrepareLanguage, WorkerLeftBehind, Pause, Resume, Recover, StartCapture, PauseAnswered,
    WaitInVain, ResumeAnswered, StopJoin, RecoverWorker, RecoverSubmit, RecoverDrained,
    RecoverFailed, RecoverRecordRefused
<1>3. ASSUME NEW gen \in Gens, UNCHANGED lang,
             BeginTask(gen) \/ CommitTask(gen)
      PROVE  UNCHANGED <<inner, session, shown, lifecycle, mirrors, lang>>
  BY <1>3 DEF BeginTask, CommitTask
<1>4. ASSUME NEW m \in Meetings, UNCHANGED lang,
             CutFinal(m) \/ CoordinatorEnds(m)
      PROVE  UNCHANGED <<inner, session, shown, lifecycle, mirrors, lang>>
  BY <1>4 DEF CutFinal, CoordinatorEnds
<1> USE DEF SessionInv, Types, PlaceTypes, Blocking
<1>5. ASSUME NEW c \in Clients, NEW l \in Languages, PrepareFailed(c, l), UNCHANGED lang
      PROVE  PlaceTypes'
  BY <1>5 DEF PrepareFailed, Call, NoWorker
<1>6. ASSUME NEW c \in Clients, Stop(c), UNCHANGED lang PROVE PlaceTypes'
  BY <1>6 DEF Stop, Call
<1>7. ASSUME NEW c \in Clients, Preflight(c), UNCHANGED lang PROVE PlaceTypes'
  BY <1>7 DEF Preflight, Call, PreflightMay
<1>8. ASSUME NEW c \in Clients, NEW m \in Meetings, Start(c, m), UNCHANGED lang PROVE PlaceTypes'
  BY <1>8 DEF Start, Call, New
<1>9. ASSUME NEW c \in Clients, NEW m \in Meetings, Open(c, m), UNCHANGED lang PROVE PlaceTypes'
  BY <1>9 DEF Open, Call, HistoryOpenBlocked
<1>10. ASSUME NEW c \in Clients, NEW m \in Meetings, OpenAfterRetry(c, m), UNCHANGED lang
      PROVE  PlaceTypes'
  BY <1>10, OpenedTells DEF OpenAfterRetry, Call, ShowMeeting
<1>11. ASSUME NEW c \in Clients, StartRefused(c), UNCHANGED lang PROVE PlaceTypes'
  BY <1>11 DEF StartRefused, FinishRow, LeaveRow
<1>12. ASSUME NEW c \in Clients, StartPrepare(c), UNCHANGED lang PROVE PlaceTypes'
  BY <1>12, WhoWorks DEF StartPrepare, Named
<1>13. ASSUME NEW c \in Clients, StartFailed(c), UNCHANGED lang PROVE PlaceTypes'
  BY <1>13 DEF StartFailed, FinishRow, LeaveRow, MirrorClosed, Failed
<1>14. ASSUME NEW c \in Clients, StartName(c), UNCHANGED lang PROVE PlaceTypes'
  BY <1>14, WhoWorks DEF StartName, Named
<1>15. ASSUME NEW c \in Clients, PauseShow(c), UNCHANGED lang PROVE PlaceTypes'
  BY <1>15 DEF PauseShow, ShowAs
<1>16. ASSUME NEW c \in Clients, ResumeShow(c), UNCHANGED lang PROVE PlaceTypes'
  BY <1>16 DEF ResumeShow, ShowAs
<1>17. ASSUME NEW c \in Clients, StopBarrier(c), UNCHANGED lang PROVE PlaceTypes'
  BY <1>17 DEF StopBarrier, MirrorClosed, Barrier
<1>18. ASSUME NEW c \in Clients, StopTimeout(c), UNCHANGED lang PROVE PlaceTypes'
  BY <1>18 DEF StopTimeout
<1>19. ASSUME NEW c \in Clients, StopFinish(c), UNCHANGED lang PROVE PlaceTypes'
  BY <1>19 DEF StopFinish, LeaveRow
<1>20. ASSUME NEW c \in Clients, StopReady(c), UNCHANGED lang PROVE PlaceTypes'
  BY <1>20 DEF StopReady
<1>21. ASSUME NEW c \in Clients, RecoverShow(c), UNCHANGED lang PROVE PlaceTypes'
  BY <1>21, OpenedTells DEF RecoverShow, ShowMeeting, Named
<1>22. ASSUME NEW c \in Clients, RecoverNoWorker(c), UNCHANGED lang PROVE PlaceTypes'
  BY <1>22 DEF RecoverNoWorker, NoWorker
<1>23. ASSUME NEW c \in Clients, RecoverRecord(c), UNCHANGED lang PROVE PlaceTypes'
  BY <1>23, OpenedTells DEF RecoverRecord, ShowMeeting, Finalized, Named, Doing
<1>24. ASSUME Restart, UNCHANGED lang PROVE PlaceTypes'
  BY <1>24 DEF Restart, NoHistory, Idle
<1> QED
  BY UnreadIsRefused, <1>1, <1>2, <1>3, <1>4, <1>5, <1>6, <1>7, <1>8, <1>9, <1>10, <1>11, <1>12,
     <1>13, <1>14, <1>15, <1>16, <1>17, <1>18, <1>19, <1>20, <1>21, <1>22, <1>23,
     <1>24
     DEF Next, Command, Continue, vars

\* The rows keep their types.
LEMMA RowTypesStep ==
    ASSUME SessionInv, [Next]_vars
    PROVE  RowTypes'
<1>1. ASSUME UNCHANGED <<stored, gate, marked, finals>> PROVE RowTypes'
  BY ZenonT(40), <1>1 DEF SessionInv, Types, RowTypes
<1>2. ASSUME NEW c \in Clients,
             \/ Resume(c) \/ Stop(c) \/ StartPrepare(c) \/ StartCapture(c) \/ StartName(c)
             \/ PauseAnswered(c) \/ PauseShow(c) \/ ResumeShow(c) \/ StopJoin(c)
             \/ StopBarrier(c) \/ StopTimeout(c) \/ StopReady(c) \/ RecoverShow(c)
             \/ RecoverWorker(c) \/ RecoverNoWorker(c) \/ RecoverSubmit(c)
             \/ RecoverDrained(c) \/ RecoverFailed(c) \/ RecoverRecordRefused(c)
             \/ \E l \in Languages : PrepareLanguage(c, l)
             \/ \E l \in Languages : WorkerLeftBehind(c, l)
             \/ \E l \in Languages : PrepareFailed(c, l)
             \/ \E m \in Meetings : Open(c, m)
             \/ \E m \in Meetings : OpenAfterRetry(c, m)
             \/ \E m \in Meetings : \E action \in {"recover", "finalize"} : Recover(c, m, action)
      PROVE  UNCHANGED <<stored, gate, marked, finals>>
  BY <1>2 DEF PrepareLanguage, WorkerLeftBehind, PrepareFailed, NoWorker, Resume, Stop, Open,
    OpenAfterRetry, Recover, StartPrepare, StartCapture, StartName, PauseAnswered, PauseShow,
    ShowAs, ResumeShow, StopJoin, StopBarrier, StopTimeout, StopReady, RecoverShow,
    RecoverWorker, RecoverNoWorker, RecoverSubmit, RecoverDrained, RecoverFailed,
    RecoverRecordRefused
<1>3. ASSUME NEW m \in Meetings,
             CoordinatorEnds(m)
      PROVE  UNCHANGED <<stored, gate, marked, finals>>
  BY <1>3 DEF CoordinatorEnds
<1> USE DEF SessionInv, Types, RowTypes
<1>4. ASSUME NEW c \in Clients, Pause(c), UNCHANGED lang PROVE RowTypes'
  BY <1>4 DEF Pause, Call, RowTypes
<1>5. ASSUME NEW c \in Clients, Preflight(c), UNCHANGED lang PROVE RowTypes'
  BY <1>5 DEF Preflight, Call, PreflightMay, RowTypes
<1>6. ASSUME NEW c \in Clients, NEW m \in Meetings, Start(c, m), UNCHANGED lang PROVE RowTypes'
  BY <1>6 DEF Start, Call, New, RowTypes
<1>7. ASSUME NEW c \in Clients, StartRefused(c), UNCHANGED lang PROVE RowTypes'
  BY <1>7 DEF StartRefused, FinishRow, LeaveRow, RowTypes
<1>8. ASSUME NEW c \in Clients, StartFailed(c), UNCHANGED lang PROVE RowTypes'
  BY <1>8 DEF StartFailed, FinishRow, LeaveRow, MirrorClosed, Failed, RowTypes
<1>9. ASSUME NEW c \in Clients, WaitInVain(c), UNCHANGED lang PROVE RowTypes'
  BY <1>9 DEF WaitInVain, RowTypes
<1>10. ASSUME NEW c \in Clients, ResumeAnswered(c), UNCHANGED lang PROVE RowTypes'
  BY <1>10 DEF ResumeAnswered, RowTypes
<1>11. ASSUME NEW c \in Clients, StopFinish(c), UNCHANGED lang PROVE RowTypes'
  BY <1>11 DEF StopFinish, LeaveRow, RowTypes
<1>12. ASSUME NEW c \in Clients, RecoverRecord(c), UNCHANGED lang PROVE RowTypes'
  BY <1>12 DEF RecoverRecord, ShowMeeting, Finalized, RowTypes
<1>13. ASSUME NEW gen \in Gens, BeginTask(gen), UNCHANGED lang PROVE RowTypes'
  BY <1>13, TasksAreTaken DEF BeginTask, DropStale, Mark, RowTypes, Took
<1>14. ASSUME NEW gen \in Gens, CommitTask(gen), UNCHANGED lang PROVE RowTypes'
  <2>1. PICK t : t = Head(workers[gen].tasks)
    OBVIOUS
  <2>2. UNCHANGED <<stored, gate>> /\ t.m \in Meetings /\ StoredOrMarked(t)
    BY <1>14, <2>1, CommitTells DEF Task
  <2>3. marked' \in [Meetings -> BOOLEAN] /\ finals' \in [Meetings -> [cut : Nat, live : Nat, saved : Nat]]
    BY <2>2 DEF StoredOrMarked, Mark, RowTypes
  <2> QED
    BY <2>2, <2>3 DEF RowTypes
<1>15. ASSUME NEW m \in Meetings, CutFinal(m), UNCHANGED lang PROVE RowTypes'
  BY <1>15, CutCounts DEF CutFinal
<1>16. ASSUME Restart, UNCHANGED lang PROVE RowTypes'
  BY <1>16 DEF Restart, NoHistory, RowTypes, Idle
<1> QED
  BY UnreadIsRefused, <1>1, <1>2, <1>3, <1>4, <1>5, <1>6, <1>7, <1>8, <1>9, <1>10, <1>11, <1>12,
     <1>13, <1>14, <1>15, <1>16
     DEF Next, Command, Continue, vars

\* The workers keep their types.
LEMMA WorkerTypesStep ==
    ASSUME SessionInv, [Next]_vars
    PROVE  WorkerTypes'
<1>1. ASSUME UNCHANGED <<workers, worker>> PROVE WorkerTypes'
  BY ZenonT(40), <1>1 DEF SessionInv, Types, WorkerTypes
<1>2. ASSUME NEW c \in Clients,
             \/ Pause(c) \/ Resume(c) \/ Stop(c) \/ Preflight(c) \/ StartRefused(c)
             \/ StartFailed(c) \/ StartCapture(c) \/ StartName(c) \/ PauseAnswered(c)
             \/ WaitInVain(c) \/ PauseShow(c) \/ ResumeAnswered(c) \/ ResumeShow(c)
             \/ StopJoin(c) \/ StopBarrier(c) \/ StopTimeout(c) \/ StopFinish(c)
             \/ StopReady(c) \/ RecoverShow(c) \/ RecoverDrained(c) \/ RecoverFailed(c)
             \/ RecoverRecord(c) \/ RecoverRecordRefused(c)
             \/ \E m \in Meetings : Open(c, m)
             \/ \E m \in Meetings : OpenAfterRetry(c, m)
             \/ \E m \in Meetings : \E action \in {"recover", "finalize"} : Recover(c, m, action)
      PROVE  UNCHANGED <<workers, worker>>
  BY <1>2 DEF Pause, Resume, Stop, Preflight, Open, OpenAfterRetry, Recover, StartRefused, StartFailed,
    StartCapture, StartName, PauseAnswered, WaitInVain, PauseShow, ShowAs, ResumeAnswered,
    ResumeShow, StopJoin, StopBarrier, StopTimeout, StopFinish, LeaveRow, StopReady, RecoverShow,
    RecoverDrained, RecoverFailed, RecoverRecord, RecoverRecordRefused
<1>3. ASSUME NEW m \in Meetings,
             CoordinatorEnds(m)
      PROVE  UNCHANGED <<workers, worker>>
  BY <1>3 DEF CoordinatorEnds
<1> USE DEF SessionInv, Types, WorkerTypes
<1>4. ASSUME NEW c \in Clients, NEW l \in Languages, PrepareLanguage(c, l), UNCHANGED lang
      PROVE  WorkerTypes'
  BY <1>4, CallsAreCalm DEF PrepareLanguage, Call, WorkerTypes, Calm, CalmTo
<1>5. ASSUME NEW c \in Clients, NEW l \in Languages, WorkerLeftBehind(c, l), UNCHANGED lang
      PROVE  WorkerTypes'
  BY <1>5 DEF WorkerLeftBehind, Call, WorkerTypes
<1>6. ASSUME NEW c \in Clients, NEW l \in Languages, PrepareFailed(c, l), UNCHANGED lang
      PROVE  WorkerTypes'
  BY <1>6, CallsAreCalm DEF PrepareFailed, Call, NoWorker, WorkerTypes, Calm, CalmTo
<1>7. ASSUME NEW c \in Clients, NEW m \in Meetings, Start(c, m), UNCHANGED lang PROVE WorkerTypes'
  BY <1>7, CallsAreCalm DEF Start, Call, New, WorkerTypes, Calm, CalmTo
<1>8. ASSUME NEW c \in Clients, StartPrepare(c), UNCHANGED lang PROVE WorkerTypes'
  BY <1>8, CallsAreCalm DEF StartPrepare, WorkerTypes, Calm, CalmTo
<1>9. ASSUME NEW c \in Clients, RecoverWorker(c), UNCHANGED lang PROVE WorkerTypes'
  BY <1>9, CallsAreCalm DEF Calm, CalmTo
<1>10. ASSUME NEW c \in Clients, RecoverNoWorker(c), UNCHANGED lang PROVE WorkerTypes'
  BY <1>10, CallsAreCalm DEF RecoverNoWorker, NoWorker, WorkerTypes, Calm, CalmTo
<1>11. ASSUME NEW c \in Clients, RecoverSubmit(c), UNCHANGED lang PROVE WorkerTypes'
  BY <1>11, CallsAreCalm DEF RecoverSubmit, WorkerTypes, Calm, CalmTo
<1>12. ASSUME NEW gen \in Gens, BeginTask(gen), UNCHANGED lang PROVE WorkerTypes'
  BY SMTT(30), <1>12, TasksAreTaken DEF BeginTask, DropStale, Mark, WorkerTypes, CalmTo, Took
<1>13. ASSUME NEW gen \in Gens, CommitTask(gen), UNCHANGED lang PROVE WorkerTypes'
  BY <1>13, TasksAreTaken DEF CommitTask, Mark, WorkerTypes, Took
<1>14. ASSUME NEW m \in Meetings, CutFinal(m), UNCHANGED lang PROVE WorkerTypes'
  <2>1. PICK g : g = coord[m].gen
    OBVIOUS
  <2>2. workers' \in Seq(Worker) /\ Len(workers') = Len(workers)
    BY <1>14, <2>1, CutTells
  <2> QED
    BY <1>14, <2>2 DEF CutFinal, WorkerTypes, CutFinal
<1>15. ASSUME Restart, UNCHANGED lang PROVE WorkerTypes'
  BY <1>15 DEF Restart, NoHistory, WorkerTypes, Idle
<1> QED
  BY UnreadIsRefused, <1>1, <1>2, <1>3, <1>4, <1>5, <1>6, <1>7, <1>8, <1>9, <1>10, <1>11, <1>12,
     <1>13, <1>14, <1>15
     DEF Next, Command, Continue, vars

\* The coordinators keep their types.
LEMMA CoordTypesStep ==
    ASSUME SessionInv, [Next]_vars
    PROVE  CoordTypes'
<1>1. ASSUME UNCHANGED <<coord, workers>> PROVE CoordTypes'
  BY ZenonT(40), <1>1 DEF SessionInv, Types, CoordTypes
<1>2. ASSUME NEW c \in Clients,
             \/ Pause(c) \/ Resume(c) \/ Preflight(c) \/ StartRefused(c) \/ StartFailed(c)
             \/ StartName(c) \/ PauseAnswered(c) \/ WaitInVain(c) \/ PauseShow(c)
             \/ ResumeAnswered(c) \/ ResumeShow(c) \/ StopJoin(c) \/ StopBarrier(c)
             \/ StopTimeout(c) \/ StopFinish(c) \/ StopReady(c) \/ RecoverShow(c)
             \/ RecoverDrained(c) \/ RecoverFailed(c) \/ RecoverRecord(c)
             \/ RecoverRecordRefused(c)
             \/ \E l \in Languages : WorkerLeftBehind(c, l)
             \/ \E m \in Meetings : Open(c, m)
             \/ \E m \in Meetings : OpenAfterRetry(c, m)
             \/ \E m \in Meetings : \E action \in {"recover", "finalize"} : Recover(c, m, action)
      PROVE  UNCHANGED <<coord, workers>>
  BY <1>2 DEF WorkerLeftBehind, Pause, Resume, Preflight, Open, OpenAfterRetry, Recover, StartRefused,
    StartFailed, StartName, PauseAnswered, WaitInVain, PauseShow, ShowAs, ResumeAnswered,
    ResumeShow, StopJoin, StopBarrier, StopTimeout, StopFinish, LeaveRow, StopReady, RecoverShow,
    RecoverDrained, RecoverFailed, RecoverRecord, RecoverRecordRefused
<1> USE DEF SessionInv, Types, CoordTypes, WorkerTypes
<1>3. ASSUME NEW c \in Clients, NEW l \in Languages, PrepareLanguage(c, l), UNCHANGED lang
      PROVE  CoordTypes'
  <2>1. Calm
    BY <1>3, CallsAreCalm
  <2>2. Len(workers) \in Nat /\ Len(workers') \in Nat /\ Len(workers) <= Len(workers') /\ worker' \in 0..Len(workers')
    BY <2>1 DEF Calm, CalmTo, WorkerTypes
  <2> QED
    BY <1>3, <2>2 DEF PrepareLanguage, Call, WorkerTypes
<1>4. ASSUME NEW c \in Clients, NEW l \in Languages, PrepareFailed(c, l), UNCHANGED lang
      PROVE  CoordTypes'
  <2>1. Calm
    BY <1>4, CallsAreCalm
  <2>2. Len(workers) \in Nat /\ Len(workers') \in Nat /\ Len(workers) <= Len(workers') /\ worker' \in 0..Len(workers')
    BY <2>1 DEF Calm, CalmTo, WorkerTypes
  <2> QED
    BY <1>4, <2>2 DEF PrepareFailed, Call, NoWorker, WorkerTypes
<1>5. ASSUME NEW c \in Clients, Stop(c), UNCHANGED lang PROVE CoordTypes'
  BY <1>5 DEF Stop, Call, CoordTypes
<1>6. ASSUME NEW c \in Clients, NEW m \in Meetings, Start(c, m), UNCHANGED lang PROVE CoordTypes'
  <2>1. Calm
    BY <1>6, CallsAreCalm
  <2>2. Len(workers) \in Nat /\ Len(workers') \in Nat /\ Len(workers) <= Len(workers') /\ worker' \in 0..Len(workers')
    BY <2>1 DEF Calm, CalmTo, WorkerTypes
  <2> QED
    BY <1>6, <2>2 DEF Start, Call, New, WorkerTypes
<1>7. ASSUME NEW c \in Clients, StartPrepare(c), UNCHANGED lang PROVE CoordTypes'
  <2>1. Calm
    BY <1>7, CallsAreCalm
  <2>2. Len(workers) \in Nat /\ Len(workers') \in Nat /\ Len(workers) <= Len(workers') /\ worker' \in 0..Len(workers')
    BY <2>1 DEF Calm, CalmTo, WorkerTypes
  <2> QED
    BY <1>7, <2>2 DEF StartPrepare, WorkerTypes
<1>8. ASSUME NEW c \in Clients, StartCapture(c), UNCHANGED lang PROVE CoordTypes'
  BY <1>8 DEF StartCapture, CoordTypes, CallTypes
<1>9. ASSUME NEW c \in Clients, RecoverWorker(c), UNCHANGED lang PROVE CoordTypes'
  <2>1. Calm
    BY <1>9, CallsAreCalm
  <2>2. Len(workers) \in Nat /\ Len(workers') \in Nat /\ Len(workers) <= Len(workers') /\ worker' \in 0..Len(workers')
    BY <2>1 DEF Calm, CalmTo, WorkerTypes
  <2> QED
    BY <1>9, <2>2, ExchangeTouches
<1>10. ASSUME NEW c \in Clients, RecoverNoWorker(c), UNCHANGED lang PROVE CoordTypes'
  <2>1. Calm
    BY <1>10, CallsAreCalm
  <2>2. Len(workers) \in Nat /\ Len(workers') \in Nat /\ Len(workers) <= Len(workers') /\ worker' \in 0..Len(workers')
    BY <2>1 DEF Calm, CalmTo, WorkerTypes
  <2> QED
    BY <1>10, <2>2 DEF RecoverNoWorker, NoWorker, WorkerTypes
<1>11. ASSUME NEW c \in Clients, RecoverSubmit(c), UNCHANGED lang PROVE CoordTypes'
  <2>1. Calm
    BY <1>11, CallsAreCalm
  <2>2. Len(workers) \in Nat /\ Len(workers') \in Nat /\ Len(workers) <= Len(workers') /\ worker' \in 0..Len(workers')
    BY <2>1 DEF Calm, CalmTo, WorkerTypes
  <2> QED
    BY <1>11, <2>2 DEF RecoverSubmit, WorkerTypes
<1>12. ASSUME NEW gen \in Gens, BeginTask(gen), UNCHANGED lang PROVE CoordTypes'
  <2>1. Len(workers') = Len(workers)
    BY <1>12, TasksAreTaken DEF CalmTo, Took
  <2> QED
    BY <1>12, <2>1 DEF BeginTask, DropStale, Mark, WorkerTypes
<1>13. ASSUME NEW gen \in Gens, CommitTask(gen), UNCHANGED lang PROVE CoordTypes'
  <2>1. Len(workers') = Len(workers)
    BY <1>13, TasksAreTaken DEF CalmTo, Took
  <2> QED
    BY <1>13, <2>1 DEF CommitTask, Mark, WorkerTypes
<1>14. ASSUME NEW m \in Meetings, CutFinal(m), UNCHANGED lang PROVE CoordTypes'
  <2>1. PICK g : g = coord[m].gen
    OBVIOUS
  <2>2. workers' \in Seq(Worker) /\ Len(workers') = Len(workers)
    BY <1>14, <2>1, CutTells
  <2> QED
    BY <1>14, <2>2 DEF CutFinal, WorkerTypes, CutFinal
<1>15. ASSUME NEW m \in Meetings, CoordinatorEnds(m), UNCHANGED lang PROVE CoordTypes'
  BY <1>15 DEF CoordinatorEnds, CoordTypes
<1>16. ASSUME Restart, UNCHANGED lang PROVE CoordTypes'
  BY <1>16 DEF Restart, NoHistory, CoordTypes, WorkerTypes, Idle
<1> QED
  BY UnreadIsRefused, <1>1, <1>2, <1>3, <1>4, <1>5, <1>6, <1>7, <1>8, <1>9, <1>10, <1>11, <1>12,
     <1>13, <1>14, <1>15, <1>16
     DEF Next, Command, Continue, vars

\* The calls keep their types.
LEMMA CallTypesStep ==
    ASSUME SessionInv, [Next]_vars
    PROVE  CallTypes'
<1>1. ASSUME UNCHANGED <<client, workers>> PROVE CallTypes'
  BY <1>1 DEF SessionInv, Types, CallTypes
<1>2. ASSUME NEW c \in Clients,
             \/ Preflight(c)
             \/ \E l \in Languages : WorkerLeftBehind(c, l)
             \/ \E m \in Meetings : Open(c, m)
             \/ \E m \in Meetings : OpenAfterRetry(c, m)
      PROVE  UNCHANGED <<client, workers>>
  BY <1>2 DEF WorkerLeftBehind, Preflight, Open, OpenAfterRetry
<1>3. ASSUME NEW m \in Meetings,
             CoordinatorEnds(m)
      PROVE  UNCHANGED <<client, workers>>
  BY <1>3 DEF CoordinatorEnds
<1> USE DEF SessionInv, Types, CallTypes, WorkerTypes, To, Return, Idle, Pcs, StartPcs, StopPcs
<1>4. ASSUME NEW c \in Clients, NEW l \in Languages, PrepareLanguage(c, l), UNCHANGED lang
      PROVE  CallTypes'
  <2>1. Calm
    BY <1>4, CallsAreCalm
  <2>2. Len(workers) \in Nat /\ Len(workers') \in Nat /\ Len(workers) <= Len(workers') /\ worker' \in 0..Len(workers')
    BY <2>1 DEF Calm, CalmTo, WorkerTypes
  <2> QED
    BY <1>4, <2>2 DEF PrepareLanguage, Call, WorkerTypes
<1>5. ASSUME NEW c \in Clients, NEW l \in Languages, PrepareFailed(c, l), UNCHANGED lang
      PROVE  CallTypes'
  <2>1. Calm
    BY <1>5, CallsAreCalm
  <2>2. Len(workers) \in Nat /\ Len(workers') \in Nat /\ Len(workers) <= Len(workers') /\ worker' \in 0..Len(workers')
    BY <2>1 DEF Calm, CalmTo, WorkerTypes
  <2> QED
    BY <1>5, <2>2 DEF PrepareFailed, Call, NoWorker, WorkerTypes
<1>6. ASSUME NEW c \in Clients, Pause(c), UNCHANGED lang PROVE CallTypes'
  BY <1>6 DEF Pause, Call, PlaceTypes
<1>7. ASSUME NEW c \in Clients, Resume(c), UNCHANGED lang PROVE CallTypes'
  BY <1>7 DEF Resume, Call, PlaceTypes
<1>8. ASSUME NEW c \in Clients, Stop(c), UNCHANGED lang PROVE CallTypes'
  BY <1>8 DEF Stop, Call, PlaceTypes
<1>9. ASSUME NEW c \in Clients, NEW m \in Meetings, Start(c, m), UNCHANGED lang PROVE CallTypes'
  <2>1. Calm
    BY <1>9, CallsAreCalm
  <2>2. Len(workers) \in Nat /\ Len(workers') \in Nat /\ Len(workers) <= Len(workers') /\ worker' \in 0..Len(workers')
    BY <2>1 DEF Calm, CalmTo, WorkerTypes
  <2> QED
    BY <1>9, <2>2 DEF Start, Call, New, WorkerTypes
<1>10. ASSUME NEW c \in Clients, NEW m \in Meetings, NEW action \in {"recover", "finalize"}, Recover(c, m, action), UNCHANGED lang
      PROVE  CallTypes'
  <2>1. client' = [client EXCEPT ![c] = [Idle EXCEPT !.pc = action, !.m = m]] /\ workers' = workers
    BY <1>10 DEF Recover
  <2>2. action \in Pcs /\ 0 \in 0..Len(workers)
    OBVIOUS
  <2>3. [Idle EXCEPT !.pc = action, !.m = m] \in [pc : Pcs, m : {0} \cup Meetings, gen : 0..Len(workers)]
    BY <2>2
  <2> QED
    BY <2>1, <2>3
<1>11. ASSUME NEW c \in Clients, StartRefused(c), UNCHANGED lang PROVE CallTypes'
  BY <1>11 DEF StartRefused, FinishRow, LeaveRow
<1>12. ASSUME NEW c \in Clients, StartPrepare(c), UNCHANGED lang PROVE CallTypes'
  <2>1. Calm
    BY <1>12, CallsAreCalm
  <2>2. Len(workers) \in Nat /\ Len(workers') \in Nat /\ Len(workers) <= Len(workers') /\ worker' \in 0..Len(workers')
    BY <2>1 DEF Calm, CalmTo, WorkerTypes
  <2>3. client \in [Clients -> [pc : Pcs, m : {0} \cup Meetings, gen : 0..Len(workers')]]
    <3>1. \A d \in Clients : client[d] \in [pc : Pcs, m : {0} \cup Meetings, gen : 0..Len(workers)]
      OBVIOUS
    <3>2. 0..Len(workers) \subseteq 0..Len(workers')
      BY <2>2
    <3>3. \A d \in Clients : client[d] \in [pc : Pcs, m : {0} \cup Meetings, gen : 0..Len(workers')]
      BY <3>1, <3>2
    <3> QED
      BY <3>3
  <2>4. client' = [client EXCEPT ![c].pc = "capture"]
    BY <1>12 DEF StartPrepare
  <2>5. "capture" \in Pcs
    OBVIOUS
  <2> QED
    BY ONLY <2>2, <2>3, <2>4, <2>5
<1>13. ASSUME NEW c \in Clients, StartFailed(c), UNCHANGED lang PROVE CallTypes'
  BY <1>13 DEF StartFailed, FinishRow, LeaveRow, MirrorClosed, Failed
<1>14. ASSUME NEW c \in Clients, StartCapture(c), UNCHANGED lang PROVE CallTypes'
  BY ZenonT(40), <1>14 DEF StartCapture
<1>15. ASSUME NEW c \in Clients, StartName(c), UNCHANGED lang PROVE CallTypes'
  BY <1>15 DEF StartName
<1>16. ASSUME NEW c \in Clients, PauseAnswered(c), UNCHANGED lang PROVE CallTypes'
  BY ZenonT(40), <1>16 DEF PauseAnswered
<1>17. ASSUME NEW c \in Clients, WaitInVain(c), UNCHANGED lang PROVE CallTypes'
  BY <1>17 DEF WaitInVain
<1>18. ASSUME NEW c \in Clients, PauseShow(c), UNCHANGED lang PROVE CallTypes'
  BY <1>18 DEF PauseShow, ShowAs
<1>19. ASSUME NEW c \in Clients, ResumeAnswered(c), UNCHANGED lang PROVE CallTypes'
  BY ZenonT(40), <1>19 DEF ResumeAnswered
<1>20. ASSUME NEW c \in Clients, ResumeShow(c), UNCHANGED lang PROVE CallTypes'
  BY <1>20 DEF ResumeShow, ShowAs
<1>21. ASSUME NEW c \in Clients, StopJoin(c), UNCHANGED lang PROVE CallTypes'
  BY <1>21 DEF StopJoin
<1>22. ASSUME NEW c \in Clients, StopBarrier(c), UNCHANGED lang PROVE CallTypes'
  BY <1>22 DEF StopBarrier, MirrorClosed, Barrier
<1>23. ASSUME NEW c \in Clients, StopTimeout(c), UNCHANGED lang PROVE CallTypes'
  BY <1>23 DEF StopTimeout
<1>24. ASSUME NEW c \in Clients, StopFinish(c), UNCHANGED lang PROVE CallTypes'
  <2>1. workers' = workers /\ (client' = [client EXCEPT ![c].pc = "ready"] \/ client' = [client EXCEPT ![c] = Idle])
    BY <1>24 DEF StopFinish, LeaveRow
  <2>2. CASE client' = [client EXCEPT ![c].pc = "ready"]
    BY <2>1, <2>2
  <2>3. CASE client' = [client EXCEPT ![c] = Idle]
    BY <2>1, <2>3
  <2> QED
    BY ONLY <2>1, <2>2, <2>3
<1>25. ASSUME NEW c \in Clients, StopReady(c), UNCHANGED lang PROVE CallTypes'
  BY <1>25 DEF StopReady
<1>26. ASSUME NEW c \in Clients, RecoverShow(c), UNCHANGED lang PROVE CallTypes'
  BY <1>26 DEF RecoverShow, ShowMeeting
<1>27. ASSUME NEW c \in Clients, RecoverWorker(c), UNCHANGED lang PROVE CallTypes'
  <2>1. Calm
    BY <1>27, CallsAreCalm
  <2>2. Len(workers) \in Nat /\ Len(workers') \in Nat /\ Len(workers) <= Len(workers') /\ worker' \in 0..Len(workers')
    BY <2>1 DEF Calm, CalmTo, WorkerTypes
  <2>3. client \in [Clients -> [pc : Pcs, m : {0} \cup Meetings, gen : 0..Len(workers')]]
    <3>1. \A d \in Clients : client[d] \in [pc : Pcs, m : {0} \cup Meetings, gen : 0..Len(workers)]
      OBVIOUS
    <3>2. 0..Len(workers) \subseteq 0..Len(workers')
      BY <2>2
    <3>3. \A d \in Clients : client[d] \in [pc : Pcs, m : {0} \cup Meetings, gen : 0..Len(workers')]
      BY <3>1, <3>2
    <3> QED
      BY <3>3
  <2>4. client' = [client EXCEPT ![c].pc = "submit", ![c].gen = worker']
    BY <1>27 DEF RecoverWorker
  <2>5. "submit" \in Pcs
    OBVIOUS
  <2> QED
    BY ONLY <2>2, <2>3, <2>4, <2>5
<1>28. ASSUME NEW c \in Clients, RecoverNoWorker(c), UNCHANGED lang PROVE CallTypes'
  <2>1. Calm
    BY <1>28, CallsAreCalm
  <2>2. Len(workers) \in Nat /\ Len(workers') \in Nat /\ Len(workers) <= Len(workers') /\ worker' \in 0..Len(workers')
    BY <2>1 DEF Calm, CalmTo, WorkerTypes
  <2> QED
    BY <1>28, <2>2 DEF RecoverNoWorker, NoWorker, WorkerTypes
<1>29. ASSUME NEW c \in Clients, RecoverSubmit(c), UNCHANGED lang PROVE CallTypes'
  <2>1. Calm
    BY <1>29, CallsAreCalm
  <2>2. Len(workers) \in Nat /\ Len(workers') \in Nat /\ Len(workers) <= Len(workers') /\ worker' \in 0..Len(workers')
    BY <2>1 DEF Calm, CalmTo, WorkerTypes
  <2> QED
    BY <1>29, <2>2 DEF RecoverSubmit, WorkerTypes
<1>30. ASSUME NEW c \in Clients, RecoverDrained(c), UNCHANGED lang PROVE CallTypes'
  BY <1>30 DEF RecoverDrained
<1>31. ASSUME NEW c \in Clients, RecoverFailed(c), UNCHANGED lang PROVE CallTypes'
  BY <1>31 DEF RecoverFailed
<1>32. ASSUME NEW c \in Clients, RecoverRecord(c), UNCHANGED lang PROVE CallTypes'
  BY <1>32 DEF RecoverRecord, ShowMeeting, Finalized
<1>33. ASSUME NEW c \in Clients, RecoverRecordRefused(c), UNCHANGED lang PROVE CallTypes'
  BY <1>33 DEF RecoverRecordRefused
<1>34. ASSUME NEW gen \in Gens, BeginTask(gen), UNCHANGED lang PROVE CallTypes'
  <2>1. Len(workers') = Len(workers)
    BY <1>34, TasksAreTaken DEF CalmTo, Took
  <2> QED
    BY <1>34, <2>1 DEF BeginTask, DropStale, Mark, WorkerTypes
<1>35. ASSUME NEW gen \in Gens, CommitTask(gen), UNCHANGED lang PROVE CallTypes'
  <2>1. Len(workers') = Len(workers)
    BY <1>35, TasksAreTaken DEF CalmTo, Took
  <2> QED
    BY <1>35, <2>1 DEF CommitTask, Mark, WorkerTypes
<1>36. ASSUME NEW m \in Meetings, CutFinal(m), UNCHANGED lang PROVE CallTypes'
  <2>1. PICK g : g = coord[m].gen
    OBVIOUS
  <2>2. workers' \in Seq(Worker) /\ Len(workers') = Len(workers)
    BY <1>36, <2>1, CutTells
  <2> QED
    BY <1>36, <2>2 DEF CutFinal, WorkerTypes, CutFinal
<1>37. ASSUME Restart, UNCHANGED lang PROVE CallTypes'
  BY <1>37 DEF Restart, NoHistory, WorkerTypes, Idle
<1> QED
  BY UnreadIsRefused, <1>1, <1>2, <1>3, <1>4, <1>5, <1>6, <1>7, <1>8, <1>9, <1>10, <1>11, <1>12,
     <1>13, <1>14, <1>15, <1>16, <1>17, <1>18, <1>19, <1>20, <1>21, <1>22, <1>23,
     <1>24, <1>25, <1>26, <1>27, <1>28, <1>29, <1>30, <1>31, <1>32, <1>33, <1>34,
     <1>35, <1>36, <1>37
     DEF Next, Command, Continue, vars

\* The history keeps its types.
LEMMA HistoryTypesStep ==
    ASSUME SessionInv, [Next]_vars
    PROVE  HistoryTypes'
<1>1. ASSUME UNCHANGED <<history>> PROVE HistoryTypes'
  BY ZenonT(40), <1>1 DEF SessionInv, Types, HistoryTypes
<1>2. ASSUME NEW c \in Clients,
             \/ Pause(c) \/ Resume(c) \/ Stop(c) \/ StartPrepare(c) \/ StartCapture(c)
             \/ StartName(c) \/ PauseAnswered(c) \/ StopJoin(c) \/ StopBarrier(c)
             \/ StopReady(c) \/ RecoverSubmit(c) \/ RecoverDrained(c) \/ RecoverFailed(c)
             \/ RecoverRecordRefused(c)
             \/ \E l \in Languages : PrepareLanguage(c, l)
             \/ \E l \in Languages : WorkerLeftBehind(c, l)
             \/ \E l \in Languages : PrepareFailed(c, l)
             \/ \E m \in Meetings : Start(c, m)
             \/ \E m \in Meetings : Open(c, m)
             \/ \E m \in Meetings : \E action \in {"recover", "finalize"} : Recover(c, m, action)
      PROVE  UNCHANGED <<history>>
  BY <1>2 DEF PrepareLanguage, WorkerLeftBehind, PrepareFailed, NoWorker, Pause, Resume, Stop, Start, Open,
    Recover, StartPrepare, StartCapture, StartName, PauseAnswered, StopJoin, StopBarrier,
    StopReady, RecoverSubmit, RecoverDrained, RecoverFailed, RecoverRecordRefused
<1>3. ASSUME NEW gen \in Gens,
             BeginTask(gen) \/ CommitTask(gen)
      PROVE  UNCHANGED <<history>>
  BY <1>3 DEF BeginTask, CommitTask
<1>4. ASSUME NEW m \in Meetings,
             CutFinal(m) \/ CoordinatorEnds(m)
      PROVE  UNCHANGED <<history>>
  BY <1>4 DEF CutFinal, CoordinatorEnds
<1> USE DEF SessionInv, Types, HistoryTypes
<1>5. ASSUME NEW c \in Clients, Preflight(c), UNCHANGED lang PROVE HistoryTypes'
  BY <1>5 DEF Preflight, Call, PreflightMay, HistoryTypes
<1>6. ASSUME NEW c \in Clients, NEW m \in Meetings, OpenAfterRetry(c, m), UNCHANGED lang
      PROVE  HistoryTypes'
  BY <1>6, OpenedTells DEF OpenAfterRetry, Call, ShowMeeting, HistoryTypes
<1>7. ASSUME NEW c \in Clients, StartRefused(c), UNCHANGED lang PROVE HistoryTypes'
  BY <1>7, WhoWorks DEF StartRefused, FinishRow, LeaveRow, HistoryTypes, Named, Doing
<1>8. ASSUME NEW c \in Clients, StartFailed(c), UNCHANGED lang PROVE HistoryTypes'
  BY <1>8, WhoWorks DEF StartFailed, FinishRow, LeaveRow, MirrorClosed, Failed, HistoryTypes, Named, Doing
<1>9. ASSUME NEW c \in Clients, WaitInVain(c), UNCHANGED lang PROVE HistoryTypes'
  BY <1>9 DEF WaitInVain, HistoryTypes
<1>10. ASSUME NEW c \in Clients, PauseShow(c), UNCHANGED lang PROVE HistoryTypes'
  BY <1>10 DEF PauseShow, ShowAs, HistoryTypes
<1>11. ASSUME NEW c \in Clients, ResumeAnswered(c), UNCHANGED lang PROVE HistoryTypes'
  BY <1>11 DEF ResumeAnswered, HistoryTypes
<1>12. ASSUME NEW c \in Clients, ResumeShow(c), UNCHANGED lang PROVE HistoryTypes'
  BY <1>12 DEF ResumeShow, ShowAs, HistoryTypes
<1>13. ASSUME NEW c \in Clients, StopTimeout(c), UNCHANGED lang PROVE HistoryTypes'
  BY <1>13, WhoWorks DEF StopTimeout, HistoryTypes, Named, Doing
<1>14. ASSUME NEW c \in Clients, StopFinish(c), UNCHANGED lang PROVE HistoryTypes'
  BY <1>14, WhoWorks DEF StopFinish, LeaveRow, HistoryTypes, Named, Doing
<1>15. ASSUME NEW c \in Clients, RecoverShow(c), UNCHANGED lang PROVE HistoryTypes'
  BY <1>15, OpenedTells DEF RecoverShow, ShowMeeting, HistoryTypes
<1>16. ASSUME NEW c \in Clients, RecoverWorker(c), UNCHANGED lang PROVE HistoryTypes'
  BY <1>16, ExchangeTouches DEF RecoverWorker, HistoryTypes
<1>17. ASSUME NEW c \in Clients, RecoverNoWorker(c), UNCHANGED lang PROVE HistoryTypes'
  BY <1>17 DEF RecoverNoWorker, NoWorker, HistoryTypes
<1>18. ASSUME NEW c \in Clients, RecoverRecord(c), UNCHANGED lang PROVE HistoryTypes'
  BY <1>18, OpenedTells DEF RecoverRecord, ShowMeeting, Finalized, HistoryTypes
<1>19. ASSUME Restart, UNCHANGED lang PROVE HistoryTypes'
  BY <1>19 DEF Restart, NoHistory, HistoryTypes, Idle
<1> QED
  BY UnreadIsRefused, <1>1, <1>2, <1>3, <1>4, <1>5, <1>6, <1>7, <1>8, <1>9, <1>10, <1>11, <1>12,
     <1>13, <1>14, <1>15, <1>16, <1>17, <1>18, <1>19
     DEF Next, Command, Continue, vars

\* A call is about a meeting that exists.
LEMMA NamedStep ==
    ASSUME SessionInv, [Next]_vars
    PROVE  Named'
<1>1. ASSUME UNCHANGED <<client, stored>> PROVE Named'
  BY <1>1 DEF SessionInv, Types, Named
<1>2. ASSUME NEW c \in Clients,
             \/ \E l \in Languages : PrepareLanguage(c, l)
             \/ \E l \in Languages : WorkerLeftBehind(c, l)
             \/ \E l \in Languages : PrepareFailed(c, l)
             \/ \E m \in Meetings : Open(c, m)
             \/ \E m \in Meetings : OpenAfterRetry(c, m)
      PROVE  UNCHANGED <<client, stored>>
  BY <1>2 DEF PrepareLanguage, WorkerLeftBehind, PrepareFailed, NoWorker, Open, OpenAfterRetry
<1>3. ASSUME NEW gen \in Gens,
             BeginTask(gen) \/ CommitTask(gen)
      PROVE  UNCHANGED <<client, stored>>
  BY <1>3 DEF BeginTask, CommitTask
<1>4. ASSUME NEW m \in Meetings,
             CutFinal(m) \/ CoordinatorEnds(m)
      PROVE  UNCHANGED <<client, stored>>
  BY <1>4 DEF CutFinal, CoordinatorEnds
<1> USE DEF SessionInv, Types, Named
<1>5. ASSUME NEW c \in Clients, Pause(c), UNCHANGED lang PROVE Named'
  <2>1. Moves(c, "pausing", session, worker)
    BY <1>5, HowCallsMove
  <2> QED
    BY <1>5, <2>1 DEF Moves, Pause, Call, PlaceTypes, SessionIsRecorded
<1>6. ASSUME NEW c \in Clients, Resume(c), UNCHANGED lang PROVE Named'
  <2>1. Moves(c, "resuming", session, worker)
    BY <1>6, HowCallsMove
  <2> QED
    BY <1>6, <2>1 DEF Moves, Resume, Call, PlaceTypes, SessionIsRecorded
<1>7. ASSUME NEW c \in Clients, Stop(c), UNCHANGED lang PROVE Named'
  <2>1. Moves(c, "join", session, worker)
    BY <1>7, HowCallsMove
  <2> QED
    BY <1>7, <2>1 DEF Moves, Stop, Call, PlaceTypes, SessionIsRecorded
<1>8. ASSUME NEW c \in Clients, Preflight(c), UNCHANGED lang PROVE Named'
  BY <1>8 DEF Preflight, Call, PreflightMay, RowTypes
<1>9. ASSUME NEW c \in Clients, NEW m \in Meetings, Start(c, m), UNCHANGED lang PROVE Named'
  <2>1. Moves(c, "prepare", m, worker')
    BY <1>9, HowCallsMove
  <2> QED
    BY <1>9, <2>1 DEF Moves, Start, Call, New, RowTypes
<1>10. ASSUME NEW c \in Clients, NEW m \in Meetings, NEW action \in {"recover", "finalize"}, Recover(c, m, action), UNCHANGED lang
      PROVE  Named'
  <2>1. Moves(c, action, m, 0)
    BY <1>10, HowCallsMove
  <2> QED
    BY <1>10, <2>1 DEF Moves, Recover, Call, HistoryOpenBlocked
<1>11. ASSUME NEW c \in Clients, StartRefused(c), UNCHANGED lang PROVE Named'
  <2>1. Moves(c, "idle", 0, 0)
    BY <1>11, HowCallsMove
  <2> QED
    BY <1>11, <2>1 DEF Moves, StartRefused, FinishRow, LeaveRow, RowTypes
<1>12. ASSUME NEW c \in Clients, StartPrepare(c), UNCHANGED lang PROVE Named'
  <2>1. Moves(c, "capture", client[c].m, client[c].gen)
    BY <1>12, HowCallsMove
  <2> QED
    BY <1>12, <2>1 DEF Moves, StartPrepare
<1>13. ASSUME NEW c \in Clients, StartFailed(c), UNCHANGED lang PROVE Named'
  <2>1. Moves(c, "idle", 0, 0)
    BY <1>13, HowCallsMove
  <2> QED
    BY <1>13, <2>1 DEF Moves, StartFailed, FinishRow, LeaveRow, MirrorClosed, Failed, RowTypes
<1>14. ASSUME NEW c \in Clients, StartCapture(c), UNCHANGED lang PROVE Named'
  <2>1. Moves(c, "name", client[c].m, client[c].gen)
    BY <1>14, HowCallsMove
  <2> QED
    BY <1>14, <2>1 DEF Moves, StartCapture
<1>15. ASSUME NEW c \in Clients, StartName(c), UNCHANGED lang PROVE Named'
  <2>1. Moves(c, "idle", 0, 0)
    BY <1>15, HowCallsMove
  <2> QED
    BY <1>15, <2>1 DEF Moves, StartName
<1>16. ASSUME NEW c \in Clients, PauseAnswered(c), UNCHANGED lang PROVE Named'
  <2>1. Moves(c, "paused", client[c].m, client[c].gen)
    BY <1>16, HowCallsMove
  <2> QED
    BY <1>16, <2>1 DEF Moves, PauseAnswered
<1>17. ASSUME NEW c \in Clients, WaitInVain(c), UNCHANGED lang PROVE Named'
  <2>1. Moves(c, "idle", 0, 0)
    BY <1>17, HowCallsMove
  <2> QED
    BY <1>17, <2>1 DEF Moves, WaitInVain
<1>18. ASSUME NEW c \in Clients, PauseShow(c), UNCHANGED lang PROVE Named'
  <2>1. Moves(c, "idle", 0, 0)
    BY <1>18, HowCallsMove
  <2> QED
    BY <1>18, <2>1 DEF Moves, PauseShow, ShowAs
<1>19. ASSUME NEW c \in Clients, ResumeAnswered(c), UNCHANGED lang PROVE Named'
  <2>1. Moves(c, "resumed", client[c].m, client[c].gen)
    BY <1>19, HowCallsMove
  <2> QED
    BY <1>19, <2>1 DEF Moves, ResumeAnswered
<1>20. ASSUME NEW c \in Clients, ResumeShow(c), UNCHANGED lang PROVE Named'
  <2>1. Moves(c, "idle", 0, 0)
    BY <1>20, HowCallsMove
  <2> QED
    BY <1>20, <2>1 DEF Moves, ResumeShow, ShowAs
<1>21. ASSUME NEW c \in Clients, StopJoin(c), UNCHANGED lang PROVE Named'
  <2>1. Moves(c, "barrier", client[c].m, client[c].gen)
    BY <1>21, HowCallsMove
  <2> QED
    BY <1>21, <2>1 DEF Moves, StopJoin
<1>22. ASSUME NEW c \in Clients, StopBarrier(c), UNCHANGED lang PROVE Named'
  <2>1. Moves(c, "finish", client[c].m, client[c].gen)
    BY <1>22, HowCallsMove
  <2> QED
    BY <1>22, <2>1 DEF Moves, StopBarrier, MirrorClosed, Barrier
<1>23. ASSUME NEW c \in Clients, StopTimeout(c), UNCHANGED lang PROVE Named'
  <2>1. Moves(c, "idle", 0, 0)
    BY <1>23, HowCallsMove
  <2> QED
    BY <1>23, <2>1 DEF Moves, StopTimeout
<1>24. ASSUME NEW c \in Clients, StopFinish(c), UNCHANGED lang PROVE Named'
  <2>1. Moves(c, "ready", client[c].m, client[c].gen) \/ Moves(c, "idle", 0, 0)
    BY <1>24, HowCallsMove
  <2> QED
    BY <1>24, <2>1 DEF Moves, StopFinish, LeaveRow, RowTypes
<1>25. ASSUME NEW c \in Clients, StopReady(c), UNCHANGED lang PROVE Named'
  <2>1. Moves(c, "idle", 0, 0)
    BY <1>25, HowCallsMove
  <2> QED
    BY <1>25, <2>1 DEF Moves, StopReady
<1>26. ASSUME NEW c \in Clients, RecoverShow(c), UNCHANGED lang PROVE Named'
  <2>1. Moves(c, "tail", client[c].m, client[c].gen)
    BY <1>26, HowCallsMove
  <2> QED
    BY <1>26, <2>1 DEF Moves, RecoverShow, ShowMeeting
<1>27. ASSUME NEW c \in Clients, RecoverWorker(c), UNCHANGED lang PROVE Named'
  <2>1. Moves(c, "submit", client[c].m, worker')
    BY <1>27, HowCallsMove
  <2> QED
    BY <2>1, <1>27, ExchangeTouches, WhoWorks DEF Moves
<1>28. ASSUME NEW c \in Clients, RecoverNoWorker(c), UNCHANGED lang PROVE Named'
  <2>1. Moves(c, "idle", 0, 0)
    BY <1>28, HowCallsMove
  <2> QED
    BY <1>28, <2>1 DEF Moves, RecoverNoWorker, NoWorker
<1>29. ASSUME NEW c \in Clients, RecoverSubmit(c), UNCHANGED lang PROVE Named'
  <2>1. Moves(c, "drain", client[c].m, client[c].gen)
    BY <1>29, HowCallsMove
  <2> QED
    BY <1>29, <2>1 DEF Moves, RecoverSubmit
<1>30. ASSUME NEW c \in Clients, RecoverDrained(c), UNCHANGED lang PROVE Named'
  <2>1. Moves(c, "record", client[c].m, client[c].gen)
    BY <1>30, HowCallsMove
  <2> QED
    BY <1>30, <2>1 DEF Moves, RecoverDrained
<1>31. ASSUME NEW c \in Clients, RecoverFailed(c), UNCHANGED lang PROVE Named'
  <2>1. Moves(c, "idle", 0, 0)
    BY <1>31, HowCallsMove
  <2> QED
    BY <1>31, <2>1 DEF Moves, RecoverFailed
<1>32. ASSUME NEW c \in Clients, RecoverRecord(c), UNCHANGED lang PROVE Named'
  <2>1. Moves(c, "idle", 0, 0)
    BY <1>32, HowCallsMove
  <2> QED
    BY <1>32, <2>1 DEF Moves, RecoverRecord, ShowMeeting, Finalized, RowTypes
<1>33. ASSUME NEW c \in Clients, RecoverRecordRefused(c), UNCHANGED lang PROVE Named'
  <2>1. Moves(c, "idle", 0, 0)
    BY <1>33, HowCallsMove
  <2> QED
    BY <1>33, <2>1 DEF Moves, RecoverRecordRefused
<1>34. ASSUME Restart, UNCHANGED lang PROVE Named'
  BY <1>34 DEF Restart, NoHistory, Idle
<1> QED
  BY UnreadIsRefused, <1>1, <1>2, <1>3, <1>4, <1>5, <1>6, <1>7, <1>8, <1>9, <1>10, <1>11, <1>12,
     <1>13, <1>14, <1>15, <1>16, <1>17, <1>18, <1>19, <1>20, <1>21, <1>22, <1>23,
     <1>24, <1>25, <1>26, <1>27, <1>28, <1>29, <1>30, <1>31, <1>32, <1>33, <1>34
     DEF Next, Command, Continue, vars

\* Of a meeting that has no coordinator yet nothing has been cut.
LEMMA FreshStep ==
    ASSUME SessionInv, [Next]_vars
    PROVE  Fresh'
<1>1. ASSUME UNCHANGED <<client, stored, history, coord, finals>> PROVE Fresh'
  BY <1>1 DEF SessionInv, Types, Fresh, Doing
<1>2. ASSUME NEW c \in Clients,
             \/ \E l \in Languages : PrepareLanguage(c, l)
             \/ \E l \in Languages : WorkerLeftBehind(c, l)
             \/ \E l \in Languages : PrepareFailed(c, l)
             \/ \E m \in Meetings : Open(c, m)
      PROVE  UNCHANGED <<client, stored, history, coord, finals>>
  BY <1>2 DEF PrepareLanguage, WorkerLeftBehind, PrepareFailed, NoWorker, Open
<1>3. ASSUME NEW gen \in Gens,
             BeginTask(gen)
      PROVE  UNCHANGED <<client, stored, history, coord, finals>>
  BY <1>3 DEF BeginTask
<1> USE DEF SessionInv, Types, Fresh, Doing, StartPcs
<1>4. ASSUME NEW c \in Clients, Pause(c), UNCHANGED lang PROVE Fresh'
  <2>1. Moves(c, "pausing", session, worker)
    BY <1>4, HowCallsMove
  <2> QED
    BY <1>4, <2>1 DEF Moves, Pause, Call
<1>5. ASSUME NEW c \in Clients, Resume(c), UNCHANGED lang PROVE Fresh'
  <2>1. Moves(c, "resuming", session, worker)
    BY <1>5, HowCallsMove
  <2> QED
    BY <1>5, <2>1 DEF Moves, Resume, Call
<1>6. ASSUME NEW c \in Clients, Stop(c), UNCHANGED lang PROVE Fresh'
  <2>1. Moves(c, "join", session, worker)
    BY <1>6, HowCallsMove
  <2> QED
    BY <1>6, <2>1 DEF Moves, Stop, Call, CoordTypes, SessionIsRecorded, PlaceTypes, CoordTypes
<1>7. ASSUME NEW c \in Clients, Preflight(c), UNCHANGED lang PROVE Fresh'
  BY <1>7 DEF Preflight, Call, PreflightMay, HistoryTypes, RowTypes
<1>8. ASSUME NEW c \in Clients, NEW m \in Meetings, Start(c, m), UNCHANGED lang PROVE Fresh'
  <2>1. Moves(c, "prepare", m, worker')
    BY <1>8, HowCallsMove
  <2> QED
    BY <1>8, <2>1, WhoWorks DEF Moves, Start, Call, New, RowTypes, Named
<1>9. ASSUME NEW c \in Clients, NEW m \in Meetings, OpenAfterRetry(c, m), UNCHANGED lang
      PROVE  Fresh'
  BY <1>9, OpenedTells DEF OpenAfterRetry, Call, ShowMeeting, HistoryTypes
<1>10. ASSUME NEW c \in Clients, NEW m \in Meetings, NEW action \in {"recover", "finalize"}, Recover(c, m, action), UNCHANGED lang
      PROVE  Fresh'
  <2>1. Moves(c, action, m, 0)
    BY <1>10, HowCallsMove
  <2> QED
    BY <1>10, <2>1 DEF Moves, Recover, Call, HistoryOpenBlocked
<1>11. ASSUME NEW c \in Clients, StartRefused(c), UNCHANGED lang PROVE Fresh'
  <2>1. Moves(c, "idle", 0, 0)
    BY <1>11, HowCallsMove
  <2> QED
    BY <1>11, <2>1, WhoWorks DEF Moves, StartRefused, FinishRow, LeaveRow, HistoryTypes, RowTypes
<1>12. ASSUME NEW c \in Clients, StartPrepare(c), UNCHANGED lang PROVE Fresh'
  <2>1. Moves(c, "capture", client[c].m, client[c].gen)
    BY <1>12, HowCallsMove
  <2> QED
    BY <1>12, <2>1, WhoWorks DEF Moves, StartPrepare
<1>13. ASSUME NEW c \in Clients, StartFailed(c), UNCHANGED lang PROVE Fresh'
  <2>1. Moves(c, "idle", 0, 0)
    BY <1>13, HowCallsMove
  <2> QED
    BY ZenonT(40), <1>13, <2>1, WhoWorks DEF Moves, StartFailed, FinishRow, LeaveRow, MirrorClosed, Failed, HistoryTypes, RowTypes
<1>14. ASSUME NEW c \in Clients, StartCapture(c), UNCHANGED lang PROVE Fresh'
  <2>1. Moves(c, "name", client[c].m, client[c].gen)
    BY <1>14, HowCallsMove
  <2> QED
    BY <1>14, <2>1, WhoWorks DEF Moves, StartCapture, CoordTypes, CoordTypes
<1>15. ASSUME NEW c \in Clients, StartName(c), UNCHANGED lang PROVE Fresh'
  <2>1. Moves(c, "idle", 0, 0)
    BY <1>15, HowCallsMove
  <2> QED
    BY <1>15, <2>1, WhoWorks DEF Moves, StartName
<1>16. ASSUME NEW c \in Clients, PauseAnswered(c), UNCHANGED lang PROVE Fresh'
  <2>1. Moves(c, "paused", client[c].m, client[c].gen)
    BY <1>16, HowCallsMove
  <2> QED
    BY <1>16, <2>1 DEF Moves, PauseAnswered
<1>17. ASSUME NEW c \in Clients, WaitInVain(c), UNCHANGED lang PROVE Fresh'
  <2>1. Moves(c, "idle", 0, 0)
    BY <1>17, HowCallsMove
  <2> QED
    BY <1>17, <2>1 DEF Moves, WaitInVain, HistoryTypes
<1>18. ASSUME NEW c \in Clients, PauseShow(c), UNCHANGED lang PROVE Fresh'
  <2>1. Moves(c, "idle", 0, 0)
    BY <1>18, HowCallsMove
  <2> QED
    BY <1>18, <2>1 DEF Moves, PauseShow, ShowAs, HistoryTypes
<1>19. ASSUME NEW c \in Clients, ResumeAnswered(c), UNCHANGED lang PROVE Fresh'
  <2>1. Moves(c, "resumed", client[c].m, client[c].gen)
    BY <1>19, HowCallsMove
  <2> QED
    BY <1>19, <2>1 DEF Moves, ResumeAnswered, HistoryTypes
<1>20. ASSUME NEW c \in Clients, ResumeShow(c), UNCHANGED lang PROVE Fresh'
  <2>1. Moves(c, "idle", 0, 0)
    BY <1>20, HowCallsMove
  <2> QED
    BY <1>20, <2>1 DEF Moves, ResumeShow, ShowAs, HistoryTypes
<1>21. ASSUME NEW c \in Clients, StopJoin(c), UNCHANGED lang PROVE Fresh'
  <2>1. Moves(c, "barrier", client[c].m, client[c].gen)
    BY <1>21, HowCallsMove
  <2> QED
    BY <1>21, <2>1 DEF Moves, StopJoin
<1>22. ASSUME NEW c \in Clients, StopBarrier(c), UNCHANGED lang PROVE Fresh'
  <2>1. Moves(c, "finish", client[c].m, client[c].gen)
    BY <1>22, HowCallsMove
  <2> QED
    BY <1>22, <2>1 DEF Moves, StopBarrier, MirrorClosed, Barrier
<1>23. ASSUME NEW c \in Clients, StopTimeout(c), UNCHANGED lang PROVE Fresh'
  <2>1. Moves(c, "idle", 0, 0)
    BY <1>23, HowCallsMove
  <2> QED
    BY <1>23, <2>1 DEF Moves, StopTimeout, HistoryTypes
<1>24. ASSUME NEW c \in Clients, StopFinish(c), UNCHANGED lang PROVE Fresh'
  <2> DEFINE m == client[c].m
  <2>1. /\ UNCHANGED <<inner, session, shown, worker, workers, coord, gate, finals, marked, mirrors>>
        /\ client[c].pc = "finish" /\ m \in Meetings /\ m # session /\ stored[m] # "none"
        /\ coord[m].pc = "ended" /\ m \notin mirrors
        /\ history'.opened = history.opened /\ history'.preflighted = history.preflighted
        /\ history'.crossed = history.crossed /\ history'.replaced = history.replaced
        /\ \A x \in Meetings : x # m => stored'[x] = stored[x]
    BY <1>24, FinishTells
  <2>0. \A d \in Clients : Doing(d, StartPcs \cup StopPcs) =>
                  client[d].m \in Meetings /\ (client[d].m = m => d = c)
    BY <2>1, WhoWorks DEF Doing, StopPcs
  <2>2. CASE Finished(c)
    BY <2>0, <2>1, <2>2 DEF Moves, Finished
  <2>3. CASE Unfinished(c)
    BY <2>0, <2>1, <2>3 DEF Moves, Unfinished
  <2>4. CASE Unanswered(c)
    BY <2>0, <2>1, <2>4 DEF Moves, Unanswered
  <2> QED
    BY <1>24, <2>2, <2>3, <2>4, FinishTells
<1>25. ASSUME NEW c \in Clients, StopReady(c), UNCHANGED lang PROVE Fresh'
  <2>1. Moves(c, "idle", 0, 0)
    BY <1>25, HowCallsMove
  <2> QED
    BY <1>25, <2>1 DEF Moves, StopReady
<1>26. ASSUME NEW c \in Clients, RecoverShow(c), UNCHANGED lang PROVE Fresh'
  <2>1. Moves(c, "tail", client[c].m, client[c].gen)
    BY <1>26, HowCallsMove
  <2> QED
    BY <1>26, <2>1, OpenedTells DEF Moves, RecoverShow, ShowMeeting, HistoryTypes
<1>27. ASSUME NEW c \in Clients, RecoverWorker(c), UNCHANGED lang PROVE Fresh'
  <2>1. Moves(c, "submit", client[c].m, worker')
    BY <1>27, HowCallsMove
  <2> QED
    BY <2>1, <1>27, ExchangeTouches, WhoWorks DEF Moves
<1>28. ASSUME NEW c \in Clients, RecoverNoWorker(c), UNCHANGED lang PROVE Fresh'
  <2>1. Moves(c, "idle", 0, 0)
    BY <1>28, HowCallsMove
  <2> QED
    BY <1>28, <2>1 DEF Moves, RecoverNoWorker, NoWorker, HistoryTypes
<1>29. ASSUME NEW c \in Clients, RecoverSubmit(c), UNCHANGED lang PROVE Fresh'
  <2>1. Moves(c, "drain", client[c].m, client[c].gen)
    BY <1>29, HowCallsMove
  <2> QED
    BY <1>29, <2>1 DEF Moves, RecoverSubmit
<1>30. ASSUME NEW c \in Clients, RecoverDrained(c), UNCHANGED lang PROVE Fresh'
  <2>1. Moves(c, "record", client[c].m, client[c].gen)
    BY <1>30, HowCallsMove
  <2> QED
    BY <1>30, <2>1 DEF Moves, RecoverDrained
<1>31. ASSUME NEW c \in Clients, RecoverFailed(c), UNCHANGED lang PROVE Fresh'
  <2>1. Moves(c, "idle", 0, 0)
    BY <1>31, HowCallsMove
  <2> QED
    BY <1>31, <2>1 DEF Moves, RecoverFailed
<1>32. ASSUME NEW c \in Clients, RecoverRecord(c), UNCHANGED lang PROVE Fresh'
  <2>1. Moves(c, "idle", 0, 0)
    BY <1>32, HowCallsMove
  <2> QED
    BY <1>32, <2>1, OpenedTells DEF Moves, RecoverRecord, ShowMeeting, Finalized, HistoryTypes, RowTypes
<1>33. ASSUME NEW c \in Clients, RecoverRecordRefused(c), UNCHANGED lang PROVE Fresh'
  <2>1. Moves(c, "idle", 0, 0)
    BY <1>33, HowCallsMove
  <2> QED
    BY <1>33, <2>1 DEF Moves, RecoverRecordRefused
<1>34. ASSUME NEW gen \in Gens, CommitTask(gen), UNCHANGED lang PROVE Fresh'
  <2>1. PICK t : t = Head(workers[gen].tasks)
    OBVIOUS
  <2>2. UNCHANGED <<stored, client, coord, history>> /\ t.m \in Meetings /\ StoredOrMarked(t)
    BY <1>34, <2>1, CommitTells DEF Task
  <2>3. \A x \in Meetings : finals'[x].cut = finals[x].cut
    BY <2>2 DEF StoredOrMarked
  <2> QED
    BY <2>2, <2>3 DEF Fresh, Doing
<1>35. ASSUME NEW m \in Meetings, CutFinal(m), UNCHANGED lang PROVE Fresh'
  BY <1>35 DEF CutFinal, RowTypes
<1>36. ASSUME NEW m \in Meetings, CoordinatorEnds(m), UNCHANGED lang PROVE Fresh'
  BY <1>36 DEF CoordinatorEnds, CoordTypes
<1>37. ASSUME Restart, UNCHANGED lang PROVE Fresh'
  BY <1>37 DEF Restart, NoHistory, CoordTypes, HistoryTypes, RowsFirst, Idle
<1> QED
  BY UnreadIsRefused, <1>1, <1>2, <1>3, <1>4, <1>5, <1>6, <1>7, <1>8, <1>9, <1>10, <1>11, <1>12,
     <1>13, <1>14, <1>15, <1>16, <1>17, <1>18, <1>19, <1>20, <1>21, <1>22, <1>23,
     <1>24, <1>25, <1>26, <1>27, <1>28, <1>29, <1>30, <1>31, <1>32, <1>33, <1>34,
     <1>35, <1>36, <1>37
     DEF Next, Command, Continue, vars

\* A start holds the mutex.
LEMMA LockedStep ==
    ASSUME SessionInv, [Next]_vars
    PROVE  Locked'
<1>1. ASSUME UNCHANGED <<client, inner, session>> PROVE Locked'
  BY <1>1 DEF SessionInv, Types, Locked, Doing
<1>2. ASSUME NEW c \in Clients,
             \/ Preflight(c)
             \/ \E l \in Languages : PrepareLanguage(c, l)
             \/ \E l \in Languages : WorkerLeftBehind(c, l)
             \/ \E l \in Languages : PrepareFailed(c, l)
             \/ \E m \in Meetings : Open(c, m)
             \/ \E m \in Meetings : OpenAfterRetry(c, m)
      PROVE  UNCHANGED <<client, inner, session>>
  BY <1>2 DEF PrepareLanguage, WorkerLeftBehind, PrepareFailed, NoWorker, Preflight, Open, OpenAfterRetry
<1>3. ASSUME NEW gen \in Gens,
             BeginTask(gen) \/ CommitTask(gen)
      PROVE  UNCHANGED <<client, inner, session>>
  BY <1>3 DEF BeginTask, CommitTask
<1>4. ASSUME NEW m \in Meetings,
             CutFinal(m) \/ CoordinatorEnds(m)
      PROVE  UNCHANGED <<client, inner, session>>
  BY <1>4 DEF CutFinal, CoordinatorEnds
<1> USE SessionAssumption DEF SessionInv, Locked, Doing, StartPcs
<1>5. ASSUME NEW c \in Clients, Pause(c), UNCHANGED lang PROVE Locked'
  <2>1. Moves(c, "pausing", session, worker)
    BY <1>5, HowCallsMove
  <2> QED
    BY <1>5, <2>1 DEF Moves, Pause, Call
<1>6. ASSUME NEW c \in Clients, Resume(c), UNCHANGED lang PROVE Locked'
  <2>1. Moves(c, "resuming", session, worker)
    BY <1>6, HowCallsMove
  <2> QED
    BY <1>6, <2>1 DEF Moves, Resume, Call
<1>7. ASSUME NEW c \in Clients, Stop(c), UNCHANGED lang PROVE Locked'
  <2>1. Moves(c, "join", session, worker)
    BY <1>7, HowCallsMove
  <2> QED
    BY <1>7, <2>1 DEF Moves, Stop, Call
<1>8. ASSUME NEW c \in Clients, NEW m \in Meetings, Start(c, m), UNCHANGED lang PROVE Locked'
  <2>1. Moves(c, "prepare", m, worker')
    BY <1>8, HowCallsMove
  <2> QED
    BY <1>8, <2>1 DEF Moves, Start, Call, New
<1>9. ASSUME NEW c \in Clients, NEW m \in Meetings, NEW action \in {"recover", "finalize"}, Recover(c, m, action), UNCHANGED lang
      PROVE  Locked'
  <2>1. Moves(c, action, m, 0)
    BY <1>9, HowCallsMove
  <2> QED
    BY <1>9, <2>1 DEF Moves, Recover, Call, HistoryOpenBlocked
<1>10. ASSUME NEW c \in Clients, StartRefused(c), UNCHANGED lang PROVE Locked'
  <2>1. Moves(c, "idle", 0, 0)
    BY <1>10, HowCallsMove
  <2> QED
    BY <1>10, <2>1 DEF Moves, StartRefused, FinishRow, LeaveRow
<1>11. ASSUME NEW c \in Clients, StartPrepare(c), UNCHANGED lang PROVE Locked'
  <2>1. Moves(c, "capture", client[c].m, client[c].gen)
    BY <1>11, HowCallsMove
  <2> QED
    BY <1>11, <2>1 DEF Moves, StartPrepare
<1>12. ASSUME NEW c \in Clients, StartFailed(c), UNCHANGED lang PROVE Locked'
  <2>1. Moves(c, "idle", 0, 0)
    BY <1>12, HowCallsMove
  <2> QED
    BY <1>12, <2>1 DEF Moves, StartFailed, FinishRow, LeaveRow, MirrorClosed, Failed
<1>13. ASSUME NEW c \in Clients, StartCapture(c), UNCHANGED lang PROVE Locked'
  <2>1. Moves(c, "name", client[c].m, client[c].gen)
    BY <1>13, HowCallsMove
  <2> QED
    BY <1>13, <2>1 DEF Moves, StartCapture
<1>14. ASSUME NEW c \in Clients, StartName(c), UNCHANGED lang PROVE Locked'
  <2>1. Moves(c, "idle", 0, 0)
    BY <1>14, HowCallsMove
  <2> QED
    BY <1>14, <2>1 DEF Moves, StartName
<1>15. ASSUME NEW c \in Clients, PauseAnswered(c), UNCHANGED lang PROVE Locked'
  <2>1. Moves(c, "paused", client[c].m, client[c].gen)
    BY <1>15, HowCallsMove
  <2> QED
    BY <1>15, <2>1 DEF Moves, PauseAnswered
<1>16. ASSUME NEW c \in Clients, WaitInVain(c), UNCHANGED lang PROVE Locked'
  <2>1. Moves(c, "idle", 0, 0)
    BY <1>16, HowCallsMove
  <2> QED
    BY <1>16, <2>1 DEF Moves, WaitInVain
<1>17. ASSUME NEW c \in Clients, PauseShow(c), UNCHANGED lang PROVE Locked'
  <2>1. Moves(c, "idle", 0, 0)
    BY <1>17, HowCallsMove
  <2> QED
    BY <1>17, <2>1 DEF Moves, PauseShow, ShowAs
<1>18. ASSUME NEW c \in Clients, ResumeAnswered(c), UNCHANGED lang PROVE Locked'
  <2>1. Moves(c, "resumed", client[c].m, client[c].gen)
    BY <1>18, HowCallsMove
  <2> QED
    BY <1>18, <2>1 DEF Moves, ResumeAnswered
<1>19. ASSUME NEW c \in Clients, ResumeShow(c), UNCHANGED lang PROVE Locked'
  <2>1. Moves(c, "idle", 0, 0)
    BY <1>19, HowCallsMove
  <2> QED
    BY <1>19, <2>1 DEF Moves, ResumeShow, ShowAs
<1>20. ASSUME NEW c \in Clients, StopJoin(c), UNCHANGED lang PROVE Locked'
  <2>1. Moves(c, "barrier", client[c].m, client[c].gen)
    BY <1>20, HowCallsMove
  <2> QED
    BY <1>20, <2>1 DEF Moves, StopJoin
<1>21. ASSUME NEW c \in Clients, StopBarrier(c), UNCHANGED lang PROVE Locked'
  <2>1. Moves(c, "finish", client[c].m, client[c].gen)
    BY <1>21, HowCallsMove
  <2> QED
    BY <1>21, <2>1 DEF Moves, StopBarrier, MirrorClosed, Barrier
<1>22. ASSUME NEW c \in Clients, StopTimeout(c), UNCHANGED lang PROVE Locked'
  <2>1. Moves(c, "idle", 0, 0)
    BY <1>22, HowCallsMove
  <2> QED
    BY <1>22, <2>1 DEF Moves, StopTimeout
<1>23. ASSUME NEW c \in Clients, StopFinish(c), UNCHANGED lang PROVE Locked'
  <2>1. Moves(c, "ready", client[c].m, client[c].gen) \/ Moves(c, "idle", 0, 0)
    BY <1>23, HowCallsMove
  <2> QED
    BY <1>23, <2>1 DEF Moves, StopFinish, LeaveRow
<1>24. ASSUME NEW c \in Clients, StopReady(c), UNCHANGED lang PROVE Locked'
  <2>1. Moves(c, "idle", 0, 0)
    BY <1>24, HowCallsMove
  <2> QED
    BY <1>24, <2>1 DEF Moves, StopReady
<1>25. ASSUME NEW c \in Clients, RecoverShow(c), UNCHANGED lang PROVE Locked'
  <2>1. Moves(c, "tail", client[c].m, client[c].gen)
    BY <1>25, HowCallsMove
  <2> QED
    BY <1>25, <2>1 DEF Moves, RecoverShow, ShowMeeting
<1>26. ASSUME NEW c \in Clients, RecoverWorker(c), UNCHANGED lang PROVE Locked'
  <2>1. Moves(c, "submit", client[c].m, worker')
    BY <1>26, HowCallsMove
  <2> QED
    BY <2>1, <1>26, ExchangeTouches, WhoWorks DEF Moves
<1>27. ASSUME NEW c \in Clients, RecoverNoWorker(c), UNCHANGED lang PROVE Locked'
  <2>1. Moves(c, "idle", 0, 0)
    BY <1>27, HowCallsMove
  <2> QED
    BY <1>27, <2>1 DEF Moves, RecoverNoWorker, NoWorker
<1>28. ASSUME NEW c \in Clients, RecoverSubmit(c), UNCHANGED lang PROVE Locked'
  <2>1. Moves(c, "drain", client[c].m, client[c].gen)
    BY <1>28, HowCallsMove
  <2> QED
    BY <1>28, <2>1 DEF Moves, RecoverSubmit
<1>29. ASSUME NEW c \in Clients, RecoverDrained(c), UNCHANGED lang PROVE Locked'
  <2>1. Moves(c, "record", client[c].m, client[c].gen)
    BY <1>29, HowCallsMove
  <2> QED
    BY <1>29, <2>1 DEF Moves, RecoverDrained
<1>30. ASSUME NEW c \in Clients, RecoverFailed(c), UNCHANGED lang PROVE Locked'
  <2>1. Moves(c, "idle", 0, 0)
    BY <1>30, HowCallsMove
  <2> QED
    BY <1>30, <2>1 DEF Moves, RecoverFailed
<1>31. ASSUME NEW c \in Clients, RecoverRecord(c), UNCHANGED lang PROVE Locked'
  <2>1. Moves(c, "idle", 0, 0)
    BY <1>31, HowCallsMove
  <2> QED
    BY <1>31, <2>1 DEF Moves, RecoverRecord, ShowMeeting, Finalized
<1>32. ASSUME NEW c \in Clients, RecoverRecordRefused(c), UNCHANGED lang PROVE Locked'
  <2>1. Moves(c, "idle", 0, 0)
    BY <1>32, HowCallsMove
  <2> QED
    BY <1>32, <2>1 DEF Moves, RecoverRecordRefused
<1>33. ASSUME Restart, UNCHANGED lang PROVE Locked'
  BY <1>33 DEF Restart, NoHistory, Idle
<1> QED
  BY UnreadIsRefused, <1>1, <1>2, <1>3, <1>4, <1>5, <1>6, <1>7, <1>8, <1>9, <1>10, <1>11, <1>12,
     <1>13, <1>14, <1>15, <1>16, <1>17, <1>18, <1>19, <1>20, <1>21, <1>22, <1>23,
     <1>24, <1>25, <1>26, <1>27, <1>28, <1>29, <1>30, <1>31, <1>32, <1>33
     DEF Next, Command, Continue, vars

\* No meeting is started or stopped twice.
LEMMA ApartStep ==
    ASSUME SessionInv, [Next]_vars
    PROVE  Apart'
<1>1. ASSUME UNCHANGED <<client, session>> PROVE Apart'
  BY <1>1 DEF SessionInv, Types, Apart, Works, Doing
<1>2. ASSUME NEW c \in Clients,
             \/ Preflight(c)
             \/ \E l \in Languages : PrepareLanguage(c, l)
             \/ \E l \in Languages : WorkerLeftBehind(c, l)
             \/ \E l \in Languages : PrepareFailed(c, l)
             \/ \E m \in Meetings : Open(c, m)
             \/ \E m \in Meetings : OpenAfterRetry(c, m)
      PROVE  UNCHANGED <<client, session>>
  BY <1>2 DEF PrepareLanguage, WorkerLeftBehind, PrepareFailed, NoWorker, Preflight, Open, OpenAfterRetry
<1>3. ASSUME NEW gen \in Gens,
             BeginTask(gen) \/ CommitTask(gen)
      PROVE  UNCHANGED <<client, session>>
  BY <1>3 DEF BeginTask, CommitTask
<1>4. ASSUME NEW m \in Meetings,
             CutFinal(m) \/ CoordinatorEnds(m)
      PROVE  UNCHANGED <<client, session>>
  BY <1>4 DEF CutFinal, CoordinatorEnds
<1> USE NoMeeting DEF SessionInv, Apart, Works, Doing, StartPcs, StopPcs
<1>5. ASSUME NEW c \in Clients, Pause(c), UNCHANGED lang PROVE Apart'
  <2>1. Moves(c, "pausing", session, worker)
    BY <1>5, HowCallsMove
  <2> QED
    BY <1>5, <2>1 DEF Moves, Pause, Call
<1>6. ASSUME NEW c \in Clients, Resume(c), UNCHANGED lang PROVE Apart'
  <2>1. Moves(c, "resuming", session, worker)
    BY <1>6, HowCallsMove
  <2> QED
    BY <1>6, <2>1 DEF Moves, Resume, Call
<1>7. ASSUME NEW c \in Clients, Stop(c), UNCHANGED lang PROVE Apart'
  <2>1. Moves(c, "join", session, worker)
    BY <1>7, HowCallsMove
  <2> QED
    BY <1>7, <2>1 DEF Moves, Stop, Call
<1>8. ASSUME NEW c \in Clients, NEW m \in Meetings, Start(c, m), UNCHANGED lang PROVE Apart'
  <2>1. Moves(c, "prepare", m, worker')
    BY <1>8, HowCallsMove
  <2> QED
    BY <1>8, <2>1 DEF Moves, Start, Call, New, Named, SessionIsRecorded
<1>9. ASSUME NEW c \in Clients, NEW m \in Meetings, NEW action \in {"recover", "finalize"}, Recover(c, m, action), UNCHANGED lang
      PROVE  Apart'
  <2>1. Moves(c, action, m, 0)
    BY <1>9, HowCallsMove
  <2> QED
    BY <1>9, <2>1 DEF Moves, Recover, Call, HistoryOpenBlocked
<1>10. ASSUME NEW c \in Clients, StartRefused(c), UNCHANGED lang PROVE Apart'
  <2>1. Moves(c, "idle", 0, 0)
    BY <1>10, HowCallsMove
  <2> QED
    BY <1>10, <2>1 DEF Moves, StartRefused, FinishRow, LeaveRow
<1>11. ASSUME NEW c \in Clients, StartPrepare(c), UNCHANGED lang PROVE Apart'
  <2>1. Moves(c, "capture", client[c].m, client[c].gen)
    BY <1>11, HowCallsMove
  <2> QED
    BY <1>11, <2>1 DEF Moves, StartPrepare
<1>12. ASSUME NEW c \in Clients, StartFailed(c), UNCHANGED lang PROVE Apart'
  <2>1. Moves(c, "idle", 0, 0)
    BY <1>12, HowCallsMove
  <2> QED
    BY <1>12, <2>1 DEF Moves, StartFailed, FinishRow, LeaveRow, MirrorClosed, Failed
<1>13. ASSUME NEW c \in Clients, StartCapture(c), UNCHANGED lang PROVE Apart'
  <2>1. Moves(c, "name", client[c].m, client[c].gen)
    BY <1>13, HowCallsMove
  <2> QED
    BY <1>13, <2>1 DEF Moves, StartCapture
<1>14. ASSUME NEW c \in Clients, StartName(c), UNCHANGED lang PROVE Apart'
  <2>1. Moves(c, "idle", 0, 0)
    BY <1>14, HowCallsMove
  <2> QED
    BY <1>14, <2>1 DEF Moves, StartName
<1>15. ASSUME NEW c \in Clients, PauseAnswered(c), UNCHANGED lang PROVE Apart'
  <2>1. Moves(c, "paused", client[c].m, client[c].gen)
    BY <1>15, HowCallsMove
  <2> QED
    BY <1>15, <2>1 DEF Moves, PauseAnswered
<1>16. ASSUME NEW c \in Clients, WaitInVain(c), UNCHANGED lang PROVE Apart'
  <2>1. Moves(c, "idle", 0, 0)
    BY <1>16, HowCallsMove
  <2> QED
    BY <1>16, <2>1 DEF Moves, WaitInVain
<1>17. ASSUME NEW c \in Clients, PauseShow(c), UNCHANGED lang PROVE Apart'
  <2>1. Moves(c, "idle", 0, 0)
    BY <1>17, HowCallsMove
  <2> QED
    BY <1>17, <2>1 DEF Moves, PauseShow, ShowAs
<1>18. ASSUME NEW c \in Clients, ResumeAnswered(c), UNCHANGED lang PROVE Apart'
  <2>1. Moves(c, "resumed", client[c].m, client[c].gen)
    BY <1>18, HowCallsMove
  <2> QED
    BY <1>18, <2>1 DEF Moves, ResumeAnswered
<1>19. ASSUME NEW c \in Clients, ResumeShow(c), UNCHANGED lang PROVE Apart'
  <2>1. Moves(c, "idle", 0, 0)
    BY <1>19, HowCallsMove
  <2> QED
    BY <1>19, <2>1 DEF Moves, ResumeShow, ShowAs
<1>20. ASSUME NEW c \in Clients, StopJoin(c), UNCHANGED lang PROVE Apart'
  <2>1. Moves(c, "barrier", client[c].m, client[c].gen)
    BY <1>20, HowCallsMove
  <2> QED
    BY <1>20, <2>1 DEF Moves, StopJoin
<1>21. ASSUME NEW c \in Clients, StopBarrier(c), UNCHANGED lang PROVE Apart'
  <2>1. Moves(c, "finish", client[c].m, client[c].gen)
    BY <1>21, HowCallsMove
  <2> QED
    BY <1>21, <2>1 DEF Moves, StopBarrier, MirrorClosed, Barrier
<1>22. ASSUME NEW c \in Clients, StopTimeout(c), UNCHANGED lang PROVE Apart'
  <2>1. Moves(c, "idle", 0, 0)
    BY <1>22, HowCallsMove
  <2> QED
    BY <1>22, <2>1 DEF Moves, StopTimeout
<1>23. ASSUME NEW c \in Clients, StopFinish(c), UNCHANGED lang PROVE Apart'
  <2>1. Moves(c, "ready", client[c].m, client[c].gen) \/ Moves(c, "idle", 0, 0)
    BY <1>23, HowCallsMove
  <2> QED
    BY <1>23, <2>1 DEF Moves, StopFinish, LeaveRow
<1>24. ASSUME NEW c \in Clients, StopReady(c), UNCHANGED lang PROVE Apart'
  <2>1. Moves(c, "idle", 0, 0)
    BY <1>24, HowCallsMove
  <2> QED
    BY <1>24, <2>1 DEF Moves, StopReady
<1>25. ASSUME NEW c \in Clients, RecoverShow(c), UNCHANGED lang PROVE Apart'
  <2>1. Moves(c, "tail", client[c].m, client[c].gen)
    BY <1>25, HowCallsMove
  <2> QED
    BY <1>25, <2>1 DEF Moves, RecoverShow, ShowMeeting
<1>26. ASSUME NEW c \in Clients, RecoverWorker(c), UNCHANGED lang PROVE Apart'
  <2>1. Moves(c, "submit", client[c].m, worker')
    BY <1>26, HowCallsMove
  <2> QED
    BY <2>1, <1>26, ExchangeTouches, WhoWorks DEF Moves
<1>27. ASSUME NEW c \in Clients, RecoverNoWorker(c), UNCHANGED lang PROVE Apart'
  <2>1. Moves(c, "idle", 0, 0)
    BY <1>27, HowCallsMove
  <2> QED
    BY <1>27, <2>1 DEF Moves, RecoverNoWorker, NoWorker
<1>28. ASSUME NEW c \in Clients, RecoverSubmit(c), UNCHANGED lang PROVE Apart'
  <2>1. Moves(c, "drain", client[c].m, client[c].gen)
    BY <1>28, HowCallsMove
  <2> QED
    BY <1>28, <2>1 DEF Moves, RecoverSubmit
<1>29. ASSUME NEW c \in Clients, RecoverDrained(c), UNCHANGED lang PROVE Apart'
  <2>1. Moves(c, "record", client[c].m, client[c].gen)
    BY <1>29, HowCallsMove
  <2> QED
    BY <1>29, <2>1 DEF Moves, RecoverDrained
<1>30. ASSUME NEW c \in Clients, RecoverFailed(c), UNCHANGED lang PROVE Apart'
  <2>1. Moves(c, "idle", 0, 0)
    BY <1>30, HowCallsMove
  <2> QED
    BY <1>30, <2>1 DEF Moves, RecoverFailed
<1>31. ASSUME NEW c \in Clients, RecoverRecord(c), UNCHANGED lang PROVE Apart'
  <2>1. Moves(c, "idle", 0, 0)
    BY <1>31, HowCallsMove
  <2> QED
    BY <1>31, <2>1 DEF Moves, RecoverRecord, ShowMeeting, Finalized
<1>32. ASSUME NEW c \in Clients, RecoverRecordRefused(c), UNCHANGED lang PROVE Apart'
  <2>1. Moves(c, "idle", 0, 0)
    BY <1>32, HowCallsMove
  <2> QED
    BY <1>32, <2>1 DEF Moves, RecoverRecordRefused
<1>33. ASSUME Restart, UNCHANGED lang PROVE Apart'
  BY <1>33 DEF Restart, NoHistory, Types, PlaceTypes, Idle
<1> QED
  BY UnreadIsRefused, <1>1, <1>2, <1>3, <1>4, <1>5, <1>6, <1>7, <1>8, <1>9, <1>10, <1>11, <1>12,
     <1>13, <1>14, <1>15, <1>16, <1>17, <1>18, <1>19, <1>20, <1>21, <1>22, <1>23,
     <1>24, <1>25, <1>26, <1>27, <1>28, <1>29, <1>30, <1>31, <1>32, <1>33
     DEF Next, Command, Continue, vars

\* A meeting without a row has nothing else.
LEMMA RowsFirstStep ==
    ASSUME SessionInv, [Next]_vars
    PROVE  RowsFirst'
<1>1. ASSUME UNCHANGED <<stored, coord, mirrors>> PROVE RowsFirst'
  BY ZenonT(40), <1>1 DEF SessionInv, Types, RowsFirst
<1>2. ASSUME NEW c \in Clients,
             \/ Pause(c) \/ Resume(c) \/ StartName(c) \/ PauseAnswered(c) \/ WaitInVain(c)
             \/ PauseShow(c) \/ ResumeAnswered(c) \/ ResumeShow(c) \/ StopJoin(c)
             \/ StopTimeout(c) \/ StopReady(c) \/ RecoverShow(c) \/ RecoverWorker(c)
             \/ RecoverNoWorker(c) \/ RecoverSubmit(c) \/ RecoverDrained(c)
             \/ RecoverFailed(c) \/ RecoverRecordRefused(c)
             \/ \E l \in Languages : PrepareLanguage(c, l)
             \/ \E l \in Languages : WorkerLeftBehind(c, l)
             \/ \E l \in Languages : PrepareFailed(c, l)
             \/ \E m \in Meetings : Open(c, m)
             \/ \E m \in Meetings : OpenAfterRetry(c, m)
             \/ \E m \in Meetings : \E action \in {"recover", "finalize"} : Recover(c, m, action)
      PROVE  UNCHANGED <<stored, coord, mirrors>>
  BY <1>2 DEF PrepareLanguage, WorkerLeftBehind, PrepareFailed, NoWorker, Pause, Resume, Open,
    OpenAfterRetry, Recover, StartName, PauseAnswered, WaitInVain, PauseShow, ShowAs,
    ResumeAnswered, ResumeShow, StopJoin, StopTimeout, StopReady, RecoverShow, RecoverWorker,
    RecoverNoWorker, RecoverSubmit, RecoverDrained, RecoverFailed, RecoverRecordRefused
<1>3. ASSUME NEW gen \in Gens,
             BeginTask(gen) \/ CommitTask(gen)
      PROVE  UNCHANGED <<stored, coord, mirrors>>
  BY <1>3 DEF BeginTask, CommitTask
<1>4. ASSUME NEW m \in Meetings,
             CutFinal(m)
      PROVE  UNCHANGED <<stored, coord, mirrors>>
  BY <1>4 DEF CutFinal
<1> USE DEF SessionInv, Types, RowsFirst
<1>5. ASSUME NEW c \in Clients, Stop(c), UNCHANGED lang PROVE RowsFirst'
  BY <1>5 DEF Stop, Call, CoordTypes, SessionIsRecorded, PlaceTypes
<1>6. ASSUME NEW c \in Clients, Preflight(c), UNCHANGED lang PROVE RowsFirst'
  BY <1>6 DEF Preflight, Call, PreflightMay, RowTypes
<1>7. ASSUME NEW c \in Clients, NEW m \in Meetings, Start(c, m), UNCHANGED lang PROVE RowsFirst'
  BY <1>7 DEF Start, Call, New, RowTypes
<1>8. ASSUME NEW c \in Clients, StartRefused(c), UNCHANGED lang PROVE RowsFirst'
  BY <1>8 DEF StartRefused, FinishRow, LeaveRow, RowTypes
<1>9. ASSUME NEW c \in Clients, StartPrepare(c), UNCHANGED lang PROVE RowsFirst'
  BY <1>9 DEF StartPrepare, Named
<1>10. ASSUME NEW c \in Clients, StartFailed(c), UNCHANGED lang PROVE RowsFirst'
  BY <1>10 DEF StartFailed, FinishRow, LeaveRow, MirrorClosed, Failed, RowTypes
<1>11. ASSUME NEW c \in Clients, StartCapture(c), UNCHANGED lang PROVE RowsFirst'
  BY <1>11 DEF StartCapture, CoordTypes, Named, CallTypes
<1>12. ASSUME NEW c \in Clients, StopBarrier(c), UNCHANGED lang PROVE RowsFirst'
  BY <1>12 DEF StopBarrier, MirrorClosed, Barrier
<1>13. ASSUME NEW c \in Clients, StopFinish(c), UNCHANGED lang PROVE RowsFirst'
  BY <1>13 DEF StopFinish, LeaveRow, RowTypes
<1>14. ASSUME NEW c \in Clients, RecoverRecord(c), UNCHANGED lang PROVE RowsFirst'
  BY <1>14 DEF RecoverRecord, ShowMeeting, Finalized, RowTypes
<1>15. ASSUME NEW m \in Meetings, CoordinatorEnds(m), UNCHANGED lang PROVE RowsFirst'
  BY <1>15 DEF CoordinatorEnds, CoordTypes
<1>16. ASSUME Restart, UNCHANGED lang PROVE RowsFirst'
  BY ZenonT(40), <1>16 DEF Restart, NoHistory, CoordTypes, Idle
<1> QED
  BY UnreadIsRefused, <1>1, <1>2, <1>3, <1>4, <1>5, <1>6, <1>7, <1>8, <1>9, <1>10, <1>11, <1>12,
     <1>13, <1>14, <1>15, <1>16
     DEF Next, Command, Continue, vars

\* What the steps of a start find.
LEMMA StartsFindStep ==
    ASSUME SessionInv, [Next]_vars
    PROVE  StartsFind'
<1>1. ASSUME UNCHANGED <<client, stored, worker, coord, mirrors>> PROVE StartsFind'
  BY <1>1 DEF SessionInv, Types, StartsFind, Doing
<1>2. ASSUME NEW c \in Clients,
             \/ \E m \in Meetings : Open(c, m)
             \/ \E m \in Meetings : OpenAfterRetry(c, m)
      PROVE  UNCHANGED <<client, stored, worker, coord, mirrors>>
  BY <1>2 DEF Open, OpenAfterRetry
<1>3. ASSUME NEW gen \in Gens,
             BeginTask(gen) \/ CommitTask(gen)
      PROVE  UNCHANGED <<client, stored, worker, coord, mirrors>>
  BY <1>3 DEF BeginTask, CommitTask
<1>4. ASSUME NEW m \in Meetings,
             CutFinal(m)
      PROVE  UNCHANGED <<client, stored, worker, coord, mirrors>>
  BY <1>4 DEF CutFinal
<1> USE NoMeeting DEF SessionInv, Types, StartsFind, Locked, Doing, StartPcs
<1>5. ASSUME NEW c \in Clients, NEW l \in Languages, PrepareLanguage(c, l), UNCHANGED lang
      PROVE  StartsFind'
  BY <1>5, WhoWorks DEF PrepareLanguage, Call, WorkerTypes
<1>6. ASSUME NEW c \in Clients, NEW l \in Languages, WorkerLeftBehind(c, l), UNCHANGED lang
      PROVE  StartsFind'
  BY <1>6, WhoWorks DEF WorkerLeftBehind, Call, WorkerTypes
<1>7. ASSUME NEW c \in Clients, NEW l \in Languages, PrepareFailed(c, l), UNCHANGED lang
      PROVE  StartsFind'
  BY <1>7, WhoWorks DEF PrepareFailed, Call, NoWorker, WorkerTypes
<1>8. ASSUME NEW c \in Clients, Pause(c), UNCHANGED lang PROVE StartsFind'
  <2>1. Moves(c, "pausing", session, worker)
    BY <1>8, HowCallsMove
  <2> QED
    BY <1>8, <2>1 DEF Moves, Pause, Call
<1>9. ASSUME NEW c \in Clients, Resume(c), UNCHANGED lang PROVE StartsFind'
  <2>1. Moves(c, "resuming", session, worker)
    BY <1>9, HowCallsMove
  <2> QED
    BY <1>9, <2>1 DEF Moves, Resume, Call
<1>10. ASSUME NEW c \in Clients, Stop(c), UNCHANGED lang PROVE StartsFind'
  <2>1. Moves(c, "join", session, worker)
    BY <1>10, HowCallsMove
  <2> QED
    BY <1>10, <2>1 DEF Moves, Stop, Call, CoordTypes
<1>11. ASSUME NEW c \in Clients, Preflight(c), UNCHANGED lang PROVE StartsFind'
  BY <1>11, WhoWorks DEF Preflight, Call, PreflightMay, RowTypes
<1>12. ASSUME NEW c \in Clients, NEW m \in Meetings, Start(c, m), UNCHANGED lang PROVE StartsFind'
  <2>1. Moves(c, "prepare", m, worker')
    BY <1>12, HowCallsMove
  <2> QED
    BY <1>12, <2>1, WhoWorks DEF Moves, Start, Call, New, RowTypes, WorkerTypes, RowsFirst, PlaceTypes, Prepared, Serves, WorkerTypes
<1>13. ASSUME NEW c \in Clients, NEW m \in Meetings, NEW action \in {"recover", "finalize"}, Recover(c, m, action), UNCHANGED lang
      PROVE  StartsFind'
  <2>1. Moves(c, action, m, 0)
    BY <1>13, HowCallsMove
  <2> QED
    BY <1>13, <2>1 DEF Moves, Recover, Call, HistoryOpenBlocked
<1>14. ASSUME NEW c \in Clients, StartRefused(c), UNCHANGED lang PROVE StartsFind'
  <2>1. Moves(c, "idle", 0, 0)
    BY <1>14, HowCallsMove
  <2> QED
    BY <1>14, <2>1, WhoWorks DEF Moves, StartRefused, FinishRow, LeaveRow, RowTypes
<1>15. ASSUME NEW c \in Clients, StartPrepare(c), UNCHANGED lang PROVE StartsFind'
  <2>1. Moves(c, "capture", client[c].m, client[c].gen)
    BY <1>15, HowCallsMove
  <2> QED
    BY <1>15, <2>1, WhoWorks DEF Moves, StartPrepare
<1>16. ASSUME NEW c \in Clients, StartFailed(c), UNCHANGED lang PROVE StartsFind'
  <2>1. Moves(c, "idle", 0, 0)
    BY <1>16, HowCallsMove
  <2> QED
    BY <1>16, <2>1, WhoWorks DEF Moves, StartFailed, FinishRow, LeaveRow, MirrorClosed, Failed, RowTypes
<1>17. ASSUME NEW c \in Clients, StartCapture(c), UNCHANGED lang PROVE StartsFind'
  <2>1. Moves(c, "name", client[c].m, client[c].gen)
    BY <1>17, HowCallsMove
  <2> QED
    BY <1>17, <2>1, WhoWorks DEF Moves, StartCapture, CoordTypes, CoordTypes
<1>18. ASSUME NEW c \in Clients, StartName(c), UNCHANGED lang PROVE StartsFind'
  <2>1. Moves(c, "idle", 0, 0)
    BY <1>18, HowCallsMove
  <2> QED
    BY <1>18, <2>1 DEF Moves, StartName
<1>19. ASSUME NEW c \in Clients, PauseAnswered(c), UNCHANGED lang PROVE StartsFind'
  <2>1. Moves(c, "paused", client[c].m, client[c].gen)
    BY <1>19, HowCallsMove
  <2> QED
    BY <1>19, <2>1 DEF Moves, PauseAnswered
<1>20. ASSUME NEW c \in Clients, WaitInVain(c), UNCHANGED lang PROVE StartsFind'
  <2>1. Moves(c, "idle", 0, 0)
    BY <1>20, HowCallsMove
  <2> QED
    BY <1>20, <2>1 DEF Moves, WaitInVain
<1>21. ASSUME NEW c \in Clients, PauseShow(c), UNCHANGED lang PROVE StartsFind'
  <2>1. Moves(c, "idle", 0, 0)
    BY <1>21, HowCallsMove
  <2> QED
    BY <1>21, <2>1 DEF Moves, PauseShow, ShowAs
<1>22. ASSUME NEW c \in Clients, ResumeAnswered(c), UNCHANGED lang PROVE StartsFind'
  <2>1. Moves(c, "resumed", client[c].m, client[c].gen)
    BY <1>22, HowCallsMove
  <2> QED
    BY <1>22, <2>1 DEF Moves, ResumeAnswered
<1>23. ASSUME NEW c \in Clients, ResumeShow(c), UNCHANGED lang PROVE StartsFind'
  <2>1. Moves(c, "idle", 0, 0)
    BY <1>23, HowCallsMove
  <2> QED
    BY <1>23, <2>1 DEF Moves, ResumeShow, ShowAs
<1>24. ASSUME NEW c \in Clients, StopJoin(c), UNCHANGED lang PROVE StartsFind'
  <2>1. Moves(c, "barrier", client[c].m, client[c].gen)
    BY <1>24, HowCallsMove
  <2> QED
    BY <1>24, <2>1 DEF Moves, StopJoin
<1>25. ASSUME NEW c \in Clients, StopBarrier(c), UNCHANGED lang PROVE StartsFind'
  <2>1. Moves(c, "finish", client[c].m, client[c].gen)
    BY <1>25, HowCallsMove
  <2> QED
    BY <1>25, <2>1 DEF Moves, StopBarrier, MirrorClosed, Barrier
<1>26. ASSUME NEW c \in Clients, StopTimeout(c), UNCHANGED lang PROVE StartsFind'
  <2>1. Moves(c, "idle", 0, 0)
    BY <1>26, HowCallsMove
  <2> QED
    BY <1>26, <2>1 DEF Moves, StopTimeout
<1>27. ASSUME NEW c \in Clients, StopFinish(c), UNCHANGED lang PROVE StartsFind'
  <2>1. Moves(c, "ready", client[c].m, client[c].gen) \/ Moves(c, "idle", 0, 0)
    BY <1>27, HowCallsMove
  <2> QED
    BY <1>27, <2>1, WhoWorks DEF Moves, StopFinish, LeaveRow, RowTypes, StopPcs
<1>28. ASSUME NEW c \in Clients, StopReady(c), UNCHANGED lang PROVE StartsFind'
  <2>1. Moves(c, "idle", 0, 0)
    BY <1>28, HowCallsMove
  <2> QED
    BY <1>28, <2>1 DEF Moves, StopReady
<1>29. ASSUME NEW c \in Clients, RecoverShow(c), UNCHANGED lang PROVE StartsFind'
  <2>1. Moves(c, "tail", client[c].m, client[c].gen)
    BY <1>29, HowCallsMove
  <2> QED
    BY <1>29, <2>1 DEF Moves, RecoverShow, ShowMeeting
<1>30. ASSUME NEW c \in Clients, RecoverWorker(c), UNCHANGED lang PROVE StartsFind'
  <2>1. Moves(c, "submit", client[c].m, worker')
    BY <1>30, HowCallsMove
  <2> QED
    BY <2>1, <1>30, ExchangeTouches, WhoWorks DEF Moves
<1>31. ASSUME NEW c \in Clients, RecoverNoWorker(c), UNCHANGED lang PROVE StartsFind'
  <2>1. Moves(c, "idle", 0, 0)
    BY <1>31, HowCallsMove
  <2> QED
    BY <1>31, <2>1, WhoWorks DEF Moves, RecoverNoWorker, NoWorker, WorkerTypes
<1>32. ASSUME NEW c \in Clients, RecoverSubmit(c), UNCHANGED lang PROVE StartsFind'
  <2>1. Moves(c, "drain", client[c].m, client[c].gen)
    BY <1>32, HowCallsMove
  <2> QED
    BY <1>32, <2>1 DEF Moves, RecoverSubmit
<1>33. ASSUME NEW c \in Clients, RecoverDrained(c), UNCHANGED lang PROVE StartsFind'
  <2>1. Moves(c, "record", client[c].m, client[c].gen)
    BY <1>33, HowCallsMove
  <2> QED
    BY <1>33, <2>1 DEF Moves, RecoverDrained
<1>34. ASSUME NEW c \in Clients, RecoverFailed(c), UNCHANGED lang PROVE StartsFind'
  <2>1. Moves(c, "idle", 0, 0)
    BY <1>34, HowCallsMove
  <2> QED
    BY <1>34, <2>1 DEF Moves, RecoverFailed
<1>35. ASSUME NEW c \in Clients, RecoverRecord(c), UNCHANGED lang PROVE StartsFind'
  <2>1. Moves(c, "idle", 0, 0)
    BY <1>35, HowCallsMove
  <2> QED
    BY <1>35, <2>1 DEF Moves, RecoverRecord, ShowMeeting, Finalized, RowTypes
<1>36. ASSUME NEW c \in Clients, RecoverRecordRefused(c), UNCHANGED lang PROVE StartsFind'
  <2>1. Moves(c, "idle", 0, 0)
    BY <1>36, HowCallsMove
  <2> QED
    BY <1>36, <2>1 DEF Moves, RecoverRecordRefused
<1>37. ASSUME NEW m \in Meetings, CoordinatorEnds(m), UNCHANGED lang PROVE StartsFind'
  BY <1>37 DEF CoordinatorEnds, CoordTypes
<1>38. ASSUME Restart, UNCHANGED lang PROVE StartsFind'
  BY ZenonT(40), <1>38 DEF Restart, NoHistory, CoordTypes, WorkerTypes, Idle
<1> QED
  BY UnreadIsRefused, <1>1, <1>2, <1>3, <1>4, <1>5, <1>6, <1>7, <1>8, <1>9, <1>10, <1>11, <1>12,
     <1>13, <1>14, <1>15, <1>16, <1>17, <1>18, <1>19, <1>20, <1>21, <1>22, <1>23,
     <1>24, <1>25, <1>26, <1>27, <1>28, <1>29, <1>30, <1>31, <1>32, <1>33, <1>34,
     <1>35, <1>36, <1>37, <1>38
     DEF Next, Command, Continue, vars

\* What the steps of a stop find.
LEMMA StopsFindStep ==
    ASSUME SessionInv, [Next]_vars
    PROVE  StopsFind'
<1>1. ASSUME UNCHANGED <<client, stored, coord, mirrors>> PROVE StopsFind'
  BY <1>1 DEF SessionInv, Types, StopsFind, Doing
<1>2. ASSUME NEW c \in Clients,
             \/ \E l \in Languages : PrepareLanguage(c, l)
             \/ \E l \in Languages : WorkerLeftBehind(c, l)
             \/ \E l \in Languages : PrepareFailed(c, l)
             \/ \E m \in Meetings : Open(c, m)
             \/ \E m \in Meetings : OpenAfterRetry(c, m)
      PROVE  UNCHANGED <<client, stored, coord, mirrors>>
  BY <1>2 DEF PrepareLanguage, WorkerLeftBehind, PrepareFailed, NoWorker, Open, OpenAfterRetry
<1>3. ASSUME NEW gen \in Gens,
             BeginTask(gen) \/ CommitTask(gen)
      PROVE  UNCHANGED <<client, stored, coord, mirrors>>
  BY <1>3 DEF BeginTask, CommitTask
<1>4. ASSUME NEW m \in Meetings,
             CutFinal(m)
      PROVE  UNCHANGED <<client, stored, coord, mirrors>>
  BY <1>4 DEF CutFinal
<1> USE NoMeeting DEF SessionInv, Types, StopsFind, Doing, StopPcs
<1>5. ASSUME NEW c \in Clients, Pause(c), UNCHANGED lang PROVE StopsFind'
  <2>1. Moves(c, "pausing", session, worker)
    BY <1>5, HowCallsMove
  <2> QED
    BY <1>5, <2>1 DEF Moves, Pause, Call
<1>6. ASSUME NEW c \in Clients, Resume(c), UNCHANGED lang PROVE StopsFind'
  <2>1. Moves(c, "resuming", session, worker)
    BY <1>6, HowCallsMove
  <2> QED
    BY <1>6, <2>1 DEF Moves, Resume, Call
<1>7. ASSUME NEW c \in Clients, Stop(c), UNCHANGED lang PROVE StopsFind'
  <2>1. Moves(c, "join", session, worker)
    BY <1>7, HowCallsMove
  <2> QED
    BY <1>7, <2>1 DEF Moves, Stop, Call, CoordTypes, SessionIsRecorded, PlaceTypes, Apart, Works
<1>8. ASSUME NEW c \in Clients, Preflight(c), UNCHANGED lang PROVE StopsFind'
  BY <1>8, WhoWorks DEF Preflight, Call, PreflightMay, RowTypes
<1>9. ASSUME NEW c \in Clients, NEW m \in Meetings, Start(c, m), UNCHANGED lang PROVE StopsFind'
  <2>1. Moves(c, "prepare", m, worker')
    BY <1>9, HowCallsMove
  <2> QED
    BY <1>9, <2>1, WhoWorks DEF Moves, Start, Call, New, RowTypes, Named
<1>10. ASSUME NEW c \in Clients, NEW m \in Meetings, NEW action \in {"recover", "finalize"}, Recover(c, m, action), UNCHANGED lang
      PROVE  StopsFind'
  <2>1. Moves(c, action, m, 0)
    BY <1>10, HowCallsMove
  <2> QED
    BY <1>10, <2>1 DEF Moves, Recover, Call, HistoryOpenBlocked
<1>11. ASSUME NEW c \in Clients, StartRefused(c), UNCHANGED lang PROVE StopsFind'
  <2>1. Moves(c, "idle", 0, 0)
    BY <1>11, HowCallsMove
  <2> QED
    BY <1>11, <2>1, WhoWorks DEF Moves, StartRefused, FinishRow, LeaveRow, RowTypes, StartPcs
<1>12. ASSUME NEW c \in Clients, StartPrepare(c), UNCHANGED lang PROVE StopsFind'
  <2>1. Moves(c, "capture", client[c].m, client[c].gen)
    BY <1>12, HowCallsMove
  <2> QED
    BY <1>12, <2>1, WhoWorks DEF Moves, StartPrepare, StartPcs
<1>13. ASSUME NEW c \in Clients, StartFailed(c), UNCHANGED lang PROVE StopsFind'
  <2>1. Moves(c, "idle", 0, 0)
    BY <1>13, HowCallsMove
  <2> QED
    BY <1>13, <2>1, WhoWorks DEF Moves, StartFailed, FinishRow, LeaveRow, MirrorClosed, Failed, RowTypes, StartPcs
<1>14. ASSUME NEW c \in Clients, StartCapture(c), UNCHANGED lang PROVE StopsFind'
  <2>1. Moves(c, "name", client[c].m, client[c].gen)
    BY <1>14, HowCallsMove
  <2> QED
    BY <1>14, <2>1, WhoWorks DEF Moves, StartCapture, CoordTypes, StartPcs
<1>15. ASSUME NEW c \in Clients, StartName(c), UNCHANGED lang PROVE StopsFind'
  <2>1. Moves(c, "idle", 0, 0)
    BY <1>15, HowCallsMove
  <2> QED
    BY <1>15, <2>1 DEF Moves, StartName
<1>16. ASSUME NEW c \in Clients, PauseAnswered(c), UNCHANGED lang PROVE StopsFind'
  <2>1. Moves(c, "paused", client[c].m, client[c].gen)
    BY <1>16, HowCallsMove
  <2> QED
    BY <1>16, <2>1 DEF Moves, PauseAnswered
<1>17. ASSUME NEW c \in Clients, WaitInVain(c), UNCHANGED lang PROVE StopsFind'
  <2>1. Moves(c, "idle", 0, 0)
    BY <1>17, HowCallsMove
  <2> QED
    BY <1>17, <2>1 DEF Moves, WaitInVain
<1>18. ASSUME NEW c \in Clients, PauseShow(c), UNCHANGED lang PROVE StopsFind'
  <2>1. Moves(c, "idle", 0, 0)
    BY <1>18, HowCallsMove
  <2> QED
    BY <1>18, <2>1 DEF Moves, PauseShow, ShowAs
<1>19. ASSUME NEW c \in Clients, ResumeAnswered(c), UNCHANGED lang PROVE StopsFind'
  <2>1. Moves(c, "resumed", client[c].m, client[c].gen)
    BY <1>19, HowCallsMove
  <2> QED
    BY <1>19, <2>1 DEF Moves, ResumeAnswered
<1>20. ASSUME NEW c \in Clients, ResumeShow(c), UNCHANGED lang PROVE StopsFind'
  <2>1. Moves(c, "idle", 0, 0)
    BY <1>20, HowCallsMove
  <2> QED
    BY <1>20, <2>1 DEF Moves, ResumeShow, ShowAs
<1>21. ASSUME NEW c \in Clients, StopJoin(c), UNCHANGED lang PROVE StopsFind'
  <2>1. Moves(c, "barrier", client[c].m, client[c].gen)
    BY <1>21, HowCallsMove
  <2> QED
    BY <1>21, <2>1 DEF Moves, StopJoin
<1>22. ASSUME NEW c \in Clients, StopBarrier(c), UNCHANGED lang PROVE StopsFind'
  <2>1. Moves(c, "finish", client[c].m, client[c].gen)
    BY <1>22, HowCallsMove
  <2> QED
    BY <1>22, <2>1 DEF Moves, StopBarrier, MirrorClosed, Barrier
<1>23. ASSUME NEW c \in Clients, StopTimeout(c), UNCHANGED lang PROVE StopsFind'
  <2>1. Moves(c, "idle", 0, 0)
    BY <1>23, HowCallsMove
  <2> QED
    BY <1>23, <2>1 DEF Moves, StopTimeout
<1>24. ASSUME NEW c \in Clients, StopFinish(c), UNCHANGED lang PROVE StopsFind'
  <2> DEFINE m == client[c].m
  <2>1. /\ UNCHANGED <<inner, session, shown, worker, workers, coord, gate, finals, marked, mirrors>>
        /\ client[c].pc = "finish" /\ m \in Meetings /\ m # session /\ stored[m] # "none"
        /\ coord[m].pc = "ended" /\ m \notin mirrors
        /\ history'.opened = history.opened /\ history'.preflighted = history.preflighted
        /\ history'.crossed = history.crossed /\ history'.replaced = history.replaced
        /\ \A x \in Meetings : x # m => stored'[x] = stored[x]
    BY <1>24, FinishTells
  <2>0. \A d \in Clients : Doing(d, StartPcs \cup StopPcs) =>
                  client[d].m \in Meetings /\ (client[d].m = m => d = c)
    BY <2>1, WhoWorks DEF Doing, StopPcs
  <2>2. CASE Finished(c)
    BY <2>0, <2>1, <2>2 DEF Moves, Finished
  <2>3. CASE Unfinished(c)
    BY <2>0, <2>1, <2>3 DEF Moves, Unfinished
  <2>4. CASE Unanswered(c)
    BY <2>0, <2>1, <2>4 DEF Moves, Unanswered
  <2> QED
    BY <1>24, <2>2, <2>3, <2>4, FinishTells
<1>25. ASSUME NEW c \in Clients, StopReady(c), UNCHANGED lang PROVE StopsFind'
  <2>1. Moves(c, "idle", 0, 0)
    BY <1>25, HowCallsMove
  <2> QED
    BY <1>25, <2>1 DEF Moves, StopReady
<1>26. ASSUME NEW c \in Clients, RecoverShow(c), UNCHANGED lang PROVE StopsFind'
  <2>1. Moves(c, "tail", client[c].m, client[c].gen)
    BY <1>26, HowCallsMove
  <2> QED
    BY <1>26, <2>1 DEF Moves, RecoverShow, ShowMeeting
<1>27. ASSUME NEW c \in Clients, RecoverWorker(c), UNCHANGED lang PROVE StopsFind'
  <2>1. Moves(c, "submit", client[c].m, worker')
    BY <1>27, HowCallsMove
  <2> QED
    BY <2>1, <1>27, ExchangeTouches, WhoWorks DEF Moves
<1>28. ASSUME NEW c \in Clients, RecoverNoWorker(c), UNCHANGED lang PROVE StopsFind'
  <2>1. Moves(c, "idle", 0, 0)
    BY <1>28, HowCallsMove
  <2> QED
    BY <1>28, <2>1 DEF Moves, RecoverNoWorker, NoWorker
<1>29. ASSUME NEW c \in Clients, RecoverSubmit(c), UNCHANGED lang PROVE StopsFind'
  <2>1. Moves(c, "drain", client[c].m, client[c].gen)
    BY <1>29, HowCallsMove
  <2> QED
    BY <1>29, <2>1 DEF Moves, RecoverSubmit
<1>30. ASSUME NEW c \in Clients, RecoverDrained(c), UNCHANGED lang PROVE StopsFind'
  <2>1. Moves(c, "record", client[c].m, client[c].gen)
    BY <1>30, HowCallsMove
  <2> QED
    BY <1>30, <2>1 DEF Moves, RecoverDrained
<1>31. ASSUME NEW c \in Clients, RecoverFailed(c), UNCHANGED lang PROVE StopsFind'
  <2>1. Moves(c, "idle", 0, 0)
    BY <1>31, HowCallsMove
  <2> QED
    BY <1>31, <2>1 DEF Moves, RecoverFailed
<1>32. ASSUME NEW c \in Clients, RecoverRecord(c), UNCHANGED lang PROVE StopsFind'
  <2>1. Moves(c, "idle", 0, 0)
    BY <1>32, HowCallsMove
  <2> QED
    BY <1>32, <2>1 DEF Moves, RecoverRecord, ShowMeeting, Finalized, RowTypes
<1>33. ASSUME NEW c \in Clients, RecoverRecordRefused(c), UNCHANGED lang PROVE StopsFind'
  <2>1. Moves(c, "idle", 0, 0)
    BY <1>33, HowCallsMove
  <2> QED
    BY <1>33, <2>1 DEF Moves, RecoverRecordRefused
<1>34. ASSUME NEW m \in Meetings, CoordinatorEnds(m), UNCHANGED lang PROVE StopsFind'
  BY <1>34 DEF CoordinatorEnds, CoordTypes
<1>35. ASSUME Restart, UNCHANGED lang PROVE StopsFind'
  BY <1>35 DEF Restart, NoHistory, CoordTypes, Idle
<1> QED
  BY UnreadIsRefused, <1>1, <1>2, <1>3, <1>4, <1>5, <1>6, <1>7, <1>8, <1>9, <1>10, <1>11, <1>12,
     <1>13, <1>14, <1>15, <1>16, <1>17, <1>18, <1>19, <1>20, <1>21, <1>22, <1>23,
     <1>24, <1>25, <1>26, <1>27, <1>28, <1>29, <1>30, <1>31, <1>32, <1>33, <1>34,
     <1>35
     DEF Next, Command, Continue, vars

\* Coordinators belong to the session, a start or a stop.
LEMMA RecordersStep ==
    ASSUME SessionInv, [Next]_vars
    PROVE  Recorders'
<1>1. ASSUME UNCHANGED <<client, session, coord, history>> PROVE Recorders'
  BY <1>1 DEF SessionInv, Types, Recorders
<1>2. ASSUME NEW c \in Clients,
             \/ \E l \in Languages : PrepareLanguage(c, l)
             \/ \E l \in Languages : WorkerLeftBehind(c, l)
             \/ \E l \in Languages : PrepareFailed(c, l)
             \/ \E m \in Meetings : Open(c, m)
      PROVE  UNCHANGED <<client, session, coord, history>>
  BY <1>2 DEF PrepareLanguage, WorkerLeftBehind, PrepareFailed, NoWorker, Open
<1>3. ASSUME NEW gen \in Gens,
             BeginTask(gen) \/ CommitTask(gen)
      PROVE  UNCHANGED <<client, session, coord, history>>
  BY <1>3 DEF BeginTask, CommitTask
<1>4. ASSUME NEW m \in Meetings,
             CutFinal(m)
      PROVE  UNCHANGED <<client, session, coord, history>>
  BY <1>4 DEF CutFinal
<1> USE NoMeeting DEF SessionInv, Types, Recorders, Doing
<1>5. ASSUME NEW c \in Clients, Pause(c), UNCHANGED lang PROVE Recorders'
  <2>1. Moves(c, "pausing", session, worker)
    BY <1>5, HowCallsMove
  <2> QED
    BY <1>5, <2>1 DEF Moves, Pause, Call
<1>6. ASSUME NEW c \in Clients, Resume(c), UNCHANGED lang PROVE Recorders'
  <2>1. Moves(c, "resuming", session, worker)
    BY <1>6, HowCallsMove
  <2> QED
    BY <1>6, <2>1 DEF Moves, Resume, Call
<1>7. ASSUME NEW c \in Clients, Stop(c), UNCHANGED lang PROVE Recorders'
  <2>1. Moves(c, "join", session, worker)
    BY <1>7, HowCallsMove
  <2> QED
    BY <1>7, <2>1 DEF Moves, Stop, Call, CoordTypes
<1>8. ASSUME NEW c \in Clients, Preflight(c), UNCHANGED lang PROVE Recorders'
  BY <1>8 DEF Preflight, Call, PreflightMay, HistoryTypes
<1>9. ASSUME NEW c \in Clients, NEW m \in Meetings, Start(c, m), UNCHANGED lang PROVE Recorders'
  <2>1. Moves(c, "prepare", m, worker')
    BY <1>9, HowCallsMove
  <2> QED
    BY <1>9, <2>1 DEF Moves, Start, Call, New
<1>10. ASSUME NEW c \in Clients, NEW m \in Meetings, OpenAfterRetry(c, m), UNCHANGED lang
      PROVE  Recorders'
  BY <1>10 DEF OpenAfterRetry, Call, ShowMeeting, HistoryTypes
<1>11. ASSUME NEW c \in Clients, NEW m \in Meetings, NEW action \in {"recover", "finalize"}, Recover(c, m, action), UNCHANGED lang
      PROVE  Recorders'
  <2>1. Moves(c, action, m, 0)
    BY <1>11, HowCallsMove
  <2> QED
    BY <1>11, <2>1 DEF Moves, Recover, Call, HistoryOpenBlocked
<1>12. ASSUME NEW c \in Clients, StartRefused(c), UNCHANGED lang PROVE Recorders'
  <2>1. Moves(c, "idle", 0, 0)
    BY <1>12, HowCallsMove
  <2> QED
    BY <1>12, <2>1 DEF Moves, StartRefused, FinishRow, LeaveRow, HistoryTypes
<1>13. ASSUME NEW c \in Clients, StartPrepare(c), UNCHANGED lang PROVE Recorders'
  <2>1. Moves(c, "capture", client[c].m, client[c].gen)
    BY <1>13, HowCallsMove
  <2> QED
    BY <1>13, <2>1 DEF Moves, StartPrepare
<1>14. ASSUME NEW c \in Clients, StartFailed(c), UNCHANGED lang PROVE Recorders'
  <2>1. Moves(c, "idle", 0, 0)
    BY <1>14, HowCallsMove
  <2> QED
    BY <1>14, <2>1 DEF Moves, StartFailed, FinishRow, LeaveRow, MirrorClosed, Failed, HistoryTypes
<1>15. ASSUME NEW c \in Clients, StartCapture(c), UNCHANGED lang PROVE Recorders'
  <2>1. Moves(c, "name", client[c].m, client[c].gen)
    BY <1>15, HowCallsMove
  <2> QED
    BY <1>15, <2>1 DEF Moves, StartCapture, CoordTypes
<1>16. ASSUME NEW c \in Clients, StartName(c), UNCHANGED lang PROVE Recorders'
  <2>1. Moves(c, "idle", 0, 0)
    BY <1>16, HowCallsMove
  <2> QED
    BY <1>16, <2>1, WhoWorks DEF Moves, StartName, StartPcs
<1>17. ASSUME NEW c \in Clients, PauseAnswered(c), UNCHANGED lang PROVE Recorders'
  <2>1. Moves(c, "paused", client[c].m, client[c].gen)
    BY <1>17, HowCallsMove
  <2> QED
    BY <1>17, <2>1 DEF Moves, PauseAnswered
<1>18. ASSUME NEW c \in Clients, WaitInVain(c), UNCHANGED lang PROVE Recorders'
  <2>1. Moves(c, "idle", 0, 0)
    BY <1>18, HowCallsMove
  <2> QED
    BY <1>18, <2>1 DEF Moves, WaitInVain, HistoryTypes
<1>19. ASSUME NEW c \in Clients, PauseShow(c), UNCHANGED lang PROVE Recorders'
  <2>1. Moves(c, "idle", 0, 0)
    BY <1>19, HowCallsMove
  <2> QED
    BY <1>19, <2>1 DEF Moves, PauseShow, ShowAs, HistoryTypes
<1>20. ASSUME NEW c \in Clients, ResumeAnswered(c), UNCHANGED lang PROVE Recorders'
  <2>1. Moves(c, "resumed", client[c].m, client[c].gen)
    BY <1>20, HowCallsMove
  <2> QED
    BY <1>20, <2>1 DEF Moves, ResumeAnswered, HistoryTypes
<1>21. ASSUME NEW c \in Clients, ResumeShow(c), UNCHANGED lang PROVE Recorders'
  <2>1. Moves(c, "idle", 0, 0)
    BY <1>21, HowCallsMove
  <2> QED
    BY <1>21, <2>1 DEF Moves, ResumeShow, ShowAs, HistoryTypes
<1>22. ASSUME NEW c \in Clients, StopJoin(c), UNCHANGED lang PROVE Recorders'
  <2>1. Moves(c, "barrier", client[c].m, client[c].gen)
    BY <1>22, HowCallsMove
  <2> QED
    BY <1>22, <2>1 DEF Moves, StopJoin
<1>23. ASSUME NEW c \in Clients, StopBarrier(c), UNCHANGED lang PROVE Recorders'
  <2>1. Moves(c, "finish", client[c].m, client[c].gen)
    BY <1>23, HowCallsMove
  <2> QED
    BY <1>23, <2>1 DEF Moves, StopBarrier, MirrorClosed, Barrier
<1>24. ASSUME NEW c \in Clients, StopTimeout(c), UNCHANGED lang PROVE Recorders'
  <2>1. Moves(c, "idle", 0, 0)
    BY <1>24, HowCallsMove
  <2> QED
    BY <1>24, <2>1 DEF Moves, StopTimeout, HistoryTypes
<1>25. ASSUME NEW c \in Clients, StopFinish(c), UNCHANGED lang PROVE Recorders'
  <2>1. Moves(c, "ready", client[c].m, client[c].gen) \/ Moves(c, "idle", 0, 0)
    BY <1>25, HowCallsMove
  <2> QED
    BY <1>25, <2>1 DEF Moves, StopFinish, LeaveRow, HistoryTypes
<1>26. ASSUME NEW c \in Clients, StopReady(c), UNCHANGED lang PROVE Recorders'
  <2>1. Moves(c, "idle", 0, 0)
    BY <1>26, HowCallsMove
  <2> QED
    BY <1>26, <2>1 DEF Moves, StopReady
<1>27. ASSUME NEW c \in Clients, RecoverShow(c), UNCHANGED lang PROVE Recorders'
  <2>1. Moves(c, "tail", client[c].m, client[c].gen)
    BY <1>27, HowCallsMove
  <2> QED
    BY <1>27, <2>1 DEF Moves, RecoverShow, ShowMeeting, HistoryTypes
<1>28. ASSUME NEW c \in Clients, RecoverWorker(c), UNCHANGED lang PROVE Recorders'
  <2>1. Moves(c, "submit", client[c].m, worker')
    BY <1>28, HowCallsMove
  <2> QED
    BY <2>1, <1>28, ExchangeTouches, WhoWorks DEF Moves
<1>29. ASSUME NEW c \in Clients, RecoverNoWorker(c), UNCHANGED lang PROVE Recorders'
  <2>1. Moves(c, "idle", 0, 0)
    BY <1>29, HowCallsMove
  <2> QED
    BY <1>29, <2>1 DEF Moves, RecoverNoWorker, NoWorker, HistoryTypes
<1>30. ASSUME NEW c \in Clients, RecoverSubmit(c), UNCHANGED lang PROVE Recorders'
  <2>1. Moves(c, "drain", client[c].m, client[c].gen)
    BY <1>30, HowCallsMove
  <2> QED
    BY <1>30, <2>1 DEF Moves, RecoverSubmit
<1>31. ASSUME NEW c \in Clients, RecoverDrained(c), UNCHANGED lang PROVE Recorders'
  <2>1. Moves(c, "record", client[c].m, client[c].gen)
    BY <1>31, HowCallsMove
  <2> QED
    BY <1>31, <2>1 DEF Moves, RecoverDrained
<1>32. ASSUME NEW c \in Clients, RecoverFailed(c), UNCHANGED lang PROVE Recorders'
  <2>1. Moves(c, "idle", 0, 0)
    BY <1>32, HowCallsMove
  <2> QED
    BY <1>32, <2>1 DEF Moves, RecoverFailed
<1>33. ASSUME NEW c \in Clients, RecoverRecord(c), UNCHANGED lang PROVE Recorders'
  <2>1. Moves(c, "idle", 0, 0)
    BY <1>33, HowCallsMove
  <2> QED
    BY <1>33, <2>1 DEF Moves, RecoverRecord, ShowMeeting, Finalized, HistoryTypes
<1>34. ASSUME NEW c \in Clients, RecoverRecordRefused(c), UNCHANGED lang PROVE Recorders'
  <2>1. Moves(c, "idle", 0, 0)
    BY <1>34, HowCallsMove
  <2> QED
    BY <1>34, <2>1 DEF Moves, RecoverRecordRefused
<1>35. ASSUME NEW m \in Meetings, CoordinatorEnds(m), UNCHANGED lang PROVE Recorders'
  BY <1>35 DEF CoordinatorEnds, CoordTypes
<1>36. ASSUME Restart, UNCHANGED lang PROVE Recorders'
  BY <1>36 DEF Restart, NoHistory, CoordTypes, HistoryTypes, Idle
<1> QED
  BY UnreadIsRefused, <1>1, <1>2, <1>3, <1>4, <1>5, <1>6, <1>7, <1>8, <1>9, <1>10, <1>11, <1>12,
     <1>13, <1>14, <1>15, <1>16, <1>17, <1>18, <1>19, <1>20, <1>21, <1>22, <1>23,
     <1>24, <1>25, <1>26, <1>27, <1>28, <1>29, <1>30, <1>31, <1>32, <1>33, <1>34,
     <1>35, <1>36
     DEF Next, Command, Continue, vars

\* The session stays recorded.
LEMMA SessionIsRecordedStep ==
    ASSUME SessionInv, [Next]_vars
    PROVE  SessionIsRecorded'
<1>1. ASSUME UNCHANGED <<session, stored, coord, worker, history>> PROVE SessionIsRecorded'
  BY ZenonT(40), <1>1 DEF SessionInv, Types, SessionIsRecorded
<1>2. ASSUME NEW c \in Clients,
             \/ Pause(c) \/ Resume(c) \/ StartPrepare(c) \/ PauseAnswered(c) \/ StopJoin(c)
             \/ StopBarrier(c) \/ StopReady(c) \/ RecoverSubmit(c) \/ RecoverDrained(c)
             \/ RecoverFailed(c) \/ RecoverRecordRefused(c)
             \/ \E m \in Meetings : Open(c, m)
             \/ \E m \in Meetings : \E action \in {"recover", "finalize"} : Recover(c, m, action)
      PROVE  UNCHANGED <<session, stored, coord, worker, history>>
  BY <1>2 DEF Pause, Resume, Open, Recover, StartPrepare, PauseAnswered, StopJoin, StopBarrier, StopReady,
    RecoverSubmit, RecoverDrained, RecoverFailed, RecoverRecordRefused
<1>3. ASSUME NEW gen \in Gens,
             BeginTask(gen) \/ CommitTask(gen)
      PROVE  UNCHANGED <<session, stored, coord, worker, history>>
  BY <1>3 DEF BeginTask, CommitTask
<1>4. ASSUME NEW m \in Meetings,
             CutFinal(m)
      PROVE  UNCHANGED <<session, stored, coord, worker, history>>
  BY <1>4 DEF CutFinal
<1> USE NoMeeting DEF SessionInv, Types, SessionIsRecorded
<1>5. ASSUME NEW c \in Clients, NEW l \in Languages, PrepareLanguage(c, l), UNCHANGED lang
      PROVE  SessionIsRecorded'
  BY <1>5 DEF PrepareLanguage, Call, WorkerTypes
<1>6. ASSUME NEW c \in Clients, NEW l \in Languages, WorkerLeftBehind(c, l), UNCHANGED lang
      PROVE  SessionIsRecorded'
  BY <1>6 DEF WorkerLeftBehind, Call, WorkerTypes
<1>7. ASSUME NEW c \in Clients, NEW l \in Languages, PrepareFailed(c, l), UNCHANGED lang
      PROVE  SessionIsRecorded'
  BY <1>7 DEF PrepareFailed, Call, NoWorker, WorkerTypes
<1>8. ASSUME NEW c \in Clients, Stop(c), UNCHANGED lang PROVE SessionIsRecorded'
  BY <1>8 DEF Stop, Call, CoordTypes
<1>9. ASSUME NEW c \in Clients, Preflight(c), UNCHANGED lang PROVE SessionIsRecorded'
  BY <1>9 DEF Preflight, Call, PreflightMay, HistoryTypes, RowTypes
<1>10. ASSUME NEW c \in Clients, NEW m \in Meetings, Start(c, m), UNCHANGED lang
      PROVE  SessionIsRecorded'
  BY <1>10 DEF Start, Call, New, RowTypes, WorkerTypes
<1>11. ASSUME NEW c \in Clients, NEW m \in Meetings, OpenAfterRetry(c, m), UNCHANGED lang
      PROVE  SessionIsRecorded'
  BY <1>11 DEF OpenAfterRetry, Call, ShowMeeting, HistoryTypes
<1>12. ASSUME NEW c \in Clients, StartRefused(c), UNCHANGED lang PROVE SessionIsRecorded'
  BY <1>12, WhoWorks DEF StartRefused, FinishRow, LeaveRow, HistoryTypes, RowTypes, Doing, StartPcs
<1>13. ASSUME NEW c \in Clients, StartFailed(c), UNCHANGED lang PROVE SessionIsRecorded'
  BY <1>13, WhoWorks DEF StartFailed, FinishRow, LeaveRow, MirrorClosed, Failed, HistoryTypes, RowTypes, Doing, StartPcs
<1>14. ASSUME NEW c \in Clients, StartCapture(c), UNCHANGED lang PROVE SessionIsRecorded'
  BY <1>14, WhoWorks DEF StartCapture, CoordTypes, Doing, StartPcs
<1>15. ASSUME NEW c \in Clients, StartName(c), UNCHANGED lang PROVE SessionIsRecorded'
  BY <1>15 DEF StartName, StartsFind, Doing, StartPcs
<1>16. ASSUME NEW c \in Clients, WaitInVain(c), UNCHANGED lang PROVE SessionIsRecorded'
  BY <1>16 DEF WaitInVain, HistoryTypes
<1>17. ASSUME NEW c \in Clients, PauseShow(c), UNCHANGED lang PROVE SessionIsRecorded'
  BY <1>17 DEF PauseShow, ShowAs, HistoryTypes
<1>18. ASSUME NEW c \in Clients, ResumeAnswered(c), UNCHANGED lang PROVE SessionIsRecorded'
  BY <1>18 DEF ResumeAnswered, HistoryTypes
<1>19. ASSUME NEW c \in Clients, ResumeShow(c), UNCHANGED lang PROVE SessionIsRecorded'
  BY <1>19 DEF ResumeShow, ShowAs, HistoryTypes
<1>20. ASSUME NEW c \in Clients, StopTimeout(c), UNCHANGED lang PROVE SessionIsRecorded'
  BY <1>20 DEF StopTimeout, HistoryTypes
<1>21. ASSUME NEW c \in Clients, StopFinish(c), UNCHANGED lang PROVE SessionIsRecorded'
  <2> DEFINE m == client[c].m
  <2>1. /\ UNCHANGED <<inner, session, shown, worker, workers, coord, gate, finals, marked, mirrors>>
        /\ client[c].pc = "finish" /\ m \in Meetings /\ m # session /\ stored[m] # "none"
        /\ coord[m].pc = "ended" /\ m \notin mirrors
        /\ history'.opened = history.opened /\ history'.preflighted = history.preflighted
        /\ history'.crossed = history.crossed /\ history'.replaced = history.replaced
        /\ \A x \in Meetings : x # m => stored'[x] = stored[x]
    BY <1>21, FinishTells
  <2>0. \A d \in Clients : Doing(d, StartPcs \cup StopPcs) =>
                  client[d].m \in Meetings /\ (client[d].m = m => d = c)
    BY <2>1, WhoWorks DEF Doing, StopPcs
  <2>2. CASE Finished(c)
    BY <2>0, <2>1, <2>2 DEF Moves, Finished, PlaceTypes
  <2>3. CASE Unfinished(c)
    BY <2>0, <2>1, <2>3 DEF Moves, Unfinished, PlaceTypes
  <2>4. CASE Unanswered(c)
    BY <2>0, <2>1, <2>4 DEF Moves, Unanswered, PlaceTypes
  <2> QED
    BY <1>21, <2>2, <2>3, <2>4, FinishTells
<1>22. ASSUME NEW c \in Clients, RecoverShow(c), UNCHANGED lang PROVE SessionIsRecorded'
  BY ZenonT(40), <1>22 DEF RecoverShow, ShowMeeting, HistoryTypes
<1>23. ASSUME NEW c \in Clients, RecoverWorker(c), UNCHANGED lang PROVE SessionIsRecorded'
  BY <1>23 DEF RecoverWorker, HistoryTypes, WorkerTypes
<1>24. ASSUME NEW c \in Clients, RecoverNoWorker(c), UNCHANGED lang PROVE SessionIsRecorded'
  BY <1>24 DEF RecoverNoWorker, NoWorker, HistoryTypes, WorkerTypes
<1>25. ASSUME NEW c \in Clients, RecoverRecord(c), UNCHANGED lang PROVE SessionIsRecorded'
  BY <1>25 DEF RecoverRecord, ShowMeeting, Finalized, HistoryTypes, RowTypes
<1>26. ASSUME NEW m \in Meetings, CoordinatorEnds(m), UNCHANGED lang PROVE SessionIsRecorded'
  BY <1>26 DEF CoordinatorEnds, CoordTypes
<1>27. ASSUME Restart, UNCHANGED lang PROVE SessionIsRecorded'
  BY <1>27 DEF Restart, NoHistory, CoordTypes, HistoryTypes, WorkerTypes, Idle
<1> QED
  BY UnreadIsRefused, <1>1, <1>2, <1>3, <1>4, <1>5, <1>6, <1>7, <1>8, <1>9, <1>10, <1>11, <1>12,
     <1>13, <1>14, <1>15, <1>16, <1>17, <1>18, <1>19, <1>20, <1>21, <1>22, <1>23,
     <1>24, <1>25, <1>26, <1>27
     DEF Next, Command, Continue, vars

\* No row and no mirror is left behind.
LEMMA OwnedStep ==
    ASSUME SessionInv, [Next]_vars
    PROVE  Owned'
<1>1. ASSUME UNCHANGED <<client, session, stored, mirrors, history>> PROVE Owned'
  BY <1>1 DEF SessionInv, Types, Owned, Works, Doing
<1>2. ASSUME NEW c \in Clients,
             \/ \E l \in Languages : PrepareLanguage(c, l)
             \/ \E l \in Languages : WorkerLeftBehind(c, l)
             \/ \E l \in Languages : PrepareFailed(c, l)
             \/ \E m \in Meetings : Open(c, m)
      PROVE  UNCHANGED <<client, session, stored, mirrors, history>>
  BY <1>2 DEF PrepareLanguage, WorkerLeftBehind, PrepareFailed, NoWorker, Open
<1>3. ASSUME NEW gen \in Gens,
             BeginTask(gen) \/ CommitTask(gen)
      PROVE  UNCHANGED <<client, session, stored, mirrors, history>>
  BY <1>3 DEF BeginTask, CommitTask
<1>4. ASSUME NEW m \in Meetings,
             CutFinal(m) \/ CoordinatorEnds(m)
      PROVE  UNCHANGED <<client, session, stored, mirrors, history>>
  BY <1>4 DEF CutFinal, CoordinatorEnds
<1> USE NoMeeting DEF SessionInv, Types, Owned, Works, Doing, StartPcs, StopPcs
<1>5. ASSUME NEW c \in Clients, Pause(c), UNCHANGED lang PROVE Owned'
  <2>1. Moves(c, "pausing", session, worker)
    BY <1>5, HowCallsMove
  <2> QED
    BY <1>5, <2>1 DEF Moves, Pause, Call
<1>6. ASSUME NEW c \in Clients, Resume(c), UNCHANGED lang PROVE Owned'
  <2>1. Moves(c, "resuming", session, worker)
    BY <1>6, HowCallsMove
  <2> QED
    BY <1>6, <2>1 DEF Moves, Resume, Call
<1>7. ASSUME NEW c \in Clients, Stop(c), UNCHANGED lang PROVE Owned'
  <2>1. Moves(c, "join", session, worker)
    BY <1>7, HowCallsMove
  <2> QED
    BY <1>7, <2>1 DEF Moves, Stop, Call
<1>8. ASSUME NEW c \in Clients, Preflight(c), UNCHANGED lang PROVE Owned'
  BY <1>8 DEF Preflight, Call, PreflightMay, HistoryTypes, RowTypes
<1>9. ASSUME NEW c \in Clients, NEW m \in Meetings, Start(c, m), UNCHANGED lang PROVE Owned'
  <2>1. Moves(c, "prepare", m, worker')
    BY <1>9, HowCallsMove
  <2> QED
    BY <1>9, <2>1 DEF Moves, Start, Call, New, RowTypes
<1>10. ASSUME NEW c \in Clients, NEW m \in Meetings, OpenAfterRetry(c, m), UNCHANGED lang
      PROVE  Owned'
  BY <1>10 DEF OpenAfterRetry, Call, ShowMeeting, HistoryTypes
<1>11. ASSUME NEW c \in Clients, NEW m \in Meetings, NEW action \in {"recover", "finalize"}, Recover(c, m, action), UNCHANGED lang
      PROVE  Owned'
  <2>1. Moves(c, action, m, 0)
    BY <1>11, HowCallsMove
  <2> QED
    BY <1>11, <2>1 DEF Moves, Recover, Call, HistoryOpenBlocked
<1>12. ASSUME NEW c \in Clients, StartRefused(c), UNCHANGED lang PROVE Owned'
  <2> DEFINE m == client[c].m
  <2>1. Moves(c, "idle", 0, 0)
    BY <1>12, HowCallsMove
  <2>2. m \in Meetings
    BY <1>12, WhoWorks DEF StartRefused, StartFailed, Doing, StartPcs
  <2>3. /\ \A x \in Meetings : x # m => stored'[x] = stored[x]
        /\ \/ stored'[m] = "interrupted" /\ history'.orphans = history.orphans
           \/ stored' = stored /\ history'.orphans = history.orphans \cup {m}
    BY <1>12, <2>2, RowTells DEF StartRefused, StartFailed
  <2>4. CASE stored'[m] = "interrupted" /\ history'.orphans = history.orphans
    BY <1>12, <2>1, <2>2, <2>3, <2>4, WhoWorks DEF Moves, StartRefused, StartFailed, MirrorClosed, Failed, StartsFind
  <2>5. CASE stored' = stored /\ history'.orphans = history.orphans \cup {m}
    BY <1>12, <2>1, <2>2, <2>5, WhoWorks DEF Moves, StartRefused, StartFailed, MirrorClosed, Failed, StartsFind
  <2> QED
    BY <2>3, <2>4, <2>5
<1>13. ASSUME NEW c \in Clients, StartPrepare(c), UNCHANGED lang PROVE Owned'
  <2>1. Moves(c, "capture", client[c].m, client[c].gen)
    BY <1>13, HowCallsMove
  <2> QED
    BY <1>13, <2>1 DEF Moves, StartPrepare
<1>14. ASSUME NEW c \in Clients, StartFailed(c), UNCHANGED lang PROVE Owned'
  <2>1. Moves(c, "idle", 0, 0)
    BY <1>14, HowCallsMove
  <2> QED
    BY <1>14, <2>1, WhoWorks DEF Moves, StartFailed, FinishRow, LeaveRow, MirrorClosed, Failed, HistoryTypes, RowTypes
<1>15. ASSUME NEW c \in Clients, StartCapture(c), UNCHANGED lang PROVE Owned'
  <2>1. Moves(c, "name", client[c].m, client[c].gen)
    BY <1>15, HowCallsMove
  <2> QED
    BY <1>15, <2>1 DEF Moves, StartCapture
<1>16. ASSUME NEW c \in Clients, StartName(c), UNCHANGED lang PROVE Owned'
  <2>1. Moves(c, "idle", 0, 0)
    BY <1>16, HowCallsMove
  <2> QED
    BY <1>16, <2>1, WhoWorks DEF Moves, StartName
<1>17. ASSUME NEW c \in Clients, PauseAnswered(c), UNCHANGED lang PROVE Owned'
  <2>1. Moves(c, "paused", client[c].m, client[c].gen)
    BY <1>17, HowCallsMove
  <2> QED
    BY <1>17, <2>1 DEF Moves, PauseAnswered
<1>18. ASSUME NEW c \in Clients, WaitInVain(c), UNCHANGED lang PROVE Owned'
  <2>1. Moves(c, "idle", 0, 0)
    BY <1>18, HowCallsMove
  <2> QED
    BY <1>18, <2>1 DEF Moves, WaitInVain, HistoryTypes
<1>19. ASSUME NEW c \in Clients, PauseShow(c), UNCHANGED lang PROVE Owned'
  <2>1. Moves(c, "idle", 0, 0)
    BY <1>19, HowCallsMove
  <2> QED
    BY <1>19, <2>1 DEF Moves, PauseShow, ShowAs, HistoryTypes
<1>20. ASSUME NEW c \in Clients, ResumeAnswered(c), UNCHANGED lang PROVE Owned'
  <2>1. Moves(c, "resumed", client[c].m, client[c].gen)
    BY <1>20, HowCallsMove
  <2> QED
    BY <1>20, <2>1 DEF Moves, ResumeAnswered, HistoryTypes
<1>21. ASSUME NEW c \in Clients, ResumeShow(c), UNCHANGED lang PROVE Owned'
  <2>1. Moves(c, "idle", 0, 0)
    BY <1>21, HowCallsMove
  <2> QED
    BY <1>21, <2>1 DEF Moves, ResumeShow, ShowAs, HistoryTypes
<1>22. ASSUME NEW c \in Clients, StopJoin(c), UNCHANGED lang PROVE Owned'
  <2>1. Moves(c, "barrier", client[c].m, client[c].gen)
    BY <1>22, HowCallsMove
  <2> QED
    BY <1>22, <2>1 DEF Moves, StopJoin
<1>23. ASSUME NEW c \in Clients, StopBarrier(c), UNCHANGED lang PROVE Owned'
  <2>1. Moves(c, "finish", client[c].m, client[c].gen)
    BY <1>23, HowCallsMove
  <2> QED
    BY <1>23, <2>1 DEF Moves, StopBarrier, MirrorClosed, Barrier
<1>24. ASSUME NEW c \in Clients, StopTimeout(c), UNCHANGED lang PROVE Owned'
  <2>1. Moves(c, "idle", 0, 0)
    BY <1>24, HowCallsMove
  <2> QED
    BY <1>24, <2>1 DEF Moves, StopTimeout, HistoryTypes
<1>25. ASSUME NEW c \in Clients, StopFinish(c), UNCHANGED lang PROVE Owned'
  <2> DEFINE m == client[c].m
  <2>1. /\ UNCHANGED <<inner, session, shown, worker, workers, coord, gate, finals, marked, mirrors>>
        /\ client[c].pc = "finish" /\ m \in Meetings /\ m # session /\ stored[m] # "none"
        /\ coord[m].pc = "ended" /\ m \notin mirrors
        /\ history'.opened = history.opened /\ history'.preflighted = history.preflighted
        /\ history'.crossed = history.crossed /\ history'.replaced = history.replaced
        /\ \A x \in Meetings : x # m => stored'[x] = stored[x]
    BY <1>25, FinishTells
  <2>0. \A d \in Clients : Doing(d, StartPcs \cup StopPcs) =>
                  client[d].m \in Meetings /\ (client[d].m = m => d = c)
    BY <2>1, WhoWorks DEF Doing, StopPcs
  <2>2. CASE Finished(c)
    BY <2>0, <2>1, <2>2 DEF Moves, Finished
  <2>3. CASE Unfinished(c)
    BY <2>0, <2>1, <2>3 DEF Moves, Unfinished
  <2>4. CASE Unanswered(c)
    BY <2>0, <2>1, <2>4 DEF Moves, Unanswered
  <2> QED
    BY <1>25, <2>2, <2>3, <2>4, FinishTells
<1>26. ASSUME NEW c \in Clients, StopReady(c), UNCHANGED lang PROVE Owned'
  <2>1. Moves(c, "idle", 0, 0)
    BY <1>26, HowCallsMove
  <2> QED
    BY <1>26, <2>1, WhoWorks DEF Moves, StopReady, StopsFind
<1>27. ASSUME NEW c \in Clients, RecoverShow(c), UNCHANGED lang PROVE Owned'
  <2>1. Moves(c, "tail", client[c].m, client[c].gen)
    BY <1>27, HowCallsMove
  <2> QED
    BY <1>27, <2>1 DEF Moves, RecoverShow, ShowMeeting, HistoryTypes
<1>28. ASSUME NEW c \in Clients, RecoverWorker(c), UNCHANGED lang PROVE Owned'
  <2>1. Moves(c, "submit", client[c].m, worker')
    BY <1>28, HowCallsMove
  <2> QED
    BY <2>1, <1>28, ExchangeTouches, WhoWorks DEF Moves
<1>29. ASSUME NEW c \in Clients, RecoverNoWorker(c), UNCHANGED lang PROVE Owned'
  <2>1. Moves(c, "idle", 0, 0)
    BY <1>29, HowCallsMove
  <2> QED
    BY <1>29, <2>1 DEF Moves, RecoverNoWorker, NoWorker, HistoryTypes
<1>30. ASSUME NEW c \in Clients, RecoverSubmit(c), UNCHANGED lang PROVE Owned'
  <2>1. Moves(c, "drain", client[c].m, client[c].gen)
    BY <1>30, HowCallsMove
  <2> QED
    BY <1>30, <2>1 DEF Moves, RecoverSubmit
<1>31. ASSUME NEW c \in Clients, RecoverDrained(c), UNCHANGED lang PROVE Owned'
  <2>1. Moves(c, "record", client[c].m, client[c].gen)
    BY <1>31, HowCallsMove
  <2> QED
    BY <1>31, <2>1 DEF Moves, RecoverDrained
<1>32. ASSUME NEW c \in Clients, RecoverFailed(c), UNCHANGED lang PROVE Owned'
  <2>1. Moves(c, "idle", 0, 0)
    BY <1>32, HowCallsMove
  <2> QED
    BY <1>32, <2>1 DEF Moves, RecoverFailed
<1>33. ASSUME NEW c \in Clients, RecoverRecord(c), UNCHANGED lang PROVE Owned'
  <2>1. Moves(c, "idle", 0, 0)
    BY <1>33, HowCallsMove
  <2> QED
    BY <1>33, <2>1 DEF Moves, RecoverRecord, ShowMeeting, Finalized, HistoryTypes, RowTypes
<1>34. ASSUME NEW c \in Clients, RecoverRecordRefused(c), UNCHANGED lang PROVE Owned'
  <2>1. Moves(c, "idle", 0, 0)
    BY <1>34, HowCallsMove
  <2> QED
    BY <1>34, <2>1 DEF Moves, RecoverRecordRefused
<1>35. ASSUME Restart, UNCHANGED lang PROVE Owned'
  BY <1>35 DEF Restart, NoHistory, HistoryTypes, Idle
<1> QED
  BY UnreadIsRefused, <1>1, <1>2, <1>3, <1>4, <1>5, <1>6, <1>7, <1>8, <1>9, <1>10, <1>11, <1>12,
     <1>13, <1>14, <1>15, <1>16, <1>17, <1>18, <1>19, <1>20, <1>21, <1>22, <1>23,
     <1>24, <1>25, <1>26, <1>27, <1>28, <1>29, <1>30, <1>31, <1>32, <1>33, <1>34,
     <1>35
     DEF Next, Command, Continue, vars

\* A stop stays alone.
LEMMA StopIsAloneStep ==
    ASSUME SessionInv, [Next]_vars
    PROVE  StopIsAlone'
<1>1. ASSUME UNCHANGED <<client, session, lifecycle, history>> PROVE StopIsAlone'
  BY <1>1 DEF SessionInv, Types, StopIsAlone, Doing
<1>2. ASSUME NEW c \in Clients,
             \/ \E l \in Languages : PrepareLanguage(c, l)
             \/ \E l \in Languages : WorkerLeftBehind(c, l)
             \/ \E m \in Meetings : Open(c, m)
      PROVE  UNCHANGED <<client, session, lifecycle, history>>
  BY <1>2 DEF PrepareLanguage, WorkerLeftBehind, Open
<1>3. ASSUME NEW gen \in Gens,
             BeginTask(gen) \/ CommitTask(gen)
      PROVE  UNCHANGED <<client, session, lifecycle, history>>
  BY <1>3 DEF BeginTask, CommitTask
<1>4. ASSUME NEW m \in Meetings,
             CutFinal(m) \/ CoordinatorEnds(m)
      PROVE  UNCHANGED <<client, session, lifecycle, history>>
  BY <1>4 DEF CutFinal, CoordinatorEnds
<1> USE DEF SessionInv, Types, StopIsAlone, Doing, StartPcs, StopPcs
<1>5. ASSUME NEW c \in Clients, NEW l \in Languages, PrepareFailed(c, l), UNCHANGED lang
      PROVE  StopIsAlone'
  BY <1>5 DEF PrepareFailed, Call, NoWorker
<1>6. ASSUME NEW c \in Clients, Pause(c), UNCHANGED lang PROVE StopIsAlone'
  <2>1. Moves(c, "pausing", session, worker)
    BY <1>6, HowCallsMove
  <2> QED
    BY <1>6, <2>1 DEF Moves, Pause, Call
<1>7. ASSUME NEW c \in Clients, Resume(c), UNCHANGED lang PROVE StopIsAlone'
  <2>1. Moves(c, "resuming", session, worker)
    BY <1>7, HowCallsMove
  <2> QED
    BY <1>7, <2>1 DEF Moves, Resume, Call
<1>8. ASSUME NEW c \in Clients, Stop(c), UNCHANGED lang PROVE StopIsAlone'
  <2>1. Moves(c, "join", session, worker)
    BY <1>8, HowCallsMove
  <2> QED
    BY <1>8, <2>1, WhoWorks DEF Moves, Stop, Call
<1>9. ASSUME NEW c \in Clients, Preflight(c), UNCHANGED lang PROVE StopIsAlone'
  BY <1>9, WhoWorks DEF Preflight, Call, PreflightMay, HistoryTypes
<1>10. ASSUME NEW c \in Clients, NEW m \in Meetings, Start(c, m), UNCHANGED lang PROVE StopIsAlone'
  <2>1. Moves(c, "prepare", m, worker')
    BY <1>10, HowCallsMove
  <2> QED
    BY <1>10, <2>1, WhoWorks DEF Moves, Start, Call, New
<1>11. ASSUME NEW c \in Clients, NEW m \in Meetings, OpenAfterRetry(c, m), UNCHANGED lang
      PROVE  StopIsAlone'
  BY <1>11 DEF OpenAfterRetry, Call, ShowMeeting, HistoryTypes
<1>12. ASSUME NEW c \in Clients, NEW m \in Meetings, NEW action \in {"recover", "finalize"}, Recover(c, m, action), UNCHANGED lang
      PROVE  StopIsAlone'
  <2>1. Moves(c, action, m, 0)
    BY <1>12, HowCallsMove
  <2> QED
    BY <1>12, <2>1 DEF Moves, Recover, Call, HistoryOpenBlocked
<1>13. ASSUME NEW c \in Clients, StartRefused(c), UNCHANGED lang PROVE StopIsAlone'
  <2>1. Moves(c, "idle", 0, 0)
    BY <1>13, HowCallsMove
  <2> QED
    BY <1>13, <2>1 DEF Moves, StartRefused, FinishRow, LeaveRow, HistoryTypes
<1>14. ASSUME NEW c \in Clients, StartPrepare(c), UNCHANGED lang PROVE StopIsAlone'
  <2>1. Moves(c, "capture", client[c].m, client[c].gen)
    BY <1>14, HowCallsMove
  <2> QED
    BY <1>14, <2>1 DEF Moves, StartPrepare
<1>15. ASSUME NEW c \in Clients, StartFailed(c), UNCHANGED lang PROVE StopIsAlone'
  <2>1. Moves(c, "idle", 0, 0)
    BY <1>15, HowCallsMove
  <2> QED
    BY <1>15, <2>1 DEF Moves, StartFailed, FinishRow, LeaveRow, MirrorClosed, Failed, HistoryTypes
<1>16. ASSUME NEW c \in Clients, StartCapture(c), UNCHANGED lang PROVE StopIsAlone'
  <2>1. Moves(c, "name", client[c].m, client[c].gen)
    BY <1>16, HowCallsMove
  <2> QED
    BY <1>16, <2>1 DEF Moves, StartCapture
<1>17. ASSUME NEW c \in Clients, StartName(c), UNCHANGED lang PROVE StopIsAlone'
  <2>1. Moves(c, "idle", 0, 0)
    BY <1>17, HowCallsMove
  <2> QED
    BY <1>17, <2>1 DEF Moves, StartName
<1>18. ASSUME NEW c \in Clients, PauseAnswered(c), UNCHANGED lang PROVE StopIsAlone'
  <2>1. Moves(c, "paused", client[c].m, client[c].gen)
    BY <1>18, HowCallsMove
  <2> QED
    BY <1>18, <2>1 DEF Moves, PauseAnswered
<1>19. ASSUME NEW c \in Clients, WaitInVain(c), UNCHANGED lang PROVE StopIsAlone'
  <2>1. Moves(c, "idle", 0, 0)
    BY <1>19, HowCallsMove
  <2> QED
    BY <1>19, <2>1 DEF Moves, WaitInVain, HistoryTypes
<1>20. ASSUME NEW c \in Clients, PauseShow(c), UNCHANGED lang PROVE StopIsAlone'
  <2>1. Moves(c, "idle", 0, 0)
    BY <1>20, HowCallsMove
  <2> QED
    BY <1>20, <2>1 DEF Moves, PauseShow, ShowAs, HistoryTypes
<1>21. ASSUME NEW c \in Clients, ResumeAnswered(c), UNCHANGED lang PROVE StopIsAlone'
  <2>1. Moves(c, "resumed", client[c].m, client[c].gen)
    BY <1>21, HowCallsMove
  <2> QED
    BY <1>21, <2>1 DEF Moves, ResumeAnswered, HistoryTypes
<1>22. ASSUME NEW c \in Clients, ResumeShow(c), UNCHANGED lang PROVE StopIsAlone'
  <2>1. Moves(c, "idle", 0, 0)
    BY <1>22, HowCallsMove
  <2> QED
    BY <1>22, <2>1 DEF Moves, ResumeShow, ShowAs, HistoryTypes
<1>23. ASSUME NEW c \in Clients, StopJoin(c), UNCHANGED lang PROVE StopIsAlone'
  <2>1. Moves(c, "barrier", client[c].m, client[c].gen)
    BY <1>23, HowCallsMove
  <2> QED
    BY <1>23, <2>1 DEF Moves, StopJoin
<1>24. ASSUME NEW c \in Clients, StopBarrier(c), UNCHANGED lang PROVE StopIsAlone'
  <2>1. Moves(c, "finish", client[c].m, client[c].gen)
    BY <1>24, HowCallsMove
  <2> QED
    BY <1>24, <2>1 DEF Moves, StopBarrier, MirrorClosed, Barrier
<1>25. ASSUME NEW c \in Clients, StopTimeout(c), UNCHANGED lang PROVE StopIsAlone'
  <2>1. Moves(c, "idle", 0, 0)
    BY <1>25, HowCallsMove
  <2> QED
    BY <1>25, <2>1 DEF Moves, StopTimeout, HistoryTypes
<1>26. ASSUME NEW c \in Clients, StopFinish(c), UNCHANGED lang PROVE StopIsAlone'
  <2>1. Moves(c, "ready", client[c].m, client[c].gen) \/ Moves(c, "idle", 0, 0)
    BY <1>26, HowCallsMove
  <2> QED
    BY <1>26, <2>1 DEF Moves, StopFinish, LeaveRow, HistoryTypes
<1>27. ASSUME NEW c \in Clients, StopReady(c), UNCHANGED lang PROVE StopIsAlone'
  <2>1. Moves(c, "idle", 0, 0)
    BY <1>27, HowCallsMove
  <2> QED
    BY <1>27, <2>1 DEF Moves, StopReady
<1>28. ASSUME NEW c \in Clients, RecoverShow(c), UNCHANGED lang PROVE StopIsAlone'
  <2>1. Moves(c, "tail", client[c].m, client[c].gen)
    BY <1>28, HowCallsMove
  <2> QED
    BY <1>28, <2>1 DEF Moves, RecoverShow, ShowMeeting, HistoryTypes
<1>29. ASSUME NEW c \in Clients, RecoverWorker(c), UNCHANGED lang PROVE StopIsAlone'
  <2>1. Moves(c, "submit", client[c].m, worker')
    BY <1>29, HowCallsMove
  <2> QED
    BY <2>1, <1>29, ExchangeTouches, WhoWorks DEF Moves
<1>30. ASSUME NEW c \in Clients, RecoverNoWorker(c), UNCHANGED lang PROVE StopIsAlone'
  <2>1. Moves(c, "idle", 0, 0)
    BY <1>30, HowCallsMove
  <2> QED
    BY <1>30, <2>1 DEF Moves, RecoverNoWorker, NoWorker, HistoryTypes
<1>31. ASSUME NEW c \in Clients, RecoverSubmit(c), UNCHANGED lang PROVE StopIsAlone'
  <2>1. Moves(c, "drain", client[c].m, client[c].gen)
    BY <1>31, HowCallsMove
  <2> QED
    BY <1>31, <2>1 DEF Moves, RecoverSubmit
<1>32. ASSUME NEW c \in Clients, RecoverDrained(c), UNCHANGED lang PROVE StopIsAlone'
  <2>1. Moves(c, "record", client[c].m, client[c].gen)
    BY <1>32, HowCallsMove
  <2> QED
    BY <1>32, <2>1 DEF Moves, RecoverDrained
<1>33. ASSUME NEW c \in Clients, RecoverFailed(c), UNCHANGED lang PROVE StopIsAlone'
  <2>1. Moves(c, "idle", 0, 0)
    BY <1>33, HowCallsMove
  <2> QED
    BY <1>33, <2>1 DEF Moves, RecoverFailed
<1>34. ASSUME NEW c \in Clients, RecoverRecord(c), UNCHANGED lang PROVE StopIsAlone'
  <2>1. Moves(c, "idle", 0, 0)
    BY <1>34, HowCallsMove
  <2> QED
    BY <1>34, <2>1 DEF Moves, RecoverRecord, ShowMeeting, Finalized, HistoryTypes
<1>35. ASSUME NEW c \in Clients, RecoverRecordRefused(c), UNCHANGED lang PROVE StopIsAlone'
  <2>1. Moves(c, "idle", 0, 0)
    BY <1>35, HowCallsMove
  <2> QED
    BY <1>35, <2>1 DEF Moves, RecoverRecordRefused
<1>36. ASSUME Restart, UNCHANGED lang PROVE StopIsAlone'
  BY <1>36 DEF Restart, NoHistory, HistoryTypes, Idle
<1> QED
  BY UnreadIsRefused, <1>1, <1>2, <1>3, <1>4, <1>5, <1>6, <1>7, <1>8, <1>9, <1>10, <1>11, <1>12,
     <1>13, <1>14, <1>15, <1>16, <1>17, <1>18, <1>19, <1>20, <1>21, <1>22, <1>23,
     <1>24, <1>25, <1>26, <1>27, <1>28, <1>29, <1>30, <1>31, <1>32, <1>33, <1>34,
     <1>35, <1>36
     DEF Next, Command, Continue, vars

\* What blocks the history is under way.
LEMMA BlockedStep ==
    ASSUME SessionInv, [Next]_vars
    PROVE  Blocked'
<1>1. ASSUME UNCHANGED <<client, session, lifecycle, history>> PROVE Blocked'
  BY <1>1 DEF SessionInv, Types, Blocked, Doing
<1>2. ASSUME NEW c \in Clients,
             \/ \E l \in Languages : PrepareLanguage(c, l)
             \/ \E l \in Languages : WorkerLeftBehind(c, l)
             \/ \E m \in Meetings : Open(c, m)
      PROVE  UNCHANGED <<client, session, lifecycle, history>>
  BY <1>2 DEF PrepareLanguage, WorkerLeftBehind, Open
<1>3. ASSUME NEW gen \in Gens,
             BeginTask(gen) \/ CommitTask(gen)
      PROVE  UNCHANGED <<client, session, lifecycle, history>>
  BY <1>3 DEF BeginTask, CommitTask
<1>4. ASSUME NEW m \in Meetings,
             CutFinal(m) \/ CoordinatorEnds(m)
      PROVE  UNCHANGED <<client, session, lifecycle, history>>
  BY <1>4 DEF CutFinal, CoordinatorEnds
<1> USE NoMeeting DEF SessionInv, Types, Blocked, Doing, StartPcs, StopPcs
<1>5. ASSUME NEW c \in Clients, NEW l \in Languages, PrepareFailed(c, l), UNCHANGED lang
      PROVE  Blocked'
  BY <1>5 DEF PrepareFailed, Call, NoWorker
<1>6. ASSUME NEW c \in Clients, Pause(c), UNCHANGED lang PROVE Blocked'
  <2>1. Moves(c, "pausing", session, worker)
    BY <1>6, HowCallsMove
  <2> QED
    BY <1>6, <2>1 DEF Moves, Pause, Call
<1>7. ASSUME NEW c \in Clients, Resume(c), UNCHANGED lang PROVE Blocked'
  <2>1. Moves(c, "resuming", session, worker)
    BY <1>7, HowCallsMove
  <2> QED
    BY <1>7, <2>1 DEF Moves, Resume, Call
<1>8. ASSUME NEW c \in Clients, Stop(c), UNCHANGED lang PROVE Blocked'
  <2>1. Moves(c, "join", session, worker)
    BY <1>8, HowCallsMove
  <2> QED
    BY <1>8, <2>1 DEF Moves, Stop, Call
<1>9. ASSUME NEW c \in Clients, Preflight(c), UNCHANGED lang PROVE Blocked'
  BY <1>9, WhoWorks DEF Preflight, Call, PreflightMay, HistoryTypes
<1>10. ASSUME NEW c \in Clients, NEW m \in Meetings, Start(c, m), UNCHANGED lang PROVE Blocked'
  <2>1. Moves(c, "prepare", m, worker')
    BY <1>10, HowCallsMove
  <2> QED
    BY <1>10, <2>1 DEF Moves, Start, Call, New
<1>11. ASSUME NEW c \in Clients, NEW m \in Meetings, OpenAfterRetry(c, m), UNCHANGED lang
      PROVE  Blocked'
  BY <1>11 DEF OpenAfterRetry, Call, ShowMeeting, HistoryTypes
<1>12. ASSUME NEW c \in Clients, NEW m \in Meetings, NEW action \in {"recover", "finalize"}, Recover(c, m, action), UNCHANGED lang
      PROVE  Blocked'
  <2>1. Moves(c, action, m, 0)
    BY <1>12, HowCallsMove
  <2> QED
    BY <1>12, <2>1 DEF Moves, Recover, Call, HistoryOpenBlocked
<1>13. ASSUME NEW c \in Clients, StartRefused(c), UNCHANGED lang PROVE Blocked'
  <2>1. Moves(c, "idle", 0, 0)
    BY <1>13, HowCallsMove
  <2> QED
    BY <1>13, <2>1, WhoWorks DEF Moves, StartRefused, FinishRow, LeaveRow, HistoryTypes
<1>14. ASSUME NEW c \in Clients, StartPrepare(c), UNCHANGED lang PROVE Blocked'
  <2>1. Moves(c, "capture", client[c].m, client[c].gen)
    BY <1>14, HowCallsMove
  <2> QED
    BY <1>14, <2>1, WhoWorks DEF Moves, StartPrepare
<1>15. ASSUME NEW c \in Clients, StartFailed(c), UNCHANGED lang PROVE Blocked'
  <2>1. Moves(c, "idle", 0, 0)
    BY <1>15, HowCallsMove
  <2> QED
    BY <1>15, <2>1, WhoWorks DEF Moves, StartFailed, FinishRow, LeaveRow, MirrorClosed, Failed, HistoryTypes
<1>16. ASSUME NEW c \in Clients, StartCapture(c), UNCHANGED lang PROVE Blocked'
  <2>1. Moves(c, "name", client[c].m, client[c].gen)
    BY <1>16, HowCallsMove
  <2> QED
    BY <1>16, <2>1 DEF Moves, StartCapture
<1>17. ASSUME NEW c \in Clients, StartName(c), UNCHANGED lang PROVE Blocked'
  <2>1. Moves(c, "idle", 0, 0)
    BY <1>17, HowCallsMove
  <2> QED
    BY <1>17, <2>1, WhoWorks DEF Moves, StartName
<1>18. ASSUME NEW c \in Clients, PauseAnswered(c), UNCHANGED lang PROVE Blocked'
  <2>1. Moves(c, "paused", client[c].m, client[c].gen)
    BY <1>18, HowCallsMove
  <2> QED
    BY <1>18, <2>1 DEF Moves, PauseAnswered
<1>19. ASSUME NEW c \in Clients, WaitInVain(c), UNCHANGED lang PROVE Blocked'
  <2>1. Moves(c, "idle", 0, 0)
    BY <1>19, HowCallsMove
  <2> QED
    BY <1>19, <2>1 DEF Moves, WaitInVain, HistoryTypes
<1>20. ASSUME NEW c \in Clients, PauseShow(c), UNCHANGED lang PROVE Blocked'
  <2>1. Moves(c, "idle", 0, 0)
    BY <1>20, HowCallsMove
  <2> QED
    BY <1>20, <2>1 DEF Moves, PauseShow, ShowAs, HistoryTypes
<1>21. ASSUME NEW c \in Clients, ResumeAnswered(c), UNCHANGED lang PROVE Blocked'
  <2>1. Moves(c, "resumed", client[c].m, client[c].gen)
    BY <1>21, HowCallsMove
  <2> QED
    BY <1>21, <2>1 DEF Moves, ResumeAnswered, HistoryTypes
<1>22. ASSUME NEW c \in Clients, ResumeShow(c), UNCHANGED lang PROVE Blocked'
  <2>1. Moves(c, "idle", 0, 0)
    BY <1>22, HowCallsMove
  <2> QED
    BY <1>22, <2>1 DEF Moves, ResumeShow, ShowAs, HistoryTypes
<1>23. ASSUME NEW c \in Clients, StopJoin(c), UNCHANGED lang PROVE Blocked'
  <2>1. Moves(c, "barrier", client[c].m, client[c].gen)
    BY <1>23, HowCallsMove
  <2> QED
    BY <1>23, <2>1 DEF Moves, StopJoin
<1>24. ASSUME NEW c \in Clients, StopBarrier(c), UNCHANGED lang PROVE Blocked'
  <2>1. Moves(c, "finish", client[c].m, client[c].gen)
    BY <1>24, HowCallsMove
  <2> QED
    BY <1>24, <2>1 DEF Moves, StopBarrier, MirrorClosed, Barrier
<1>25. ASSUME NEW c \in Clients, StopTimeout(c), UNCHANGED lang PROVE Blocked'
  <2>1. Moves(c, "idle", 0, 0)
    BY <1>25, HowCallsMove
  <2> QED
    BY <1>25, <2>1, WhoWorks DEF Moves, StopTimeout, HistoryTypes, StopIsAlone
<1>26. ASSUME NEW c \in Clients, StopFinish(c), UNCHANGED lang PROVE Blocked'
  <2> DEFINE m == client[c].m
  <2>1. /\ UNCHANGED <<inner, session, shown, worker, workers, coord, gate, finals, marked, mirrors>>
        /\ client[c].pc = "finish" /\ m \in Meetings /\ m # session /\ stored[m] # "none"
        /\ coord[m].pc = "ended" /\ m \notin mirrors
        /\ history'.opened = history.opened /\ history'.preflighted = history.preflighted
        /\ history'.crossed = history.crossed /\ history'.replaced = history.replaced
        /\ \A x \in Meetings : x # m => stored'[x] = stored[x]
    BY <1>26, FinishTells
  <2>0. \A d \in Clients : Doing(d, StartPcs \cup StopPcs) =>
                  client[d].m \in Meetings /\ (client[d].m = m => d = c)
    BY <2>1, WhoWorks DEF Doing, StopPcs
  <2>2. CASE Finished(c)
    BY <2>0, <2>1, <2>2 DEF Moves, Finished, StopIsAlone
  <2>3. CASE Unfinished(c)
    BY <2>0, <2>1, <2>3 DEF Moves, Unfinished, StopIsAlone
  <2>4. CASE Unanswered(c)
    BY <2>0, <2>1, <2>4 DEF Moves, Unanswered, StopIsAlone
  <2> QED
    BY <1>26, <2>2, <2>3, <2>4, FinishTells
<1>27. ASSUME NEW c \in Clients, StopReady(c), UNCHANGED lang PROVE Blocked'
  <2>1. Moves(c, "idle", 0, 0)
    BY <1>27, HowCallsMove
  <2> QED
    BY <1>27, <2>1, WhoWorks DEF Moves, StopReady, StopIsAlone
<1>28. ASSUME NEW c \in Clients, RecoverShow(c), UNCHANGED lang PROVE Blocked'
  <2>1. Moves(c, "tail", client[c].m, client[c].gen)
    BY <1>28, HowCallsMove
  <2> QED
    BY <1>28, <2>1 DEF Moves, RecoverShow, ShowMeeting, HistoryTypes
<1>29. ASSUME NEW c \in Clients, RecoverWorker(c), UNCHANGED lang PROVE Blocked'
  <2>1. Moves(c, "submit", client[c].m, worker')
    BY <1>29, HowCallsMove
  <2> QED
    BY <2>1, <1>29, ExchangeTouches, WhoWorks DEF Moves
<1>30. ASSUME NEW c \in Clients, RecoverNoWorker(c), UNCHANGED lang PROVE Blocked'
  <2>1. Moves(c, "idle", 0, 0)
    BY <1>30, HowCallsMove
  <2> QED
    BY <1>30, <2>1 DEF Moves, RecoverNoWorker, NoWorker, HistoryTypes
<1>31. ASSUME NEW c \in Clients, RecoverSubmit(c), UNCHANGED lang PROVE Blocked'
  <2>1. Moves(c, "drain", client[c].m, client[c].gen)
    BY <1>31, HowCallsMove
  <2> QED
    BY <1>31, <2>1 DEF Moves, RecoverSubmit
<1>32. ASSUME NEW c \in Clients, RecoverDrained(c), UNCHANGED lang PROVE Blocked'
  <2>1. Moves(c, "record", client[c].m, client[c].gen)
    BY <1>32, HowCallsMove
  <2> QED
    BY <1>32, <2>1 DEF Moves, RecoverDrained
<1>33. ASSUME NEW c \in Clients, RecoverFailed(c), UNCHANGED lang PROVE Blocked'
  <2>1. Moves(c, "idle", 0, 0)
    BY <1>33, HowCallsMove
  <2> QED
    BY <1>33, <2>1 DEF Moves, RecoverFailed
<1>34. ASSUME NEW c \in Clients, RecoverRecord(c), UNCHANGED lang PROVE Blocked'
  <2>1. Moves(c, "idle", 0, 0)
    BY <1>34, HowCallsMove
  <2> QED
    BY <1>34, <2>1 DEF Moves, RecoverRecord, ShowMeeting, Finalized, HistoryTypes
<1>35. ASSUME NEW c \in Clients, RecoverRecordRefused(c), UNCHANGED lang PROVE Blocked'
  <2>1. Moves(c, "idle", 0, 0)
    BY <1>35, HowCallsMove
  <2> QED
    BY <1>35, <2>1 DEF Moves, RecoverRecordRefused
<1>36. ASSUME Restart, UNCHANGED lang PROVE Blocked'
  BY <1>36 DEF Restart, NoHistory, HistoryTypes, Idle
<1> QED
  BY UnreadIsRefused, <1>1, <1>2, <1>3, <1>4, <1>5, <1>6, <1>7, <1>8, <1>9, <1>10, <1>11, <1>12,
     <1>13, <1>14, <1>15, <1>16, <1>17, <1>18, <1>19, <1>20, <1>21, <1>22, <1>23,
     <1>24, <1>25, <1>26, <1>27, <1>28, <1>29, <1>30, <1>31, <1>32, <1>33, <1>34,
     <1>35, <1>36
     DEF Next, Command, Continue, vars

\* The session stays shown.
LEMMA ShownStep ==
    ASSUME SessionInv, [Next]_vars
    PROVE  Shown'
<1>1. ASSUME UNCHANGED <<client, session, lifecycle, shown, history>> PROVE Shown'
  BY <1>1 DEF SessionInv, Types, Shown, Doing
<1>2. ASSUME NEW c \in Clients,
             \/ \E l \in Languages : PrepareLanguage(c, l)
             \/ \E l \in Languages : WorkerLeftBehind(c, l)
      PROVE  UNCHANGED <<client, session, lifecycle, shown, history>>
  BY <1>2 DEF PrepareLanguage, WorkerLeftBehind
<1>3. ASSUME NEW gen \in Gens,
             BeginTask(gen) \/ CommitTask(gen)
      PROVE  UNCHANGED <<client, session, lifecycle, shown, history>>
  BY <1>3 DEF BeginTask, CommitTask
<1>4. ASSUME NEW m \in Meetings,
             CutFinal(m) \/ CoordinatorEnds(m)
      PROVE  UNCHANGED <<client, session, lifecycle, shown, history>>
  BY <1>4 DEF CutFinal, CoordinatorEnds
<1> USE NoMeeting DEF SessionInv, Types, Shown, Blocked, Doing, StartPcs, StopPcs
<1>5. ASSUME NEW c \in Clients, NEW l \in Languages, PrepareFailed(c, l), UNCHANGED lang
      PROVE  Shown'
  BY <1>5 DEF PrepareFailed, Call, NoWorker
<1>6. ASSUME NEW c \in Clients, Pause(c), UNCHANGED lang PROVE Shown'
  <2>1. Moves(c, "pausing", session, worker)
    BY <1>6, HowCallsMove
  <2> QED
    BY <1>6, <2>1 DEF Moves, Pause, Call
<1>7. ASSUME NEW c \in Clients, Resume(c), UNCHANGED lang PROVE Shown'
  <2>1. Moves(c, "resuming", session, worker)
    BY <1>7, HowCallsMove
  <2> QED
    BY <1>7, <2>1 DEF Moves, Resume, Call
<1>8. ASSUME NEW c \in Clients, Stop(c), UNCHANGED lang PROVE Shown'
  <2>1. Moves(c, "join", session, worker)
    BY <1>8, HowCallsMove
  <2> QED
    BY <1>8, <2>1 DEF Moves, Stop, Call
<1>9. ASSUME NEW c \in Clients, Preflight(c), UNCHANGED lang PROVE Shown'
  BY <1>9 DEF Preflight, Call, PreflightMay, HistoryTypes
<1>10. ASSUME NEW c \in Clients, NEW m \in Meetings, Start(c, m), UNCHANGED lang PROVE Shown'
  <2>1. Moves(c, "prepare", m, worker')
    BY <1>10, HowCallsMove
  <2> QED
    BY <1>10, <2>1 DEF Moves, Start, Call, New
<1>11. ASSUME NEW c \in Clients, NEW m \in Meetings, Open(c, m), UNCHANGED lang PROVE Shown'
  BY <1>11 DEF Open, Call, HistoryOpenBlocked, Blocking
<1>12. ASSUME NEW c \in Clients, NEW m \in Meetings, OpenAfterRetry(c, m), UNCHANGED lang
      PROVE  Shown'
  BY <1>12, OpenedTells DEF OpenAfterRetry, Call, ShowMeeting, HistoryTypes
<1>13. ASSUME NEW c \in Clients, NEW m \in Meetings, NEW action \in {"recover", "finalize"}, Recover(c, m, action), UNCHANGED lang
      PROVE  Shown'
  <2>1. Moves(c, action, m, 0)
    BY <1>13, HowCallsMove
  <2> QED
    BY <1>13, <2>1 DEF Moves, Recover, Call, HistoryOpenBlocked
<1>14. ASSUME NEW c \in Clients, StartRefused(c), UNCHANGED lang PROVE Shown'
  <2>1. Moves(c, "idle", 0, 0)
    BY <1>14, HowCallsMove
  <2> QED
    BY <1>14, <2>1, WhoWorks DEF Moves, StartRefused, FinishRow, LeaveRow, HistoryTypes
<1>15. ASSUME NEW c \in Clients, StartPrepare(c), UNCHANGED lang PROVE Shown'
  <2>1. Moves(c, "capture", client[c].m, client[c].gen)
    BY <1>15, HowCallsMove
  <2> QED
    BY <1>15, <2>1 DEF Moves, StartPrepare
<1>16. ASSUME NEW c \in Clients, StartFailed(c), UNCHANGED lang PROVE Shown'
  <2>1. Moves(c, "idle", 0, 0)
    BY <1>16, HowCallsMove
  <2> QED
    BY <1>16, <2>1, WhoWorks DEF Moves, StartFailed, FinishRow, LeaveRow, MirrorClosed, Failed, HistoryTypes
<1>17. ASSUME NEW c \in Clients, StartCapture(c), UNCHANGED lang PROVE Shown'
  <2>1. Moves(c, "name", client[c].m, client[c].gen)
    BY <1>17, HowCallsMove
  <2> QED
    BY <1>17, <2>1 DEF Moves, StartCapture
<1>18. ASSUME NEW c \in Clients, StartName(c), UNCHANGED lang PROVE Shown'
  <2>1. Moves(c, "idle", 0, 0)
    BY <1>18, HowCallsMove
  <2> QED
    BY <1>18, <2>1 DEF Moves, StartName
<1>19. ASSUME NEW c \in Clients, PauseAnswered(c), UNCHANGED lang PROVE Shown'
  <2>1. Moves(c, "paused", client[c].m, client[c].gen)
    BY <1>19, HowCallsMove
  <2> QED
    BY <1>19, <2>1 DEF Moves, PauseAnswered
<1>20. ASSUME NEW c \in Clients, WaitInVain(c), UNCHANGED lang PROVE Shown'
  <2>1. Moves(c, "idle", 0, 0)
    BY <1>20, HowCallsMove
  <2> QED
    BY <1>20, <2>1 DEF Moves, WaitInVain, HistoryTypes
<1>21. ASSUME NEW c \in Clients, PauseShow(c), UNCHANGED lang PROVE Shown'
  <2>1. Moves(c, "idle", 0, 0)
    BY <1>21, HowCallsMove
  <2> QED
    BY <1>21, <2>1 DEF Moves, PauseShow, ShowAs, HistoryTypes
<1>22. ASSUME NEW c \in Clients, ResumeAnswered(c), UNCHANGED lang PROVE Shown'
  <2>1. Moves(c, "resumed", client[c].m, client[c].gen)
    BY <1>22, HowCallsMove
  <2> QED
    BY <1>22, <2>1 DEF Moves, ResumeAnswered, HistoryTypes
<1>23. ASSUME NEW c \in Clients, ResumeShow(c), UNCHANGED lang PROVE Shown'
  <2>1. Moves(c, "idle", 0, 0)
    BY <1>23, HowCallsMove
  <2> QED
    BY <1>23, <2>1 DEF Moves, ResumeShow, ShowAs, HistoryTypes
<1>24. ASSUME NEW c \in Clients, StopJoin(c), UNCHANGED lang PROVE Shown'
  <2>1. Moves(c, "barrier", client[c].m, client[c].gen)
    BY <1>24, HowCallsMove
  <2> QED
    BY <1>24, <2>1 DEF Moves, StopJoin
<1>25. ASSUME NEW c \in Clients, StopBarrier(c), UNCHANGED lang PROVE Shown'
  <2>1. Moves(c, "finish", client[c].m, client[c].gen)
    BY <1>25, HowCallsMove
  <2> QED
    BY <1>25, <2>1 DEF Moves, StopBarrier, MirrorClosed, Barrier
<1>26. ASSUME NEW c \in Clients, StopTimeout(c), UNCHANGED lang PROVE Shown'
  <2>1. Moves(c, "idle", 0, 0)
    BY <1>26, HowCallsMove
  <2> QED
    BY <1>26, <2>1 DEF Moves, StopTimeout, HistoryTypes
<1>27. ASSUME NEW c \in Clients, StopFinish(c), UNCHANGED lang PROVE Shown'
  <2> DEFINE m == client[c].m
  <2>1. /\ UNCHANGED <<inner, session, shown, worker, workers, coord, gate, finals, marked, mirrors>>
        /\ client[c].pc = "finish" /\ m \in Meetings /\ m # session /\ stored[m] # "none"
        /\ coord[m].pc = "ended" /\ m \notin mirrors
        /\ history'.opened = history.opened /\ history'.preflighted = history.preflighted
        /\ history'.crossed = history.crossed /\ history'.replaced = history.replaced
        /\ \A x \in Meetings : x # m => stored'[x] = stored[x]
    BY <1>27, FinishTells
  <2>0. \A d \in Clients : Doing(d, StartPcs \cup StopPcs) =>
                  client[d].m \in Meetings /\ (client[d].m = m => d = c)
    BY <2>1, WhoWorks DEF Doing, StopPcs
  <2>2. CASE Finished(c)
    BY <2>0, <2>1, <2>2 DEF Moves, Finished
  <2>3. CASE Unfinished(c)
    BY <2>0, <2>1, <2>3 DEF Moves, Unfinished
  <2>4. CASE Unanswered(c)
    BY <2>0, <2>1, <2>4 DEF Moves, Unanswered
  <2> QED
    BY <1>27, <2>2, <2>3, <2>4, FinishTells
<1>28. ASSUME NEW c \in Clients, StopReady(c), UNCHANGED lang PROVE Shown'
  <2>1. Moves(c, "idle", 0, 0)
    BY <1>28, HowCallsMove
  <2> QED
    BY <1>28, <2>1 DEF Moves, StopReady
<1>29. ASSUME NEW c \in Clients, RecoverShow(c), UNCHANGED lang PROVE Shown'
  <2>1. Moves(c, "tail", client[c].m, client[c].gen)
    BY <1>29, HowCallsMove
  <2> QED
    BY <1>29, <2>1, OpenedTells DEF Moves, RecoverShow, ShowMeeting, HistoryTypes
<1>30. ASSUME NEW c \in Clients, RecoverWorker(c), UNCHANGED lang PROVE Shown'
  <2>1. Moves(c, "submit", client[c].m, worker')
    BY <1>30, HowCallsMove
  <2> QED
    BY <2>1, <1>30, ExchangeTouches, WhoWorks DEF Moves
<1>31. ASSUME NEW c \in Clients, RecoverNoWorker(c), UNCHANGED lang PROVE Shown'
  <2>1. Moves(c, "idle", 0, 0)
    BY <1>31, HowCallsMove
  <2> QED
    BY <1>31, <2>1 DEF Moves, RecoverNoWorker, NoWorker, HistoryTypes
<1>32. ASSUME NEW c \in Clients, RecoverSubmit(c), UNCHANGED lang PROVE Shown'
  <2>1. Moves(c, "drain", client[c].m, client[c].gen)
    BY <1>32, HowCallsMove
  <2> QED
    BY <1>32, <2>1 DEF Moves, RecoverSubmit
<1>33. ASSUME NEW c \in Clients, RecoverDrained(c), UNCHANGED lang PROVE Shown'
  <2>1. Moves(c, "record", client[c].m, client[c].gen)
    BY <1>33, HowCallsMove
  <2> QED
    BY <1>33, <2>1 DEF Moves, RecoverDrained
<1>34. ASSUME NEW c \in Clients, RecoverFailed(c), UNCHANGED lang PROVE Shown'
  <2>1. Moves(c, "idle", 0, 0)
    BY <1>34, HowCallsMove
  <2> QED
    BY <1>34, <2>1 DEF Moves, RecoverFailed
<1>35. ASSUME NEW c \in Clients, RecoverRecord(c), UNCHANGED lang PROVE Shown'
  <2>1. Moves(c, "idle", 0, 0)
    BY <1>35, HowCallsMove
  <2> QED
    BY <1>35, <2>1, OpenedTells DEF Moves, RecoverRecord, ShowMeeting, Finalized, HistoryTypes
<1>36. ASSUME NEW c \in Clients, RecoverRecordRefused(c), UNCHANGED lang PROVE Shown'
  <2>1. Moves(c, "idle", 0, 0)
    BY <1>36, HowCallsMove
  <2> QED
    BY <1>36, <2>1 DEF Moves, RecoverRecordRefused
<1>37. ASSUME Restart, UNCHANGED lang PROVE Shown'
  BY <1>37 DEF Restart, NoHistory, HistoryTypes, Idle
<1> QED
  BY UnreadIsRefused, <1>1, <1>2, <1>3, <1>4, <1>5, <1>6, <1>7, <1>8, <1>9, <1>10, <1>11, <1>12,
     <1>13, <1>14, <1>15, <1>16, <1>17, <1>18, <1>19, <1>20, <1>21, <1>22, <1>23,
     <1>24, <1>25, <1>26, <1>27, <1>28, <1>29, <1>30, <1>31, <1>32, <1>33, <1>34,
     <1>35, <1>36, <1>37
     DEF Next, Command, Continue, vars

\* The gate stays shut.
LEMMA GatesStep ==
    ASSUME SessionInv, [Next]_vars
    PROVE  Gates'
<1>1. ASSUME UNCHANGED <<client, session, lifecycle, gate, history>> PROVE Gates'
  BY <1>1 DEF SessionInv, Types, Gates, Doing
<1>2. ASSUME NEW c \in Clients,
             \/ \E l \in Languages : PrepareLanguage(c, l)
             \/ \E l \in Languages : WorkerLeftBehind(c, l)
             \/ \E m \in Meetings : Open(c, m)
      PROVE  UNCHANGED <<client, session, lifecycle, gate, history>>
  BY <1>2 DEF PrepareLanguage, WorkerLeftBehind, Open
<1>3. ASSUME NEW gen \in Gens,
             BeginTask(gen) \/ CommitTask(gen)
      PROVE  UNCHANGED <<client, session, lifecycle, gate, history>>
  BY <1>3 DEF BeginTask, CommitTask
<1>4. ASSUME NEW m \in Meetings,
             CutFinal(m) \/ CoordinatorEnds(m)
      PROVE  UNCHANGED <<client, session, lifecycle, gate, history>>
  BY <1>4 DEF CutFinal, CoordinatorEnds
<1> USE NoMeeting DEF SessionInv, Types, Gates, Doing
<1>5. ASSUME NEW c \in Clients, NEW l \in Languages, PrepareFailed(c, l), UNCHANGED lang
      PROVE  Gates'
  BY <1>5 DEF PrepareFailed, Call, NoWorker
<1>6. ASSUME NEW c \in Clients, Pause(c), UNCHANGED lang PROVE Gates'
  <2>1. Moves(c, "pausing", session, worker)
    BY <1>6, HowCallsMove
  <2> QED
    BY <1>6, <2>1 DEF Moves, Pause, Call, RowTypes, Named, PlaceTypes
<1>7. ASSUME NEW c \in Clients, Resume(c), UNCHANGED lang PROVE Gates'
  <2>1. Moves(c, "resuming", session, worker)
    BY <1>7, HowCallsMove
  <2> QED
    BY <1>7, <2>1 DEF Moves, Resume, Call
<1>8. ASSUME NEW c \in Clients, Stop(c), UNCHANGED lang PROVE Gates'
  <2>1. Moves(c, "join", session, worker)
    BY <1>8, HowCallsMove
  <2> QED
    BY <1>8, <2>1 DEF Moves, Stop, Call
<1>9. ASSUME NEW c \in Clients, Preflight(c), UNCHANGED lang PROVE Gates'
  BY <1>9 DEF Preflight, Call, PreflightMay, HistoryTypes
<1>10. ASSUME NEW c \in Clients, NEW m \in Meetings, Start(c, m), UNCHANGED lang PROVE Gates'
  <2>1. Moves(c, "prepare", m, worker')
    BY <1>10, HowCallsMove
  <2> QED
    BY <1>10, <2>1 DEF Moves, Start, Call, New
<1>11. ASSUME NEW c \in Clients, NEW m \in Meetings, OpenAfterRetry(c, m), UNCHANGED lang
      PROVE  Gates'
  BY <1>11 DEF OpenAfterRetry, Call, ShowMeeting, HistoryTypes
<1>12. ASSUME NEW c \in Clients, NEW m \in Meetings, NEW action \in {"recover", "finalize"}, Recover(c, m, action), UNCHANGED lang
      PROVE  Gates'
  <2>1. Moves(c, action, m, 0)
    BY <1>12, HowCallsMove
  <2> QED
    BY <1>12, <2>1 DEF Moves, Recover, Call, HistoryOpenBlocked
<1>13. ASSUME NEW c \in Clients, StartRefused(c), UNCHANGED lang PROVE Gates'
  <2>1. Moves(c, "idle", 0, 0)
    BY <1>13, HowCallsMove
  <2> QED
    BY <1>13, <2>1 DEF Moves, StartRefused, FinishRow, LeaveRow, HistoryTypes
<1>14. ASSUME NEW c \in Clients, StartPrepare(c), UNCHANGED lang PROVE Gates'
  <2>1. Moves(c, "capture", client[c].m, client[c].gen)
    BY <1>14, HowCallsMove
  <2> QED
    BY <1>14, <2>1 DEF Moves, StartPrepare
<1>15. ASSUME NEW c \in Clients, StartFailed(c), UNCHANGED lang PROVE Gates'
  <2>1. Moves(c, "idle", 0, 0)
    BY <1>15, HowCallsMove
  <2> QED
    BY <1>15, <2>1 DEF Moves, StartFailed, FinishRow, LeaveRow, MirrorClosed, Failed, HistoryTypes
<1>16. ASSUME NEW c \in Clients, StartCapture(c), UNCHANGED lang PROVE Gates'
  <2>1. Moves(c, "name", client[c].m, client[c].gen)
    BY <1>16, HowCallsMove
  <2> QED
    BY <1>16, <2>1 DEF Moves, StartCapture
<1>17. ASSUME NEW c \in Clients, StartName(c), UNCHANGED lang PROVE Gates'
  <2>1. Moves(c, "idle", 0, 0)
    BY <1>17, HowCallsMove
  <2> QED
    BY <1>17, <2>1 DEF Moves, StartName
<1>18. ASSUME NEW c \in Clients, PauseAnswered(c), UNCHANGED lang PROVE Gates'
  <2>1. Moves(c, "paused", client[c].m, client[c].gen)
    BY <1>18, HowCallsMove
  <2> QED
    BY <1>18, <2>1 DEF Moves, PauseAnswered
<1>19. ASSUME NEW c \in Clients, WaitInVain(c), UNCHANGED lang PROVE Gates'
  <2>1. Moves(c, "idle", 0, 0)
    BY <1>19, HowCallsMove
  <2> QED
    BY <1>19, <2>1 DEF Moves, WaitInVain, HistoryTypes, RowTypes
<1>20. ASSUME NEW c \in Clients, PauseShow(c), UNCHANGED lang PROVE Gates'
  <2>1. Moves(c, "idle", 0, 0)
    BY <1>20, HowCallsMove
  <2> QED
    BY <1>20, <2>1 DEF Moves, PauseShow, ShowAs, HistoryTypes
<1>21. ASSUME NEW c \in Clients, ResumeAnswered(c), UNCHANGED lang PROVE Gates'
  <2>1. Moves(c, "resumed", client[c].m, client[c].gen)
    BY <1>21, HowCallsMove
  <2> QED
    BY <1>21, <2>1 DEF Moves, ResumeAnswered, HistoryTypes, RowTypes
<1>22. ASSUME NEW c \in Clients, ResumeShow(c), UNCHANGED lang PROVE Gates'
  <2>1. Moves(c, "idle", 0, 0)
    BY <1>22, HowCallsMove
  <2> QED
    BY <1>22, <2>1 DEF Moves, ResumeShow, ShowAs, HistoryTypes
<1>23. ASSUME NEW c \in Clients, StopJoin(c), UNCHANGED lang PROVE Gates'
  <2>1. Moves(c, "barrier", client[c].m, client[c].gen)
    BY <1>23, HowCallsMove
  <2> QED
    BY <1>23, <2>1 DEF Moves, StopJoin
<1>24. ASSUME NEW c \in Clients, StopBarrier(c), UNCHANGED lang PROVE Gates'
  <2>1. Moves(c, "finish", client[c].m, client[c].gen)
    BY <1>24, HowCallsMove
  <2> QED
    BY <1>24, <2>1 DEF Moves, StopBarrier, MirrorClosed, Barrier
<1>25. ASSUME NEW c \in Clients, StopTimeout(c), UNCHANGED lang PROVE Gates'
  <2>1. Moves(c, "idle", 0, 0)
    BY <1>25, HowCallsMove
  <2> QED
    BY <1>25, <2>1 DEF Moves, StopTimeout, HistoryTypes
<1>26. ASSUME NEW c \in Clients, StopFinish(c), UNCHANGED lang PROVE Gates'
  <2>1. Moves(c, "ready", client[c].m, client[c].gen) \/ Moves(c, "idle", 0, 0)
    BY <1>26, HowCallsMove
  <2> QED
    BY <1>26, <2>1 DEF Moves, StopFinish, LeaveRow, HistoryTypes
<1>27. ASSUME NEW c \in Clients, StopReady(c), UNCHANGED lang PROVE Gates'
  <2>1. Moves(c, "idle", 0, 0)
    BY <1>27, HowCallsMove
  <2> QED
    BY <1>27, <2>1 DEF Moves, StopReady
<1>28. ASSUME NEW c \in Clients, RecoverShow(c), UNCHANGED lang PROVE Gates'
  <2>1. Moves(c, "tail", client[c].m, client[c].gen)
    BY <1>28, HowCallsMove
  <2> QED
    BY <1>28, <2>1 DEF Moves, RecoverShow, ShowMeeting, HistoryTypes
<1>29. ASSUME NEW c \in Clients, RecoverWorker(c), UNCHANGED lang PROVE Gates'
  <2>1. Moves(c, "submit", client[c].m, worker')
    BY <1>29, HowCallsMove
  <2> QED
    BY <2>1, <1>29, ExchangeTouches, WhoWorks DEF Moves
<1>30. ASSUME NEW c \in Clients, RecoverNoWorker(c), UNCHANGED lang PROVE Gates'
  <2>1. Moves(c, "idle", 0, 0)
    BY <1>30, HowCallsMove
  <2> QED
    BY <1>30, <2>1 DEF Moves, RecoverNoWorker, NoWorker, HistoryTypes
<1>31. ASSUME NEW c \in Clients, RecoverSubmit(c), UNCHANGED lang PROVE Gates'
  <2>1. Moves(c, "drain", client[c].m, client[c].gen)
    BY <1>31, HowCallsMove
  <2> QED
    BY <1>31, <2>1 DEF Moves, RecoverSubmit
<1>32. ASSUME NEW c \in Clients, RecoverDrained(c), UNCHANGED lang PROVE Gates'
  <2>1. Moves(c, "record", client[c].m, client[c].gen)
    BY <1>32, HowCallsMove
  <2> QED
    BY <1>32, <2>1 DEF Moves, RecoverDrained
<1>33. ASSUME NEW c \in Clients, RecoverFailed(c), UNCHANGED lang PROVE Gates'
  <2>1. Moves(c, "idle", 0, 0)
    BY <1>33, HowCallsMove
  <2> QED
    BY <1>33, <2>1 DEF Moves, RecoverFailed
<1>34. ASSUME NEW c \in Clients, RecoverRecord(c), UNCHANGED lang PROVE Gates'
  <2>1. Moves(c, "idle", 0, 0)
    BY <1>34, HowCallsMove
  <2> QED
    BY <1>34, <2>1 DEF Moves, RecoverRecord, ShowMeeting, Finalized, HistoryTypes
<1>35. ASSUME NEW c \in Clients, RecoverRecordRefused(c), UNCHANGED lang PROVE Gates'
  <2>1. Moves(c, "idle", 0, 0)
    BY <1>35, HowCallsMove
  <2> QED
    BY <1>35, <2>1 DEF Moves, RecoverRecordRefused
<1>36. ASSUME Restart, UNCHANGED lang PROVE Gates'
  BY <1>36 DEF Restart, NoHistory, HistoryTypes, RowTypes, Idle
<1> QED
  BY UnreadIsRefused, <1>1, <1>2, <1>3, <1>4, <1>5, <1>6, <1>7, <1>8, <1>9, <1>10, <1>11, <1>12,
     <1>13, <1>14, <1>15, <1>16, <1>17, <1>18, <1>19, <1>20, <1>21, <1>22, <1>23,
     <1>24, <1>25, <1>26, <1>27, <1>28, <1>29, <1>30, <1>31, <1>32, <1>33, <1>34,
     <1>35, <1>36
     DEF Next, Command, Continue, vars

-----------------------------------------------------------------------------
(* The finals in the queues.                                               *)

Queues == Homes /\ Counted /\ Whole

\* A step that leaves the queues, the coordinators and the counts alone keeps
\* what is said of them.
LEMMA SameKeeps ==
    ASSUME SessionInv, UNCHANGED <<workers, coord, finals, marked>>,
           history'.stopped = history.stopped
    PROVE  Queues'
  BY DEF Queues, SessionInv, Homes, Counted, Whole, Waiting

\* So does the end of a task.
LEMMA TookKeeps ==
    ASSUME SessionInv, NEW gen, Took(gen), UNCHANGED <<coord, history>>, NEW t,
           t = Head(workers[gen].tasks), t \in Task, StoredOrMarked(t)
    PROVE  Queues'
<1> DEFINE Of(x) == t.m = x /\ t.by = "coordinator"
           before(x) == Cardinality(Waits(workers[gen].tasks, x))
           after(x) == Cardinality(Waits(workers'[gen].tasks, x))
<1>1. /\ gen \in DOMAIN workers /\ DOMAIN workers' = DOMAIN workers
      /\ \A h \in DOMAIN workers : h # gen => workers'[h] = workers[h]
      /\ ~workers'[gen].ended
  BY SMTT(30), TookTells DEF Took
<1>2. \A x \in Meetings :
          /\ Of(x) => Waits(workers[gen].tasks, x) # {} /\ before(x) = after(x) + 1
          /\ ~Of(x) => before(x) = after(x)
          /\ Waits(workers'[gen].tasks, x) # {} => Waits(workers[gen].tasks, x) # {}
          /\ before(x) \in Nat /\ after(x) \in Nat
  BY TookTells
<1>3. t.m \in Meetings /\ t.by \in {"coordinator", "recovery"}
  BY DEF Task
<1>4. \A x \in Meetings : Of(x) => coord[x].pc # "none" /\ coord[x].gen = gen
  BY <1>1, <1>2 DEF SessionInv, Homes, Waiting
<1>5. Homes'
  <2>1. \A g \in DOMAIN workers' : workers'[g].ended => workers'[g].tasks = <<>>
    BY <1>1 DEF SessionInv, Homes
  <2>2. ASSUME NEW x \in Meetings, NEW g \in DOMAIN workers', Waits(workers'[g].tasks, x) # {}
        PROVE  coord[x].pc # "none" /\ coord[x].gen = g
    <3>1. Waits(workers[g].tasks, x) # {}
      BY <1>1, <1>2, <2>2
    <3> QED
      BY <1>1, <3>1 DEF SessionInv, Homes, Waiting
  <2> QED
    BY SMTT(30), <1>1, <2>1, <2>2 DEF SessionInv, Homes, Waiting
<1>6. /\ finals \in [Meetings -> [cut : Nat, live : Nat, saved : Nat]]
      /\ marked \in [Meetings -> BOOLEAN]
  BY DEF SessionInv, Types, RowTypes
<1>7. ASSUME NEW x \in Meetings
      PROVE  /\ finals'[x].cut = finals[x].cut
             /\ finals'[x].live \in Nat /\ finals'[x].saved \in Nat
             /\ \/ finals'[x].live = finals[x].live
                \/ Of(x) /\ finals'[x].live = finals[x].live + 1
             /\ finals'[x].saved = finals[x].saved \/ finals'[x].saved = finals[x].saved + 1
             /\ finals'[x].live = finals[x].live + 1 => finals'[x].saved = finals[x].saved + 1
             /\ marked[x] => marked'[x]
             /\ Of(x) /\ finals'[x].live = finals[x].live => marked'[x]
  <2>1. CASE finals' = finals /\ Mark(t)
    BY <1>3, <1>6, <2>1 DEF Mark
  <2>2. CASE ~(finals' = finals /\ Mark(t))
    <3>1. /\ marked' = marked
          /\ finals' \in [Meetings -> [cut : Nat, live : Nat, saved : Nat]]
          /\ x # t.m => finals'[x] = finals[x]
      BY <2>2 DEF StoredOrMarked
    <3>2. /\ finals'[t.m].cut = finals[t.m].cut
          /\ finals'[t.m].saved = finals[t.m].saved + 1
          /\ finals'[t.m].live = IF t.by = "coordinator" THEN finals[t.m].live + 1
                                 ELSE finals[t.m].live
      BY <2>2 DEF StoredOrMarked
    <3>3. /\ finals[x].live \in Nat /\ finals[x].saved \in Nat
          /\ finals'[x].live \in Nat /\ finals'[x].saved \in Nat
      <4> HIDE DEF Of, before, after
      <4> QED
        BY ONLY <1>6, <3>1, x \in Meetings
    <3>4. CASE x = t.m
      BY ONLY <3>1, <3>2, <3>3, <3>4
    <3>5. CASE x # t.m
      BY ONLY <3>1, <3>3, <3>5
    <3> QED
      BY <3>4, <3>5
  <2> QED
    BY <2>1, <2>2
<1>8. Counted'
  <2> SUFFICES ASSUME NEW x \in Meetings
               PROVE  /\ finals'[x].live <= finals'[x].cut /\ finals'[x].live <= finals'[x].saved
                      /\ coord[x].pc # "none" =>
                           LET n == Cardinality(Waits(workers'[coord[x].gen].tasks, x)) IN
                           /\ finals'[x].live + n <= finals'[x].cut
                           /\ ~marked'[x] => finals'[x].live + n = finals'[x].cut
    BY DEF Counted, Waiting
  <2>1. finals[x] \in [cut : Nat, live : Nat, saved : Nat]
    BY <1>6
  <2>2. /\ finals[x].live <= finals[x].cut /\ finals[x].live <= finals[x].saved
        /\ coord[x].pc # "none" =>
             LET n == Cardinality(Waits(workers[coord[x].gen].tasks, x)) IN
             /\ finals[x].live + n <= finals[x].cut
             /\ ~marked[x] => finals[x].live + n = finals[x].cut
    BY DEF SessionInv, Counted, Waiting
  <2>3. CASE coord[x].pc # "none" /\ coord[x].gen = gen
    <3>1. /\ Waits(workers'[coord[x].gen].tasks, x) = Waits(workers'[gen].tasks, x)
          /\ Waits(workers[coord[x].gen].tasks, x) = Waits(workers[gen].tasks, x)
      BY SMTT(30), <2>3
    <3>2. /\ before(x) \in Nat /\ after(x) \in Nat
          /\ Of(x) => before(x) = after(x) + 1
          /\ ~Of(x) => before(x) = after(x)
      BY <1>2
    <3>3. /\ finals[x].live + before(x) <= finals[x].cut
          /\ ~marked[x] => finals[x].live + before(x) = finals[x].cut
      BY SMTT(30), <2>2, <2>3, <3>1
    <3>4. /\ finals'[x].live <= finals'[x].cut /\ finals'[x].live <= finals'[x].saved
          /\ finals'[x].live + after(x) <= finals'[x].cut
          /\ ~marked'[x] => finals'[x].live + after(x) = finals'[x].cut
      <4> HIDE DEF before, after, Of
      <4> QED
        BY <1>7, <2>1, <2>2, <3>2, <3>3
    <3> QED
      BY <3>1, <3>4
  <2>4. CASE ~(coord[x].pc # "none" /\ coord[x].gen = gen)
    <3>1. ~Of(x) /\ finals'[x].live = finals[x].live /\ finals'[x].cut = finals[x].cut
      BY <1>4, <1>7, <2>4
    <3>2. coord[x].pc # "none" => workers'[coord[x].gen] = workers[coord[x].gen]
      BY SMTT(30), <1>1, <2>4 DEF SessionInv, Homes
    <3>3. marked[x] => marked'[x]
      BY <1>7
    <3>4. finals'[x].live <= finals'[x].saved
      <4>1. /\ finals'[x].live = finals[x].live
            /\ finals'[x].saved = finals[x].saved \/ finals'[x].saved = finals[x].saved + 1
        BY <1>7, <3>1
      <4>2. finals[x].live \in Nat /\ finals[x].saved \in Nat /\ finals[x].live <= finals[x].saved
        BY <2>1, <2>2
      <4> QED
        BY SMTT(30), <4>1, <4>2
    <3>5. CASE coord[x].pc = "none"
      BY <2>2, <3>1, <3>4, <3>5
    <3>6. CASE coord[x].pc # "none"
      BY SMTT(30), <2>2, <3>1, <3>2, <3>3, <3>4, <3>6
    <3> QED
      BY SMTT(30), <3>5, <3>6
  <2> QED
    BY SMTT(30), <2>3, <2>4
<1>9. Whole'
  <2> SUFFICES ASSUME NEW x \in history.stopped
               PROVE  /\ coord[x].pc \in {"ended", "none"} /\ finals'[x].live = finals'[x].cut
                      /\ coord[x].pc = "ended" => Waits(workers'[coord[x].gen].tasks, x) = {}
    BY SMTT(30) DEF Whole, Waiting
  <2>1. /\ x \in Meetings /\ coord[x].pc \in {"ended", "none"} /\ finals[x].live = finals[x].cut
        /\ coord[x].pc = "ended" => Waits(workers[coord[x].gen].tasks, x) = {}
    BY SMTT(30) DEF SessionInv, Whole, Waiting, Types, HistoryTypes
  <2>2. ~Of(x)
    BY ZenonT(40), <1>2, <1>4, <2>1
  <2>3. finals'[x].live = finals'[x].cut
    BY <1>7, <2>1, <2>2
  <2>4. coord[x].pc = "ended" => Waits(workers'[coord[x].gen].tasks, x) = {}
    <3> SUFFICES ASSUME coord[x].pc = "ended"
                 PROVE  Waits(workers'[coord[x].gen].tasks, x) = {}
      OBVIOUS
    <3>1. coord[x].gen \in DOMAIN workers
      BY <2>1 DEF SessionInv, Homes
    <3> QED
      BY SMTT(30), <1>1, <1>2, <2>1, <3>1
  <2> QED
    BY SMTT(30), <2>1, <2>3, <2>4
<1> QED
  BY <1>5, <1>8, <1>9 DEF Queues

\* Finals are where they belong, none is lost, and what is whole stays whole.
LEMMA QueuesStep ==
    ASSUME SessionInv, [Next]_vars
    PROVE  Queues'
<1>1. ASSUME UNCHANGED <<workers, coord, finals, marked, history>> PROVE Queues'
  BY <1>1 DEF SessionInv, Types, Queues, Homes, Counted, Whole, Waiting
<1>2. ASSUME NEW c \in Clients,
             \/ Pause(c) \/ Resume(c) \/ StartName(c) \/ PauseAnswered(c) \/ StopJoin(c)
             \/ StopBarrier(c) \/ StopReady(c) \/ RecoverDrained(c) \/ RecoverFailed(c)
             \/ RecoverRecordRefused(c)
             \/ \E l \in Languages : WorkerLeftBehind(c, l)
             \/ \E m \in Meetings : Open(c, m)
             \/ \E m \in Meetings : \E action \in {"recover", "finalize"} : Recover(c, m, action)
      PROVE  UNCHANGED <<workers, coord, finals, marked, history>>
  BY <1>2 DEF WorkerLeftBehind, Pause, Resume, Open, Recover, StartName, PauseAnswered, StopJoin,
    StopBarrier, StopReady, RecoverDrained, RecoverFailed, RecoverRecordRefused
<1> USE DEF SessionInv, Types, Queues
<1>3. ASSUME NEW c \in Clients, NEW l \in Languages, PrepareLanguage(c, l), UNCHANGED lang
      PROVE  Queues'
  <2>1. Calm
    BY <1>3, CallsAreCalm
  <2>2. UNCHANGED <<coord, finals, marked, session>> /\ history'.stopped = history.stopped
    BY <1>3 DEF PrepareLanguage, Call, WorkerTypes, HistoryTypes
  <2> QED
    BY <2>1, <2>2, CalmKeeps
<1>4. ASSUME NEW c \in Clients, NEW l \in Languages, PrepareFailed(c, l), UNCHANGED lang
      PROVE  Queues'
  <2>1. Calm
    BY <1>4, CallsAreCalm
  <2>2. UNCHANGED <<coord, finals, marked, session>> /\ history'.stopped = history.stopped
    BY <1>4 DEF PrepareFailed, Call, NoWorker, WorkerTypes, HistoryTypes
  <2> QED
    BY <2>1, <2>2, CalmKeeps
<1>5. ASSUME NEW c \in Clients, Stop(c), UNCHANGED lang PROVE Queues'
  <2>1. /\ session \in Meetings /\ coord[session].pc = "running" /\ session \notin history.stopped
        /\ coord' = [coord EXCEPT ![session].pc = "told"]
        /\ UNCHANGED <<workers, finals, marked, history>>
    BY <1>5 DEF Stop, PlaceTypes, SessionIsRecorded, Whole
  <2>2. /\ coord'[session].pc = "told" /\ coord'[session].gen = coord[session].gen
        /\ \A x \in Meetings : x # session => coord'[x] = coord[x]
    BY <2>1 DEF CoordTypes
  <2>3. Homes'
    <3>1. \A x \in Meetings : /\ coord'[x].gen = coord[x].gen
                              /\ coord'[x].pc = "none" <=> coord[x].pc = "none"
      BY <2>1, <2>2
    <3> QED
      BY <2>1, <3>1 DEF Homes, Waiting
  <2>4. Counted'
    BY <2>1, <2>2 DEF Counted, Waiting
  <2>5. Whole'
    BY <2>1, <2>2 DEF Whole, Waiting, HistoryTypes
  <2> QED
    BY <2>3, <2>4, <2>5
<1>6. ASSUME NEW c \in Clients, Preflight(c), UNCHANGED lang PROVE Queues'
  <2>1. UNCHANGED <<workers, coord, finals, marked>> /\ history'.stopped = history.stopped
    BY <1>6 DEF Preflight, Call, PreflightMay, HistoryTypes, HistoryTypes
  <2> QED
    BY <2>1, SameKeeps
<1>7. ASSUME NEW c \in Clients, NEW m \in Meetings, Start(c, m), UNCHANGED lang PROVE Queues'
  <2>1. Calm
    BY <1>7, CallsAreCalm
  <2>2. UNCHANGED <<coord, finals, marked, session>> /\ history'.stopped = history.stopped
    BY <1>7 DEF Start, Call, New, WorkerTypes, HistoryTypes
  <2> QED
    BY <2>1, <2>2, CalmKeeps
<1>8. ASSUME NEW c \in Clients, NEW m \in Meetings, OpenAfterRetry(c, m), UNCHANGED lang
      PROVE  Queues'
  <2>1. UNCHANGED <<workers, coord, finals, marked>> /\ history'.stopped = history.stopped
    BY <1>8 DEF OpenAfterRetry, Call, ShowMeeting, HistoryTypes, HistoryTypes
  <2> QED
    BY <2>1, SameKeeps
<1>9. ASSUME NEW c \in Clients, StartRefused(c), UNCHANGED lang PROVE Queues'
  <2>1. UNCHANGED <<workers, coord, finals, marked>> /\ history'.stopped = history.stopped
    BY <1>9 DEF StartRefused, FinishRow, LeaveRow, HistoryTypes, HistoryTypes
  <2> QED
    BY <2>1, SameKeeps
<1>10. ASSUME NEW c \in Clients, StartPrepare(c), UNCHANGED lang PROVE Queues'
  <2>1. Calm
    BY <1>10, CallsAreCalm
  <2>2. UNCHANGED <<coord, finals, marked, session>> /\ history'.stopped = history.stopped
    BY <1>10 DEF StartPrepare, WorkerTypes, HistoryTypes
  <2> QED
    BY <2>1, <2>2, CalmKeeps
<1>11. ASSUME NEW c \in Clients, StartFailed(c), UNCHANGED lang PROVE Queues'
  <2>1. UNCHANGED <<workers, coord, finals, marked>> /\ history'.stopped = history.stopped
    BY <1>11 DEF StartFailed, FinishRow, LeaveRow, MirrorClosed, Failed, HistoryTypes, HistoryTypes
  <2> QED
    BY <2>1, SameKeeps
<1>12. ASSUME NEW c \in Clients, StartCapture(c), UNCHANGED lang PROVE Queues'
  <2> DEFINE m == client[c].m
  <2>1. /\ m \in Meetings /\ worker # 0 /\ coord[m].pc = "none" /\ client[c].gen = worker
        /\ m \notin history.stopped /\ finals[m].cut = 0
    BY <1>12, WhoWorks DEF StartCapture, Doing, StartPcs, StartsFind, Fresh
  <2>2. /\ coord' = [coord EXCEPT ![m] = [pc |-> "running", gen |-> worker]]
        /\ UNCHANGED <<workers, finals, marked, history>>
    BY <1>12, <2>1 DEF StartCapture
  <2>3. worker \in DOMAIN workers /\ \A g \in DOMAIN workers : Waits(workers[g].tasks, m) = {}
    <3>1. worker \in DOMAIN workers
      BY <2>1 DEF WorkerTypes
    <3>2. \A g \in DOMAIN workers : Waits(workers[g].tasks, m) = {}
      BY <2>1 DEF Homes, Waiting
    <3> QED
      BY <3>1, <3>2
  <2>4. coord'[m].pc = "running" /\ coord'[m].gen = worker /\ \A x \in Meetings : x # m => coord'[x] = coord[x]
    BY <2>1, <2>2 DEF CoordTypes
  <2>5. finals[m].live = 0 /\ Cardinality(Waits(workers[worker].tasks, m)) = 0
    <3>1. finals[m].live \in Nat /\ finals[m].live <= finals[m].cut
      BY <2>1 DEF Counted, RowTypes
    <3>2. Waits(workers[worker].tasks, m) = {}
      BY <2>3
    <3> QED
      BY <2>1, <3>1, <3>2, FS_EmptySet
  <2>6. Homes'
    <3>1. \A x \in Meetings, g \in DOMAIN workers :
              Waits(workers[g].tasks, x) # {} => coord'[x].pc # "none" /\ coord'[x].gen = g
      BY <2>1, <2>3, <2>4 DEF Homes, Waiting
    <3>2. \A x \in Meetings : coord'[x].pc # "none" => coord'[x].gen \in DOMAIN workers
      BY <2>1, <2>3, <2>4 DEF Homes
    <3>3. \A g \in DOMAIN workers : workers[g].ended => workers[g].tasks = <<>>
      BY DEF Homes
    <3> QED
      BY <2>2, <3>1, <3>2, <3>3 DEF Homes, Waiting
  <2>7. Counted'
    BY <2>1, <2>2, <2>4, <2>5 DEF Counted, Waiting
  <2>8. Whole'
    BY <2>1, <2>2, <2>4 DEF Whole, Waiting, HistoryTypes
  <2> QED
    BY <2>6, <2>7, <2>8
<1>13. ASSUME NEW c \in Clients, WaitInVain(c), UNCHANGED lang PROVE Queues'
  <2>1. UNCHANGED <<workers, coord, finals, marked>> /\ history'.stopped = history.stopped
    BY <1>13 DEF WaitInVain, HistoryTypes, HistoryTypes
  <2> QED
    BY <2>1, SameKeeps
<1>14. ASSUME NEW c \in Clients, PauseShow(c), UNCHANGED lang PROVE Queues'
  <2>1. UNCHANGED <<workers, coord, finals, marked>> /\ history'.stopped = history.stopped
    BY <1>14 DEF PauseShow, ShowAs, HistoryTypes, HistoryTypes
  <2> QED
    BY <2>1, SameKeeps
<1>15. ASSUME NEW c \in Clients, ResumeAnswered(c), UNCHANGED lang PROVE Queues'
  <2>1. UNCHANGED <<workers, coord, finals, marked>> /\ history'.stopped = history.stopped
    BY <1>15 DEF ResumeAnswered, HistoryTypes, HistoryTypes
  <2> QED
    BY <2>1, SameKeeps
<1>16. ASSUME NEW c \in Clients, ResumeShow(c), UNCHANGED lang PROVE Queues'
  <2>1. UNCHANGED <<workers, coord, finals, marked>> /\ history'.stopped = history.stopped
    BY <1>16 DEF ResumeShow, ShowAs, HistoryTypes, HistoryTypes
  <2> QED
    BY <2>1, SameKeeps
<1>17. ASSUME NEW c \in Clients, StopTimeout(c), UNCHANGED lang PROVE Queues'
  <2>1. UNCHANGED <<workers, coord, finals, marked>> /\ history'.stopped = history.stopped
    BY <1>17 DEF StopTimeout, HistoryTypes, HistoryTypes
  <2> QED
    BY <2>1, SameKeeps
<1>18. ASSUME NEW c \in Clients, StopFinish(c), UNCHANGED lang PROVE Queues'
  <2> DEFINE m == client[c].m
  <2>1. /\ UNCHANGED <<workers, coord, finals, marked>> /\ m \in Meetings /\ coord[m].pc = "ended"
        /\ Finished(c) \/ Unfinished(c) \/ Unanswered(c)
    BY <1>18, FinishTells
  <2>2. Waits(workers[coord[m].gen].tasks, m) = {}
    BY <1>18 DEF StopFinish, LeaveRow, Awaited, Doing, Waiting
  <2>3. ~marked[m] => finals[m].live = finals[m].cut
    <3>1. Cardinality(Waits(workers[coord[m].gen].tasks, m)) = 0 /\ finals[m].live \in Nat
      BY <2>1, <2>2, FS_EmptySet DEF RowTypes
    <3>2. coord[m].pc # "none"
      BY <2>1
    <3> QED
      BY <2>1, <3>1, <3>2 DEF Counted, Waiting
  <2>4. history'.stopped \subseteq history.stopped \cup (IF marked[m] THEN {} ELSE {m})
    BY <2>1 DEF Finished, Unfinished, Unanswered
  <2>5. Homes' /\ Counted'
    BY <2>1 DEF Homes, Counted, Waiting
  <2>6. Whole'
    BY <2>1, <2>2, <2>3, <2>4 DEF Whole, Waiting
  <2> QED
    BY <2>5, <2>6
<1>19. ASSUME NEW c \in Clients, RecoverShow(c), UNCHANGED lang PROVE Queues'
  <2>1. UNCHANGED <<workers, coord, finals, marked>> /\ history'.stopped = history.stopped
    BY <1>19 DEF RecoverShow, ShowMeeting, HistoryTypes, HistoryTypes
  <2> QED
    BY <2>1, SameKeeps
<1>20. ASSUME NEW c \in Clients, RecoverWorker(c), UNCHANGED lang PROVE Queues'
  <2>1. Calm
    BY <1>20, CallsAreCalm
  <2>2. UNCHANGED <<coord, finals, marked, session>> /\ history'.stopped = history.stopped
    BY <1>20, ExchangeTouches
  <2> QED
    BY <2>1, <2>2, CalmKeeps
<1>21. ASSUME NEW c \in Clients, RecoverNoWorker(c), UNCHANGED lang PROVE Queues'
  <2>1. Calm
    BY <1>21, CallsAreCalm
  <2>2. UNCHANGED <<coord, finals, marked, session>> /\ history'.stopped = history.stopped
    BY <1>21 DEF RecoverNoWorker, NoWorker, HistoryTypes, WorkerTypes, HistoryTypes
  <2> QED
    BY <2>1, <2>2, CalmKeeps
<1>22. ASSUME NEW c \in Clients, RecoverSubmit(c), UNCHANGED lang PROVE Queues'
  <2>1. Calm
    BY <1>22, CallsAreCalm
  <2>2. UNCHANGED <<coord, finals, marked, session>> /\ history'.stopped = history.stopped
    BY <1>22 DEF RecoverSubmit, WorkerTypes, HistoryTypes
  <2> QED
    BY <2>1, <2>2, CalmKeeps
<1>23. ASSUME NEW c \in Clients, RecoverRecord(c), UNCHANGED lang PROVE Queues'
  <2>1. UNCHANGED <<workers, coord, finals, marked>> /\ history'.stopped = history.stopped
    BY <1>23 DEF RecoverRecord, ShowMeeting, Finalized, HistoryTypes, HistoryTypes
  <2> QED
    BY <2>1, SameKeeps
<1>24. ASSUME NEW gen \in Gens, BeginTask(gen), UNCHANGED lang PROVE Queues'
  <2>1. UNCHANGED <<coord, finals, session, worker, history>>
    BY <1>24 DEF BeginTask
  <2>2. CASE CalmTo(workers') /\ marked' = marked /\ Len(workers') = Len(workers)
    <3>1. Calm
      BY <2>1, <2>2 DEF Calm, WorkerTypes
    <3> QED
      BY <2>1, <2>2, <3>1, CalmKeeps
  <2>3. CASE Took(gen) /\ Mark(Head(workers[gen].tasks))
    <3>1. Head(workers[gen].tasks) \in Task
      BY <2>3, TookTells
    <3>2. StoredOrMarked(Head(workers[gen].tasks))
      BY <2>1, <2>3 DEF StoredOrMarked
    <3> QED
      BY <2>1, <2>3, <3>1, <3>2, TookKeeps
  <2> QED
    BY <1>24, <2>2, <2>3, TasksAreTaken
<1>25. ASSUME NEW gen \in Gens, CommitTask(gen), UNCHANGED lang PROVE Queues'
  <2>1. PICK t : t = Head(workers[gen].tasks)
    OBVIOUS
  <2>2. Took(gen) /\ t \in Task /\ StoredOrMarked(t) /\ UNCHANGED <<coord, history>>
    BY <1>25, <2>1, CommitTells
  <2> QED
    BY <2>1, <2>2, TookKeeps
<1>26. ASSUME NEW m \in Meetings, CutFinal(m), UNCHANGED lang PROVE Queues'
  <2> DEFINE g == coord[m].gen
             before == Cardinality(Waits(workers[g].tasks, m))
             after == Cardinality(Waits(workers'[g].tasks, m))
  <2>1. /\ g \in DOMAIN workers /\ coord[m].pc \in {"running", "told"}
        /\ workers' \in Seq(Worker) /\ DOMAIN workers' = DOMAIN workers
        /\ \A h \in DOMAIN workers : h # g => workers'[h] = workers[h]
        /\ workers'[g].ended = workers[g].ended
        /\ \A x \in Meetings : x # m => Waits(workers'[g].tasks, x) = Waits(workers[g].tasks, x)
    BY <1>26, CutTells
  <2>2. \/ workers' = workers /\ marked' = [marked EXCEPT ![m] = TRUE]
        \/ ~workers[g].ended /\ marked' = marked /\ after = before + 1
    BY <1>26, CutTells
  <2>3. /\ finals' \in [Meetings -> [cut : Nat, live : Nat, saved : Nat]]
        /\ \A x \in Meetings : x # m => finals'[x] = finals[x]
        /\ finals'[m].cut = finals[m].cut + 1 /\ finals'[m].live = finals[m].live
        /\ finals'[m].saved = finals[m].saved
    BY <1>26, CutCounts
  <2>4. UNCHANGED <<coord, history>> /\ m \notin history.stopped
    BY <1>26, <2>1 DEF CutFinal, Whole
  <2>5. before \in Nat /\ after \in Nat
    <3>1. workers[g].tasks \in Seq(Task)
      BY <2>1, WorkerTells
    <3>2. workers'[g] \in Worker
      BY <2>1
    <3>3. workers'[g].tasks \in Seq(Task)
      BY <3>2 DEF Worker
    <3> QED
      BY <3>1, <3>3, WaitsAreFinite
  <2>6. /\ finals \in [Meetings -> [cut : Nat, live : Nat, saved : Nat]]
        /\ marked \in [Meetings -> BOOLEAN]
    BY DEF RowTypes
  <2>7. Homes'
    <3>1. \A h \in DOMAIN workers' : workers'[h].ended => workers'[h].tasks = <<>>
      BY <2>1, <2>2 DEF Homes
    <3>2. ASSUME NEW x \in Meetings, NEW h \in DOMAIN workers', Waits(workers'[h].tasks, x) # {}
          PROVE  coord[x].pc # "none" /\ coord[x].gen = h
      <4>1. CASE x = m /\ h = g
        BY <2>1, <4>1
      <4>2. CASE ~(x = m /\ h = g)
        <5>1. Waits(workers[h].tasks, x) # {} /\ h \in DOMAIN workers
          BY <2>1, <3>2, <4>2
        <5> QED
          BY <5>1 DEF Homes, Waiting
      <4> QED
        BY <4>1, <4>2
    <3> QED
      BY <2>1, <2>4, <3>1, <3>2 DEF Homes, Waiting
  <2>8. Counted'
    <3> SUFFICES ASSUME NEW x \in Meetings
                 PROVE  /\ finals'[x].live <= finals'[x].cut /\ finals'[x].live <= finals'[x].saved
                        /\ coord[x].pc # "none" =>
                             LET n == Cardinality(Waits(workers'[coord[x].gen].tasks, x)) IN
                             /\ finals'[x].live + n <= finals'[x].cut
                             /\ ~marked'[x] => finals'[x].live + n = finals'[x].cut
      BY <2>4 DEF Counted, Waiting
    <3>1. finals[x] \in [cut : Nat, live : Nat, saved : Nat]
      BY <2>6
    <3>2. /\ finals[x].live <= finals[x].cut /\ finals[x].live <= finals[x].saved
          /\ coord[x].pc # "none" =>
               LET n == Cardinality(Waits(workers[coord[x].gen].tasks, x)) IN
               /\ finals[x].live + n <= finals[x].cut
               /\ ~marked[x] => finals[x].live + n = finals[x].cut
      BY DEF Counted, Waiting
    <3>3. CASE x = m
      BY SMTT(30), <2>1, <2>2, <2>3, <2>5, <2>6, <3>1, <3>2, <3>3
    <3>4. CASE x # m
      <4>1. finals'[x] = finals[x] /\ marked'[x] = marked[x]
        BY <2>2, <2>3, <2>6, <3>4
      <4>2. coord[x].pc # "none" =>
              Waits(workers'[coord[x].gen].tasks, x) = Waits(workers[coord[x].gen].tasks, x)
        BY <2>1, <3>4 DEF Homes
      <4> QED
        BY <3>1, <3>2, <4>1, <4>2
    <3> QED
      BY <3>3, <3>4
  <2>9. Whole'
    <3> SUFFICES ASSUME NEW x \in history.stopped
                 PROVE  /\ coord[x].pc \in {"ended", "none"} /\ finals'[x].live = finals'[x].cut
                        /\ coord[x].pc = "ended" => Waits(workers'[coord[x].gen].tasks, x) = {}
      BY <2>4 DEF Whole, Waiting
    <3>1. /\ x \in Meetings /\ x # m /\ coord[x].pc \in {"ended", "none"}
          /\ finals[x].live = finals[x].cut
          /\ coord[x].pc = "ended" => Waits(workers[coord[x].gen].tasks, x) = {}
      BY <2>4 DEF Whole, Waiting, HistoryTypes
    <3>2. coord[x].pc = "ended" => coord[x].gen \in DOMAIN workers
      BY <3>1 DEF Homes
    <3> QED
      BY <2>1, <2>3, <3>1, <3>2
  <2> QED
    BY <2>7, <2>8, <2>9
<1>27. ASSUME NEW m \in Meetings, CoordinatorEnds(m), UNCHANGED lang PROVE Queues'
  <2>1. /\ coord[m].pc = "told" /\ m \notin history.stopped
        /\ coord' = [coord EXCEPT ![m].pc = "ended"]
        /\ UNCHANGED <<workers, finals, marked, history>>
    BY <1>27 DEF CoordinatorEnds, Whole
  <2>2. /\ coord'[m].pc = "ended" /\ coord'[m].gen = coord[m].gen
        /\ \A x \in Meetings : x # m => coord'[x] = coord[x]
    BY <2>1 DEF CoordTypes
  <2>3. Homes'
    <3>1. \A x \in Meetings : /\ coord'[x].gen = coord[x].gen
                              /\ coord'[x].pc = "none" <=> coord[x].pc = "none"
      BY <2>1, <2>2
    <3> QED
      BY <2>1, <3>1 DEF Homes, Waiting
  <2>4. Counted'
    BY <2>1, <2>2 DEF Counted, Waiting
  <2>5. Whole'
    BY <2>1, <2>2 DEF Whole, Waiting, HistoryTypes
  <2> QED
    BY <2>3, <2>4, <2>5
<1>28. ASSUME Restart, UNCHANGED lang PROVE Queues'
  <2>1. /\ workers' = <<>> /\ finals' = finals /\ history'.stopped = history.stopped
        /\ \A m \in Meetings : coord'[m].pc = "none"
    BY <1>28 DEF Restart, NoHistory
  <2>2. Homes'
    BY <2>1 DEF Homes, Waiting
  <2>3. Counted'
    BY <2>1 DEF Counted, Waiting
  <2>4. Whole'
    BY <2>1 DEF Whole, Waiting, HistoryTypes
  <2> QED
    BY <2>2, <2>3, <2>4
<1> QED
  BY UnreadIsRefused, <1>1, <1>2, <1>3, <1>4, <1>5, <1>6, <1>7, <1>8, <1>9, <1>10, <1>11, <1>12,
     <1>13, <1>14, <1>15, <1>16, <1>17, <1>18, <1>19, <1>20, <1>21, <1>22, <1>23,
     <1>24, <1>25, <1>26, <1>27, <1>28
     DEF Next, Command, Continue, vars

\* A meeting that is recorded or stopped has a worker.
LEMMA StoppedHaveOne ==
    ASSUME SessionInv
    PROVE  /\ \A d \in Clients : Doing(d, StopPcs) =>
                /\ client[d].m \in Meetings /\ coord[client[d].m].pc \in {"told", "ended"}
                /\ coord[client[d].m].gen \in DOMAIN workers
                /\ client[d].pc # "join" => coord[client[d].m].pc = "ended"
           /\ session # 0 => /\ session \in Meetings /\ coord[session].pc = "running"
                             /\ coord[session].gen \in DOMAIN workers
<1>1. \A d \in Clients : Doing(d, StopPcs) =>
          /\ client[d].m \in Meetings /\ coord[client[d].m].pc \in {"told", "ended"}
          /\ client[d].pc # "join" => coord[client[d].m].pc = "ended"
  BY WhoWorks DEF SessionInv, StopsFind, Doing
<1>2. session # 0 => session \in Meetings /\ coord[session].pc = "running"
  BY DEF SessionInv, Types, PlaceTypes, SessionIsRecorded
<1>3. \A x \in Meetings : coord[x].pc # "none" => coord[x].gen \in DOMAIN workers
  BY ZenonT(40) DEF SessionInv, Homes
<1> QED
  BY <1>1, <1>2, <1>3

\* A stop waits for the worker that has its finals.
LEMMA AwaitedStep ==
    ASSUME SessionInv, [Next]_vars
    PROVE  Awaited'
<1>1. ASSUME UNCHANGED <<session, coord, worker, workers, client>> PROVE Awaited'
  BY <1>1 DEF SessionInv, Types, Awaited, Waiting, Doing
<1>2. ASSUME NEW c \in Clients,
             \/ Preflight(c)
             \/ \E m \in Meetings : Open(c, m)
             \/ \E m \in Meetings : OpenAfterRetry(c, m)
      PROVE  UNCHANGED <<session, coord, worker, workers, client>>
  BY <1>2 DEF Preflight, Open, OpenAfterRetry
<1> USE DEF SessionInv, Types, Awaited, Waiting, Doing, StopPcs
<1>3. ASSUME NEW c \in Clients, NEW l \in Languages, PrepareLanguage(c, l), UNCHANGED lang
      PROVE  Awaited'
  <2>1. Calm
    BY <1>3, CallsAreCalm
  <2>2. UNCHANGED <<coord, finals, marked, session>> /\ history'.stopped = history.stopped
    BY <1>3 DEF PrepareLanguage, Call, WorkerTypes, HistoryTypes
  <2>3. client' = client
    BY <1>3 DEF PrepareLanguage, Call, WorkerTypes
  <2> QED
    BY <2>1, <2>2, <2>3, CalmKeeps, StoppedHaveOne DEF Moves
<1>4. ASSUME NEW c \in Clients, NEW l \in Languages, WorkerLeftBehind(c, l), UNCHANGED lang
      PROVE  Awaited'
  BY <1>4 DEF WorkerLeftBehind
<1>5. ASSUME NEW c \in Clients, NEW l \in Languages, PrepareFailed(c, l), UNCHANGED lang
      PROVE  Awaited'
  <2>1. Calm
    BY <1>5, CallsAreCalm
  <2>2. UNCHANGED <<coord, finals, marked, session>> /\ history'.stopped = history.stopped
    BY <1>5 DEF PrepareFailed, Call, NoWorker, WorkerTypes, HistoryTypes
  <2>3. client' = client
    BY SMTT(30), <1>5 DEF PrepareFailed, Call, NoWorker, WorkerTypes
  <2> QED
    BY <2>1, <2>2, <2>3, CalmKeeps, StoppedHaveOne DEF Moves
<1>6. ASSUME NEW c \in Clients, Pause(c), UNCHANGED lang PROVE Awaited'
  <2>1. Moves(c, "pausing", session, worker)
    BY <1>6, HowCallsMove
  <2> QED
    BY <1>6, <2>1 DEF Moves, Pause, Call
<1>7. ASSUME NEW c \in Clients, Resume(c), UNCHANGED lang PROVE Awaited'
  <2>1. Moves(c, "resuming", session, worker)
    BY SMTT(30), <1>7, HowCallsMove
  <2> QED
    BY <1>7, <2>1 DEF Moves, Resume, Call
<1>8. ASSUME NEW c \in Clients, Stop(c), UNCHANGED lang PROVE Awaited'
  <2>1. Moves(c, "join", session, worker)
    BY <1>8, HowCallsMove
  <2>2. session # 0 /\ session' = 0 /\ UNCHANGED <<worker, workers>>
    BY <1>8 DEF Stop
  <2>3. \A x \in Meetings : coord'[x].gen = coord[x].gen
    BY <1>8 DEF Stop, CoordTypes
  <2> QED
    BY SMTT(30), <2>1, <2>2, <2>3, StoppedHaveOne DEF Moves
<1>9. ASSUME NEW c \in Clients, NEW m \in Meetings, Start(c, m), UNCHANGED lang PROVE Awaited'
  <2>1. Calm
    BY <1>9, CallsAreCalm
  <2>2. UNCHANGED <<coord, finals, marked, session>> /\ history'.stopped = history.stopped
    BY <1>9 DEF Start, Call, New, WorkerTypes, HistoryTypes
  <2>3. Moves(c, "prepare", m, worker')
    BY <1>9, HowCallsMove
  <2> QED
    BY ZenonT(40), <2>1, <2>2, <2>3, CalmKeeps, StoppedHaveOne DEF Moves
<1>10. ASSUME NEW c \in Clients, NEW m \in Meetings, NEW action \in {"recover", "finalize"}, Recover(c, m, action), UNCHANGED lang
      PROVE  Awaited'
  <2>1. Moves(c, action, m, 0)
    BY <1>10, HowCallsMove
  <2> QED
    BY <1>10, <2>1 DEF Moves, Recover, Call, HistoryOpenBlocked
<1>11. ASSUME NEW c \in Clients, StartRefused(c), UNCHANGED lang PROVE Awaited'
  <2>1. Moves(c, "idle", 0, 0)
    BY SMTT(30), <1>11, HowCallsMove
  <2> QED
    BY <1>11, <2>1 DEF Moves, StartRefused, FinishRow, LeaveRow
<1>12. ASSUME NEW c \in Clients, StartPrepare(c), UNCHANGED lang PROVE Awaited'
  <2>1. Calm
    BY <1>12, CallsAreCalm
  <2>2. UNCHANGED <<coord, finals, marked, session>> /\ history'.stopped = history.stopped
    BY <1>12 DEF StartPrepare, WorkerTypes, HistoryTypes
  <2>3. Moves(c, "capture", client[c].m, client[c].gen)
    BY <1>12, HowCallsMove
  <2> QED
    BY ZenonT(40), <2>1, <2>2, <2>3, CalmKeeps, StoppedHaveOne DEF Moves
<1>13. ASSUME NEW c \in Clients, StartFailed(c), UNCHANGED lang PROVE Awaited'
  <2>1. Moves(c, "idle", 0, 0)
    BY SMTT(30), <1>13, HowCallsMove
  <2> QED
    BY <1>13, <2>1 DEF Moves, StartFailed, FinishRow, LeaveRow, MirrorClosed, Failed
<1>14. ASSUME NEW c \in Clients, StartCapture(c), UNCHANGED lang PROVE Awaited'
  <2>1. Moves(c, "name", client[c].m, client[c].gen)
    BY <1>14, HowCallsMove
  <2>2. session = 0 /\ \A d \in Clients : Doing(d, StopPcs) => client[d].m # client[c].m
    BY <1>14, WhoWorks DEF StartCapture, StartPcs
  <2>3. UNCHANGED <<session, worker, workers>> /\ \A x \in Meetings : x # client[c].m => coord'[x] = coord[x]
    BY <1>14 DEF StartCapture, CoordTypes
  <2> QED
    BY <2>1, <2>2, <2>3, StoppedHaveOne DEF Moves
<1>15. ASSUME NEW c \in Clients, StartName(c), UNCHANGED lang PROVE Awaited'
  <2>1. Moves(c, "idle", 0, 0)
    BY <1>15, HowCallsMove
  <2>2. coord[client[c].m].gen = worker /\ session' = client[c].m
    BY <1>15 DEF StartName, StartsFind, StartPcs
  <2>3. UNCHANGED <<coord, worker, workers>>
    BY <1>15 DEF StartName
  <2> QED
    BY <2>1, <2>2, <2>3 DEF Moves
<1>16. ASSUME NEW c \in Clients, PauseAnswered(c), UNCHANGED lang PROVE Awaited'
  <2>1. Moves(c, "paused", client[c].m, client[c].gen)
    BY <1>16, HowCallsMove
  <2> QED
    BY <1>16, <2>1 DEF Moves, PauseAnswered
<1>17. ASSUME NEW c \in Clients, WaitInVain(c), UNCHANGED lang PROVE Awaited'
  <2>1. Moves(c, "idle", 0, 0)
    BY <1>17, HowCallsMove
  <2> QED
    BY <1>17, <2>1 DEF Moves, WaitInVain
<1>18. ASSUME NEW c \in Clients, PauseShow(c), UNCHANGED lang PROVE Awaited'
  <2>1. Moves(c, "idle", 0, 0)
    BY <1>18, HowCallsMove
  <2> QED
    BY <1>18, <2>1 DEF Moves, PauseShow, ShowAs
<1>19. ASSUME NEW c \in Clients, ResumeAnswered(c), UNCHANGED lang PROVE Awaited'
  <2>1. Moves(c, "resumed", client[c].m, client[c].gen)
    BY <1>19, HowCallsMove
  <2> QED
    BY <1>19, <2>1 DEF Moves, ResumeAnswered
<1>20. ASSUME NEW c \in Clients, ResumeShow(c), UNCHANGED lang PROVE Awaited'
  <2>1. Moves(c, "idle", 0, 0)
    BY <1>20, HowCallsMove
  <2> QED
    BY <1>20, <2>1 DEF Moves, ResumeShow, ShowAs
<1>21. ASSUME NEW c \in Clients, StopJoin(c), UNCHANGED lang PROVE Awaited'
  <2>1. Moves(c, "barrier", client[c].m, client[c].gen)
    BY <1>21, HowCallsMove
  <2> QED
    BY <1>21, <2>1 DEF Moves, StopJoin
<1>22. ASSUME NEW c \in Clients, StopBarrier(c), UNCHANGED lang PROVE Awaited'
  <2>1. Moves(c, "finish", client[c].m, client[c].gen)
    BY <1>22, HowCallsMove
  <2> DEFINE g == coord[client[c].m].gen
  <2>2. g \in DOMAIN workers /\ (g = client[c].gen \/ workers[g].ended) /\ 0 \notin DOMAIN workers
    <3>1. Doing(c, StopPcs) /\ Doing(c, {"join", "barrier"})
      BY <1>22 DEF StopBarrier
    <3>2. g \in DOMAIN workers
      BY <3>1, StoppedHaveOne
    <3>3. g = client[c].gen \/ workers[g].ended
      BY <3>1
    <3>4. 0 \notin DOMAIN workers
      BY DEF WorkerTypes
    <3> QED
      BY <3>2, <3>3, <3>4
  <2>3. workers[g].tasks = <<>>
    BY <1>22, <2>2 DEF StopBarrier, Barrier, Tasks, Homes
  <2>4. Waits(workers[g].tasks, client[c].m) = {}
    BY <2>3, NothingWaits
  <2>5. UNCHANGED <<session, coord, worker, workers>>
    BY <1>22 DEF StopBarrier
  <2> QED
    BY <2>1, <2>4, <2>5 DEF Moves
<1>23. ASSUME NEW c \in Clients, StopTimeout(c), UNCHANGED lang PROVE Awaited'
  <2>1. Moves(c, "idle", 0, 0)
    BY SMTT(30), <1>23, HowCallsMove
  <2> QED
    BY <1>23, <2>1 DEF Moves, StopTimeout
<1>24. ASSUME NEW c \in Clients, StopFinish(c), UNCHANGED lang PROVE Awaited'
  <2> DEFINE m == client[c].m
  <2>1. /\ UNCHANGED <<inner, session, shown, worker, workers, coord, gate, finals, marked, mirrors>>
        /\ client[c].pc = "finish" /\ m \in Meetings /\ m # session /\ stored[m] # "none"
        /\ coord[m].pc = "ended" /\ m \notin mirrors
        /\ history'.opened = history.opened /\ history'.preflighted = history.preflighted
        /\ history'.crossed = history.crossed /\ history'.replaced = history.replaced
        /\ \A x \in Meetings : x # m => stored'[x] = stored[x]
    BY <1>24, FinishTells
  <2>0. \A d \in Clients : Doing(d, StartPcs \cup StopPcs) =>
                  client[d].m \in Meetings /\ (client[d].m = m => d = c)
    BY <2>1, WhoWorks DEF Doing, StopPcs
  <2>2. CASE Finished(c)
    BY <2>0, <2>1, <2>2 DEF Moves, Finished
  <2>3. CASE Unfinished(c)
    BY <2>0, <2>1, <2>3 DEF Moves, Unfinished
  <2>4. CASE Unanswered(c)
    BY <2>0, <2>1, <2>4 DEF Moves, Unanswered
  <2> QED
    BY <1>24, <2>2, <2>3, <2>4, FinishTells
<1>25. ASSUME NEW c \in Clients, StopReady(c), UNCHANGED lang PROVE Awaited'
  <2>1. Moves(c, "idle", 0, 0)
    BY <1>25, HowCallsMove
  <2> QED
    BY <1>25, <2>1 DEF Moves, StopReady
<1>26. ASSUME NEW c \in Clients, RecoverShow(c), UNCHANGED lang PROVE Awaited'
  <2>1. Moves(c, "tail", client[c].m, client[c].gen)
    BY SMTT(30), <1>26, HowCallsMove
  <2> QED
    BY <1>26, <2>1 DEF Moves, RecoverShow, ShowMeeting
<1>27. ASSUME NEW c \in Clients, RecoverWorker(c), UNCHANGED lang PROVE Awaited'
  <2>1. Calm
    BY <1>27, CallsAreCalm
  <2>2. UNCHANGED <<coord, finals, marked, session>> /\ history'.stopped = history.stopped
    BY <1>27, ExchangeTouches
  <2>3. Moves(c, "submit", client[c].m, worker')
    BY <1>27, HowCallsMove
  <2> QED
    BY ZenonT(40), <2>1, <2>2, <2>3, CalmKeeps, StoppedHaveOne DEF Moves
<1>28. ASSUME NEW c \in Clients, RecoverNoWorker(c), UNCHANGED lang PROVE Awaited'
  <2>1. Calm
    BY <1>28, CallsAreCalm
  <2>2. UNCHANGED <<coord, finals, marked, session>> /\ history'.stopped = history.stopped
    BY <1>28 DEF RecoverNoWorker, NoWorker, WorkerTypes, HistoryTypes
  <2>3. Moves(c, "idle", 0, 0)
    BY SMTT(30), <1>28, HowCallsMove
  <2> QED
    BY ZenonT(40), <2>1, <2>2, <2>3, CalmKeeps, StoppedHaveOne DEF Moves
<1>29. ASSUME NEW c \in Clients, RecoverSubmit(c), UNCHANGED lang PROVE Awaited'
  <2>1. Calm
    BY <1>29, CallsAreCalm
  <2>2. UNCHANGED <<coord, finals, marked, session>> /\ history'.stopped = history.stopped
    BY <1>29 DEF RecoverSubmit, WorkerTypes, HistoryTypes
  <2>3. Moves(c, "drain", client[c].m, client[c].gen)
    BY <1>29, HowCallsMove
  <2> QED
    BY ZenonT(40), <2>1, <2>2, <2>3, CalmKeeps, StoppedHaveOne DEF Moves
<1>30. ASSUME NEW c \in Clients, RecoverDrained(c), UNCHANGED lang PROVE Awaited'
  <2>1. Moves(c, "record", client[c].m, client[c].gen)
    BY <1>30, HowCallsMove
  <2> QED
    BY <1>30, <2>1 DEF Moves, RecoverDrained
<1>31. ASSUME NEW c \in Clients, RecoverFailed(c), UNCHANGED lang PROVE Awaited'
  <2>1. Moves(c, "idle", 0, 0)
    BY <1>31, HowCallsMove
  <2> QED
    BY <1>31, <2>1 DEF Moves, RecoverFailed
<1>32. ASSUME NEW c \in Clients, RecoverRecord(c), UNCHANGED lang PROVE Awaited'
  <2>1. Moves(c, "idle", 0, 0)
    BY <1>32, HowCallsMove
  <2> QED
    BY <1>32, <2>1 DEF Moves, RecoverRecord, ShowMeeting, Finalized
<1>33. ASSUME NEW c \in Clients, RecoverRecordRefused(c), UNCHANGED lang PROVE Awaited'
  <2>1. Moves(c, "idle", 0, 0)
    BY <1>33, HowCallsMove
  <2> QED
    BY <1>33, <2>1 DEF Moves, RecoverRecordRefused
<1>34. ASSUME NEW gen \in Gens, BeginTask(gen), UNCHANGED lang PROVE Awaited'
  <2>1. UNCHANGED <<session, worker, coord, client>>
    BY <1>34 DEF BeginTask
  <2>2. CASE Took(gen)
    <3>1. \A g \in DOMAIN workers : /\ workers'[g].ended = workers[g].ended
                                   /\ \A x \in Meetings : Waits(workers[g].tasks, x) = {} =>
                                         Waits(workers'[g].tasks, x) = {}
      BY ZenonT(40), <2>2, TookTells DEF Took
    <3> QED
      BY <2>1, <3>1, StoppedHaveOne
  <2>3. CASE CalmTo(workers') /\ Len(workers') = Len(workers)
    BY <2>1, <2>3, StoppedHaveOne DEF CalmTo
  <2> QED
    BY <1>34, <2>2, <2>3, TasksAreTaken
<1>35. ASSUME NEW gen \in Gens, CommitTask(gen), UNCHANGED lang PROVE Awaited'
  <2>1. UNCHANGED <<session, worker, coord, client>>
    BY <1>35 DEF CommitTask
  <2>2. CASE Took(gen)
    <3>1. \A g \in DOMAIN workers : /\ workers'[g].ended = workers[g].ended
                                   /\ \A x \in Meetings : Waits(workers[g].tasks, x) = {} =>
                                         Waits(workers'[g].tasks, x) = {}
      BY <2>2, TookTells DEF Took
    <3> QED
      BY <2>1, <3>1, StoppedHaveOne
  <2> QED
    BY <1>35, <2>2, TasksAreTaken
<1>36. ASSUME NEW m \in Meetings, CutFinal(m), UNCHANGED lang PROVE Awaited'
  <2> DEFINE g == coord[m].gen
  <2>1. /\ g \in DOMAIN workers /\ coord[m].pc \in {"running", "told"}
        /\ workers' \in Seq(Worker) /\ DOMAIN workers' = DOMAIN workers
        /\ \A h \in DOMAIN workers : h # g => workers'[h] = workers[h]
        /\ workers'[g].ended = workers[g].ended
        /\ \A x \in Meetings : x # m => Waits(workers'[g].tasks, x) = Waits(workers[g].tasks, x)
    <3> HIDE DEF SessionInv
    <3> QED
      BY <1>36, CutTells
  <2>2. UNCHANGED <<session, worker, coord, client>>
    BY <1>36 DEF CutFinal
  <2>3. \A h \in DOMAIN workers : /\ workers'[h].ended = workers[h].ended
                                  /\ \A x \in Meetings \ {m} : Waits(workers'[h].tasks, x) = Waits(workers[h].tasks, x)
    BY <2>1
  <2>4. \A d \in Clients : Doing(d, {"finish", "ready"}) => client[d].m # m
    BY <2>1, StoppedHaveOne
  <2> QED
    BY <2>2, <2>3, <2>4, StoppedHaveOne
<1>37. ASSUME NEW m \in Meetings, CoordinatorEnds(m), UNCHANGED lang PROVE Awaited'
  <2>1. UNCHANGED <<session, worker, workers, client>> /\ \A x \in Meetings : coord'[x].gen = coord[x].gen
    BY <1>37 DEF CoordinatorEnds, CoordTypes
  <2> QED
    BY <2>1, StoppedHaveOne
<1>38. ASSUME Restart, UNCHANGED lang PROVE Awaited'
  BY <1>38 DEF Restart, NoHistory, CoordTypes, WorkerTypes, Idle
<1> QED
  BY UnreadIsRefused, <1>1, <1>2, <1>3, <1>4, <1>5, <1>6, <1>7, <1>8, <1>9, <1>10, <1>11, <1>12,
     <1>13, <1>14, <1>15, <1>16, <1>17, <1>18, <1>19, <1>20, <1>21, <1>22, <1>23,
     <1>24, <1>25, <1>26, <1>27, <1>28, <1>29, <1>30, <1>31, <1>32, <1>33, <1>34,
     <1>35, <1>36, <1>37, <1>38
     DEF Next, Command, Continue, vars

-----------------------------------------------------------------------------
(* What the service promises.                                              *)

LEMMA InitInv == Init => SessionInv
<1> SUFFICES ASSUME Init PROVE SessionInv
  OBVIOUS
<1> USE SessionAssumption DEF Init
<1>1. \A c \in Clients : client[c].pc = "idle" /\ client[c].m = 0 /\ client[c].gen = 0
  BY DEF Idle
<1>2. /\ workers = <<>> /\ DOMAIN workers = {} /\ Len(workers) = 0
      /\ \A m \in Meetings : coord[m].pc = "none" /\ stored[m] = "none"
  OBVIOUS
<1>3. history.stopped = {} /\ history.orphans = {}
  BY DEF NoHistory
<1>4. PlaceTypes
  BY DEF PlaceTypes
<1>5. RowTypes
  BY DEF RowTypes
<1>6. WorkerTypes
  BY DEF WorkerTypes
<1>7. CoordTypes
  BY <1>2 DEF CoordTypes
<1>8. CallTypes
  BY <1>2 DEF CallTypes, Idle, Pcs
<1>9. HistoryTypes
  BY DEF HistoryTypes, NoHistory
<1>10. \A c \in Clients : ~Doing(c, StartPcs) /\ ~Doing(c, StopPcs) /\ ~Doing(c, StartPcs \cup StopPcs)
  BY <1>1 DEF Doing, StartPcs, StopPcs
<1>11. Named /\ Locked /\ Apart /\ RowsFirst /\ Fresh
  BY <1>1, <1>2, <1>3, <1>10 DEF Named, Locked, Apart, Works, RowsFirst, Fresh
<1>12. StartsFind /\ StopsFind /\ Recorders /\ SessionIsRecorded
  BY <1>2, <1>10 DEF StartsFind, StopsFind, Recorders, SessionIsRecorded
<1>13. Owned /\ StopIsAlone /\ Blocked /\ Shown
  BY <1>1, <1>2, <1>10 DEF Owned, StopIsAlone, Blocked, Shown
<1>14. Gates /\ Homes /\ Counted /\ Awaited /\ Whole
  BY <1>1, <1>2, <1>3 DEF Gates, Doing, Homes, Counted, Awaited, Whole
<1> QED
  BY <1>4, <1>5, <1>6, <1>7, <1>8, <1>9, <1>11, <1>12, <1>13, <1>14 DEF SessionInv, Types

\* The invariant: one service, whatever its commands are interleaved with.
THEOREM SessionInvariant == Spec => []SessionInv
<1>1. Init => SessionInv
  BY InitInv
<1>2. SessionInv /\ [Next]_vars => SessionInv'
  <2> SUFFICES ASSUME SessionInv, [Next]_vars PROVE SessionInv'
    OBVIOUS
  <2>1. Types'
    BY PlaceTypesStep, RowTypesStep, WorkerTypesStep, CoordTypesStep, CallTypesStep, HistoryTypesStep
       DEF Types
  <2>2. Named' /\ Locked' /\ Apart' /\ RowsFirst' /\ Fresh' /\ StartsFind' /\ StopsFind'
    BY NamedStep, LockedStep, ApartStep, RowsFirstStep, FreshStep, StartsFindStep, StopsFindStep
  <2>3. Recorders' /\ SessionIsRecorded' /\ Owned' /\ StopIsAlone' /\ Blocked' /\ Shown' /\ Gates'
    BY RecordersStep, SessionIsRecordedStep, OwnedStep, StopIsAloneStep, BlockedStep, ShownStep, GatesStep
  <2>4. Homes' /\ Counted' /\ Awaited' /\ Whole'
    BY QueuesStep, AwaitedStep DEF Queues
  <2> QED
    BY <2>1, <2>2, <2>3, <2>4 DEF SessionInv
<1> QED
  BY <1>1, <1>2, PTL DEF Spec

\* One recording at a time, with its row, its coordinator and its worker.
LEMMA OneAtATime == ASSUME SessionInv PROVE OneRecorder
<1> DEFINE R == {m \in Meetings : coord[m].pc \in {"running", "told"}}
<1> SUFFICES ASSUME ~history.preflighted, history.orphans = {} PROVE Cardinality(R) <= 1
  BY DEF OneRecorder
<1>1. \A m \in R : m = session \/ \E c \in Clients : client[c].pc \in {"name", "join"} /\ client[c].m = m
  BY DEF SessionInv, Recorders
<1>2. ASSUME NEW c \in Clients, client[c].pc \in {"name", "join"}
      PROVE  session = 0 /\ \A d \in Clients : client[d].pc \in {"name", "join"} => d = c
  <2>1. CASE client[c].pc = "join"
    BY <2>1 DEF SessionInv, StopIsAlone, Doing, StartPcs, StopPcs
  <2>2. CASE client[c].pc = "name"
    <3>1. session = 0
      BY <2>2, WhoWorks DEF Doing, StartPcs
    <3>2. \A d \in Clients : client[d].pc = "name" => d = c
      BY <2>2, WhoWorks DEF Doing, StartPcs
    <3>3. \A d \in Clients : client[d].pc # "join"
      BY <2>2 DEF SessionInv, StopIsAlone, Doing, StartPcs, StopPcs
    <3> QED
      BY <3>1, <3>2, <3>3
  <2> QED
    BY <1>2, <2>1, <2>2
<1>3. \A m, n \in R : m = n
  BY <1>1, <1>2, NoMeeting
<1>4. \E m : R \subseteq {m}
  BY <1>3
<1>5. PICK m : R \subseteq {m}
  BY <1>4
<1>6. R = {} \/ R = {m}
  BY <1>5
<1> HIDE DEF R
<1>7. CASE R = {}
  BY <1>7, FS_EmptySet
<1>8. CASE R = {m}
  <2>1. Cardinality({m}) = 1
    BY FS_Singleton
  <2> QED
    BY <1>8, <2>1
<1> QED
  BY <1>6, <1>7, <1>8

\* For every number of commands, meetings and workers: the session's meeting
\* is recorded by a coordinator whose finals go to the worker of the service,
\* and no other meeting is (service.rs, start_windows to stop_windows_before).
THEOREM RecordingAlwaysSound == Spec => []RecordingIsSound
<1>1. SessionInv => RecordingIsSound
  <2> SUFFICES ASSUME SessionInv PROVE RecordingIsSound
    OBVIOUS
  <2>1. TypeOK
    <3>1. \A m \in Meetings : stored[m] \in {"none", "recording", "interrupted", "completed"}
      BY DEF SessionInv, Types, RowTypes
    <3>2. \A m \in Meetings : finals[m].live <= finals[m].cut /\ finals[m].live <= finals[m].saved
      BY DEF SessionInv, Counted
    <3> QED
      BY <3>1, <3>2 DEF SessionInv, Types, PlaceTypes, WorkerTypes, TypeOK
  <2>2. SessionIsRecorded
    BY DEF SessionInv
  <2> QED
    BY <2>1, <2>2, OneAtATime DEF RecordingIsSound
<1> QED
  BY <1>1, SessionInvariant, PTL

\* No row that says "recording" and no open mirror is left behind by a start
\* that fails or by a stop, but for the orphans the history names.
THEOREM NothingIsLeftBehind == Spec => []NothingLeftBehind
<1>1. SessionInv => NothingLeftBehind
  BY DEF SessionInv, Owned, NothingLeftBehind, Works, Doing, Starting, Stopping, StartPcs, StopPcs
<1> QED
  BY <1>1, SessionInvariant, PTL

\* What a stop completed is whole for ever: every final its coordinator cut is
\* stored (stop_windows_before, the barrier and the worker that drops finals).
THEOREM CompletedAlwaysWhole == Spec => []CompletedIsWhole
<1>1. SessionInv => CompletedIsWhole
  BY DEF SessionInv, Whole, CompletedIsWhole
<1> QED
  BY <1>1, SessionInvariant, PTL

\* The snapshot tells what happens: the session is shown, nothing blocks the
\* history without a reason, and what is shown as paused is paused.
THEOREM SnapshotAlwaysTells == Spec => []SnapshotTells
<1>1. SessionInv => SnapshotTells
  <2> SUFFICES ASSUME SessionInv PROVE SnapshotTells
    OBVIOUS
  <2>1. ShownIsTheSession
    BY DEF SessionInv, Shown, ShownIsTheSession, Stopping, Doing
  <2>2. LifecycleTells
    <3>1. ASSUME session = 0, Starting = {}, Stopping = {} PROVE ~HistoryOpenBlocked
      BY <3>1 DEF SessionInv, Blocked, HistoryOpenBlocked, Blocking, Starting, Stopping, Doing
    <3> QED
      BY <3>1 DEF SessionInv, Blocked, LifecycleTells
  <2>3. PausedIsPaused
    BY DEF SessionInv, Gates, PausedIsPaused
  <2> QED
    BY <2>1, <2>2, <2>3 DEF SnapshotTells
<1> QED
  BY <1>1, SessionInvariant, PTL

=============================================================================
