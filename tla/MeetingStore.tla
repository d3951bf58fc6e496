----------------------------- MODULE MeetingStore -----------------------------
(***************************************************************************)
(* The storage writer: threads of the service send requests over a bounded *)
(* channel to one thread that runs each as one SQLite transaction and      *)
(* replies (MvpStorageWriter::request, storage_writer_loop, *_on_writer).  *)
(* The process may crash at any step; the database survives it.  The text  *)
(* of a final is a model value; its key is its segment and revision, here  *)
(* one name.                                                               *)
(***************************************************************************)
EXTENDS Naturals, Sequences, FiniteSets

CONSTANTS
    Meetings, Segments, Texts,
    Clients,      \* threads that call the writer, one request each at a time
    Depth,        \* STORAGE_QUEUE_DEPTH
    MaxSequence,  \* bound: sequences a caller asks for
    MaxCrashes    \* bound: crashes of the process

VARIABLES
    state,      \* mvp_meetings.state, "absent" before the meeting starts
    last,       \* mvp_meetings.last_final_sequence
    deleted,    \* mvp_meetings.deleted_at is set
    finals,     \* mvp_final_segments in insertion order
    recovery,   \* mvp_recovery_actions
    requests,   \* the writer's channel
    calling,    \* clients that wait for their answer
    serving,    \* the request the writer took, or NoRequest
    served,     \* the answer it is about to send: "ok", "error" or "none"
    told,       \* finals whose commit was answered with success
    crashes

tables == <<state, last, deleted, finals, recovery>>
vars == <<tables, requests, calling, serving, served, told, crashes>>

-----------------------------------------------------------------------------
\* A definition introduced by "Fault:" is no part of the specification: it is
\* the definition below it with a mistake the code could make, which one of the
\* properties must detect.

NoRequest == [op |-> "none"]

ASSUME StoreAssumption ==
    /\ IsFiniteSet(Clients)
    /\ Depth \in Nat \ {0}
    /\ MaxSequence \in Nat /\ MaxCrashes \in Nat

RecoveryActions == {"recover", "finalize", "keep_interrupted"}
EndStates == {"completed", "interrupted"}
States == {"absent", "recording", "purged"} \cup EndStates

Candidate == [meeting : Meetings, sequence : 1..MaxSequence, segment : Segments, text : Texts]
Row == [sequence : Nat, segment : Segments, text : Texts]

\* FinalCandidate and the other StorageRequests; op names the variant.
Request ==
    [op : {"commit"}, client : Clients, arg : Candidate] \cup
    [op : {"delete", "restore", "purge"}, client : Clients, meeting : Meetings] \cup
    [op : {"finish"}, client : Clients, meeting : Meetings, end : EndStates] \cup
    [op : {"record"}, client : Clients, meeting : Meetings, action : RecoveryActions] \cup
    [op : {"start", "recoverInterrupted"}, client : Clients]

Init ==
    /\ state = [m \in Meetings |-> "absent"]
    /\ last = [m \in Meetings |-> 0]
    /\ deleted = [m \in Meetings |-> FALSE]
    /\ finals = [m \in Meetings |-> <<>>]
    /\ recovery = [m \in Meetings |-> {}]
    /\ requests = <<>> /\ calling = {}
    /\ serving = NoRequest /\ served = "none"
    /\ told = {} /\ crashes = 0

Exists(m) == state[m] \notin {"absent", "purged"}

-----------------------------------------------------------------------------
(* The callers and the channel.                                            *)

\* Meeting ids come from answers and listings; a purged one may be remembered.
Known(r) ==
    /\ r.op = "commit" => state[r.arg.meeting] # "absent"
    /\ r.op \in {"finish", "record", "delete", "restore", "purge"} => state[r.meeting] # "absent"

\* MvpStorageWriter::request: try_send, then wait; a full channel is an error
\* at once.
Ask(r) ==
    /\ Known(r)
    /\ r.client \notin calling
    /\ Len(requests) < Depth
    /\ requests' = Append(requests, r)
    /\ calling' = calling \cup {r.client}
    /\ UNCHANGED <<tables, serving, served, told, crashes>>

\* receiver.recv() in storage_writer_loop.
Receive ==
    /\ serving = NoRequest /\ requests # <<>>
    /\ serving' = Head(requests)
    /\ requests' = Tail(requests)
    /\ UNCHANGED <<tables, calling, served, told, crashes>>

\* What the caller of a commit now holds as saved.
Told(c) ==
    [meeting |-> c.meeting, sequence |-> c.sequence,
     final |-> [segment |-> c.segment, text |-> c.text]]

\* reply.send(...).
Reply ==
    /\ served # "none"
    /\ calling' = calling \ {serving.client}
    /\ told' = IF serving.op = "commit" /\ served = "ok"
                 THEN told \cup {Told(serving.arg)} ELSE told
    /\ serving' = NoRequest /\ served' = "none"
    /\ UNCHANGED <<tables, requests, crashes>>

\* The process ends between two transactions, before a reply or inside a
\* transaction, which then never happened; no caller ever learns what became of its request.
Crash ==
    /\ crashes < MaxCrashes
    /\ crashes' = crashes + 1
    /\ requests' = <<>> /\ calling' = {}
    /\ serving' = NoRequest /\ served' = "none"
    /\ UNCHANGED <<tables, told>>

-----------------------------------------------------------------------------
(* The transactions.                                                       *)

Serve(op) == serving.op = op /\ served = "none"

Answer(result) ==
    /\ served' = result
    /\ UNCHANGED <<requests, calling, serving, told, crashes>>

\* These go on after their commit (a row is read back; a started meeting gets
\* its title), which may fail: the caller sees an error of what was done.
AnswerReadBack == \E result \in {"ok", "error"} : Answer(result)

\* An early return or a failing statement rolls the transaction back.
Fail ==
    /\ serving # NoRequest /\ served = "none"
    /\ Answer("error")
    /\ UNCHANGED tables

StartMeeting ==
    /\ Serve("start")
    /\ \E m \in Meetings :
          /\ state[m] = "absent"
          /\ state' = [state EXCEPT ![m] = "recording"]
    /\ AnswerReadBack
    /\ UNCHANGED <<last, deleted, finals, recovery>>

\* The state the meeting was in is not looked at.
FinishMeeting ==
    /\ Serve("finish") /\ Exists(serving.meeting)
    /\ state' = [state EXCEPT ![serving.meeting] = serving.end]
    /\ AnswerReadBack
    /\ UNCHANGED <<last, deleted, finals, recovery>>

RecoverInterrupted ==
    /\ Serve("recoverInterrupted")
    /\ state' = [m \in Meetings |-> IF state[m] = "recording" THEN "interrupted" ELSE state[m]]
    /\ Answer("ok")
    /\ UNCHANGED <<last, deleted, finals, recovery>>

\* Recover and keep are for interrupted meetings; finalize completes those.
RecordRecoveryAction ==
    /\ Serve("record") /\ Exists(serving.meeting)
    /\ LET m == serving.meeting
       IN  /\ state[m] = "interrupted" \/ serving.action = "finalize"
           /\ recovery' = [recovery EXCEPT ![m] = @ \cup {serving.action}]
           /\ state' = IF serving.action = "finalize" /\ state[m] = "interrupted"
                         THEN [state EXCEPT ![m] = "completed"] ELSE state
    /\ Answer("ok")
    /\ UNCHANGED <<last, deleted, finals>>

RowOf(c) == [sequence |-> c.sequence, segment |-> c.segment, text |-> c.text]

\* select_final_by_key.
Existing(c) == {i \in DOMAIN finals[c.meeting] : finals[c.meeting][i].segment = c.segment}

\* Fault: a segment that is there is not looked for.
CommitBlindly ==
    /\ Serve("commit") /\ Exists(serving.arg.meeting)
    /\ LET c == serving.arg
       IN  /\ c.sequence = last[c.meeting] + 1
           /\ finals' = [finals EXCEPT ![c.meeting] = Append(@, RowOf(c))]
           /\ last' = [last EXCEPT ![c.meeting] = c.sequence]
    /\ Answer("ok")
    /\ UNCHANGED <<state, deleted, recovery>>

\* A new segment must continue the transcript.
CommitFinal ==
    /\ Serve("commit") /\ Exists(serving.arg.meeting)
    /\ Existing(serving.arg) = {}
    /\ LET c == serving.arg
       IN  /\ c.sequence = last[c.meeting] + 1
           /\ finals' = [finals EXCEPT ![c.meeting] = Append(@, RowOf(c))]
           /\ last' = [last EXCEPT ![c.meeting] = c.sequence]
    /\ Answer("ok")
    /\ UNCHANGED <<state, deleted, recovery>>

\* Fault: a known segment is acknowledged whatever it says.
AcknowledgeSegment ==
    /\ Serve("commit") /\ Existing(serving.arg) # {}
    /\ Answer("ok")
    /\ UNCHANGED tables

\* The same final again is acknowledged again; a different one under its key is
\* MVP_STORAGE_DUPLICATE_FINAL_CONFLICT.
AcknowledgeDuplicate ==
    /\ Serve("commit")
    /\ \E i \in Existing(serving.arg) : finals[serving.arg.meeting][i] = RowOf(serving.arg)
    /\ Answer("ok")
    /\ UNCHANGED tables

SoftDelete ==
    /\ Serve("delete") /\ Exists(serving.meeting) /\ ~deleted[serving.meeting]
    /\ deleted' = [deleted EXCEPT ![serving.meeting] = TRUE]
    /\ AnswerReadBack
    /\ UNCHANGED <<state, last, finals, recovery>>

Restore ==
    /\ Serve("restore") /\ Exists(serving.meeting) /\ deleted[serving.meeting]
    /\ deleted' = [deleted EXCEPT ![serving.meeting] = FALSE]
    /\ AnswerReadBack
    /\ UNCHANGED <<state, last, finals, recovery>>

\* Every row that names the meeting goes in one transaction.
PurgeMeeting ==
    /\ Serve("purge") /\ Exists(serving.meeting) /\ deleted[serving.meeting]
    /\ LET m == serving.meeting
       IN  /\ state' = [state EXCEPT ![m] = "purged"]
           /\ finals' = [finals EXCEPT ![m] = <<>>]
           /\ last' = [last EXCEPT ![m] = 0]
           /\ recovery' = [recovery EXCEPT ![m] = {}]
           /\ told' = {t \in told : t.meeting # m}
    /\ served' = "ok"
    /\ UNCHANGED <<deleted, requests, calling, serving, crashes>>

Transaction ==
    \/ Fail \/ StartMeeting \/ FinishMeeting \/ RecoverInterrupted
    \/ RecordRecoveryAction \/ CommitFinal \/ AcknowledgeDuplicate
    \/ SoftDelete \/ Restore \/ PurgeMeeting

-----------------------------------------------------------------------------
WriterStep == Receive \/ Transaction \/ Reply

Next ==
    \/ \E r \in Request : Ask(r)
    \/ WriterStep
    \/ Crash

Spec == Init /\ [][Next]_vars

-----------------------------------------------------------------------------
(* Properties.                                                             *)

\* Every variable has its type; the writer answers only what it took.
TypeOK ==
    /\ state \in [Meetings -> States]
    /\ last \in [Meetings -> Nat] /\ deleted \in [Meetings -> BOOLEAN]
    /\ finals \in [Meetings -> Seq(Row)]
    /\ recovery \in [Meetings -> SUBSET RecoveryActions]
    /\ requests \in Seq(Request) /\ Len(requests) <= Depth
    /\ calling \subseteq Clients
    /\ serving \in Request \cup {NoRequest}
    /\ served \in {"none", "ok", "error"}
    /\ served # "none" => serving # NoRequest
    /\ told \subseteq [meeting : Meetings, sequence : Nat,
                       final : [segment : Segments, text : Texts]]
    /\ crashes \in Nat

\* The finals of a meeting are numbered without gaps from 1 to
\* last_final_sequence, whatever sequences the callers ask for, in which order
\* and with which failures and crashes.
SequenceDense ==
    \A m \in Meetings :
        /\ last[m] = Len(finals[m])
        /\ \A i \in DOMAIN finals[m] : finals[m][i].sequence = i

\* The transcript storage stands for.
Content(rows) == [i \in DOMAIN rows |-> [segment |-> rows[i].segment, text |-> rows[i].text]]
Transcript == [m \in Meetings |-> Content(finals[m])]

Durable == INSTANCE DurableTranscript WITH transcript <- Transcript

\* A final whose commit was answered with success is at its place in the
\* database, with the text it was committed with, until the meeting is purged:
\* also when the success is the acknowledgement of a repeated request
\* (commit_final_on_writer's duplicate branch), and after every crash.
SavedIsKept == Durable!SavedIsKept

\* Between the commit and its reply the row of the final is already there.
AnsweredIsThere ==
    serving.op = "commit" /\ served = "ok" =>
        /\ serving.arg.sequence \in DOMAIN finals[serving.arg.meeting]
        /\ finals[serving.arg.meeting][serving.arg.sequence] = RowOf(serving.arg)

\* The inductive invariant: SequenceDense places a new row, AnsweredIsThere
\* carries the fact from the commit to the reply.
StoreInv == TypeOK /\ SequenceDense /\ AnsweredIsThere /\ SavedIsKept

\* The writer implements the transcript: it grows only at its end, holds no
\* segment twice, shrinks only by a purge, and only what it holds is reported.
ImplementsDurableTranscript == Durable!Spec

=============================================================================
