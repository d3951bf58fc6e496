---------------------------- MODULE DeletionVault ----------------------------
(***************************************************************************)
(* Deleting, restoring and purging one meeting: its directories are        *)
(* renamed into the vault of a tombstone and its row is marked, in steps   *)
(* that may fail, be interrupted by a crash, or meet another call.         *)
(*                                                                         *)
(* Commands run on a pool of threads without a common lock; the storage    *)
(* writer makes each change of the database one step.  delete_raw_audio,   *)
(* the user's removal of the files alone, is left out.                     *)
(***************************************************************************)
EXTENDS Integers, Sequences, FiniteSets, SequencesExt

CONSTANTS
    Clients,     \* threads that run commands
    Failures,    \* which steps may fail: a subset of {"rename", "size", "storage", "readback", "remove"}
    MaxCalls, MaxFailures, MaxCrashes   \* bounds

VARIABLES
    had,         \* the directories the meeting had: the input
    orig,        \* the directories at raw/<id> and derived/<id>
    vault,       \* vault[t]: the directories in recovery/<t>
    destroyed,   \* the directories removed for good
    known,       \* the meeting has a row in mvp_meetings
    deleted,     \* its delete_tombstone_id, 0 for NULL
    rows,        \* mvp_meeting_delete_tombstones, oldest first, with their manifests
    call,        \* call[c]: the command that c runs
    orderly,     \* so far calls came one at a time, a deleted meeting was not deleted
                 \* nor another restored; there was no crash, no unreadable size, no
                 \* failure to undo a failed delete, and what a restore committed was
                 \* read back
    calls, failures, crashes

disk == <<orig, vault, destroyed>>
database == <<known, deleted, rows>>
vars == <<had, disk, database, call, orderly, calls, failures, crashes>>

-----------------------------------------------------------------------------
\* A definition introduced by "Fault:" is no part of the specification: it is
\* the definition below it with a mistake the code could make, which one of the
\* properties must detect.

ASSUME VaultAssumption ==
    /\ Failures \subseteq {"rename", "size", "storage", "readback", "remove"}
    /\ {MaxCalls, MaxFailures, MaxCrashes} \subseteq Nat

Categories == {"raw", "derived"}
\* include_raw, include_derived, in the order of stage_selected.
Selections == {<<>>, <<"raw">>, <<"derived">>, <<"raw", "derived">>}
Tombstones == 1..MaxCalls

Steps == {"none", "stage", "restore", "rollback", "record", "restage", "purge", "forget"}
Idle == [op |-> "none", step |-> "none", tomb |-> 0, entries |-> <<>>, todo |-> <<>>, before |-> {}]

Init ==
    /\ had \in SUBSET Categories
    /\ orig = had /\ vault = [t \in Tombstones |-> {}] /\ destroyed = {}
    /\ known = TRUE /\ deleted = 0 /\ rows = <<>>
    /\ call = [c \in Clients |-> Idle] /\ orderly = TRUE
    /\ calls = 0 /\ failures = 0 /\ crashes = 0

Begin(c, op, step, tomb, entries, todo) ==
    /\ call[c] = Idle /\ calls < MaxCalls
    /\ calls' = calls + 1
    /\ call' = [call EXCEPT ![c] = [op |-> op, step |-> step, tomb |-> tomb,
                                    entries |-> entries, todo |-> todo, before |-> orig]]
    /\ orderly' = (/\ orderly
                   /\ \A d \in Clients : call[d] = Idle
                   /\ op = "delete" => deleted = 0
                   /\ op = "restore" => deleted # 0)
    /\ UNCHANGED <<had, disk, database, failures, crashes>>

Goto(c, step, todo) == call' = [call EXCEPT ![c].step = step, ![c].todo = todo]
Advance(c) == call' = [call EXCEPT ![c].todo = Tail(@)]
Collect(c, x) == call' = [call EXCEPT ![c].todo = Tail(@), ![c].entries = Append(@, x)]
Return(c) == call' = [call EXCEPT ![c] = Idle]

Fail(kind) ==
    /\ kind \in Failures /\ failures < MaxFailures
    /\ failures' = failures + 1

\* fs::rename into the vault of t and back.
MoveIn(t, x) == orig' = orig \ {x} /\ vault' = [vault EXCEPT ![t] = @ \cup {x}]
MoveOut(t, x) == orig' = orig \cup {x} /\ vault' = [vault EXCEPT ![t] = @ \ {x}]

-----------------------------------------------------------------------------
(* delete_execute.                                                         *)

\* stage_selected up to the first rename: without a byte to move, nothing moves.
Delete(c) ==
    \E chosen \in Selections :
        /\ known
        /\ Begin(c, "delete", "stage", calls + 1, <<>>,
                 IF Range(chosen) \cap orig = {} THEN <<>> ELSE chosen)

\* Fault: a failed rename returns without moving the others back.
StageWithoutRollback(c) ==
    LET k == call[c]  x == Head(k.todo)
    IN  /\ k.step = "stage" /\ k.todo # <<>>
        /\ \/ x \notin orig /\ Advance(c) /\ UNCHANGED <<disk, failures, orderly>>
           \/ /\ x \in orig /\ MoveIn(k.tomb, x) /\ Collect(c, x)
              /\ UNCHANGED <<destroyed, failures, orderly>>
           \/ x \in orig /\ Fail("size") /\ Return(c) /\ orderly' = FALSE /\ UNCHANGED disk
           \/ x \in orig /\ Fail("rename") /\ Return(c) /\ UNCHANGED <<disk, orderly>>
        /\ UNCHANGED <<had, database, calls, crashes>>

\* One directory of stage_selected: passed over, moved, or a failure.  A failed
\* rename moves the others back; a failed path_size returns at once.
Stage(c) ==
    LET k == call[c]  x == Head(k.todo)
    IN  /\ k.step = "stage" /\ k.todo # <<>>
        /\ \/ x \notin orig /\ Advance(c) /\ UNCHANGED <<disk, failures, orderly>>
           \/ /\ x \in orig /\ MoveIn(k.tomb, x) /\ Collect(c, x)
              /\ UNCHANGED <<destroyed, failures, orderly>>
           \/ x \in orig /\ Fail("size") /\ Return(c) /\ orderly' = FALSE /\ UNCHANGED disk
           \/ /\ x \in orig /\ Fail("rename") /\ UNCHANGED <<disk, orderly>>
              /\ Goto(c, "rollback", Reverse(k.entries))
        /\ UNCHANGED <<had, database, calls, crashes>>

\* persist_delete: soft_delete_meeting_on_writer, or its refusal, which moves
\* the files back; so does a failure to read back what has been committed.
Persist(c) ==
    LET k == call[c]
        row == [tomb |-> k.tomb, entries |-> k.entries]
        commit == /\ known /\ deleted = 0
                  /\ deleted' = k.tomb /\ rows' = Append(rows, row) /\ known' = known
        undo == Goto(c, "rollback", Reverse(k.entries))
    IN  /\ k.step = "stage" /\ k.todo = <<>>
        /\ \/ commit /\ Return(c) /\ UNCHANGED failures
           \/ commit /\ Fail("readback") /\ undo
           \/ (~known \/ deleted # 0) /\ undo /\ UNCHANGED <<database, failures>>
           \/ Fail("storage") /\ undo /\ UNCHANGED database
        /\ UNCHANGED <<had, orderly, disk, calls, crashes>>

-----------------------------------------------------------------------------
(* restore_entries, which restores a meeting and undoes a failed call.     *)

Restoring == {"restore", "rollback"}

\* A delete that failed and could not be undone leaves files in the vault.
UndoFails(k) == orderly' = (orderly /\ k.op # "delete")

\* Fault: an entry that is not in the vault is made anew.
RestoreEntryUnchecked(c) ==
    LET k == call[c]  x == Head(k.todo)  here == x \in orig
    IN  /\ k.step \in Restoring /\ k.todo # <<>>
        /\ \/ here /\ Advance(c) /\ UNCHANGED <<disk, failures, orderly>>
           \/ ~here /\ MoveOut(k.tomb, x) /\ Advance(c) /\ UNCHANGED <<destroyed, failures, orderly>>
           \/ ~here /\ Fail("rename") /\ Return(c) /\ UndoFails(k) /\ UNCHANGED disk
        /\ UNCHANGED <<had, database, calls, crashes>>

\* One entry of restore_entries, the last first.
RestoreEntry(c) ==
    LET k == call[c]  x == Head(k.todo)  here == x \in orig  there == x \in vault[k.tomb]
    IN  /\ k.step \in Restoring /\ k.todo # <<>>
        /\ \/ here /\ ~there /\ Advance(c) /\ UNCHANGED <<disk, failures, orderly>>
           \/ here = there /\ Return(c) /\ UNCHANGED <<disk, failures, orderly>>
           \/ /\ ~here /\ there /\ MoveOut(k.tomb, x) /\ Advance(c)
              /\ UNCHANGED <<destroyed, failures, orderly>>
           \/ ~here /\ there /\ Fail("rename") /\ Return(c) /\ UndoFails(k) /\ UNCHANGED disk
        /\ UNCHANGED <<had, database, calls, crashes>>

\* remove_empty_directory, which fails if it is not empty.
Restored(c) ==
    LET k == call[c]
    IN  /\ k.step \in Restoring /\ k.todo = <<>>
        /\ IF k.step = "restore" /\ vault[k.tomb] = {} THEN Goto(c, "record", <<>>) ELSE Return(c)
        /\ UNCHANGED <<had, orderly, disk, database, calls, failures, crashes>>

-----------------------------------------------------------------------------
(* delete_restore.                                                         *)

\* The latest tombstone counts, also when its meeting has been restored.
Restore(c) ==
    /\ rows # <<>>
    /\ LET row == Last(rows)
       IN  Begin(c, "restore", "restore", row.tomb, row.entries, Reverse(row.entries))

\* restore_meeting_on_writer; if it is refused, or what it committed cannot be
\* read back, the files go back to the vault.
RecordRestore(c) ==
    LET k == call[c]
        commit == known /\ deleted # 0 /\ deleted' = 0 /\ UNCHANGED <<known, rows>>
        undo == call' = [call EXCEPT ![c].step = "restage", ![c].todo = k.entries,
                                     ![c].entries = <<>>]
    IN  /\ k.step = "record"
        /\ \/ commit /\ Return(c) /\ UNCHANGED <<failures, orderly>>
           \/ commit /\ Fail("readback") /\ undo /\ orderly' = FALSE
           \/ (~known \/ deleted = 0) /\ undo /\ UNCHANGED <<database, failures, orderly>>
           \/ Fail("storage") /\ undo /\ UNCHANGED <<database, orderly>>
        /\ UNCHANGED <<had, disk, calls, crashes>>

\* One entry of restage, which collects the entries it moves.
Restage(c) ==
    LET k == call[c]  x == Head(k.todo)  here == x \in orig  there == x \in vault[k.tomb]
        undo == Goto(c, "rollback", Reverse(k.entries)) /\ UNCHANGED disk
    IN  /\ k.step = "restage" /\ k.todo # <<>>
        /\ \/ ~here /\ there /\ Advance(c) /\ UNCHANGED <<disk, failures>>
           \/ here = there /\ undo /\ UNCHANGED failures
           \/ /\ here /\ ~there /\ MoveIn(k.tomb, x) /\ Collect(c, x)
              /\ UNCHANGED <<destroyed, failures>>
           \/ here /\ ~there /\ Fail("rename") /\ undo
        /\ UNCHANGED <<had, orderly, database, calls, crashes>>

Restaged(c) ==
    /\ call[c].step = "restage" /\ call[c].todo = <<>>
    /\ Return(c)
    /\ UNCHANGED <<had, orderly, disk, database, calls, failures, crashes>>

-----------------------------------------------------------------------------
(* delete_purge.                                                           *)

Purge(c) ==
    /\ rows # <<>>
    /\ LET row == Last(rows) IN Begin(c, "purge", "purge", row.tomb, row.entries, <<>>)

\* Fault: the files are removed wherever they are.
RemoveAnywhere(c) ==
    LET k == call[c]
    IN  /\ k.step = "purge"
        /\ destroyed' = destroyed \cup vault[k.tomb] \cup orig
        /\ vault' = [vault EXCEPT ![k.tomb] = {}] /\ orig' = {}
        /\ Goto(c, "forget", <<>>)
        /\ UNCHANGED <<had, orderly, database, calls, failures, crashes>>

\* MeetingFileVault::purge: remove_dir_all, which may fail half-way.
RemoveVault(c) ==
    LET k == call[c]
    IN  /\ k.step = "purge"
        /\ \E gone \in SUBSET vault[k.tomb] :
              /\ destroyed' = destroyed \cup gone
              /\ vault' = [vault EXCEPT ![k.tomb] = @ \ gone]
              /\ \/ gone = vault[k.tomb] /\ Goto(c, "forget", <<>>) /\ UNCHANGED failures
                 \/ Fail("remove") /\ Return(c)
        /\ UNCHANGED <<had, orderly, orig, database, calls, crashes>>

\* purge_meeting_metadata_on_writer.
Forget(c) ==
    /\ call[c].step = "forget"
    /\ \/ /\ known /\ deleted # 0
          /\ known' = FALSE /\ deleted' = 0 /\ rows' = <<>>
          /\ UNCHANGED failures
       \/ (~known \/ deleted = 0) /\ UNCHANGED <<database, failures>>
       \/ Fail("storage") /\ UNCHANGED database
    /\ Return(c)
    /\ UNCHANGED <<had, orderly, disk, calls, crashes>>

-----------------------------------------------------------------------------

\* The process ends and starts again: the calls are gone, disk and database stay.
Crash ==
    /\ crashes < MaxCrashes
    /\ crashes' = crashes + 1
    /\ call' = [c \in Clients |-> Idle]
    /\ orderly' = FALSE
    /\ UNCHANGED <<had, disk, database, calls, failures>>

\* No call is left to make, or none that does anything.
Done == (calls = MaxCalls \/ ~known) /\ (\A c \in Clients : call[c] = Idle) /\ UNCHANGED vars

Next ==
    \/ \E c \in Clients :
          \/ Delete(c) \/ Stage(c) \/ Persist(c)
          \/ Restore(c) \/ RestoreEntry(c) \/ Restored(c) \/ RecordRestore(c)
          \/ Restage(c) \/ Restaged(c)
          \/ Purge(c) \/ RemoveVault(c) \/ Forget(c)
    \/ Crash \/ Done

Spec == Init /\ [][Next]_vars

-----------------------------------------------------------------------------
(* Properties.                                                             *)

Manifest == [tomb : Tombstones, entries : Seq(Categories)]
Call == [op : {"none", "delete", "restore", "purge"}, step : Steps, tomb : 0..MaxCalls,
         entries : Seq(Categories), todo : Seq(Categories), before : SUBSET Categories]

\* Every variable has its type, and a tombstone belongs to a meeting.
TypeOK ==
    /\ had \subseteq Categories /\ orig \subseteq Categories /\ destroyed \subseteq Categories
    /\ vault \in [Tombstones -> SUBSET Categories]
    /\ known \in BOOLEAN /\ deleted \in 0..MaxCalls /\ rows \in Seq(Manifest)
    /\ known \/ (deleted = 0 /\ rows = <<>>)
    /\ call \in [Clients -> Call] /\ orderly \in BOOLEAN
    /\ calls \in 0..MaxCalls /\ failures \in 0..MaxFailures /\ crashes \in 0..MaxCrashes

\* No interleaving, failure or crash loses a directory or puts it in two places:
\* each is where it was, in one vault, or purged.
FilesAreSomewhere ==
    /\ orig \cup (UNION {vault[t] : t \in Tombstones}) \cup destroyed = had
    /\ orig \cap destroyed = {}
    /\ \A t \in Tombstones : vault[t] \cap (orig \cup destroyed) = {}
    /\ \A t, u \in Tombstones : t # u => vault[t] \cap vault[u] = {}

Quiet == \A c \in Clients : call[c] = Idle

\* What delete_restore finds: the files of the latest tombstone.
Listed == IF rows = <<>> THEN {} ELSE Range(Last(rows).entries) \cap vault[Last(rows).tomb]

\* "Recoverable deletion, and restore" (CHANGELOG.md:390-391): between calls, a
\* meeting that is not deleted has its files, and one that is deleted can get
\* back all that a purge has not destroyed, as long as the calls are orderly.
RecoverableDeletion ==
    orderly /\ Quiet /\ known =>
        had \ destroyed \subseteq IF deleted = 0 THEN orig ELSE orig \cup Listed

\* Files are destroyed only while their meeting is deleted.  A purge that meets a
\* restore which is moving the files back destroys those of a meeting that lives,
\* so the property speaks of orderly calls, with whatever failures they meet.
OnlyDeletedIsDestroyed ==
    [][orderly /\ destroyed' # destroyed => known /\ deleted # 0]_vars

\* An orderly delete that returns an error leaves the files where it found them,
\* as the test of the faulted deletion has it (service.rs:6856-6885).
FailedDeleteChangesNothing ==
    [][\A c \in Clients :
          orderly' /\ call[c].op = "delete" /\ call'[c] = Idle /\ deleted' # call[c].tomb
              => orig' = call[c].before]_vars

\* Only an answered deletion takes files away, and only a purge destroys them.
FilesFollowTheAnswer == OnlyDeletedIsDestroyed /\ FailedDeleteChangesNothing

=============================================================================
