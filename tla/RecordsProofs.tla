---------------------------- MODULE RecordsProofs ----------------------------
(***************************************************************************)
(* What happens to a user's records, for every value of the constants.     *)
(*                                                                         *)
(* DeletionVault, for any number of threads, calls, failures and crashes:  *)
(* the types and every directory in exactly one place; as long as calls    *)
(* are orderly, a deletion is recoverable and a failed one undone.         *)
(*                                                                         *)
(* RecordsWindow, for any number of meetings, commands, polls and failures *)
(* and answers in any order: an edit of labels builds on the latest        *)
(* version, the record shown is the record selected, what was shown is     *)
(* never replaced by something older, and the window goes on polling what  *)
(* still changes.                                                          *)
(***************************************************************************)
EXTENDS DeletionVault, RecordsWindow, TLAPS

\* What the steps of a call rely on: a call under way names a tombstone.
CallsNamed == \A c \in Clients : call[c].step # "none" => call[c].tomb \in Tombstones

\* The inductive invariant.
VaultInv == TypeOK /\ CallsNamed /\ FilesAreSomewhere

-----------------------------------------------------------------------------
(* The calls.                                                              *)

\* The types of the calls, apart from the other variables.
CallsOK == call \in [Clients -> Call] /\ CallsNamed

\* A call that is over is a call.
LEMMA IdleFacts == Idle \in Call /\ Idle.step = "none"
  BY VaultAssumption DEF Idle, Call, Steps

\* Ending a call keeps the others.
LEMMA ReturnKeeps ==
    ASSUME CallsOK, NEW c \in Clients, Return(c)
    PROVE  CallsOK'
  BY IdleFacts DEF CallsOK, CallsNamed, Return

\* Taking a call to another step keeps its tombstone.
LEMMA GotoKeeps ==
    ASSUME CallsOK, NEW c \in Clients, NEW step \in Steps, NEW todo \in Seq(Categories),
           call[c].step # "none", Goto(c, step, todo)
    PROVE  CallsOK'
<1> DEFINE next == [call[c] EXCEPT !.step = step, !.todo = todo]
<1>1. call[c] \in Call /\ call' = [call EXCEPT ![c] = next]
  BY DEF CallsOK, Goto
<1>2. next \in Call /\ next.tomb = call[c].tomb
  BY <1>1 DEF Call
<1> QED
  BY <1>1, <1>2 DEF CallsOK, CallsNamed

\* Dropping the first entry to handle keeps the rest.
LEMMA AdvanceKeeps ==
    ASSUME CallsOK, NEW c \in Clients, call[c].todo # <<>>, Advance(c)
    PROVE  CallsOK'
<1>1. call[c] \in Call /\ call[c].todo \in Seq(Categories)
  BY DEF CallsOK, Call
<1>2. Tail(call[c].todo) \in Seq(Categories)
  BY <1>1
<1>3. call' = [call EXCEPT ![c].todo = Tail(call[c].todo)]
  BY DEF Advance
<1> QED
  BY <1>1, <1>2, <1>3 DEF CallsOK, CallsNamed, Call

\* What a sequence of directories offers to a call.
LEMMA EntriesFacts ==
    ASSUME NEW q \in Seq(Categories)
    PROVE  /\ Reverse(q) \in Seq(Categories)
           /\ q # <<>> => Head(q) \in Categories /\ Tail(q) \in Seq(Categories)
           /\ \A x \in Categories : Append(q, x) \in Seq(Categories)
           /\ <<>> \in Seq(Categories)
<1>1. Reverse(q) \in Seq(Categories)
  BY DEF Reverse
<1> QED
  BY <1>1

-----------------------------------------------------------------------------
(* The directories.                                                        *)

DiskOK ==
    /\ had \subseteq Categories /\ orig \subseteq Categories /\ destroyed \subseteq Categories
    /\ vault \in [Tombstones -> SUBSET Categories]
    /\ FilesAreSomewhere

\* A rename into a vault moves one directory.
LEMMA MoveInKeeps ==
    ASSUME DiskOK, NEW t \in Tombstones, NEW x \in orig, MoveIn(t, x),
           UNCHANGED <<had, destroyed>>
    PROVE  DiskOK'
<1>1. \A u \in Tombstones : vault'[u] = IF u = t THEN vault[u] \cup {x} ELSE vault[u]
  BY DEF DiskOK, MoveIn
<1>2. vault' \in [Tombstones -> SUBSET Categories]
  BY DEF DiskOK, MoveIn
<1>3. orig' = orig \ {x}
  BY DEF MoveIn
<1> QED
  BY <1>1, <1>2, <1>3 DEF DiskOK, FilesAreSomewhere

\* A rename out of a vault moves one directory.
LEMMA MoveOutKeeps ==
    ASSUME DiskOK, NEW t \in Tombstones, NEW x \in vault[t], MoveOut(t, x),
           UNCHANGED <<had, destroyed>>
    PROVE  DiskOK'
<1>1. \A u \in Tombstones : vault'[u] = IF u = t THEN vault[u] \ {x} ELSE vault[u]
  BY DEF DiskOK, MoveOut
<1>2. vault' \in [Tombstones -> SUBSET Categories]
  BY DEF DiskOK, MoveOut
<1>3. orig' = orig \cup {x}
  BY DEF MoveOut
<1> QED
  BY <1>1, <1>2, <1>3 DEF DiskOK, FilesAreSomewhere

\* Removing directories from a vault destroys them.
LEMMA RemovalKeeps ==
    ASSUME DiskOK, NEW t \in Tombstones, NEW gone \in SUBSET vault[t],
           destroyed' = destroyed \cup gone,
           vault' = [vault EXCEPT ![t] = @ \ gone],
           UNCHANGED <<had, orig>>
    PROVE  DiskOK'
<1>1. \A u \in Tombstones : vault'[u] = IF u = t THEN vault[u] \ gone ELSE vault[u]
  BY DEF DiskOK
<1>2. vault' \in [Tombstones -> SUBSET Categories] /\ destroyed' \subseteq Categories
  BY DEF DiskOK
<1>3. \A u \in Tombstones : vault'[u] \subseteq vault[u] /\ vault'[u] \cap gone = {}
  BY <1>1 DEF DiskOK, FilesAreSomewhere
<1>4. orig' \cup (UNION {vault'[u] : u \in Tombstones}) \cup destroyed' = had'
  <2> DEFINE before == UNION {vault[u] : u \in Tombstones}
             after == UNION {vault'[u] : u \in Tombstones}
  <2>1. ASSUME NEW y \in before
        PROVE  y \in after \cup destroyed'
    <3>1. PICK u \in Tombstones : y \in vault[u]
      OBVIOUS
    <3>2. y \in gone \/ y \in vault'[u]
      BY <1>1, <3>1
    <3> QED
      BY <3>2
  <2>2. after \subseteq before /\ gone \subseteq before
    BY <1>3
  <2>3. orig' = orig /\ had' = had /\ destroyed' = destroyed \cup gone
    OBVIOUS
  <2>4. orig \cup before \cup destroyed = had
    BY DEF DiskOK, FilesAreSomewhere
  <2> HIDE DEF before, after
  <2>5. orig' \cup after \cup destroyed' = had'
    BY <2>1, <2>2, <2>3, <2>4
  <2> QED
    BY <2>5 DEF after
<1>5. orig' \cap destroyed' = {}
  BY DEF DiskOK, FilesAreSomewhere
<1>6. \A u \in Tombstones : vault'[u] \cap (orig' \cup destroyed') = {}
  BY <1>3 DEF DiskOK, FilesAreSomewhere
<1>7. \A u, v \in Tombstones : u # v => vault'[u] \cap vault'[v] = {}
  BY <1>3 DEF DiskOK, FilesAreSomewhere
<1> QED
  BY <1>2, <1>4, <1>5, <1>6, <1>7 DEF DiskOK, FilesAreSomewhere

\* Nothing on disk changes.
LEMMA DiskUntouched ==
    ASSUME DiskOK, UNCHANGED <<had, disk>>
    PROVE  DiskOK'
  BY DEF DiskOK, disk, FilesAreSomewhere

-----------------------------------------------------------------------------
(* The database and the counters.                                          *)

DatabaseOK ==
    /\ known \in BOOLEAN /\ deleted \in 0..MaxCalls /\ rows \in Seq(Manifest)
    /\ known \/ (deleted = 0 /\ rows = <<>>)

CountsOK == calls \in 0..MaxCalls /\ failures \in 0..MaxFailures /\ crashes \in 0..MaxCrashes

\* The invariant by what the steps change of it.
LEMMA Parts ==
    VaultInv <=> CallsOK /\ DiskOK /\ DatabaseOK /\ CountsOK /\ orderly \in BOOLEAN
  BY DEF VaultInv, TypeOK, CallsOK, DiskOK, DatabaseOK, CountsOK

\* Nothing in the database changes.
LEMMA DatabaseUntouched ==
    ASSUME DatabaseOK, UNCHANGED database
    PROVE  DatabaseOK'
  BY DEF DatabaseOK, database

\* One failure more, or none.
LEMMA FailuresBounded ==
    ASSUME CountsOK, UNCHANGED <<calls, crashes>>,
           \/ UNCHANGED failures
           \/ Fail("rename") \/ Fail("size") \/ Fail("storage") \/ Fail("readback") \/ Fail("remove")
    PROVE  CountsOK'
  BY VaultAssumption DEF CountsOK, Fail

\* A call that begins names a tombstone that exists, or its own new one.
LEMMA BeginKeeps ==
    ASSUME CallsOK, DiskOK, DatabaseOK, CountsOK, NEW c \in Clients,
           NEW op \in {"delete", "restore", "purge"}, NEW step \in Steps \ {"none"},
           NEW tomb \in Nat, calls < MaxCalls => tomb \in Tombstones,
           NEW entries \in Seq(Categories), NEW todo \in Seq(Categories),
           Begin(c, op, step, tomb, entries, todo)
    PROVE  CallsOK' /\ DiskOK' /\ DatabaseOK' /\ CountsOK'
<1> DEFINE k == [op |-> op, step |-> step, tomb |-> tomb,
                 entries |-> entries, todo |-> todo, before |-> orig]
<1>1. tomb \in Tombstones /\ calls' = calls + 1 /\ calls < MaxCalls
  BY DEF Begin
<1>2. k \in Call /\ k.tomb \in Tombstones
  BY <1>1, VaultAssumption DEF Call, Tombstones, Steps, DiskOK
<1>3. call' = [call EXCEPT ![c] = k]
  BY DEF Begin
<1>4. CallsOK'
  BY <1>2, <1>3 DEF CallsOK, CallsNamed
<1>5. CountsOK'
  BY <1>1, VaultAssumption DEF CountsOK, Begin
<1> QED
  BY <1>4, <1>5, DiskUntouched, DatabaseUntouched DEF Begin

-----------------------------------------------------------------------------
(* The actions.                                                            *)

All == CallsOK /\ DiskOK /\ DatabaseOK /\ CountsOK

\* The call that takes a step, and its tombstone.
LEMMA CallFacts ==
    ASSUME All, NEW c \in Clients
    PROVE  /\ call[c] \in Call /\ call[c].todo \in Seq(Categories)
           /\ call[c].entries \in Seq(Categories)
           /\ call[c].step # "none" => call[c].tomb \in Tombstones
  BY DEF All, CallsOK, CallsNamed, Call

\* The latest tombstone.
LEMMA LatestFacts ==
    ASSUME All, rows # <<>>
    PROVE  Last(rows).tomb \in Tombstones /\ Last(rows).entries \in Seq(Categories)
<1>1. Last(rows) \in Manifest
  BY DEF All, DatabaseOK, Last
<1> QED
  BY <1>1 DEF Manifest

\* A delete that begins.
LEMMA DeleteKeeps == ASSUME All, NEW c \in Clients, Delete(c) PROVE All'
<1>1. PICK chosen \in Selections :
          Begin(c, "delete", "stage", calls + 1, <<>>,
                IF Range(chosen) \cap orig = {} THEN <<>> ELSE chosen)
  BY DEF Delete
<1>2. chosen \in Seq(Categories) /\ <<>> \in Seq(Categories)
  <2>1. <<>> \in Seq(Categories) /\ <<"raw">> \in Seq(Categories)
        /\ <<"derived">> \in Seq(Categories) /\ <<"raw", "derived">> \in Seq(Categories)
    BY DEF Categories
  <2> QED
    BY <2>1 DEF Selections
<1>3. calls + 1 \in Nat /\ (calls < MaxCalls => calls + 1 \in Tombstones)
  BY VaultAssumption DEF All, CountsOK, Tombstones
<1> QED
  BY <1>1, <1>2, <1>3, BeginKeeps DEF All, Steps

\* A restore that begins.
LEMMA RestoreKeeps == ASSUME All, NEW c \in Clients, Restore(c) PROVE All'
<1>1. rows # <<>> /\ Begin(c, "restore", "restore", Last(rows).tomb, Last(rows).entries,
                           Reverse(Last(rows).entries))
  BY DEF Restore
<1>2. Last(rows).tomb \in Nat /\ Last(rows).tomb \in Tombstones
  BY <1>1, LatestFacts DEF Tombstones
<1>3. Reverse(Last(rows).entries) \in Seq(Categories) /\ Last(rows).entries \in Seq(Categories)
  BY <1>1, LatestFacts, EntriesFacts
<1> QED
  BY <1>1, <1>2, <1>3, BeginKeeps DEF All, Steps

\* A purge that begins.
LEMMA PurgeKeeps == ASSUME All, NEW c \in Clients, Purge(c) PROVE All'
<1>1. rows # <<>> /\ Begin(c, "purge", "purge", Last(rows).tomb, Last(rows).entries, <<>>)
  BY DEF Purge
<1>2. Last(rows).tomb \in Nat /\ Last(rows).tomb \in Tombstones
      /\ Last(rows).entries \in Seq(Categories) /\ <<>> \in Seq(Categories)
  BY <1>1, LatestFacts DEF Tombstones
<1> QED
  BY <1>1, <1>2, BeginKeeps DEF All, Steps

\* One directory staged: the types of the call.
LEMMA StagedKeeps ==
    ASSUME CallsOK, NEW c \in Clients, NEW x \in Categories,
           call[c].todo # <<>>, Collect(c, x)
    PROVE  CallsOK'
<1>1. call[c] \in Call /\ call[c].todo \in Seq(Categories) /\ call[c].entries \in Seq(Categories)
  BY DEF CallsOK, Call
<1>2. Tail(call[c].todo) \in Seq(Categories) /\ Append(call[c].entries, x) \in Seq(Categories)
  BY <1>1
<1>3. call' = [call EXCEPT ![c] = [call[c] EXCEPT !.todo = Tail(call[c].todo),
                                                  !.entries = Append(call[c].entries, x)]]
  BY DEF CallsOK, Collect
<1> DEFINE rest == Tail(call[c].todo)
           more == Append(call[c].entries, x)
<1> HIDE DEF rest, more
<1>4. [call[c] EXCEPT !.todo = rest, !.entries = more] \in Call
  BY <1>1, <1>2 DEF Call, rest, more
<1>5. [call[c] EXCEPT !.todo = rest, !.entries = more].tomb = call[c].tomb
      /\ [call[c] EXCEPT !.todo = rest, !.entries = more].step = call[c].step
  BY <1>1 DEF Call
<1> QED
  BY <1>3, <1>4, <1>5 DEF CallsOK, CallsNamed, rest, more

\* A delete moves a directory into the vault, or fails.
LEMMA StageKeeps == ASSUME All, NEW c \in Clients, Stage(c) PROVE All'
<1> DEFINE k == call[c]  x == Head(k.todo)
<1>1. k.step = "stage" /\ k.todo # <<>> /\ UNCHANGED <<had, database, calls, crashes>>
  BY DEF Stage
<1>2. x \in Categories /\ k.tomb \in Tombstones /\ Reverse(k.entries) \in Seq(Categories)
  BY <1>1, CallFacts, EntriesFacts
<1>3. DatabaseOK'
  BY <1>1, DatabaseUntouched DEF All
<1>4. CASE x \notin orig /\ Advance(c) /\ UNCHANGED <<disk, failures>>
  BY <1>1, <1>3, <1>4, AdvanceKeeps, DiskUntouched, FailuresBounded DEF All
<1>5. CASE x \in orig /\ MoveIn(k.tomb, x) /\ Collect(c, x) /\ UNCHANGED <<destroyed, failures>>
  <2>1. CallsOK'
    BY <1>1, <1>2, <1>5, StagedKeeps DEF All
  <2>2. DiskOK'
    BY <1>1, <1>2, <1>5, MoveInKeeps DEF All
  <2> QED
    BY <1>1, <1>3, <1>5, <2>1, <2>2, FailuresBounded DEF All
<1>6. CASE Fail("size") /\ Return(c) /\ UNCHANGED disk
  BY <1>1, <1>3, <1>6, ReturnKeeps, DiskUntouched, FailuresBounded DEF All
<1>7. CASE Fail("rename") /\ UNCHANGED disk /\ Goto(c, "rollback", Reverse(k.entries))
  <2>1. CallsOK'
    BY <1>1, <1>2, <1>7, GotoKeeps DEF All, Steps
  <2> QED
    BY <1>1, <1>3, <1>7, <2>1, DiskUntouched, FailuresBounded DEF All
<1> QED
  BY <1>4, <1>5, <1>6, <1>7 DEF Stage

\* A delete commits its tombstone, or undoes what it moved.
LEMMA PersistKeeps == ASSUME All, NEW c \in Clients, Persist(c) PROVE All'
<1> DEFINE k == call[c]
           row == [tomb |-> k.tomb, entries |-> k.entries]
           commit == /\ known /\ deleted = 0
                     /\ deleted' = k.tomb /\ rows' = Append(rows, row) /\ known' = known
           undo == Goto(c, "rollback", Reverse(k.entries))
<1>1. k.step = "stage" /\ UNCHANGED <<had, disk, calls, crashes>>
  BY DEF Persist
<1>2. k.tomb \in Tombstones /\ k.entries \in Seq(Categories)
      /\ Reverse(k.entries) \in Seq(Categories)
  BY <1>1, CallFacts, EntriesFacts
<1>3. DiskOK'
  BY <1>1, DiskUntouched DEF All
<1>4. ASSUME commit PROVE DatabaseOK'
  <2>1. row \in Manifest
    BY <1>2 DEF Manifest
  <2>2. deleted' \in 0..MaxCalls
    BY <1>2, <1>4, VaultAssumption DEF Tombstones
  <2> QED
    BY <1>4, <2>1, <2>2 DEF All, DatabaseOK
<1>5. ASSUME undo PROVE CallsOK'
  BY <1>1, <1>2, <1>5, GotoKeeps DEF All, Steps
<1>6. CASE commit /\ Return(c) /\ UNCHANGED failures
  BY <1>1, <1>3, <1>4, <1>6, ReturnKeeps, FailuresBounded DEF All
<1>7. CASE commit /\ Fail("readback") /\ undo
  BY <1>1, <1>3, <1>4, <1>5, <1>7, FailuresBounded DEF All
<1>8. CASE undo /\ UNCHANGED database /\ (UNCHANGED failures \/ Fail("storage"))
  BY <1>1, <1>3, <1>5, <1>8, DatabaseUntouched, FailuresBounded DEF All
<1> QED
  BY <1>6, <1>7, <1>8 DEF Persist, database

\* A directory moves back, or fails to.
LEMMA RestoreEntryKeeps == ASSUME All, NEW c \in Clients, RestoreEntry(c) PROVE All'
<1> DEFINE k == call[c]  x == Head(k.todo)
<1>1. k.step # "none" /\ k.todo # <<>> /\ UNCHANGED <<had, database, calls, crashes>>
  BY DEF RestoreEntry, Restoring
<1>2. k.tomb \in Tombstones /\ DatabaseOK'
  BY <1>1, CallFacts, DatabaseUntouched DEF All
<1>3. CASE Advance(c) /\ UNCHANGED <<disk, failures>>
  BY <1>1, <1>2, <1>3, AdvanceKeeps, DiskUntouched, FailuresBounded DEF All
<1>4. CASE Return(c) /\ UNCHANGED disk /\ (UNCHANGED failures \/ Fail("rename"))
  BY <1>1, <1>2, <1>4, ReturnKeeps, DiskUntouched, FailuresBounded DEF All
<1>5. CASE x \in vault[k.tomb] /\ MoveOut(k.tomb, x) /\ Advance(c) /\ UNCHANGED <<destroyed, failures>>
  <2>1. DiskOK'
    BY <1>1, <1>2, <1>5, MoveOutKeeps DEF All
  <2> QED
    BY <1>1, <1>2, <1>5, <2>1, AdvanceKeeps, FailuresBounded DEF All
<1> QED
  BY <1>3, <1>4, <1>5 DEF RestoreEntry, disk

\* All that was listed is back.
LEMMA RestoredKeeps == ASSUME All, NEW c \in Clients, Restored(c) PROVE All'
<1>1. call[c].step # "none" /\ UNCHANGED <<had, disk, database, calls, failures, crashes>>
  BY DEF Restored, Restoring
<1>2. Goto(c, "record", <<>>) \/ Return(c)
  BY DEF Restored
<1>3. <<>> \in Seq(Categories) /\ "record" \in Steps
  BY DEF Steps
<1>4. CallsOK'
  BY <1>1, <1>2, <1>3, GotoKeeps, ReturnKeeps DEF All
<1> QED
  BY <1>1, <1>4, DiskUntouched, DatabaseUntouched, FailuresBounded DEF All

\* A restore commits, or undoes what it moved.
LEMMA RecordRestoreKeeps == ASSUME All, NEW c \in Clients, RecordRestore(c) PROVE All'
<1> DEFINE k == call[c]
           commit == known /\ deleted # 0 /\ deleted' = 0 /\ UNCHANGED <<known, rows>>
           undo == call' = [call EXCEPT ![c].step = "restage", ![c].todo = k.entries,
                                        ![c].entries = <<>>]
<1>1. k.step = "record" /\ UNCHANGED <<had, disk, calls, crashes>>
  BY DEF RecordRestore
<1>2. k.entries \in Seq(Categories) /\ DiskOK'
  BY <1>1, CallFacts, DiskUntouched DEF All
<1>3. ASSUME commit PROVE DatabaseOK'
  BY <1>3, VaultAssumption DEF All, DatabaseOK
<1>4. ASSUME undo PROVE CallsOK'
  <2> DEFINE list == k.entries
             none == <<>>
             back == [call[c] EXCEPT !.step = "restage", !.todo = list, !.entries = none]
  <2>1. none \in Seq(Categories) /\ list \in Seq(Categories) /\ "restage" \in Steps
    BY <1>2 DEF Steps
  <2>2. call[c] \in Call /\ k.tomb \in Tombstones /\ call' = [call EXCEPT ![c] = back]
    BY <1>1, <1>4, CallFacts DEF All, CallsOK
  <2> HIDE DEF list, none
  <2>3. back \in Call /\ back.tomb = k.tomb
    BY <2>1, <2>2 DEF Call
  <2> QED
    BY <2>2, <2>3 DEF All, CallsOK, CallsNamed
<1>5. CASE commit /\ Return(c) /\ UNCHANGED failures
  BY <1>1, <1>2, <1>3, <1>5, ReturnKeeps, FailuresBounded DEF All
<1>6. CASE commit /\ Fail("readback") /\ undo
  BY <1>1, <1>2, <1>3, <1>4, <1>6, FailuresBounded DEF All
<1>7. CASE undo /\ UNCHANGED database /\ (UNCHANGED failures \/ Fail("storage"))
  BY <1>1, <1>2, <1>4, <1>7, DatabaseUntouched, FailuresBounded DEF All
<1> QED
  BY <1>5, <1>6, <1>7 DEF RecordRestore, database

\* A directory of a failed restore moves into the vault again.
LEMMA RestageKeeps == ASSUME All, NEW c \in Clients, Restage(c) PROVE All'
<1> DEFINE k == call[c]  x == Head(k.todo)
           undo == Goto(c, "rollback", Reverse(k.entries)) /\ UNCHANGED disk
<1>1. k.step = "restage" /\ k.todo # <<>> /\ UNCHANGED <<had, database, calls, crashes>>
  BY DEF Restage
<1>2. k.tomb \in Tombstones /\ Reverse(k.entries) \in Seq(Categories) /\ DatabaseOK'
  BY <1>1, CallFacts, EntriesFacts, DatabaseUntouched DEF All
<1>3. CASE Advance(c) /\ UNCHANGED <<disk, failures>>
  BY <1>1, <1>2, <1>3, AdvanceKeeps, DiskUntouched, FailuresBounded DEF All
<1>4. CASE undo /\ (UNCHANGED failures \/ Fail("rename"))
  <2>1. CallsOK'
    BY <1>1, <1>2, <1>4, GotoKeeps DEF All, Steps
  <2> QED
    BY <1>1, <1>2, <1>4, <2>1, DiskUntouched, FailuresBounded DEF All
<1>5. CASE x \in orig /\ MoveIn(k.tomb, x) /\ Collect(c, x) /\ UNCHANGED <<destroyed, failures>>
  <2>1. CallsOK' /\ DiskOK'
    BY <1>1, <1>5, CallFacts, EntriesFacts, <1>2, StagedKeeps, MoveInKeeps DEF All, DiskOK
  <2> QED
    BY <1>1, <1>2, <1>5, <2>1, FailuresBounded DEF All
<1> QED
  BY <1>3, <1>4, <1>5 DEF Restage

\* A failed restore is undone.
LEMMA RestagedKeeps == ASSUME All, NEW c \in Clients, Restaged(c) PROVE All'
  BY ReturnKeeps, DiskUntouched, DatabaseUntouched, FailuresBounded DEF Restaged, All

\* A purge removes the vault of the tombstone.
LEMMA RemoveVaultKeeps == ASSUME All, NEW c \in Clients, RemoveVault(c) PROVE All'
<1> DEFINE k == call[c]
<1>1. k.step = "purge" /\ UNCHANGED <<had, orig, database, calls, crashes>>
  BY DEF RemoveVault
<1>2. k.tomb \in Tombstones /\ DatabaseOK' /\ <<>> \in Seq(Categories)
  BY <1>1, CallFacts, DatabaseUntouched DEF All
<1>3. PICK gone \in SUBSET vault[k.tomb] :
        /\ destroyed' = destroyed \cup gone
        /\ vault' = [vault EXCEPT ![k.tomb] = @ \ gone]
        /\ \/ Goto(c, "forget", <<>>) /\ UNCHANGED failures
           \/ Fail("remove") /\ Return(c)
  BY DEF RemoveVault
<1>4. DiskOK'
  BY <1>1, <1>2, <1>3, RemovalKeeps DEF All
<1>5. CallsOK'
  BY <1>1, <1>2, <1>3, GotoKeeps, ReturnKeeps DEF All, Steps
<1> QED
  BY <1>1, <1>2, <1>3, <1>4, <1>5, FailuresBounded DEF All

\* A purge forgets the meeting.
LEMMA ForgetKeeps == ASSUME All, NEW c \in Clients, Forget(c) PROVE All'
<1>1. Return(c) /\ UNCHANGED <<had, disk, calls, crashes>>
      /\ (UNCHANGED failures \/ Fail("storage"))
  BY DEF Forget
<1>2. DatabaseOK'
  <2>1. CASE known' = FALSE /\ deleted' = 0 /\ rows' = <<>>
    <3>1. rows' \in Seq(Manifest) /\ deleted' \in 0..MaxCalls
      BY <2>1, VaultAssumption
    <3>2. known' \in BOOLEAN
      BY <2>1, Zenon
    <3> QED
      BY <2>1, <3>1, <3>2, Zenon DEF DatabaseOK
  <2>2. CASE UNCHANGED database
    BY <2>2, DatabaseUntouched DEF All
  <2> QED
    BY <2>1, <2>2 DEF Forget
<1> QED
  BY <1>1, <1>2, ReturnKeeps, DiskUntouched, FailuresBounded DEF All

\* A crash ends every call and leaves the disk and the database.
LEMMA CrashKeeps == ASSUME All, Crash PROVE All'
<1>1. CallsOK'
  BY IdleFacts DEF Crash, CallsOK, CallsNamed
<1>2. CountsOK'
  BY VaultAssumption DEF All, CountsOK, Crash
<1> QED
  BY <1>1, <1>2, DiskUntouched, DatabaseUntouched DEF All, Crash

\* Whether the calls were orderly is true or false after every step.
LEMMA OrderlyBoolean == ASSUME orderly \in BOOLEAN, [Next]_vars PROVE orderly' \in BOOLEAN
<1>1. ASSUME NEW c \in Clients, NEW op, NEW step, NEW tomb, NEW entries, NEW todo,
             Begin(c, op, step, tomb, entries, todo)
      PROVE  orderly' \in BOOLEAN
  BY <1>1, Zenon DEF Begin
<1>2. ASSUME NEW c \in Clients, Delete(c) \/ Restore(c) \/ Purge(c)
      PROVE  orderly' \in BOOLEAN
  BY <1>1, <1>2, Zenon DEF Delete, Restore, Purge
<1>3. ASSUME NEW c \in Clients, Stage(c) \/ RecordRestore(c)
      PROVE  orderly' \in BOOLEAN
  <2>1. orderly' = orderly \/ orderly' = FALSE
    BY <1>3 DEF Stage, RecordRestore
  <2> QED
    BY <2>1, Zenon
<1>4. ASSUME NEW c \in Clients,
             Persist(c) \/ Restored(c) \/ Restage(c) \/ Restaged(c) \/ RemoveVault(c) \/ Forget(c)
      PROVE  orderly' = orderly
  BY <1>4 DEF Persist, Restored, Restage, Restaged, RemoveVault, Forget
<1>5. ASSUME NEW c \in Clients, RestoreEntry(c)
      PROVE  orderly' \in BOOLEAN
  <2>1. orderly' = orderly \/ UndoFails(call[c])
    BY <1>5 DEF RestoreEntry
  <2> QED
    BY <2>1, Zenon DEF UndoFails
<1>6. CASE Crash
  BY <1>6, Zenon DEF Crash
<1>7. CASE UNCHANGED vars
  BY <1>7 DEF vars
<1> QED
  BY <1>2, <1>3, <1>4, <1>5, <1>6, <1>7, Zenon DEF Next, Done

-----------------------------------------------------------------------------

\* VaultInv holds at the start and every step keeps it.
THEOREM VaultInvariant == Spec => []VaultInv
<1>1. Init => All
  <2> SUFFICES ASSUME Init PROVE All
    OBVIOUS
  <2>1. CallsOK
    BY IdleFacts DEF Init, CallsOK, CallsNamed
  <2>2. DiskOK
    <3>1. UNION {vault[t] : t \in Tombstones} = {}
      BY DEF Init
    <3> QED
      BY <3>1 DEF Init, DiskOK, FilesAreSomewhere
  <2>3. DatabaseOK /\ CountsOK
    BY VaultAssumption DEF Init, DatabaseOK, CountsOK
  <2> QED
    BY <2>1, <2>2, <2>3 DEF All
<1>2. All /\ [Next]_vars => All'
  <2> SUFFICES ASSUME All, [Next]_vars PROVE All'
    OBVIOUS
  <2>1. CASE UNCHANGED vars
    <3>1. CallsOK'
      BY <2>1 DEF vars, All, CallsOK, CallsNamed
    <3> QED
      BY <2>1, <3>1, DiskUntouched, DatabaseUntouched, FailuresBounded DEF vars, All
  <2>2. CASE Crash
    BY <2>2, CrashKeeps
  <2>3. ASSUME NEW c \in Clients,
               \/ Delete(c) \/ Stage(c) \/ Persist(c)
               \/ Restore(c) \/ RestoreEntry(c) \/ Restored(c) \/ RecordRestore(c)
               \/ Restage(c) \/ Restaged(c)
               \/ Purge(c) \/ RemoveVault(c) \/ Forget(c)
        PROVE  All'
    BY <2>3, DeleteKeeps, StageKeeps, PersistKeeps, RestoreKeeps, RestoreEntryKeeps, RestoredKeeps,
       RecordRestoreKeeps, RestageKeeps, RestagedKeeps, PurgeKeeps, RemoveVaultKeeps, ForgetKeeps
  <2> QED
    BY <2>1, <2>2, <2>3 DEF Next, Done
<1>3. Init => orderly \in BOOLEAN
  BY Zenon DEF Init
<1>4. orderly \in BOOLEAN /\ [Next]_vars => (orderly \in BOOLEAN)'
  BY OrderlyBoolean
<1>5. VaultInv <=> All /\ orderly \in BOOLEAN
  BY Parts DEF All
<1> QED
  BY <1>1, <1>2, <1>3, <1>4, <1>5, PTL DEF Spec

\* The variables keep their types, and every tombstone row belongs to a meeting.
THEOREM VaultTypeCorrect == Spec => []TypeOK
  BY VaultInvariant, PTL DEF VaultInv

\* Whatever calls overlap, fail or are cut off by a crash, every directory of
\* the meeting is in its place, in exactly one vault, or purged.
THEOREM FilesAlwaysSomewhere == Spec => []FilesAreSomewhere
  BY VaultInvariant, PTL DEF VaultInv

-----------------------------------------------------------------------------
(* What orderly calls rely on, and what they keep.                         *)

\* What no purge has destroyed.
Available == had \ destroyed

\* Calls come one at a time.
OneCall == \A c, d \in Clients : call[c] # Idle /\ call[d] # Idle => c = d

\* A deleted meeting can get back what there is, also in the middle of a call.
DeletedIsListed == deleted # 0 => rows # <<>> /\ Available \subseteq orig \cup Listed

\* A meeting that is not deleted has its files, except while a delete is at work.
LivingIsThere ==
    known /\ deleted = 0 /\ (\A c \in Clients : call[c].op # "delete") => Available \subseteq orig

\* A delete found everything in place: what it staged is in its vault, and what
\* it has not yet moved back is still on its list.
DeleteTells(k) ==
    /\ k.op = "delete" /\ k.tomb \in Tombstones /\ known /\ k.before = Available
    /\ \/ /\ k.step = "stage" /\ deleted = 0
          /\ k.before = orig \cup Range(k.entries) /\ Range(k.entries) \subseteq vault[k.tomb]
       \/ /\ k.step = "rollback"
          /\ k.before \subseteq orig \cup Range(k.todo)
          /\ Range(k.todo) \subseteq orig \cup vault[k.tomb]

\* A restore is about the latest tombstone of a deleted meeting and moves only
\* what its manifest lists; it records nothing before the vault is empty.
RestoreTells(k) ==
    /\ k.op = "restore" /\ k.step \in {"restore", "record", "restage", "rollback"}
    /\ deleted # 0 /\ k.tomb = Last(rows).tomb
    /\ Range(k.todo) \cup Range(k.entries) \subseteq Range(Last(rows).entries)
    /\ k.step = "record" => vault[k.tomb] = {}

PurgeTells(k) == k.op = "purge" /\ k.step \in {"purge", "forget"} /\ rows # <<>>

CallTells(k) == k = Idle \/ DeleteTells(k) \/ RestoreTells(k) \/ PurgeTells(k)

Ordered ==
    /\ OneCall /\ DeletedIsListed /\ LivingIsThere
    /\ \A c \in Clients : CallTells(call[c])

\* The inductive invariant of recovery.
RecoveryInv == orderly => Ordered

-----------------------------------------------------------------------------
(* The lists of a call, and the one call that is under way.                *)

\* What the entries of a list are when it is read, extended or turned round.
LEMMA RangeFacts ==
    ASSUME NEW q \in Seq(Categories)
    PROVE  /\ Range(<<>>) = {}
           /\ Range(Reverse(q)) = Range(q)
           /\ q # <<>> => Head(q) \in Range(q) /\ Range(q) = {Head(q)} \cup Range(Tail(q))
           /\ \A x \in Categories : Range(Append(q, x)) = Range(q) \cup {x}
<1>1. Range(<<>>) = {}
  BY DEF Range
<1>2. Range(Reverse(q)) = Range(q)
  <2>1. Len(Reverse(q)) = Len(q) /\ DOMAIN Reverse(q) = 1..Len(q) /\ DOMAIN q = 1..Len(q)
    BY DEF Reverse
  <2>2. \A i \in 1..Len(q) : Reverse(q)[i] = q[Len(q) - i + 1]
    BY DEF Reverse
  <2>3. \A i \in 1..Len(q) : Len(q) - i + 1 \in 1..Len(q) /\ q[i] = Reverse(q)[Len(q) - i + 1]
    BY <2>2
  <2>4. Range(q) \subseteq Range(Reverse(q))
    BY <2>1, <2>3 DEF Range
  <2>5. Range(Reverse(q)) \subseteq Range(q)
    <3>1. \A i \in 1..Len(q) : Len(q) - i + 1 \in 1..Len(q)
      BY <2>3
    <3> QED
      BY <2>1, <2>2, <3>1 DEF Range
  <2> QED
    BY <2>4, <2>5
<1>3. ASSUME q # <<>> PROVE Head(q) \in Range(q) /\ Range(q) = {Head(q)} \cup Range(Tail(q))
  <2>1. Len(q) \in Nat \ {0} /\ DOMAIN q = 1..Len(q) /\ Head(q) = q[1]
    BY <1>3
  <2>2. DOMAIN Tail(q) = 1..(Len(q) - 1) /\ \A i \in 1..(Len(q) - 1) : Tail(q)[i] = q[i + 1]
    BY <1>3
  <2>3. \A i \in 1..Len(q) : i = 1 \/ (i - 1 \in 1..(Len(q) - 1) /\ q[i] = Tail(q)[i - 1])
    BY <2>1, <2>2
  <2>4. \A i \in 1..(Len(q) - 1) : i + 1 \in 1..Len(q)
    BY <2>1
  <2>5. Head(q) \in Range(q)
    BY <2>1 DEF Range
  <2>6. Range(Tail(q)) \subseteq Range(q)
    BY <2>1, <2>2, <2>4 DEF Range
  <2>7. ASSUME NEW y \in Range(q) PROVE y \in {Head(q)} \cup Range(Tail(q))
    <3>1. PICK i \in 1..Len(q) : y = q[i]
      BY <2>1 DEF Range
    <3>2. CASE i = 1
      BY <2>1, <3>1, <3>2
    <3>3. CASE i - 1 \in DOMAIN Tail(q) /\ y = Tail(q)[i - 1]
      BY <3>3 DEF Range
    <3> QED
      BY <2>2, <2>3, <3>1, <3>2, <3>3
  <2> QED
    BY <2>5, <2>6, <2>7
<1>4. ASSUME NEW x \in Categories PROVE Range(Append(q, x)) = Range(q) \cup {x}
  <2>1. Len(q) \in Nat /\ DOMAIN q = 1..Len(q) /\ DOMAIN Append(q, x) = 1..(Len(q) + 1)
    OBVIOUS
  <2>2. Append(q, x)[Len(q) + 1] = x /\ \A i \in 1..Len(q) : Append(q, x)[i] = q[i]
    OBVIOUS
  <2>3. \A i \in 1..(Len(q) + 1) : i = Len(q) + 1 \/ i \in 1..Len(q)
    BY <2>1
  <2>4. Len(q) + 1 \in 1..(Len(q) + 1) /\ \A i \in 1..Len(q) : i \in 1..(Len(q) + 1)
    BY <2>1
  <2> QED
    BY <2>1, <2>2, <2>3, <2>4 DEF Range
<1> QED
  BY <1>1, <1>2, <1>3, <1>4

\* A step of c: the other calls stay, and c keeps what names its command.
Others(c) == \A d \in Clients \ {c} : call'[d] = call[d]
Fixed(c) ==
    /\ call'[c].op = call[c].op /\ call'[c].tomb = call[c].tomb
    /\ call'[c].before = call[c].before

\* A call that returns.
LEMMA ReturnFields ==
    ASSUME CallsOK, NEW c \in Clients, Return(c)
    PROVE  Others(c) /\ call'[c] = Idle
  BY DEF CallsOK, Return, Others

\* A call that goes to another step.
LEMMA GotoFields ==
    ASSUME CallsOK, NEW c \in Clients, NEW step, NEW todo, Goto(c, step, todo)
    PROVE  /\ Others(c) /\ Fixed(c) /\ call'[c].step = step /\ call'[c].todo = todo
           /\ call'[c].entries = call[c].entries
<1>1. call[c] \in Call
  BY DEF CallsOK
<1>2. call'[c] = [call[c] EXCEPT !.step = step, !.todo = todo] /\ Others(c)
  BY DEF CallsOK, Goto, Others
<1> QED
  BY <1>1, <1>2 DEF Call, Fixed

\* A call that is done with a directory.
LEMMA AdvanceFields ==
    ASSUME CallsOK, NEW c \in Clients, Advance(c)
    PROVE  /\ Others(c) /\ Fixed(c) /\ call'[c].step = call[c].step
           /\ call'[c].todo = Tail(call[c].todo) /\ call'[c].entries = call[c].entries
<1>1. call[c] \in Call
  BY DEF CallsOK
<1>2. call'[c] = [call[c] EXCEPT !.todo = Tail(call[c].todo)] /\ Others(c)
  BY DEF CallsOK, Advance, Others
<1> QED
  BY <1>1, <1>2 DEF Call, Fixed

\* A call that is done with a directory and lists it.
LEMMA CollectFields ==
    ASSUME CallsOK, NEW c \in Clients, NEW x, Collect(c, x)
    PROVE  /\ Others(c) /\ Fixed(c) /\ call'[c].step = call[c].step
           /\ call'[c].todo = Tail(call[c].todo)
           /\ call'[c].entries = Append(call[c].entries, x)
<1>1. call[c] \in Call
  BY DEF CallsOK
<1> DEFINE rest == Tail(call[c].todo)
           more == Append(call[c].entries, x)
<1>2. call'[c] = [call[c] EXCEPT !.todo = rest, !.entries = more] /\ Others(c)
  BY DEF CallsOK, Collect, Others
<1> HIDE DEF rest, more
<1>3. Fixed(c) /\ call'[c].step = call[c].step /\ call'[c].todo = rest /\ call'[c].entries = more
  BY <1>1, <1>2 DEF Call, Fixed
<1> QED
  BY <1>2, <1>3 DEF rest, more

\* The other calls are idle while c is not, so what holds of c is enough.
LEMMA OneIsEnough ==
    ASSUME Ordered, NEW c \in Clients, call[c] # Idle, Others(c),
           DeletedIsListed',
           known' /\ deleted' = 0 /\ call'[c].op # "delete" => (Available \subseteq orig)',
           CallTells(call[c])'
    PROVE  Ordered'
<1>1. \A d \in Clients \ {c} : call'[d] = Idle
  BY DEF Ordered, OneCall, Others
<1>2. OneCall'
  BY <1>1 DEF OneCall
<1>3. LivingIsThere'
  BY DEF LivingIsThere
<1>4. ASSUME NEW d \in Clients PROVE CallTells(call[d])'
  <2>1. CASE d = c
    BY <2>1
  <2>2. CASE d # c
    BY <1>1, <2>2 DEF CallTells
  <2> QED
    BY <2>1, <2>2
<1> QED
  BY <1>2, <1>3, <1>4 DEF Ordered

-----------------------------------------------------------------------------
(* The files and the latest tombstone.                                     *)

\* Where the directories that no purge has destroyed can be.
LEMMA PlacesFacts ==
    ASSUME DiskOK
    PROVE  /\ orig \subseteq Available
           /\ \A t \in Tombstones : vault[t] \subseteq Available /\ vault[t] \cap orig = {}
           /\ \A x \in Available : x \in orig \/ \E t \in Tombstones : x \in vault[t]
<1>1. \A t \in Tombstones : vault[t] \subseteq UNION {vault[u] : u \in Tombstones}
  OBVIOUS
<1>2. orig \cup (UNION {vault[u] : u \in Tombstones}) \cup destroyed = had
  BY DEF DiskOK, FilesAreSomewhere
<1> QED
  BY <1>1, <1>2 DEF DiskOK, FilesAreSomewhere, Available

\* With disk and database as they were, all is as far away as it was.
LEMMA NothingMoves ==
    ASSUME DeletedIsListed, UNCHANGED <<had, disk, database>>
    PROVE  DeletedIsListed' /\ Available' = Available /\ orig' = orig /\ Listed' = Listed
  BY DEF DeletedIsListed, Available, Listed, disk, database

\* Moving a directory back makes no file harder to find.
LEMMA MoveOutListed ==
    ASSUME All, DeletedIsListed, NEW t \in Tombstones, NEW x \in vault[t], MoveOut(t, x),
           UNCHANGED <<had, destroyed, database>>
    PROVE  DeletedIsListed' /\ Available' = Available
<1>1. /\ orig' = orig \cup {x} /\ \A u \in Tombstones : vault[u] \ {x} \subseteq vault'[u]
      /\ rows' = rows /\ deleted' = deleted /\ Available' = Available
  BY DEF All, DiskOK, MoveOut, database, Available
<1>2. rows # <<>> => Last(rows).tomb \in Tombstones
  BY LatestFacts
<1> QED
  BY <1>1, <1>2 DEF DeletedIsListed, Listed

\* Moving a directory to the vault of the latest tombstone, on its list.
LEMMA MoveInListed ==
    ASSUME DiskOK, DeletedIsListed, NEW t \in Tombstones, NEW x \in orig, MoveIn(t, x),
           deleted # 0 => t = Last(rows).tomb /\ x \in Range(Last(rows).entries),
           UNCHANGED <<had, destroyed, database>>
    PROVE  DeletedIsListed' /\ Available' = Available
<1>1. /\ orig' = orig \ {x} /\ x \in vault'[t] /\ \A u \in Tombstones : vault[u] \subseteq vault'[u]
      /\ rows' = rows /\ deleted' = deleted /\ Available' = Available
  BY DEF DiskOK, MoveIn, database, Available
<1>2. CASE deleted = 0
  BY <1>1, <1>2 DEF DeletedIsListed
<1>3. CASE deleted # 0
  BY <1>1, <1>3 DEF DeletedIsListed, Listed
<1> QED
  BY <1>2, <1>3

-----------------------------------------------------------------------------
(* The steps of orderly calls.                                             *)

\* An orderly call begins alone, a delete with a living meeting and a restore
\* with a deleted one.
LEMMA BeginAlone ==
    ASSUME All, Ordered, orderly', NEW c \in Clients, NEW op, NEW step, NEW tomb,
           NEW entries, NEW todo, Begin(c, op, step, tomb, entries, todo)
    PROVE  /\ op = "delete" => deleted = 0
           /\ op = "restore" => deleted # 0
           /\ known /\ deleted = 0 => Available \subseteq orig
           /\ call'[c] = [op |-> op, step |-> step, tomb |-> tomb,
                          entries |-> entries, todo |-> todo, before |-> orig]
           /\ UNCHANGED <<had, disk, database>>
           /\ CallTells(call[c])' => Ordered'
<1> DEFINE k == [op |-> op, step |-> step, tomb |-> tomb,
                 entries |-> entries, todo |-> todo, before |-> orig]
<1>1. /\ \A d \in Clients : call[d] = Idle
      /\ op = "delete" => deleted = 0
      /\ op = "restore" => deleted # 0
  BY Zenon DEF Begin
<1>2. UNCHANGED <<had, disk, database>> /\ call' = [call EXCEPT ![c] = k]
  BY DEF Begin
<1>3. call'[c] = k /\ \A d \in Clients \ {c} : call'[d] = Idle
  BY <1>1, <1>2 DEF All, CallsOK
<1>4. known /\ deleted = 0 => Available \subseteq orig
  <2>1. \A d \in Clients : call[d].op # "delete"
    BY <1>1 DEF Idle
  <2> QED
    BY <2>1 DEF Ordered, LivingIsThere
<1>5. ASSUME CallTells(call[c])' PROVE Ordered'
  <2>1. DeletedIsListed'
    BY <1>2, NothingMoves DEF Ordered
  <2>2. OneCall'
    BY <1>3 DEF OneCall
  <2>3. LivingIsThere'
    BY <1>2, <1>4 DEF LivingIsThere, Available, disk, database
  <2>4. ASSUME NEW d \in Clients \ {c} PROVE CallTells(call[d])'
    BY <1>3 DEF CallTells
  <2> QED
    BY <1>5, <2>1, <2>2, <2>3, <2>4 DEF Ordered
<1> QED
  BY <1>1, <1>2, <1>3, <1>4, <1>5

\* A delete begins with nothing moved.
LEMMA DeleteOrdered ==
    ASSUME All, Ordered, orderly', NEW c \in Clients, Delete(c) PROVE Ordered'
<1>1. PICK chosen \in Selections :
          Begin(c, "delete", "stage", calls + 1, <<>>,
                IF Range(chosen) \cap orig = {} THEN <<>> ELSE chosen)
  BY DEF Delete
<1> DEFINE todo == IF Range(chosen) \cap orig = {} THEN <<>> ELSE chosen
<1> HIDE DEF todo
<1>2. Begin(c, "delete", "stage", calls + 1, <<>>, todo)
  BY <1>1 DEF todo
<1>3. /\ deleted = 0
      /\ known /\ deleted = 0 => Available \subseteq orig
      /\ call'[c] = [op |-> "delete", step |-> "stage", tomb |-> calls + 1,
                     entries |-> <<>>, todo |-> todo, before |-> orig]
      /\ UNCHANGED <<had, disk, database>>
      /\ CallTells(call[c])' => Ordered'
  BY <1>2, BeginAlone
<1>4. known /\ calls + 1 \in Tombstones
  BY <1>1, VaultAssumption DEF Delete, Begin, All, CountsOK, Tombstones
<1>5. orig = Available
  BY <1>3, <1>4, PlacesFacts DEF All
<1>6. Range(<<>>) = {}
  BY DEF Range
<1>7. DeleteTells(call[c])'
  BY <1>3, <1>4, <1>5, <1>6 DEF DeleteTells, Available, disk, database
<1> QED
  BY <1>3, <1>7 DEF CallTells

\* A restore begins with what the latest tombstone lists.
LEMMA RestoreOrdered ==
    ASSUME All, Ordered, orderly', NEW c \in Clients, Restore(c) PROVE Ordered'
<1> DEFINE row == Last(rows)
<1>1. rows # <<>> /\ Begin(c, "restore", "restore", row.tomb, row.entries, Reverse(row.entries))
  BY DEF Restore
<1>2. /\ deleted # 0
      /\ call'[c] = [op |-> "restore", step |-> "restore", tomb |-> row.tomb,
                     entries |-> row.entries, todo |-> Reverse(row.entries), before |-> orig]
      /\ UNCHANGED <<had, disk, database>>
      /\ CallTells(call[c])' => Ordered'
  BY <1>1, BeginAlone
<1>3. Range(Reverse(row.entries)) = Range(row.entries)
  BY <1>1, LatestFacts, RangeFacts
<1>4. RestoreTells(call[c])'
  BY <1>2, <1>3 DEF RestoreTells, disk, database
<1> QED
  BY <1>2, <1>4 DEF CallTells

\* A purge begins with what the latest tombstone lists.
LEMMA PurgeOrdered ==
    ASSUME All, Ordered, orderly', NEW c \in Clients, Purge(c) PROVE Ordered'
<1>1. rows # <<>> /\ Begin(c, "purge", "purge", Last(rows).tomb, Last(rows).entries, <<>>)
  BY DEF Purge
<1>2. /\ call'[c] = [op |-> "purge", step |-> "purge", tomb |-> Last(rows).tomb,
                     entries |-> Last(rows).entries, todo |-> <<>>, before |-> orig]
      /\ UNCHANGED <<had, disk, database>>
      /\ CallTells(call[c])' => Ordered'
  BY <1>1, BeginAlone
<1>3. PurgeTells(call[c])'
  BY <1>1, <1>2 DEF PurgeTells, disk, database
<1> QED
  BY <1>2, <1>3 DEF CallTells

\* What a call that takes a step is about.
LEMMA StepTells ==
    ASSUME Ordered, NEW c \in Clients
    PROVE  /\ call[c].step # "none" => call[c] # Idle
           /\ call[c].step = "stage" => DeleteTells(call[c])
           /\ call[c].step = "rollback" => DeleteTells(call[c]) \/ RestoreTells(call[c])
           /\ call[c].step \in {"restore", "record", "restage"} => RestoreTells(call[c])
           /\ call[c].step \in {"purge", "forget"} => PurgeTells(call[c])
<1>1. CallTells(call[c])
  BY DEF Ordered
<1> QED
  BY <1>1 DEF CallTells, Idle, DeleteTells, RestoreTells, PurgeTells

\* A call that ends leaves an orderly state if deletion is recoverable then.
LEMMA ReturnOrdered ==
    ASSUME All, Ordered, NEW c \in Clients, call[c] # Idle, Return(c), DeletedIsListed',
           known' /\ deleted' = 0 => (Available \subseteq orig)'
    PROVE  Ordered'
<1>1. Others(c) /\ call'[c] = Idle
  BY ReturnFields DEF All
<1>2. CallTells(call[c])'
  BY <1>1 DEF CallTells
<1> QED
  BY <1>1, <1>2, OneIsEnough

\* One directory of a delete: passed over, staged, or the undo begins.
LEMMA StageOrdered ==
    ASSUME All, Ordered, orderly', NEW c \in Clients, Stage(c) PROVE Ordered'
<1> DEFINE k == call[c]  x == Head(k.todo)
<1>1. /\ k.step = "stage" /\ k.todo # <<>> /\ k # Idle /\ UNCHANGED <<had, database>>
      /\ k.todo \in Seq(Categories) /\ k.entries \in Seq(Categories)
  BY StepTells, CallFacts DEF Stage
<1>2. /\ k.op = "delete" /\ k.tomb \in Tombstones /\ known /\ deleted = 0
      /\ k.before = Available /\ k.before = orig \cup Range(k.entries)
      /\ Range(k.entries) \subseteq vault[k.tomb]
  BY <1>1, StepTells DEF DeleteTells
<1>3. x \in Categories
  BY <1>1, EntriesFacts
<1>4. known' /\ deleted' = 0 /\ had' = had /\ rows' = rows
  BY <1>1, <1>2 DEF database
<1>5. DeletedIsListed'
  BY <1>4 DEF DeletedIsListed
<1>6. CASE x \notin orig /\ Advance(c) /\ UNCHANGED <<disk, failures>>
  <2>1. /\ Others(c) /\ Fixed(c) /\ call'[c].step = "stage" /\ call'[c].entries = k.entries
    BY <1>1, <1>6, AdvanceFields DEF All
  <2>2. DeleteTells(call[c])'
    BY <1>2, <1>4, <1>6, <2>1 DEF DeleteTells, Fixed, Available, disk
  <2>3. CallTells(call[c])'
    BY <2>2 DEF CallTells
  <2> QED
    BY <1>1, <1>2, <1>5, <2>1, <2>3, OneIsEnough DEF Fixed
<1>7. CASE x \in orig /\ MoveIn(k.tomb, x) /\ Collect(c, x) /\ UNCHANGED <<destroyed, failures>>
  <2>1. /\ Others(c) /\ Fixed(c) /\ call'[c].step = "stage"
        /\ call'[c].entries = Append(k.entries, x)
    BY <1>1, <1>7, CollectFields DEF All
  <2>2. Range(Append(k.entries, x)) = Range(k.entries) \cup {x}
    BY <1>1, <1>3, RangeFacts
  <2>3. /\ orig' = orig \ {x} /\ vault'[k.tomb] = vault[k.tomb] \cup {x}
        /\ Available' = Available
    BY <1>2, <1>4, <1>7 DEF All, DiskOK, MoveIn, Available
  <2>4. DeleteTells(call[c])'
    BY <1>2, <1>4, <1>7, <2>1, <2>2, <2>3 DEF DeleteTells, Fixed
  <2>5. CallTells(call[c])'
    BY <2>4 DEF CallTells
  <2> QED
    BY <1>1, <1>2, <1>5, <2>1, <2>5, OneIsEnough DEF Fixed
<1>8. CASE UNCHANGED disk /\ Goto(c, "rollback", Reverse(k.entries))
  <2>1. /\ Others(c) /\ Fixed(c) /\ call'[c].step = "rollback"
        /\ call'[c].todo = Reverse(k.entries)
    BY <1>8, GotoFields DEF All
  <2>2. Range(Reverse(k.entries)) = Range(k.entries)
    BY <1>1, RangeFacts
  <2>3. DeleteTells(call[c])'
    BY <1>2, <1>4, <1>8, <2>1, <2>2 DEF DeleteTells, Fixed, Available, disk
  <2>4. CallTells(call[c])'
    BY <2>3 DEF CallTells
  <2> QED
    BY <1>1, <1>2, <1>5, <2>1, <2>4, OneIsEnough DEF Fixed
<1> QED
  BY <1>6, <1>7, <1>8, Zenon DEF Stage

\* The row is written with all that was staged on its list, or the undo begins.
LEMMA PersistOrdered ==
    ASSUME All, Ordered, orderly', NEW c \in Clients, Persist(c) PROVE Ordered'
<1> DEFINE k == call[c]
           row == [tomb |-> k.tomb, entries |-> k.entries]
           commit == /\ known /\ deleted = 0
                     /\ deleted' = k.tomb /\ rows' = Append(rows, row) /\ known' = known
           undo == Goto(c, "rollback", Reverse(k.entries))
<1>1. /\ k.step = "stage" /\ k # Idle /\ UNCHANGED <<had, disk>>
      /\ k.entries \in Seq(Categories)
  BY StepTells, CallFacts DEF Persist
<1>2. /\ k.op = "delete" /\ k.tomb \in Tombstones /\ known /\ deleted = 0
      /\ k.before = Available /\ k.before = orig \cup Range(k.entries)
      /\ Range(k.entries) \subseteq vault[k.tomb]
  BY <1>1, StepTells DEF DeleteTells
<1>3. orig' = orig /\ vault' = vault /\ Available' = Available
  BY <1>1 DEF disk, Available
<1>4. ASSUME commit PROVE DeletedIsListed' /\ known' /\ deleted' # 0
  <2>1. Append(rows, row) # <<>> /\ Last(Append(rows, row)) = row
    BY DEF All, DatabaseOK, Last
  <2>2. Listed' = Range(k.entries) \cap vault[k.tomb]
    BY <1>3, <1>4, <2>1 DEF Listed
  <2>3. Available' \subseteq orig' \cup Listed'
    BY <1>2, <1>3, <2>2
  <2>4. rows' # <<>> /\ known' /\ deleted' # 0
    BY <1>2, <1>4, <2>1 DEF Tombstones
  <2> QED
    BY <2>3, <2>4 DEF DeletedIsListed
<1>5. ASSUME UNCHANGED database PROVE DeletedIsListed' /\ known'
  BY <1>2, <1>5 DEF database, DeletedIsListed
<1>6. CASE commit /\ Return(c)
  BY <1>1, <1>4, <1>6, ReturnOrdered
<1>7. CASE (commit \/ UNCHANGED database) /\ undo
  <2>1. DeletedIsListed' /\ known'
    BY <1>4, <1>5, <1>7
  <2>2. /\ Others(c) /\ Fixed(c) /\ call'[c].step = "rollback"
        /\ call'[c].todo = Reverse(k.entries)
    BY <1>7, GotoFields DEF All
  <2>3. Range(Reverse(k.entries)) = Range(k.entries)
    BY <1>1, RangeFacts
  <2>4. DeleteTells(call[c])'
    BY <1>2, <1>3, <2>1, <2>2, <2>3 DEF DeleteTells, Fixed
  <2>5. CallTells(call[c])'
    BY <2>4 DEF CallTells
  <2> QED
    BY <1>1, <1>2, <2>1, <2>2, <2>5, OneIsEnough DEF Fixed
<1> QED
  BY <1>6, <1>7 DEF Persist

\* An undo or a restore moves its next entry back, or passes over one in place;
\* an orderly delete finds each entry in exactly one place.
LEMMA RestoreEntryOrdered ==
    ASSUME All, Ordered, orderly', NEW c \in Clients, RestoreEntry(c) PROVE Ordered'
<1> DEFINE k == call[c]  x == Head(k.todo)  here == x \in orig  there == x \in vault[k.tomb]
<1>1. /\ k.step \in Restoring /\ k.todo # <<>> /\ UNCHANGED <<had, database>>
      /\ k.todo \in Seq(Categories) /\ k.tomb \in Tombstones
  BY CallFacts DEF RestoreEntry, Restoring
<1>2. (DeleteTells(k) /\ k.step = "rollback") \/ RestoreTells(k)
  BY <1>1, StepTells DEF Restoring
<1>3. x \in Range(k.todo) /\ Range(k.todo) = {x} \cup Range(Tail(k.todo))
  BY <1>1, RangeFacts
<1>4. k # Idle
  BY <1>1, StepTells DEF Restoring
<1>5. known' = known /\ deleted' = deleted /\ rows' = rows /\ had' = had
  BY <1>1 DEF database
<1>6. DeletedIsListed
  BY DEF Ordered
<1>7. CASE here /\ ~there /\ Advance(c) /\ UNCHANGED <<disk, failures, orderly>>
  <2>1. /\ Others(c) /\ Fixed(c) /\ call'[c].step = k.step /\ call'[c].todo = Tail(k.todo)
        /\ call'[c].entries = k.entries
    BY <1>7, AdvanceFields DEF All
  <2>2. orig' = orig /\ vault' = vault /\ Available' = Available
    BY <1>5, <1>7 DEF disk, Available
  <2>3. ASSUME DeleteTells(k), k.step = "rollback" PROVE DeleteTells(call[c])'
    BY <1>3, <1>5, <1>7, <2>1, <2>2, <2>3 DEF DeleteTells, Fixed
  <2>4. ASSUME RestoreTells(k) PROVE RestoreTells(call[c])'
    BY <1>1, <1>3, <1>5, <2>1, <2>2, <2>4 DEF RestoreTells, Fixed, Restoring
  <2>5. CallTells(call[c])' /\ (deleted' = 0 => call'[c].op = "delete")
    BY <1>2, <1>5, <2>1, <2>3, <2>4 DEF CallTells, Fixed, DeleteTells, RestoreTells
  <2>6. DeletedIsListed'
    BY <1>1, <1>6, <1>7, NothingMoves
  <2> QED
    BY <1>4, <2>1, <2>5, <2>6, OneIsEnough
<1>8. CASE /\ ~here /\ there /\ MoveOut(k.tomb, x) /\ Advance(c)
           /\ UNCHANGED <<destroyed, failures, orderly>>
  <2>1. /\ Others(c) /\ Fixed(c) /\ call'[c].step = k.step /\ call'[c].todo = Tail(k.todo)
        /\ call'[c].entries = k.entries
    BY <1>8, AdvanceFields DEF All
  <2>2. DeletedIsListed' /\ Available' = Available
    BY <1>1, <1>6, <1>8, MoveOutListed
  <2>3. orig' = orig \cup {x} /\ vault'[k.tomb] = vault[k.tomb] \ {x}
    BY <1>1, <1>8 DEF All, DiskOK, MoveOut
  <2>4. ASSUME DeleteTells(k), k.step = "rollback" PROVE DeleteTells(call[c])'
    BY <1>3, <1>5, <2>1, <2>2, <2>3, <2>4 DEF DeleteTells, Fixed
  <2>5. ASSUME RestoreTells(k) PROVE RestoreTells(call[c])'
    BY <1>1, <1>3, <1>5, <2>1, <2>3, <2>5 DEF RestoreTells, Fixed, Restoring
  <2>6. CallTells(call[c])' /\ (deleted' = 0 => call'[c].op = "delete")
    BY <1>2, <1>5, <2>1, <2>4, <2>5 DEF CallTells, Fixed, DeleteTells, RestoreTells
  <2> QED
    BY <1>4, <2>1, <2>2, <2>6, OneIsEnough
<1>9. CASE /\ Return(c) /\ UNCHANGED disk
           /\ \/ here = there
              \/ ~here /\ there /\ UndoFails(k)
  <2>1. k.op # "delete"
    <3>1. CASE here = there
      <4>1. vault[k.tomb] \cap orig = {}
        BY <1>1, PlacesFacts DEF All
      <4>2. ~(x \in orig \cup vault[k.tomb])
        BY <3>1, <4>1
      <4> QED
        BY <1>2, <1>3, <4>2 DEF DeleteTells, RestoreTells
    <3>2. CASE UndoFails(k)
      BY <3>2, Zenon DEF UndoFails
    <3> QED
      BY <1>9, <3>1, <3>2
  <2>2. deleted # 0
    BY <1>2, <2>1 DEF DeleteTells, RestoreTells
  <2>3. DeletedIsListed'
    BY <1>1, <1>6, <1>9, NothingMoves
  <2> QED
    BY <1>4, <1>5, <1>9, <2>2, <2>3, ReturnOrdered
<1>10. CASE here = there /\ Return(c) /\ UNCHANGED <<disk, failures, orderly>>
  BY <1>9, <1>10
<1>11. CASE ~here /\ there /\ Fail("rename") /\ Return(c) /\ UndoFails(k) /\ UNCHANGED disk
  BY <1>9, <1>11
<1> QED
  BY <1>7, <1>8, <1>10, <1>11, Zenon DEF RestoreEntry

\* The end of an undo finds everything back, that of a restore an empty vault,
\* or the call ends with the meeting still deleted.
LEMMA RestoredOrdered ==
    ASSUME All, Ordered, orderly', NEW c \in Clients, Restored(c) PROVE Ordered'
<1> DEFINE k == call[c]
<1>1. /\ k.step \in Restoring /\ k.todo = <<>> /\ UNCHANGED <<had, disk, database>> /\ k # Idle
  BY StepTells DEF Restored, Restoring
<1>2. (DeleteTells(k) /\ k.step = "rollback") \/ RestoreTells(k)
  BY <1>1, StepTells DEF Restoring
<1>3. DeletedIsListed' /\ known' = known /\ deleted' = deleted
  BY <1>1, NothingMoves DEF Ordered, database
<1>4. (Available \subseteq orig)' <=> Available \subseteq orig
  BY <1>1, <1>3, NothingMoves DEF Ordered
<1>5. Range(<<>>) = {}
  BY DEF Range
<1>6. CASE k.step = "restore" /\ vault[k.tomb] = {} /\ Goto(c, "record", <<>>)
  <2>1. /\ Others(c) /\ Fixed(c) /\ call'[c].step = "record" /\ call'[c].todo = <<>>
        /\ call'[c].entries = k.entries
    BY <1>6, GotoFields DEF All
  <2>2. RestoreTells(k)
    BY <1>2, <1>6
  <2>3. RestoreTells(call[c])'
    BY <1>1, <1>5, <1>6, <2>1, <2>2 DEF RestoreTells, Fixed, disk, database
  <2>4. CallTells(call[c])' /\ deleted' # 0
    BY <1>3, <2>2, <2>3 DEF CallTells, RestoreTells
  <2> QED
    BY <1>1, <1>3, <2>1, <2>4, OneIsEnough
<1>7. CASE Return(c)
  <2>1. deleted = 0 => Available \subseteq orig
    BY <1>1, <1>2, <1>5 DEF DeleteTells, RestoreTells
  <2> QED
    BY <1>1, <1>3, <1>4, <1>7, <2>1, ReturnOrdered
<1> QED
  BY <1>6, <1>7 DEF Restored

\* A restore is recorded when its vault is empty, so that all is back.
LEMMA RecordRestoreOrdered ==
    ASSUME All, Ordered, orderly', NEW c \in Clients, RecordRestore(c) PROVE Ordered'
<1> DEFINE k == call[c]
           commit == known /\ deleted # 0 /\ deleted' = 0 /\ UNCHANGED <<known, rows>>
           undo == call' = [call EXCEPT ![c].step = "restage", ![c].todo = k.entries,
                                        ![c].entries = <<>>]
<1>1. k.step = "record" /\ k # Idle /\ UNCHANGED <<had, disk>>
  BY StepTells DEF RecordRestore
<1>2. RestoreTells(k)
  BY <1>1, StepTells
<1>3. deleted # 0 /\ rows # <<>> /\ vault[Last(rows).tomb] = {} /\ Available \subseteq orig
  BY <1>1, <1>2 DEF RestoreTells, Ordered, DeletedIsListed, Listed
<1>4. orig' = orig /\ vault' = vault /\ Available' = Available
  BY <1>1 DEF disk, Available
<1>5. CASE commit /\ Return(c)
  <2>1. DeletedIsListed' /\ (Available \subseteq orig)'
    BY <1>3, <1>4, <1>5 DEF DeletedIsListed
  <2> QED
    BY <1>1, <1>5, <2>1, ReturnOrdered
<1>6. CASE undo /\ UNCHANGED database
  <2>1. call[c] \in Call /\ call \in [Clients -> Call]
    BY DEF All, CallsOK
  <2> DEFINE list == k.entries
             none == <<>>
  <2> HIDE DEF list, none
  <2>2. call' = [call EXCEPT ![c] = [call[c] EXCEPT !.step = "restage", !.todo = list,
                                                    !.entries = none]]
    BY <1>6, <2>1 DEF list, none
  <2>3. /\ Others(c) /\ Fixed(c) /\ call'[c].step = "restage" /\ call'[c].todo = list
        /\ call'[c].entries = none
    BY <2>1, <2>2 DEF Others, Fixed, Call
  <2>4. Range(none) = {}
    BY DEF none, Range
  <2>5. deleted' = deleted /\ rows' = rows
    BY <1>6 DEF database
  <2>6. RestoreTells(call[c])'
    BY <1>2, <2>3, <2>4, <2>5 DEF RestoreTells, Fixed, list
  <2>7. DeletedIsListed'
    BY <1>1, <1>6, NothingMoves DEF Ordered
  <2>8. CallTells(call[c])'
    BY <2>6 DEF CallTells
  <2> QED
    BY <1>1, <1>3, <2>3, <2>5, <2>7, <2>8, OneIsEnough
<1>7. ~(commit /\ Fail("readback") /\ undo /\ orderly' = FALSE)
  OBVIOUS
<1> QED
  BY <1>3, <1>5, <1>6, <1>7, Zenon DEF RecordRestore

\* What a refused restore stages again is on the list of the deleted meeting.
LEMMA RestageOrdered ==
    ASSUME All, Ordered, orderly', NEW c \in Clients, Restage(c) PROVE Ordered'
<1> DEFINE k == call[c]  x == Head(k.todo)
<1>1. /\ k.step = "restage" /\ k.todo # <<>> /\ k # Idle /\ UNCHANGED <<had, database>>
      /\ k.todo \in Seq(Categories) /\ k.entries \in Seq(Categories) /\ k.tomb \in Tombstones
  BY StepTells, CallFacts DEF Restage
<1>2. RestoreTells(k) /\ DeletedIsListed
  BY <1>1, StepTells DEF Ordered
<1>3. /\ x \in Range(k.todo) /\ Range(k.todo) = {x} \cup Range(Tail(k.todo))
      /\ Range(Reverse(k.entries)) = Range(k.entries)
      /\ x \in Categories /\ Range(Append(k.entries, x)) = Range(k.entries) \cup {x}
  BY <1>1, RangeFacts, EntriesFacts
<1>4. deleted' = deleted /\ rows' = rows /\ deleted # 0
  BY <1>1, <1>2 DEF database, RestoreTells
<1>5. CASE Advance(c) /\ UNCHANGED disk
  <2>1. /\ Others(c) /\ Fixed(c) /\ call'[c].step = k.step /\ call'[c].todo = Tail(k.todo)
        /\ call'[c].entries = k.entries
    BY <1>5, AdvanceFields DEF All
  <2>2. RestoreTells(call[c])'
    BY <1>1, <1>2, <1>3, <1>4, <2>1 DEF RestoreTells, Fixed
  <2>3. CallTells(call[c])' /\ DeletedIsListed'
    BY <1>1, <1>2, <1>5, <2>2, NothingMoves DEF CallTells
  <2> QED
    BY <1>1, <1>4, <2>1, <2>3, OneIsEnough
<1>6. CASE Goto(c, "rollback", Reverse(k.entries)) /\ UNCHANGED disk
  <2>1. /\ Others(c) /\ Fixed(c) /\ call'[c].step = "rollback"
        /\ call'[c].todo = Reverse(k.entries) /\ call'[c].entries = k.entries
    BY <1>6, GotoFields DEF All
  <2>2. RestoreTells(call[c])'
    BY <1>2, <1>3, <1>4, <2>1 DEF RestoreTells, Fixed
  <2>3. CallTells(call[c])' /\ DeletedIsListed'
    BY <1>1, <1>2, <1>6, <2>2, NothingMoves DEF CallTells
  <2> QED
    BY <1>1, <1>4, <2>1, <2>3, OneIsEnough
<1>7. CASE x \in orig /\ MoveIn(k.tomb, x) /\ Collect(c, x) /\ UNCHANGED destroyed
  <2>1. /\ Others(c) /\ Fixed(c) /\ call'[c].step = k.step /\ call'[c].todo = Tail(k.todo)
        /\ call'[c].entries = Append(k.entries, x)
    BY <1>7, CollectFields DEF All
  <2>2. RestoreTells(call[c])'
    BY <1>1, <1>2, <1>3, <1>4, <2>1 DEF RestoreTells, Fixed
  <2>3. k.tomb = Last(rows).tomb /\ x \in Range(Last(rows).entries)
    BY <1>2, <1>3 DEF RestoreTells
  <2>4. DeletedIsListed'
    BY <1>1, <1>2, <1>7, <2>3, MoveInListed DEF All
  <2>5. CallTells(call[c])'
    BY <2>2 DEF CallTells
  <2> QED
    BY <1>1, <1>4, <2>1, <2>4, <2>5, OneIsEnough
<1> QED
  BY <1>5, <1>6, <1>7 DEF Restage

\* A restore that was undone leaves the meeting deleted and listed.
LEMMA RestagedOrdered ==
    ASSUME All, Ordered, orderly', NEW c \in Clients, Restaged(c) PROVE Ordered'
<1>1. /\ call[c].step = "restage" /\ call[c] # Idle /\ Return(c)
      /\ UNCHANGED <<had, disk, database>>
  BY StepTells DEF Restaged
<1>2. deleted' # 0
  BY <1>1, StepTells DEF RestoreTells, database
<1>3. DeletedIsListed'
  BY <1>1, NothingMoves DEF Ordered
<1> QED
  BY <1>1, <1>2, <1>3, ReturnOrdered

\* Of a meeting that lives nothing is in a vault.
LEMMA LivingHasNothingVaulted ==
    ASSUME All, Ordered, NEW c \in Clients, PurgeTells(call[c]), deleted = 0,
           NEW t \in Tombstones
    PROVE  vault[t] = {}
<1>1. known
  BY DEF PurgeTells, All, DatabaseOK
<1>2. \A d \in Clients : call[d].op # "delete"
  <2>1. \A d \in Clients \ {c} : call[d] = Idle
    BY DEF Ordered, OneCall, PurgeTells, Idle
  <2> QED
    BY <2>1 DEF PurgeTells, Idle
<1>3. Available \subseteq orig
  BY <1>1, <1>2 DEF Ordered, LivingIsThere
<1> QED
  BY <1>3, PlacesFacts DEF All

\* What a purge removes is no longer promised.
LEMMA RemoveVaultOrdered ==
    ASSUME All, Ordered, orderly', NEW c \in Clients, RemoveVault(c) PROVE Ordered'
<1> DEFINE k == call[c]
<1>1. k.step = "purge" /\ k # Idle /\ UNCHANGED <<had, orig, database>> /\ k.tomb \in Tombstones
  BY StepTells, CallFacts DEF RemoveVault
<1>2. PurgeTells(k)
  BY <1>1, StepTells
<1>3. PICK gone \in SUBSET vault[k.tomb] :
        /\ destroyed' = destroyed \cup gone
        /\ vault' = [vault EXCEPT ![k.tomb] = @ \ gone]
        /\ Goto(c, "forget", <<>>) \/ Return(c)
  BY DEF RemoveVault
<1>4. known' = known /\ deleted' = deleted /\ rows' = rows /\ orig' = orig
      /\ Available' = Available \ gone
  BY <1>1, <1>3 DEF database, Available
<1>5. \A u \in Tombstones : vault[u] \ gone \subseteq vault'[u]
  BY <1>1, <1>3 DEF All, DiskOK
<1>6. DeletedIsListed'
  <2>1. rows # <<>> => Last(rows).tomb \in Tombstones
    BY LatestFacts
  <2> QED
    BY <1>4, <1>5, <2>1 DEF Ordered, DeletedIsListed, Listed
<1>7. known' /\ deleted' = 0 => (Available \subseteq orig)'
  <2> SUFFICES ASSUME known, deleted = 0 PROVE Available \subseteq orig
    BY <1>4
  <2>1. \A t \in Tombstones : vault[t] = {}
    BY <1>2, LivingHasNothingVaulted
  <2> QED
    BY <2>1, PlacesFacts DEF All
<1>8. CASE Return(c)
  BY <1>1, <1>6, <1>7, <1>8, ReturnOrdered
<1>9. CASE Goto(c, "forget", <<>>)
  <2>1. Others(c) /\ Fixed(c) /\ call'[c].step = "forget"
    BY <1>9, GotoFields DEF All
  <2>2. PurgeTells(call[c])'
    BY <1>2, <1>4, <2>1 DEF PurgeTells, Fixed
  <2>3. CallTells(call[c])'
    BY <2>2 DEF CallTells
  <2> QED
    BY <1>1, <1>6, <1>7, <2>1, <2>3, OneIsEnough
<1> QED
  BY <1>3, <1>8, <1>9

\* A purge that forgets the meeting leaves nothing to recover.
LEMMA ForgetOrdered ==
    ASSUME All, Ordered, orderly', NEW c \in Clients, Forget(c) PROVE Ordered'
<1>1. call[c].step = "forget" /\ call[c] # Idle /\ Return(c) /\ UNCHANGED <<had, disk>>
  BY StepTells DEF Forget
<1>2. CASE known' = FALSE /\ deleted' = 0
  <2>1. DeletedIsListed'
    BY <1>2 DEF DeletedIsListed
  <2> QED
    BY <1>1, <1>2, <2>1, ReturnOrdered
<1>3. CASE UNCHANGED database
  <2>1. DeletedIsListed' /\ Available' = Available /\ orig' = orig
    BY <1>1, <1>3, NothingMoves DEF Ordered
  <2>2. known' /\ deleted' = 0 => Available \subseteq orig
    <3> SUFFICES ASSUME known, deleted = 0 PROVE Available \subseteq orig
      BY <1>3 DEF database
    <3>1. PurgeTells(call[c])
      BY <1>1, StepTells
    <3>2. \A t \in Tombstones : vault[t] = {}
      BY <3>1, LivingHasNothingVaulted
    <3> QED
      BY <3>2, PlacesFacts DEF All
  <2> QED
    BY <1>1, <2>1, <2>2, ReturnOrdered
<1> QED
  BY <1>2, <1>3 DEF Forget

-----------------------------------------------------------------------------

\* No step makes a history orderly that was not.
LEMMA OrderlyBefore == ASSUME [Next]_vars, orderly' PROVE orderly
<1>1. ASSUME NEW c \in Clients, NEW op, NEW step, NEW tomb, NEW entries, NEW todo,
             Begin(c, op, step, tomb, entries, todo)
      PROVE  orderly
  BY <1>1, Zenon DEF Begin
<1>2. ASSUME NEW c \in Clients, Delete(c) \/ Restore(c) \/ Purge(c)
      PROVE  orderly
  BY <1>1, <1>2, Zenon DEF Delete, Restore, Purge
<1>3. ASSUME NEW c \in Clients, Stage(c) \/ RecordRestore(c)
      PROVE  orderly
  <2>1. orderly' = orderly \/ orderly' = FALSE
    BY <1>3 DEF Stage, RecordRestore
  <2> QED
    BY <2>1, Zenon
<1>4. ASSUME NEW c \in Clients, RestoreEntry(c)
      PROVE  orderly
  <2>1. orderly' = orderly \/ UndoFails(call[c])
    BY <1>4 DEF RestoreEntry
  <2> QED
    BY <2>1, Zenon DEF UndoFails
<1>5. ASSUME NEW c \in Clients,
             Persist(c) \/ Restored(c) \/ Restage(c) \/ Restaged(c) \/ RemoveVault(c) \/ Forget(c)
      PROVE  orderly' = orderly
  BY <1>5 DEF Persist, Restored, Restage, Restaged, RemoveVault, Forget
<1>6. CASE Crash
  BY <1>6, Zenon DEF Crash
<1>7. CASE UNCHANGED vars
  BY <1>7 DEF vars
<1> QED
  BY <1>2, <1>3, <1>4, <1>5, <1>6, <1>7, Zenon DEF Next, Done

\* Every step that stays orderly keeps the order.
LEMMA OrderedStep == ASSUME All, Ordered, orderly', [Next]_vars PROVE Ordered'
<1>1. CASE UNCHANGED vars
  <2>1. DeletedIsListed' /\ Available' = Available /\ orig' = orig
    BY <1>1, NothingMoves DEF vars, Ordered
  <2>2. call' = call /\ known' = known /\ deleted' = deleted /\ rows' = rows /\ vault' = vault
    BY <1>1 DEF vars, disk, database
  <2>3. OneCall' /\ LivingIsThere'
    BY <2>1, <2>2 DEF Ordered, OneCall, LivingIsThere
  <2>4. ASSUME NEW c \in Clients PROVE CallTells(call[c])'
    <3>1. CallTells(call[c])
      BY DEF Ordered
    <3> QED
      BY <2>1, <2>2, <3>1 DEF CallTells, DeleteTells, RestoreTells, PurgeTells
  <2> QED
    BY <2>1, <2>3, <2>4 DEF Ordered
<1>2. CASE Crash
  BY <1>2, Zenon DEF Crash
<1>3. ASSUME NEW c \in Clients,
             \/ Delete(c) \/ Stage(c) \/ Persist(c)
             \/ Restore(c) \/ RestoreEntry(c) \/ Restored(c) \/ RecordRestore(c)
             \/ Restage(c) \/ Restaged(c)
             \/ Purge(c) \/ RemoveVault(c) \/ Forget(c)
      PROVE  Ordered'
  BY <1>3, DeleteOrdered, StageOrdered, PersistOrdered, RestoreOrdered, RestoreEntryOrdered,
     RestoredOrdered, RecordRestoreOrdered, RestageOrdered, RestagedOrdered, PurgeOrdered,
     RemoveVaultOrdered, ForgetOrdered
<1> QED
  BY <1>1, <1>2, <1>3 DEF Next, Done

\* RecoveryInv holds at the start, and no orderly step breaks it.
THEOREM RecoveryInvariant == Spec => []RecoveryInv
<1>1. Init => RecoveryInv
  <2> SUFFICES ASSUME Init PROVE Ordered
    BY DEF RecoveryInv
  <2>1. /\ orig = had /\ deleted = 0 /\ \A c \in Clients : call[c] = Idle
    BY DEF Init
  <2> QED
    BY <2>1 DEF Ordered, OneCall, DeletedIsListed, LivingIsThere, CallTells, Available
<1>2. VaultInv /\ RecoveryInv /\ [Next]_vars => RecoveryInv'
  <2> SUFFICES ASSUME VaultInv, RecoveryInv, [Next]_vars, orderly' PROVE Ordered'
    BY DEF RecoveryInv
  <2>1. All /\ Ordered
    BY Parts, OrderlyBefore DEF All, RecoveryInv
  <2> QED
    BY <2>1, OrderedStep
<1> QED
  BY <1>1, <1>2, VaultInvariant, PTL DEF Spec

\* As long as the calls are orderly, whatever failures they meet: between calls
\* a meeting that is not deleted has its files, and one that is deleted can get
\* back all that a purge has not destroyed.
THEOREM DeletionAlwaysRecoverable == Spec => []RecoverableDeletion
<1>1. RecoveryInv => RecoverableDeletion
  <2> SUFFICES ASSUME Ordered, Quiet, known
               PROVE  Available \subseteq IF deleted = 0 THEN orig ELSE orig \cup Listed
    BY DEF RecoveryInv, RecoverableDeletion, Available
  <2>1. \A c \in Clients : call[c].op # "delete"
    BY DEF Quiet, Idle
  <2> QED
    BY <2>1 DEF Ordered, LivingIsThere, DeletedIsListed
<1> QED
  BY <1>1, RecoveryInvariant, PTL

\* Only a purge removes anything.
LEMMA OthersDestroyNothing ==
    ASSUME [Next]_vars, \A c \in Clients : ~RemoveVault(c)
    PROVE  destroyed' = destroyed
<1>1. ASSUME NEW c \in Clients, NEW op, NEW step, NEW tomb, NEW entries, NEW todo,
             Begin(c, op, step, tomb, entries, todo)
      PROVE  destroyed' = destroyed
  BY <1>1 DEF Begin, disk
<1>2. ASSUME NEW c \in Clients, Delete(c) \/ Restore(c) \/ Purge(c)
      PROVE  destroyed' = destroyed
  BY <1>1, <1>2, Zenon DEF Delete, Restore, Purge
<1>3. ASSUME NEW c \in Clients,
             \/ Stage(c) \/ Persist(c) \/ RestoreEntry(c) \/ Restored(c) \/ RecordRestore(c)
             \/ Restage(c) \/ Restaged(c) \/ Forget(c)
      PROVE  destroyed' = destroyed
  BY <1>3 DEF Stage, Persist, RestoreEntry, Restored, RecordRestore, Restage, Restaged, Forget, disk
<1>4. CASE Crash \/ UNCHANGED vars
  BY <1>4 DEF Crash, vars, disk
<1> QED
  BY <1>2, <1>3, <1>4, Zenon DEF Next, Done

\* An orderly purge finds something only if the meeting is deleted.
LEMMA DestroyedIsDeleted ==
    ASSUME All, Ordered, [Next]_vars, destroyed' # destroyed
    PROVE  known /\ deleted # 0
<1>1. PICK c \in Clients : RemoveVault(c)
  BY OthersDestroyNothing
<1>2. PurgeTells(call[c]) /\ call[c].tomb \in Tombstones
  BY <1>1, StepTells, CallFacts DEF RemoveVault
<1>3. known
  BY <1>2 DEF PurgeTells, All, DatabaseOK
<1>4. vault[call[c].tomb] # {}
  BY <1>1 DEF RemoveVault
<1> QED
  BY <1>2, <1>3, <1>4, LivingHasNothingVaulted

\* A call leaves idleness only by its own steps.
LEMMA OnlyItsStepsEnd ==
    ASSUME All, NEW c \in Clients, [Next]_vars, ~Crash, call[c].op = "delete", call'[c] = Idle
    PROVE  \/ Stage(c) \/ Persist(c) \/ RestoreEntry(c) \/ Restored(c) \/ RecordRestore(c)
           \/ Restage(c) \/ Restaged(c) \/ RemoveVault(c) \/ Forget(c)
<1>1. call[c] # Idle
  BY DEF Idle
<1>2. ASSUME NEW d \in Clients, NEW op, NEW step, NEW tomb, NEW entries, NEW todo,
             Begin(d, op, step, tomb, entries, todo), op # "none"
      PROVE  FALSE
  BY <1>1, <1>2 DEF Begin, All, CallsOK, Idle
<1>3. ASSUME NEW d \in Clients, Delete(d) \/ Restore(d) \/ Purge(d)
      PROVE  FALSE
  <2>1. "delete" # "none" /\ "restore" # "none" /\ "purge" # "none"
    OBVIOUS
  <2>2. CASE Delete(d)
    BY <1>2, <2>1, <2>2, Zenon DEF Delete
  <2>3. CASE Restore(d)
    BY <1>2, <2>1, <2>3, Zenon DEF Restore
  <2>4. CASE Purge(d)
    BY <1>2, <2>1, <2>4, Zenon DEF Purge
  <2> QED
    BY <1>3, <2>2, <2>3, <2>4
<1>4. ASSUME NEW d \in Clients, d # c,
             \/ Stage(d) \/ Persist(d) \/ RestoreEntry(d) \/ Restored(d) \/ RecordRestore(d)
             \/ Restage(d) \/ Restaged(d) \/ RemoveVault(d) \/ Forget(d)
      PROVE  call'[c] = call[c]
  BY <1>4 DEF Stage, Persist, RestoreEntry, Restored, RecordRestore, Restage, Restaged, RemoveVault,
     Forget, Goto, Return, Advance, Collect, All, CallsOK
<1>5. ~UNCHANGED vars
  BY <1>1 DEF vars
<1> QED
  BY <1>1, <1>3, <1>4, <1>5, Zenon DEF Next, Done

\* An orderly delete that ends without its tombstone has put everything back.
LEMMA FailedDeleteStep ==
    ASSUME All, Ordered, [Next]_vars, orderly', NEW c \in Clients, call[c].op = "delete",
           call'[c] = Idle, deleted' # call[c].tomb
    PROVE  orig' = call[c].before
<1> DEFINE k == call[c]  x == Head(k.todo)
<1>1. k # Idle /\ DeleteTells(k)
  BY DEF Ordered, CallTells, Idle, RestoreTells, PurgeTells
<1>2. ~Crash
  <2>1. Crash => ~orderly'
    BY Zenon DEF Crash
  <2> QED
    BY <2>1
<1>3. \/ Stage(c) \/ Persist(c) \/ RestoreEntry(c) \/ Restored(c)
  <2>1. k.step \in {"stage", "rollback"}
    BY <1>1 DEF DeleteTells
  <2>2. ~(RecordRestore(c) \/ Restage(c) \/ Restaged(c) \/ RemoveVault(c) \/ Forget(c))
    BY <2>1 DEF RecordRestore, Restage, Restaged, RemoveVault, Forget
  <2> QED
    BY <1>2, <2>2, OnlyItsStepsEnd
<1>4. orig \subseteq Available /\ \A t \in Tombstones : vault[t] \cap orig = {}
  BY PlacesFacts DEF All
<1>5. ASSUME NEW step, NEW todo, Goto(c, step, todo), step # "none" PROVE FALSE
  BY <1>5, GotoFields DEF All, Idle
<1>6. ASSUME NEW y, Collect(c, y), k.step # "none" PROVE FALSE
  BY <1>6, CollectFields DEF All, Idle
<1>7. ASSUME Advance(c), k.step # "none" PROVE FALSE
  BY <1>7, AdvanceFields DEF All, Idle
<1>8. ~Stage(c)
  BY <1>5, <1>6, <1>7, Zenon DEF Stage
<1>9. ~Persist(c)
  BY <1>5 DEF Persist
<1>10. ~RestoreEntry(c)
  <2> SUFFICES ASSUME RestoreEntry(c) PROVE FALSE
    OBVIOUS
  <2>1. /\ k.step = "rollback" /\ k.todo # <<>> /\ k.todo \in Seq(Categories)
        /\ k.tomb \in Tombstones
    BY <1>1, CallFacts DEF RestoreEntry, Restoring, DeleteTells
  <2>2. x \in orig \cup vault[k.tomb] /\ vault[k.tomb] \cap orig = {}
    BY <1>1, <1>4, <2>1, RangeFacts DEF DeleteTells
  <2>3. ~((x \in orig) = (x \in vault[k.tomb]))
    BY <2>2
  <2>4. ~UndoFails(k)
    BY Zenon DEF UndoFails
  <2>5. k.step # "none"
    BY <2>1
  <2> QED
    BY <1>7, <2>3, <2>4, <2>5 DEF RestoreEntry
<1>11. CASE Restored(c)
  <2>1. k.step = "rollback" /\ k.todo = <<>> /\ orig' = orig
    BY <1>1, <1>11 DEF Restored, Restoring, DeleteTells, disk
  <2>2. Range(k.todo) = {}
    BY <2>1 DEF Range
  <2> QED
    BY <1>1, <1>4, <2>1, <2>2 DEF DeleteTells
<1> QED
  BY <1>3, <1>8, <1>9, <1>10, <1>11

\* As long as the calls are orderly, only a purge of a deleted meeting destroys
\* files, and a delete that reports an error leaves them where it found them.
THEOREM FilesAlwaysFollow == Spec => FilesFollowTheAnswer
<1>1. VaultInv /\ RecoveryInv /\ [Next]_vars
        => [orderly /\ destroyed' # destroyed => known /\ deleted # 0]_vars
  <2> SUFFICES ASSUME VaultInv, RecoveryInv, [Next]_vars, orderly, destroyed' # destroyed
               PROVE  known /\ deleted # 0
    OBVIOUS
  <2> QED
    BY Parts, DestroyedIsDeleted DEF All, RecoveryInv
<1>2. VaultInv /\ RecoveryInv /\ [Next]_vars
        => [\A c \in Clients :
               orderly' /\ call[c].op = "delete" /\ call'[c] = Idle /\ deleted' # call[c].tomb
                   => orig' = call[c].before]_vars
  <2> SUFFICES ASSUME VaultInv, RecoveryInv, [Next]_vars, NEW c \in Clients, orderly',
                      call[c].op = "delete", call'[c] = Idle, deleted' # call[c].tomb
               PROVE  orig' = call[c].before
    OBVIOUS
  <2>1. All /\ Ordered
    BY Parts, OrderlyBefore DEF All, RecoveryInv
  <2> QED
    BY <2>1, FailedDeleteStep
<1>3. Spec => OnlyDeletedIsDestroyed
  BY <1>1, VaultInvariant, RecoveryInvariant, PTL DEF Spec, OnlyDeletedIsDestroyed
<1>4. Spec => FailedDeleteChangesNothing
  BY <1>2, VaultInvariant, RecoveryInvariant, PTL DEF Spec, FailedDeleteChangesNothing
<1> QED
  BY <1>3, <1>4 DEF FilesFollowTheAnswer


-----------------------------------------------------------------------------
(* The types of the window.                                                 *)

MeetingOrNone == Meetings \cup {None}
Mark == [meeting : MeetingOrNone, version : Nat]
LabelKinds == Edits \cup {"latest"}
SpeakerKinds == LabelKinds \cup {"version", "diarize"}
RecordKinds == SpeakerKinds \cup {"detail", "tags", "preview"}
CommandKinds == {"start", "cancel"}
JobKinds == CommandKinds \cup {"status"}
SnapshotKinds == {"begin", "stop", "open", "poll"}
Kinds == RecordKinds \cup JobKinds \cup SnapshotKinds \cup {"restore"}
JobSteps == {"queued", "chunking", "over"}

WindowJob == [meeting : Meetings, step : JobSteps]
StoredVersion == [labels : Labelling, parent : Nat, operation : Edits \cup {"diarize"}, click : Mark]

Records == [selected : MeetingOrNone, detail : MeetingOrNone, latest : Mark, shown : Mark, preview : MeetingOrNone]
RecordTyped == record \in Records

Screens == [latest : Snapshots, timer : BOOLEAN, starting : BOOLEAN, opened : BOOLEAN]
ScreenTyped == screen \in Screens

SummaryOK(sum) ==
    /\ sum = [job |-> sum.job, pending |-> sum.pending, timer |-> sum.timer, lost |-> sum.lost]
    /\ sum.job = [m \in Meetings |-> sum.job[m]]
    /\ \A m \in Meetings : sum.job[m].id \in Nat
    /\ sum.pending \subseteq Meetings /\ sum.timer \in MeetingOrNone

SummaryTyped == SummaryOK(summary)

\* What was undone is an edit.
UndoesAnEdit(chain) ==
    \A v \in DOMAIN chain : chain[v].operation = "undo" => v > 1 /\ chain[v - 1].operation \in Edits

\* A version is an analysis, or an edit of the version before it; an undo gives the labels before that.
ChainOK(chain) ==
    /\ chain \in Seq(StoredVersion)
    /\ EditsAreLinear(chain) /\ UndoRestores(chain) /\ UndoesAnEdit(chain)
    /\ \A v \in DOMAIN chain :
         IF chain[v].operation = "diarize" THEN chain[v].parent = 0 /\ chain[v].click = NoClick
         ELSE chain[v].click.version = chain[v].parent

BackendTyped ==
    /\ versions = [m \in Meetings |-> versions[m]] /\ \A m \in Meetings : ChainOK(versions[m])
    /\ jobs \in Seq(WindowJob)
    /\ live \in Snapshots /\ recorded \subseteq Meetings

\* An edit is of the version looked at; what is answered depends on the kind of command.
RequestOK(r) ==
    /\ r.kind \in Edits => r.click.version = r.arg
    /\ r.step = "answered" =>
         /\ r.kind \in LabelKinds \cup {"version"} => r.reply \in Mark
         /\ r.kind \in JobKinds => r.reply.id \in Nat
         /\ r.kind \in SnapshotKinds => r.reply \in Snapshots

RequestTyped(r) ==
    /\ r = [kind |-> r.kind, meeting |-> r.meeting, arg |-> r.arg, click |-> r.click,
            current |-> r.current, step |-> r.step, reply |-> r.reply]
    /\ r.kind \in Kinds /\ r.meeting \in MeetingOrNone /\ r.arg \in Nat /\ r.click \in Mark
    /\ r.current \subseteq Counters /\ r.step \in {"sent", "answered", "failed"}
    /\ r.kind \in RecordKinds \cup JobKinds => r.meeting \in Meetings

WindowTyped ==
    /\ RecordTyped /\ ScreenTyped /\ SummaryTyped /\ BackendTyped
    /\ \A r \in requests : RequestTyped(r) /\ RequestOK(r)

-----------------------------------------------------------------------------
(* Requests that grow old.                                                  *)

\* A request that has lost the counters that were bumped for its meeting.
Weaken(r, lost) == [r EXCEPT !.current = @ \ lost[r.meeting]]

Losses == [MeetingOrNone -> SUBSET Counters]

\* What is left of the requests in S.
Weakened(S, lost) == {Weaken(r, lost) : r \in S}

\* Counters that all requests lose; the number of the summaries is one per meeting.
Losing(counters) == [m \in MeetingOrNone |-> counters]
LosingSummary(m) == [x \in MeetingOrNone |-> IF x = m THEN {"summary", "poll"} ELSE {"poll"}]

\* What a weakened request is.
LEMMA WeakenFacts ==
    ASSUME NEW r, RequestTyped(r), NEW lost \in Losses
    PROVE  LET w == Weaken(r, lost) IN
           /\ w.kind = r.kind /\ w.meeting = r.meeting /\ w.arg = r.arg /\ w.click = r.click
           /\ w.step = r.step /\ w.reply = r.reply /\ w.current = r.current \ lost[r.meeting]
           /\ lost[r.meeting] \subseteq Counters
           /\ RequestTyped(w)
           /\ RequestOK(r) => RequestOK(w)
<1> DEFINE w == Weaken(r, lost)
<1>1. w = [kind |-> r.kind, meeting |-> r.meeting, arg |-> r.arg, click |-> r.click,
           current |-> r.current \ lost[r.meeting], step |-> r.step, reply |-> r.reply]
  BY DEF Weaken, RequestTyped
<1>2. lost[r.meeting] \subseteq Counters
  BY DEF RequestTyped, Losses
<1> HIDE DEF w
<1>3. /\ w.kind = r.kind /\ w.meeting = r.meeting /\ w.arg = r.arg /\ w.click = r.click
      /\ w.step = r.step /\ w.reply = r.reply /\ w.current = r.current \ lost[r.meeting]
  BY <1>1
<1>4. RequestTyped(w)
  BY <1>1, <1>3 DEF RequestTyped
<1>5. RequestOK(r) => RequestOK(w)
  BY <1>3 DEF RequestOK
<1> QED
  BY <1>2, <1>3, <1>4, <1>5 DEF w

\* It is written out.
LEMMA WeakenIs ==
    ASSUME NEW r, RequestTyped(r), NEW lost
    PROVE  Weaken(r, lost) = [kind |-> r.kind, meeting |-> r.meeting, arg |-> r.arg, click |-> r.click,
                              current |-> r.current \ lost[r.meeting], step |-> r.step, reply |-> r.reply]
  BY DEF Weaken, RequestTyped

\* What a request may lose is a set of counters for each meeting.
LEMMA LossesFacts ==
    /\ \A c \in SUBSET Counters : Losing(c) \in Losses /\ \A m \in MeetingOrNone : Losing(c)[m] = c
    /\ \A m \in Meetings : LosingSummary(m) \in Losses
  BY DEF Losing, LosingSummary, Losses, Counters

\* Nothing is lost.
LEMMA WeakenNothing ==
    ASSUME NEW S, \A r \in S : RequestTyped(r)
    PROVE  S = Weakened(S, Losing({}))
<1>1. ASSUME NEW r \in S PROVE r = Weaken(r, Losing({}))
  BY <1>1 DEF Weaken, Losing, RequestTyped
<1> QED
  BY <1>1 DEF Weakened

\* Bumping a counter weakens what is there.
LEMMA OutdatedFacts ==
    ASSUME NEW S, \A r \in S : RequestTyped(r), NEW counter \in Counters
    PROVE  Outdated(S, counter, None) = Weakened(S, Losing({counter}))
<1> DEFINE old(r) == [r EXCEPT !.current = IF None \in {None, r.meeting} THEN @ \ {counter} ELSE @]
<1>1. ASSUME NEW r \in S PROVE old(r) = Weaken(r, Losing({counter}))
  BY <1>1 DEF Weaken, Losing, RequestTyped
<1>2. Outdated(S, counter, None) = {old(r) : r \in S}
  BY DEF Outdated
<1> QED
  BY <1>1, <1>2 DEF Weakened

\* Weakening twice.
LEMMA WeakenedTwice ==
    ASSUME NEW S, \A r \in S : RequestTyped(r), NEW lost \in Losses, NEW counter \in Counters
    PROVE  /\ \A r \in Weakened(S, lost) : RequestTyped(r)
           /\ Outdated(Weakened(S, lost), counter, None) =
                Weakened(S, [m \in MeetingOrNone |-> lost[m] \cup {counter}])
<1>1. \A r \in Weakened(S, lost) : RequestTyped(r)
  <2>1. ASSUME NEW r \in S PROVE RequestTyped(Weaken(r, lost))
    BY <2>1, WeakenFacts
  <2> QED
    BY <2>1 DEF Weakened
<1>2. ASSUME NEW r \in S
      PROVE  Weaken(Weaken(r, lost), Losing({counter})) = Weaken(r, [m \in MeetingOrNone |-> lost[m] \cup {counter}])
  <2> DEFINE w == Weaken(r, lost)
             both == [m \in MeetingOrNone |-> lost[m] \cup {counter}]
  <2>1. RequestTyped(r)
    BY <1>2
  <2>2. /\ RequestTyped(w) /\ w.current = r.current \ lost[r.meeting]
        /\ w.kind = r.kind /\ w.meeting = r.meeting /\ w.arg = r.arg /\ w.click = r.click
        /\ w.step = r.step /\ w.reply = r.reply
    BY <2>1, WeakenFacts
  <2>3. Weaken(w, Losing({counter})) =
          [kind |-> w.kind, meeting |-> w.meeting, arg |-> w.arg, click |-> w.click,
           current |-> w.current \ Losing({counter})[w.meeting], step |-> w.step, reply |-> w.reply]
    <3> HIDE DEF w
    <3> QED
      BY <2>2, WeakenIs
  <2>4. Weaken(r, both) =
          [kind |-> r.kind, meeting |-> r.meeting, arg |-> r.arg, click |-> r.click,
           current |-> r.current \ both[r.meeting], step |-> r.step, reply |-> r.reply]
    <3> HIDE DEF both
    <3> QED
      BY <2>1, WeakenIs
  <2>5. r.meeting \in MeetingOrNone
    BY <2>1 DEF RequestTyped
  <2>6. w.current \ Losing({counter})[w.meeting] = r.current \ both[r.meeting]
    <3> HIDE DEF w
    <3> QED
      BY <2>2, <2>5 DEF Losing
  <2> HIDE DEF w, both
  <2>7. Weaken(w, Losing({counter})) = Weaken(r, both)
    BY <2>2, <2>3, <2>4, <2>6
  <2> QED
    BY <2>7 DEF w, both
<1>3. Outdated(Weakened(S, lost), counter, None) = Weakened(Weakened(S, lost), Losing({counter}))
  BY <1>1, OutdatedFacts
<1> DEFINE both == [m \in MeetingOrNone |-> lost[m] \cup {counter}]
<1> HIDE DEF both
<1>4. ASSUME NEW r \in S PROVE Weaken(Weaken(r, lost), Losing({counter})) = Weaken(r, both)
  BY <1>2, <1>4 DEF both
<1>5. Weakened(Weakened(S, lost), Losing({counter})) = Weakened(S, both)
  BY <1>4 DEF Weakened
<1> QED
  BY <1>1, <1>3, <1>5 DEF both

\* A click of the summaries of one meeting bumps the number of that meeting.
LEMMA OutdatedOne ==
    ASSUME NEW S, \A r \in S : RequestTyped(r), NEW m \in Meetings
    PROVE  Outdated(S, "summary", m) = Weakened(S, [x \in MeetingOrNone |-> IF x = m THEN {"summary"} ELSE {}])
<1> DEFINE old(r) == [r EXCEPT !.current = IF m \in {None, r.meeting} THEN @ \ {"summary"} ELSE @]
           loss == [x \in MeetingOrNone |-> IF x = m THEN {"summary"} ELSE {}]
<1>0. m # None
  BY RecordsAssumption DEF None
<1>1. ASSUME NEW r \in S PROVE old(r) = Weaken(r, loss)
  BY <1>0, <1>1 DEF Weaken, RequestTyped
<1>2. Outdated(S, "summary", m) = {old(r) : r \in S}
  BY DEF Outdated
<1> HIDE DEF old, loss
<1>3. Outdated(S, "summary", m) = Weakened(S, loss)
  BY <1>1, <1>2 DEF Weakened
<1> QED
  BY <1>3 DEF loss

-----------------------------------------------------------------------------
(* What the steps do to the requests.                                       *)

\* Requests that are stopped, and those of a click.
LEMMA StoppedFacts ==
    ASSUME NEW S, \A r \in S : RequestTyped(r)
    PROVE  /\ PollsStopped(S) = Weakened(S, Losing({"poll"}))
           /\ PollsStopped(Outdated(S, "detail", None)) = Weakened(S, Losing({"detail", "poll"}))
           /\ PollsStopped(Outdated(S, "speaker", None)) = Weakened(S, Losing({"speaker", "poll"}))
           /\ \A m \in Meetings : PollsStopped(Outdated(S, "summary", m)) = Weakened(S, LosingSummary(m))
<1>1. PollsStopped(S) = Weakened(S, Losing({"poll"}))
  BY OutdatedFacts DEF PollsStopped, Counters
<1>2. ASSUME NEW c \in Counters
      PROVE  PollsStopped(Outdated(S, c, None)) = Weakened(S, Losing({c, "poll"}))
  <2>1. Outdated(S, c, None) = Weakened(S, Losing({c}))
    BY OutdatedFacts
  <2>0. Losing({c}) \in Losses /\ "poll" \in Counters
    BY LossesFacts DEF Counters
  <2>2. PollsStopped(Outdated(S, c, None)) = Weakened(S, [m \in MeetingOrNone |-> Losing({c})[m] \cup {"poll"}])
    BY <2>0, <2>1, WeakenedTwice DEF PollsStopped
  <2>3. [m \in MeetingOrNone |-> Losing({c})[m] \cup {"poll"}] = Losing({c, "poll"})
    BY DEF Losing
  <2> QED
    BY <2>2, <2>3
<1>3. ASSUME NEW m \in Meetings
      PROVE  PollsStopped(Outdated(S, "summary", m)) = Weakened(S, LosingSummary(m))
  <2> DEFINE loss == [x \in MeetingOrNone |-> IF x = m THEN {"summary"} ELSE {}]
  <2>1. Outdated(S, "summary", m) = Weakened(S, loss) /\ loss \in Losses
    BY OutdatedOne DEF Losses, Counters
  <2>2. PollsStopped(Weakened(S, loss)) = Weakened(S, [x \in MeetingOrNone |-> loss[x] \cup {"poll"}])
    <3> HIDE DEF loss
    <3> QED
      BY <2>1, WeakenedTwice DEF PollsStopped, Counters
  <2>3. [x \in MeetingOrNone |-> loss[x] \cup {"poll"}] = LosingSummary(m)
    BY DEF LosingSummary
  <2> QED
    BY <2>1, <2>2, <2>3
<1> QED
  BY <1>1, <1>2, <1>3 DEF Counters

\* A new request is well typed.
LEMMA RequestFacts ==
    ASSUME NEW kind \in Kinds, NEW m \in MeetingOrNone, NEW arg \in Nat,
           kind \in RecordKinds \cup JobKinds => m \in Meetings
    PROVE  LET q == Request(kind, m, arg) IN
           /\ RequestTyped(q)
           /\ kind \notin Edits => RequestOK(q)
           /\ q.kind = kind /\ q.meeting = m /\ q.arg = arg /\ q.current = Counters /\ q.step = "sent"
  BY DEF Request, RequestTyped, RequestOK, NoClick, NoVersion, Mark, MeetingOrNone, None

\* Types carry over to what is left and what is new.
LEMMA WeakenedTyped ==
    ASSUME NEW S, NEW lost \in Losses, NEW new,
           \A r \in S \cup new : RequestTyped(r) /\ RequestOK(r)
    PROVE  \A r \in Weakened(S, lost) \cup new : RequestTyped(r) /\ RequestOK(r)
<1>1. ASSUME NEW r \in S PROVE RequestTyped(Weaken(r, lost)) /\ RequestOK(Weaken(r, lost))
  BY <1>1, WeakenFacts
<1> QED
  BY <1>1 DEF Weakened

-----------------------------------------------------------------------------
(* What a step amounts to.  The actions of the window fall into a few kinds *)
(* of steps; each part of the invariant is shown for these.                  *)

\* The screen of the snapshot is the same but for the start button.
ScreenKept ==
    /\ screen' \in Screens
    /\ screen'.latest = screen.latest /\ screen'.timer = screen.timer /\ screen'.opened = screen.opened

\* loadMeetingDetail.
OpensRecord ==
    \E m \in Meetings :
        /\ record' = Cleared(m) /\ summary' = [summary EXCEPT !.timer = None]
        /\ requests' = Weakened(requests, Losing({"detail", "poll"})) \cup {Request("detail", m, 0)}
        /\ UNCHANGED screen /\ UNCHANGED backend

\* A click that makes no other request old.
AsksPlainly ==
    \E kind \in {"tags", "preview", "restore", "begin", "stop", "open"}, m \in MeetingOrNone :
        /\ kind \in {"tags", "preview"} => m \in Meetings /\ m = Here
        /\ requests' = requests \cup {Request(kind, m, 0)}
        /\ ScreenKept
        /\ UNCHANGED <<record, summary>> /\ UNCHANGED backend

\* A click in the speaker workspace.
SpeakerAsk(q) ==
    /\ RequestTyped(q) /\ RequestOK(q) /\ q.step = "sent" /\ q.current = Counters
    /\ q.kind \in SpeakerKinds /\ q.meeting = Here
    /\ q.kind = "version" => q.arg <= record.latest.version

AsksSpeakers ==
    \E q : /\ SpeakerAsk(q)
           /\ requests' = Weakened(requests, Losing({"speaker"})) \cup {q}
           /\ UNCHANGED <<record, summary, screen>> /\ UNCHANGED backend

\* A command about the summary of the selected meeting.
AsksSummary ==
    \E kind \in CommandKinds, arg \in Nat :
        /\ Here \in Meetings \ summary.pending
        /\ kind = "cancel" => arg = summary.job[Here].id /\ summary.job[Here].step \in Running
        /\ summary' = [summary EXCEPT !.pending = @ \cup {Here}, !.timer = None]
        /\ requests' = Weakened(requests, LosingSummary(Here)) \cup {Request(kind, Here, arg)}
        /\ UNCHANGED <<record, screen>> /\ UNCHANGED backend

TimerFires ==
    \/ /\ summary.timer # None
       /\ summary' = [summary EXCEPT !.timer = None]
       /\ requests' = requests \cup {Request("status", summary.timer, summary.job[summary.timer].id)}
       /\ UNCHANGED <<record, screen>> /\ UNCHANGED backend
    \/ /\ screen.timer
       /\ screen' = [screen EXCEPT !.timer = FALSE]
       /\ requests' = requests \cup {Request("poll", None, 0)}
       /\ UNCHANGED <<record, summary>> /\ UNCHANGED backend

\* An answer that changes nothing.
Drops(r) ==
    /\ requests' = requests \ {r} /\ ScreenKept
    /\ r.kind # "poll"
    /\ r.kind = "status" => ~PollIsCurrent(r)
    /\ r.kind \in CommandKinds => "summary" \notin r.current
    /\ UNCHANGED <<record, summary>> /\ UNCHANGED backend

\* Tags or a preview that are shown, a deletion that was taken back.
Notes(r) ==
    /\ \/ /\ StillSelected(r) /\ r.kind \in {"tags", "preview"}
          /\ \/ record' = [record EXCEPT !.detail = r.meeting]
             \/ record' = [record EXCEPT !.preview = r.meeting]
       \/ r.kind = "restore" /\ record' = [record EXCEPT !.preview = None]
    /\ requests' = requests \ {r}
    /\ UNCHANGED <<summary, screen>> /\ UNCHANGED backend

ShowsDetail(r) ==
    /\ r.kind = "detail" /\ "detail" \in r.current
    /\ record' = [record EXCEPT !.detail = r.meeting]
    /\ summary' = PollSet(record', summary, screen)
    /\ requests' = Weakened(requests \ {r}, Losing({"speaker", "poll"})) \cup {Request("latest", r.meeting, 0)}
    /\ UNCHANGED screen /\ UNCHANGED backend

ShowsLabels(r) ==
    /\ r.kind \in LabelKinds \cup {"version"} /\ r.step = "answered" /\ AnswersLastClick(r)
    /\ record' = IF r.kind = "version" THEN [record EXCEPT !.shown = r.reply]
                 ELSE [record EXCEPT !.shown = r.reply, !.latest = r.reply]
    /\ requests' = requests \ {r}
    /\ UNCHANGED <<summary, screen>> /\ UNCHANGED backend

\* After an analysis the labels are asked for under the same number.
AsksLabels(r) ==
    /\ r.kind = "diarize" /\ AnswersLastClick(r)
    /\ requests' = (requests \ {r}) \cup {[Request("latest", r.meeting, 0) EXCEPT !.current = r.current]}
    /\ UNCHANGED <<record, summary, screen>> /\ UNCHANGED backend

\* The poll follows the selection, or stays as it is.
Repolls(sum, r, again) ==
    IF again THEN /\ summary' = PollSet(record, sum, screen')
                  /\ requests' = Weakened(requests \ {r}, Losing({"poll"}))
    ELSE summary' = sum /\ requests' = requests \ {r}

EndsCommand(r) ==
    /\ r.kind \in CommandKinds /\ "summary" \in r.current
    /\ LET told == IF r.step = "failed" THEN summary ELSE [summary EXCEPT !.job[r.meeting] = r.reply] IN
       Repolls([told EXCEPT !.pending = @ \ {r.meeting}], r, Here = r.meeting)
    /\ UNCHANGED <<record, screen>> /\ UNCHANGED backend

ShowsStatus(r) ==
    /\ r.kind = "status" /\ PollIsCurrent(r)
    /\ IF r.step = "failed" THEN Repolls([summary EXCEPT !.lost = @ \cup {r.meeting}], r, FALSE)
       ELSE Repolls([summary EXCEPT !.job[r.meeting] = r.reply], r, TRUE)
    /\ UNCHANGED <<record, screen>> /\ UNCHANGED backend

\* A snapshot is rendered: a new one, or after a failed poll the one before.
ShowsSnapshot(r) ==
    /\ r.kind \in SnapshotKinds
    /\ r.step # "answered" => r.kind = "poll"
    /\ LET seen == IF r.step = "answered" THEN r.reply ELSE screen.latest IN
       /\ screen' \in Screens /\ screen'.latest = seen
       /\ screen'.opened = (r.kind = "open")
       /\ screen'.timer = IF r.kind = "open" THEN screen.timer ELSE seen.active \/ seen.queued
    /\ Repolls(summary, r, Selected(record, screen') # Here)
    /\ UNCHANGED record /\ UNCHANGED backend

\* A command that the service has answered or refused.
Handled(q, r) ==
    /\ RequestTyped(q) /\ q.step \in {"answered", "failed"}
    /\ q.kind = r.kind /\ q.meeting = r.meeting /\ q.arg = r.arg /\ q.click = r.click /\ q.current = r.current

\* Nothing the service has stored goes back.
BackendGrows ==
    /\ \A m \in Meetings : Len(versions'[m]) >= Len(versions[m])
    /\ Len(jobs') >= Len(jobs)
    /\ \A j \in 1..Len(jobs) : jobs'[j].meeting = jobs[j].meeting /\ Rank(jobs'[j].step) >= Rank(jobs[j].step)

\* The replies that matter to the record, and to the summaries.
ReplyOfVersions(q) ==
    /\ q.kind \in LabelKinds =>
         \/ q.kind = "latest" /\ q.reply = NoVersion
         \/ q.reply = [meeting |-> q.meeting, version |-> Len(versions'[q.meeting])] /\ q.reply.version >= 1
    /\ q.kind = "version" => q.reply = [meeting |-> q.meeting, version |-> q.arg]

ReplyOfJobs(q) ==
    /\ q.kind = "start" => q.reply = [id |-> Len(jobs'), step |-> "queued"] /\ Len(jobs') > Len(jobs)
                           /\ jobs'[Len(jobs')] = [meeting |-> q.meeting, step |-> "queued"]
    /\ q.kind = "cancel" => /\ q.reply = [id |-> q.arg, step |-> "over"]
                            /\ jobs' = [jobs EXCEPT ![q.arg].step = "over"]
    /\ q.kind = "status" => q.reply = [id |-> q.arg, step |-> jobs[q.arg].step] /\ jobs' = jobs

ReplyOfSnapshots(q) == q.kind \in SnapshotKinds => q.reply \in Snapshots /\ (q.kind = "open" => ~q.reply.active)

\* The service handles a command; what it stores stays well formed.
Serves(r, q) ==
    /\ requests' = (requests \ {r}) \cup {q}
    /\ Handled(q, r) /\ RequestOK(q)
    /\ q.step = "answered" => ReplyOfVersions(q) /\ ReplyOfJobs(q) /\ ReplyOfSnapshots(q)
    /\ BackendTyped' /\ BackendGrows
    /\ UNCHANGED <<record, summary, screen>>

\* What the window looks at is a meeting, or nothing.
LEMMA SelectedFacts ==
    ASSUME NEW rec \in Records, NEW scr \in Screens
    PROVE  LET m == Selected(rec, scr) IN m \in MeetingOrNone /\ (m # None => m \in Meetings)
  BY DEF Selected, Records, Screens, Snapshots, MeetingOrNone

\* The meeting looked at is one, or none.
LEMMA HereFacts ==
    ASSUME RecordTyped, ScreenTyped
    PROVE  Here \in MeetingOrNone /\ (Here # None => Here \in Meetings)
  BY SelectedFacts DEF Here, RecordTyped, ScreenTyped

\* Every click is one of these.
LEMMA ClickKinds ==
    ASSUME WindowTyped, User
    PROVE  OpensRecord \/ AsksPlainly \/ AsksSpeakers \/ AsksSummary
<1> USE DEF WindowTyped
<1>1. Here \in MeetingOrNone /\ (Here # None => Here \in Meetings)
  BY HereFacts
<1>2. \A r \in requests : RequestTyped(r)
  OBVIOUS
<1>3. None \in MeetingOrNone
  BY DEF MeetingOrNone
<1>4. UNCHANGED screen => ScreenKept
  BY DEF ScreenKept, ScreenTyped
<1>5. ASSUME NEW m \in Meetings, OpenRecord(m) PROVE OpensRecord
  <2>1. requests' = Weakened(requests, Losing({"detail", "poll"})) \cup {Request("detail", m, 0)}
    BY <1>2, <1>5, StoppedFacts DEF OpenRecord
  <2> QED
    BY <1>5, <2>1 DEF OpenRecord, OpensRecord
<1>6. CASE SaveTags
  BY <1>1, <1>4, <1>6 DEF SaveTags, Click, AsksPlainly
<1>7. CASE PreviewDelete
  BY <1>1, <1>4, <1>7 DEF PreviewDelete, Click, AsksPlainly
<1>8. CASE RestoreDeleted
  <2>1. record.preview \in MeetingOrNone
    BY DEF RecordTyped, Records
  <2> QED
    BY <1>4, <1>8, <2>1 DEF RestoreDeleted, Click, AsksPlainly
<1>9. CASE BeginSession
  <2>1. ScreenKept
    BY <1>9 DEF BeginSession, ScreenKept, ScreenTyped, Screens
  <2> QED
    BY <1>3, <1>9, <2>1 DEF BeginSession, Click, AsksPlainly
<1>10. CASE Stop \/ OpenRecent
  BY <1>3, <1>4, <1>10 DEF Stop, OpenRecent, Click, AsksPlainly
<1>11. Outdated(requests, "speaker", None) = Weakened(requests, Losing({"speaker"}))
  BY <1>2, OutdatedFacts DEF Counters
<1>12. ASSUME NEW q, SpeakerAsk(q), SpeakerClick(q) PROVE AsksSpeakers
  BY <1>11, <1>12 DEF AsksSpeakers, SpeakerClick
<1>13. CASE RefreshSpeakers \/ RunDiarization
  <2>1. \A kind \in {"latest", "diarize"} : Here # None => SpeakerAsk(Request(kind, Here, 0))
    BY <1>1, RequestFacts DEF SpeakerAsk, SpeakerKinds, LabelKinds, Edits, Kinds, RecordKinds
  <2> QED
    BY <1>12, <1>13, <2>1 DEF RefreshSpeakers, RunDiarization
<1>14. ASSUME NEW v \in 1..MaxVersions, LoadSpeakerVersion(v) PROVE AsksSpeakers
  <2>1. v \in 1..record.latest.version /\ record.latest.version \in Nat /\ Here # None
    BY <1>14 DEF LoadSpeakerVersion, RecordTyped, Records, Mark
  <2>2. SpeakerAsk(Request("version", Here, v))
    BY <1>1, <2>1, RequestFacts DEF SpeakerAsk, SpeakerKinds, LabelKinds, Edits, Kinds, RecordKinds
  <2> QED
    BY <1>12, <1>14, <2>2 DEF LoadSpeakerVersion
<1>15. ASSUME NEW operation \in Edits, EditSpeakers(operation) PROVE AsksSpeakers
  <2> DEFINE ask == Request(operation, Here, record.shown.version)
             q == [ask EXCEPT !.click = record.shown]
  <2>1. record.shown \in Mark /\ record.shown.version \in Nat /\ Here \in Meetings
    BY <1>1, <1>15 DEF EditSpeakers, RecordTyped, Records, Mark
  <2>2. /\ RequestTyped(ask) /\ ask.kind = operation /\ ask.meeting = Here /\ ask.arg = record.shown.version
        /\ ask.current = Counters /\ ask.step = "sent"
    BY <1>1, <2>1, RequestFacts DEF SpeakerKinds, LabelKinds, Edits, Kinds, RecordKinds
  <2> HIDE DEF ask
  <2>3. /\ q.click = record.shown /\ q.kind = operation /\ q.meeting = Here /\ q.arg = record.shown.version
        /\ q.current = Counters /\ q.step = "sent" /\ q.reply = ask.reply
        /\ q = [kind |-> ask.kind, meeting |-> ask.meeting, arg |-> ask.arg, click |-> record.shown,
                current |-> ask.current, step |-> ask.step, reply |-> ask.reply]
    BY <2>2 DEF RequestTyped
  <2> HIDE DEF q
  <2>4. RequestTyped(q)
    BY <2>1, <2>2, <2>3 DEF RequestTyped
  <2>5. SpeakerAsk(q)
    BY <2>3, <2>4 DEF SpeakerAsk, RequestOK, SpeakerKinds, LabelKinds, Edits
  <2>6. SpeakerClick(q)
    BY <1>15 DEF EditSpeakers, q, ask
  <2> QED
    BY <1>12, <2>5, <2>6
<1>16. CASE StartSummary \/ CancelSummary \/ RetrySummary
  <2>1. Here \in Meetings \ summary.pending
    BY <1>1, <1>16 DEF StartSummary, CancelSummary, RetrySummary, Usable
  <2>2. JobOf(summary, Here) = summary.job[Here] /\ summary.job[Here].id \in Nat
    BY <2>1, RecordsAssumption DEF JobOf, None, SummaryTyped, SummaryOK
  <2>3. PICK kind \in CommandKinds, arg \in Nat :
          /\ SummaryClick(Request(kind, Here, arg))
          /\ kind = "cancel" => arg = summary.job[Here].id /\ summary.job[Here].step \in Running
    BY <1>16, <2>2 DEF StartSummary, CancelSummary, RetrySummary, CommandKinds
  <2>4. Request(kind, Here, arg).meeting = Here
    BY DEF Request
  <2>5. PollsStopped(Outdated(requests, "summary", Here)) = Weakened(requests, LosingSummary(Here))
    BY <1>2, <2>1, StoppedFacts
  <2> QED
    BY <2>1, <2>3, <2>4, <2>5 DEF SummaryClick, AsksSummary
<1> QED
  BY <1>5, <1>6, <1>7, <1>8, <1>9, <1>10, <1>13, <1>14, <1>15, <1>16 DEF User

\* Every timer, and every answer that arrives.
LEMMA TimerKinds ==
    ASSUME Timers
    PROVE  TimerFires
  BY DEF Timers, SummaryTimer, SnapshotTimer, TimerFires

Arrived(r) ==
    \/ Drops(r) \/ Notes(r) \/ ShowsDetail(r) \/ ShowsLabels(r) \/ AsksLabels(r)
    \/ EndsCommand(r) \/ ShowsStatus(r) \/ ShowsSnapshot(r)

\* Rendering shows a snapshot, and stops the poll of summaries when another meeting is looked at.
LEMMA RenderedFacts ==
    ASSUME WindowTyped, NEW r \in requests, NEW scr, Rendered(scr, requests \ {r})
    PROVE  screen' = scr /\ Repolls(summary, r, Selected(record, screen') # Here)
<1>1. PollsStopped(requests \ {r}) = Weakened(requests \ {r}, Losing({"poll"}))
  BY StoppedFacts DEF WindowTyped
<1> QED
  BY <1>1 DEF Rendered, Repolls

\* What arrives is one of these, by the kind of its request.
LEMMA ArrivalKinds ==
    ASSUME WindowTyped, NEW r \in requests, Arrives(r)
    PROVE  Arrived(r)
<1> USE DEF WindowTyped
<1>1. /\ RequestTyped(r) /\ r.step \in {"answered", "failed"}
      /\ UNCHANGED backend
  BY DEF Arrives, RequestTyped
<1>2. \A s \in requests \ {r} : RequestTyped(s)
  OBVIOUS
<1>3. PollsStopped(requests \ {r}) = Weakened(requests \ {r}, Losing({"poll"}))
  BY <1>2, StoppedFacts
<1>5. UNCHANGED screen => ScreenKept
  BY DEF ScreenKept, ScreenTyped
<1>6. CASE DetailArrives(r)
  <2>1. PollsStopped(Outdated(requests \ {r}, "speaker", None)) = Weakened(requests \ {r}, Losing({"speaker", "poll"}))
    BY <1>2, StoppedFacts
  <2>2. CASE ~IsCurrent(r, {"detail"}) \/ r.step = "failed"
    <3>1. Drops(r)
      BY <1>1, <1>5, <1>6, <2>2 DEF DetailArrives, Drops, CommandKinds
    <3> QED
      BY <3>1 DEF Arrived
  <2>3. CASE IsCurrent(r, {"detail"}) /\ r.step # "failed"
    <3>1. ShowsDetail(r)
      BY <1>1, <1>6, <2>1, <2>3 DEF DetailArrives, ShowsDetail, IsCurrent
    <3> QED
      BY <3>1 DEF Arrived
  <2> QED
    BY <2>2, <2>3
<1>7. CASE TagsSaved(r) \/ PreviewArrives(r) \/ RestoreArrives(r)
  <2>1. CASE UNCHANGED record
    <3>1. Drops(r)
      BY <1>1, <1>5, <1>7, <2>1 DEF TagsSaved, PreviewArrives, RestoreArrives, Drops, CommandKinds
    <3> QED
      BY <3>1 DEF Arrived
  <2>2. CASE record' # record
    <3>1. Notes(r)
      BY <1>1, <1>7, <2>2 DEF TagsSaved, PreviewArrives, RestoreArrives, Notes
    <3> QED
      BY <3>1 DEF Arrived
  <2> QED
    BY <2>1, <2>2
<1>8. CASE SpeakersArrive(r)
  <2>1. CASE r.step = "failed" \/ ~AnswersLastClick(r)
    <3>1. Drops(r)
      BY <1>1, <1>5, <1>8, <2>1 DEF SpeakersArrive, Drops, CommandKinds, Edits
    <3> QED
      BY <3>1 DEF Arrived
  <2>2. CASE ~(r.step = "failed" \/ ~AnswersLastClick(r))
    <3>1. ShowsLabels(r)
      BY <1>1, <1>8, <2>2 DEF SpeakersArrive, ShowsLabels, LabelKinds
    <3> QED
      BY <3>1 DEF Arrived
  <2> QED
    BY <2>1, <2>2
<1>9. CASE DiarizationArrives(r)
  <2>1. CASE r.step = "failed" \/ ~AnswersLastClick(r)
    <3>1. Drops(r)
      BY <1>1, <1>5, <1>9, <2>1 DEF DiarizationArrives, Drops, CommandKinds
    <3> QED
      BY <3>1 DEF Arrived
  <2>2. CASE ~(r.step = "failed" \/ ~AnswersLastClick(r))
    <3>1. AsksLabels(r)
      BY <1>1, <1>9, <2>2 DEF DiarizationArrives, AsksLabels
    <3> QED
      BY <3>1 DEF Arrived
  <2> QED
    BY <2>1, <2>2
<1>10. CASE SummaryAnswered(r)
  <2>1. CASE ~IsCurrent(r, {"summary"})
    <3>1. Drops(r)
      BY <1>1, <1>5, <1>10, <2>1 DEF SummaryAnswered, IsCurrent, Drops
    <3> QED
      BY <3>1 DEF Arrived
  <2>2. CASE IsCurrent(r, {"summary"})
    <3>1. screen' = screen
      BY <1>10 DEF SummaryAnswered
    <3>2. EndsCommand(r)
      BY <1>1, <1>3, <1>10, <2>2, <3>1
         DEF SummaryAnswered, IsCurrent, PollAfterCommand, EndsCommand, CommandKinds, Repolls
    <3> QED
      BY <3>2 DEF Arrived
  <2> QED
    BY <2>1, <2>2
<1>11. CASE StatusArrives(r)
  <2>1. CASE ~PollIsCurrent(r)
    <3>1. Drops(r)
      BY <1>1, <1>5, <1>11, <2>1 DEF StatusArrives, Drops, CommandKinds
    <3> QED
      BY <3>1 DEF Arrived
  <2>2. CASE PollIsCurrent(r)
    <3>1. screen' = screen
      BY <1>11 DEF StatusArrives
    <3>2. ShowsStatus(r)
      BY <1>1, <1>3, <1>11, <2>2, <3>1 DEF StatusArrives, ShowsStatus, Repolls
    <3> QED
      BY <3>2 DEF Arrived
  <2> QED
    BY <2>1, <2>2
<1>12. CASE BeginArrives(r) \/ StopArrives(r) \/ OpenArrives(r) \/ SnapshotArrives(r)
  <2>1. CASE r.step = "failed" /\ ~SnapshotArrives(r)
    <3>1. ScreenKept
      BY <1>5, <1>12, <2>1 DEF BeginArrives, StopArrives, OpenArrives, ScreenKept, ScreenTyped, Screens
    <3>2. Drops(r)
      BY <1>1, <1>12, <2>1, <3>1 DEF BeginArrives, StopArrives, OpenArrives, Drops, CommandKinds
    <3> QED
      BY <3>2 DEF Arrived
  <2>2. CASE r.step = "answered" \/ SnapshotArrives(r)
    <3> DEFINE seen == IF r.step = "answered" THEN r.reply ELSE screen.latest
               Rendering(scr) ==
                 /\ scr \in Screens /\ scr.latest = seen /\ scr.opened = (r.kind = "open")
                 /\ scr.timer = IF r.kind = "open" THEN screen.timer ELSE seen.active \/ seen.queued
    <3>1. PICK scr : /\ Rendered(scr, requests \ {r}) /\ UNCHANGED record
                     /\ r.kind \in SnapshotKinds /\ (r.step # "answered" => r.kind = "poll")
                     /\ Rendering(scr)
      <4>0. /\ seen \in Snapshots /\ screen \in Screens
            /\ r.step = "answered" => seen = r.reply
            /\ r.step = "failed" => seen = screen.latest
        <5>1. r.kind \in SnapshotKinds
          BY <1>12 DEF BeginArrives, StopArrives, OpenArrives, SnapshotArrives, SnapshotKinds
        <5>2. r.step = "answered" => r.reply \in Snapshots
          BY <5>1 DEF RequestOK
        <5>3. screen \in Screens /\ screen.latest \in Snapshots
          BY DEF ScreenTyped, Screens
        <5> QED
          BY <1>1, <5>2, <5>3
      <4> HIDE DEF seen
      <4>1. CASE BeginArrives(r) /\ r.step = "answered"
        <5> DEFINE scr == Scheduled([[screen EXCEPT !.starting = FALSE] EXCEPT !.latest = seen])
        <5>1. scr \in Screens /\ scr.latest = seen /\ scr.timer = (seen.active \/ seen.queued) /\ scr.opened = FALSE
          BY <4>0 DEF Screens, Scheduled, Snapshots
        <5>2. Rendered(scr, requests \ {r}) /\ UNCHANGED record /\ r.kind = "begin"
          BY <4>0, <4>1 DEF BeginArrives
        <5> HIDE DEF scr
        <5> QED
          BY <4>1, <5>1, <5>2 DEF SnapshotKinds
      <4>2. CASE StopArrives(r) /\ r.step = "answered"
        <5> DEFINE scr == Scheduled([screen EXCEPT !.latest = seen])
        <5>1. scr \in Screens /\ scr.latest = seen /\ scr.timer = (seen.active \/ seen.queued) /\ scr.opened = FALSE
          BY <4>0 DEF Screens, Scheduled, Snapshots
        <5>2. Rendered(scr, requests \ {r}) /\ UNCHANGED record /\ r.kind = "stop"
          BY <4>0, <4>2 DEF StopArrives
        <5> HIDE DEF scr
        <5> QED
          BY <4>2, <5>1, <5>2 DEF SnapshotKinds
      <4>3. CASE OpenArrives(r) /\ r.step = "answered"
        <5> DEFINE scr == [screen EXCEPT !.latest = seen, !.opened = TRUE]
        <5>1. scr \in Screens /\ scr.latest = seen /\ scr.timer = screen.timer /\ scr.opened = TRUE
          BY <4>0 DEF Screens, Scheduled, Snapshots
        <5>2. Rendered(scr, requests \ {r}) /\ UNCHANGED record /\ r.kind = "open"
          BY <4>0, <4>3 DEF OpenArrives
        <5> HIDE DEF scr
        <5> QED
          BY <4>3, <5>1, <5>2 DEF SnapshotKinds
      <4>4. CASE SnapshotArrives(r)
        <5> DEFINE scr == Scheduled([screen EXCEPT !.latest = seen])
        <5>1. scr \in Screens /\ scr.latest = seen /\ scr.timer = (seen.active \/ seen.queued) /\ scr.opened = FALSE
          BY <4>0 DEF Screens, Scheduled, Snapshots
        <5>2. screen = [screen EXCEPT !.latest = screen.latest]
          BY <4>0 DEF Screens
        <5>3. Rendered(scr, requests \ {r}) /\ UNCHANGED record /\ r.kind = "poll"
          BY <1>1, <4>0, <4>4, <5>2 DEF SnapshotArrives
        <5> HIDE DEF scr
        <5> QED
          BY <5>1, <5>3 DEF SnapshotKinds
      <4> QED
        BY <1>1, <1>12, <2>2, <4>1, <4>2, <4>3, <4>4
    <3>2. screen' = scr /\ Repolls(summary, r, Selected(record, screen') # Here)
      BY <3>1, RenderedFacts
    <3>3. ShowsSnapshot(r)
      BY <1>1, <3>1, <3>2 DEF ShowsSnapshot
    <3> QED
      BY <3>3 DEF Arrived
  <2> QED
    BY <1>1, <2>1, <2>2
<1> QED
  BY <1>6, <1>7, <1>8, <1>9, <1>10, <1>11, <1>12 DEF Arrives

-----------------------------------------------------------------------------
(* The speaker versions.                                                    *)

\* What an edit drafts.
LEMMA DraftFacts ==
    ASSUME NEW chain, ChainOK(chain), NEW operation \in Edits, NEW base \in Nat, NEW click \in Mark,
           NEW draft \in Drafts(chain, operation, base, click)
    PROVE  /\ draft \in StoredVersion
           /\ draft.operation = operation /\ draft.parent = base /\ draft.click = click
           /\ base \in 1..Len(chain)
           /\ operation = "undo" => /\ chain[base].parent # 0
                                    /\ draft.labels = chain[chain[base].parent].labels
<1>1. base \in DOMAIN chain /\ DOMAIN chain = 1..Len(chain) /\ chain[base] \in StoredVersion
  BY DEF Drafts, ChainOK
<1>2. chain[base].parent # 0 => chain[base].parent \in DOMAIN chain /\ chain[chain[base].parent] \in StoredVersion
  <2> HAVE chain[base].parent # 0
  <2>1. chain[base].operation \in Edits
    BY <1>1 DEF ChainOK, StoredVersion
  <2>2. chain[base].parent = base - 1 /\ chain[base].parent \in Nat
    BY <1>1, <2>1 DEF ChainOK, EditsAreLinear, StoredVersion
  <2>3. chain[base].parent \in 1..Len(chain)
    BY <1>1, <2>2
  <2> QED
    BY <1>1, <2>3 DEF ChainOK
<1>3. CASE operation = "rename"
  <2>1. draft \in Renamed(chain, base, click)
    BY <1>1, <1>3 DEF Drafts
  <2>2. PICK given \in BOOLEAN : draft = Version([chain[base].labels EXCEPT !.named = given], base, "rename", click)
    BY <2>1 DEF Renamed
  <2>3. [chain[base].labels EXCEPT !.named = given] \in Labelling
    BY <1>1 DEF StoredVersion, Labelling
  <2> QED
    BY <1>1, <1>3, <2>2, <2>3 DEF Version, StoredVersion
<1>4. CASE operation = "merge"
  <2>1. draft \in Merged(chain, base, click)
    BY <1>1, <1>4 DEF Drafts
  <2>2. PICK given \in BOOLEAN : draft = Version([speakers |-> 1, named |-> given], base, "merge", click)
    BY <2>1 DEF Merged
  <2>3. [speakers |-> 1, named |-> given] \in Labelling
    BY DEF Labelling
  <2> QED
    BY <1>1, <1>4, <2>2, <2>3 DEF Version, StoredVersion
<1>5. CASE operation = "undo"
  <2>1. draft \in Undone(chain, base, click)
    BY <1>1, <1>5 DEF Drafts
  <2>2. chain[base].parent # 0 /\ draft = Version(chain[chain[base].parent].labels, base, "undo", click)
    BY <2>1 DEF Undone
  <2>3. chain[chain[base].parent].labels \in Labelling
    BY <1>2, <2>2 DEF StoredVersion
  <2> QED
    BY <1>1, <1>5, <2>2, <2>3 DEF Version, StoredVersion
<1> QED
  BY <1>3, <1>4, <1>5 DEF Edits

\* What is stored keeps the chain: at its end, and of the version that was its end.
LEMMA RecordedFacts ==
    ASSUME NEW chain, ChainOK(chain), NEW draft \in StoredVersion, ~Conflicts(chain, draft),
           IF draft.operation = "diarize" THEN draft.parent = 0 /\ draft.click = NoClick
           ELSE /\ draft.click.version = draft.parent /\ draft.parent \in 1..Len(chain)
                /\ draft.operation = "undo" =>
                     /\ chain[draft.parent].parent # 0
                     /\ draft.labels = chain[chain[draft.parent].parent].labels
    PROVE  /\ ChainOK(Recorded(chain, draft))
           /\ Len(Recorded(chain, draft)) \in Nat /\ Len(chain) \in Nat
           /\ Len(Recorded(chain, draft)) >= Len(chain)
           /\ Len(Recorded(chain, draft)) >= 1
<1> DEFINE n == Len(chain)
           longer == Append(chain, draft)
<1>1. chain \in Seq(StoredVersion) /\ n \in Nat /\ DOMAIN chain = 1..n
  BY DEF ChainOK
<1>2. CASE Repeats(chain, draft)
  <2>1. n >= 1
    BY <1>1, <1>2 DEF Repeats
  <2> QED
    BY <1>1, <1>2, <2>1 DEF Recorded
<1>3. CASE ~Repeats(chain, draft)
  <2>1. /\ longer \in Seq(StoredVersion) /\ Len(longer) = n + 1 /\ DOMAIN longer = 1..(n + 1)
        /\ longer[n + 1] = draft /\ \A v \in 1..n : longer[v] = chain[v]
    BY <1>1
  <2> HIDE DEF longer
  <2>2. draft.operation \in Edits => draft.parent = n /\ n >= 1
    BY <1>1 DEF Conflicts, Edits, StoredVersion
  <2>3. EditsAreLinear(longer)
    <3> SUFFICES ASSUME NEW v \in 1..(n + 1), longer[v].operation \in Edits PROVE longer[v].parent = v - 1
      BY <2>1 DEF EditsAreLinear
    <3>1. CASE v = n + 1
      BY <1>1, <2>1, <2>2, <3>1
    <3>2. CASE v # n + 1
      <4>1. v \in 1..n
        BY <1>1, <3>2
      <4> QED
        BY <1>1, <2>1, <4>1 DEF ChainOK, EditsAreLinear
    <3> QED
      BY <3>1, <3>2
  <2>4. UndoRestores(longer)
    <3> SUFFICES ASSUME NEW v \in 1..(n + 1), longer[v].operation = "undo"
                 PROVE  /\ v > 2
                        /\ longer[v].labels = longer[longer[v - 1].parent].labels
                        /\ longer[v - 1].operation = "undo" => longer[v].labels = longer[v - 2].labels
      BY <2>1 DEF UndoRestores
    <3>1. CASE v = n + 1
      <4>1. draft.parent = n /\ n \in 1..n /\ draft.operation = "undo"
        BY <1>1, <2>1, <2>2, <3>1 DEF Edits
      <4>2. chain[n].parent # 0 /\ draft.labels = chain[chain[n].parent].labels /\ chain[n] \in StoredVersion
        BY <1>1, <4>1
      <4>3. chain[n].operation \in Edits
        BY <1>1, <4>1, <4>2 DEF ChainOK, StoredVersion
      <4>4. chain[n].parent = n - 1 /\ chain[n].parent \in Nat
        BY <1>1, <4>1, <4>2, <4>3 DEF ChainOK, EditsAreLinear, StoredVersion
      <4>5. n - 1 \in 1..n /\ v - 1 = n /\ v - 2 = n - 1 /\ v > 2
        BY <1>1, <3>1, <4>2, <4>4
      <4>6. longer[n] = chain[n] /\ longer[n - 1] = chain[n - 1]
        BY <2>1, <4>1, <4>5
      <4> QED
        BY <2>1, <3>1, <4>2, <4>4, <4>5, <4>6
    <3>2. CASE v # n + 1
      <4>1. v \in 1..n /\ longer[v] = chain[v]
        BY <1>1, <2>1, <3>2
      <4>2. /\ v > 2
            /\ chain[v].labels = chain[chain[v - 1].parent].labels
            /\ chain[v - 1].operation = "undo" => chain[v].labels = chain[v - 2].labels
        BY <1>1, <4>1 DEF ChainOK, UndoRestores
      <4>3. v - 1 \in 1..n /\ v - 2 \in 1..n
        BY <1>1, <4>1, <4>2
      <4>4. longer[v - 1] = chain[v - 1] /\ longer[v - 2] = chain[v - 2]
        BY <2>1, <4>3
      <4>5. chain[v - 1].parent \in 1..n
        <5>2. chain[v - 1].operation \in Edits
          BY <1>1, <4>1 DEF ChainOK, UndoesAnEdit
        <5>3. chain[v - 1].parent = v - 2
          BY <1>1, <4>3, <5>2 DEF ChainOK, EditsAreLinear
        <5> QED
          BY <4>3, <5>3
      <4> QED
        BY <2>1, <4>1, <4>2, <4>4, <4>5
    <3> QED
      BY <3>1, <3>2
  <2>5. \A v \in DOMAIN longer :
          IF longer[v].operation = "diarize" THEN longer[v].parent = 0 /\ longer[v].click = NoClick
          ELSE longer[v].click.version = longer[v].parent
    <3> SUFFICES ASSUME NEW v \in 1..(n + 1)
                 PROVE  IF longer[v].operation = "diarize" THEN longer[v].parent = 0 /\ longer[v].click = NoClick
                        ELSE longer[v].click.version = longer[v].parent
      BY <2>1
    <3>1. CASE v = n + 1
      BY <2>1, <3>1
    <3>2. CASE v # n + 1
      <4>1. v \in 1..n /\ longer[v] = chain[v]
        BY <1>1, <2>1, <3>2
      <4> QED
        BY <1>1, <4>1 DEF ChainOK
    <3> QED
      BY <3>1, <3>2
  <2>8. UndoesAnEdit(longer)
    <3> SUFFICES ASSUME NEW v \in 1..(n + 1), longer[v].operation = "undo"
                 PROVE  v > 1 /\ longer[v - 1].operation \in Edits
      BY <2>1 DEF UndoesAnEdit
    <3>1. CASE v = n + 1
      <4>1. draft.parent = n /\ n \in 1..n /\ draft.operation = "undo"
        BY <1>1, <2>1, <2>2, <3>1 DEF Edits
      <4>2. chain[n].parent # 0 /\ chain[n] \in StoredVersion
        BY <1>1, <4>1
      <4>3. chain[n].operation \in Edits
        BY <1>1, <4>1, <4>2 DEF ChainOK, StoredVersion
      <4> QED
        BY <1>1, <2>1, <3>1, <4>1, <4>3
    <3>2. CASE v # n + 1
      <4>1. v \in 1..n /\ longer[v] = chain[v]
        BY <1>1, <2>1, <3>2
      <4>2. v > 1 /\ chain[v - 1].operation \in Edits
        BY <1>1, <4>1 DEF ChainOK, UndoesAnEdit
      <4> QED
        BY <1>1, <2>1, <4>1, <4>2
    <3> QED
      BY <3>1, <3>2
  <2>6. ChainOK(longer)
    BY <2>1, <2>3, <2>4, <2>5, <2>8 DEF ChainOK
  <2>7. Recorded(chain, draft) = longer
    BY <1>3 DEF Recorded, longer
  <2> QED
    BY <1>1, <2>1, <2>6, <2>7
<1> QED
  BY <1>2, <1>3

-----------------------------------------------------------------------------
(* The service.                                                             *)

\* A request that is answered, and one that is refused.
LEMMA AnsweredFacts ==
    ASSUME NEW r, RequestTyped(r), NEW reply
    PROVE  LET q == [r EXCEPT !.step = "answered", !.reply = reply] IN
           Handled(q, r) /\ q.step = "answered" /\ q.reply = reply
<1> DEFINE p == [r EXCEPT !.step = "answered"]
           q == [r EXCEPT !.step = "answered", !.reply = reply]
<1>1. p = [kind |-> r.kind, meeting |-> r.meeting, arg |-> r.arg, click |-> r.click,
           current |-> r.current, step |-> "answered", reply |-> r.reply]
  BY DEF RequestTyped
<1>2. q = [p EXCEPT !.reply = reply]
  OBVIOUS
<1> HIDE DEF p
<1>3. q = [kind |-> r.kind, meeting |-> r.meeting, arg |-> r.arg, click |-> r.click,
           current |-> r.current, step |-> "answered", reply |-> reply]
  <2>1. [p EXCEPT !.reply = reply] = [kind |-> r.kind, meeting |-> r.meeting, arg |-> r.arg, click |-> r.click,
           current |-> r.current, step |-> "answered", reply |-> reply]
    BY <1>1
  <2> QED
    BY <1>2, <2>1
<1> HIDE DEF q
<1>4. Handled(q, r) /\ q.step = "answered" /\ q.reply = reply
  BY <1>3 DEF Handled, RequestTyped
<1> QED
  BY <1>4 DEF q

\* A request that is refused has failed and is as it was.
LEMMA RefusedFacts ==
    ASSUME NEW r, RequestTyped(r)
    PROVE  LET q == [r EXCEPT !.step = "failed"] IN Handled(q, r) /\ q.step = "failed"
<1> DEFINE q == [r EXCEPT !.step = "failed"]
<1>1. q = [kind |-> r.kind, meeting |-> r.meeting, arg |-> r.arg, click |-> r.click,
           current |-> r.current, step |-> "failed", reply |-> r.reply]
  BY DEF RequestTyped
<1> HIDE DEF q
<1>2. Handled(q, r) /\ q.step = "failed"
  BY <1>1 DEF Handled, RequestTyped
<1> QED
  BY <1>2 DEF q

\* The order of the steps of a job.
LEMMA RankFacts ==
    /\ Rank("none") = 0 /\ Rank("queued") = 1 /\ Rank("chunking") = 2 /\ Rank("over") = 3
    /\ \A step \in JobSteps : Rank(step) \in 1..3 /\ (Rank(step) = 3 => step = "over")
<1>1. Rank("none") = 0 /\ Rank("queued") = 1 /\ Rank("chunking") = 2 /\ Rank("over") = 3
  BY DEF Rank
<1> QED
  BY <1>1 DEF JobSteps

\* Nothing is stored.
LEMMA BackendStays ==
    ASSUME BackendTyped, UNCHANGED backend
    PROVE  BackendTyped' /\ BackendGrows
<1>1. versions' = versions /\ jobs' = jobs /\ live' = live /\ recorded' = recorded
  BY DEF backend
<1>2. \A m \in Meetings : Len(versions[m]) \in Nat
  BY DEF BackendTyped, ChainOK
<1>3. \A j \in 1..Len(jobs) : Rank(jobs[j].step) \in Nat
  <2>1. ASSUME NEW j \in 1..Len(jobs) PROVE jobs[j].step \in JobSteps
    <3>1. jobs[j] \in WindowJob
      BY DEF BackendTyped
    <3> QED
      BY <3>1 DEF WindowJob
  <2> QED
    BY <2>1, RankFacts
<1> QED
  BY <1>1, <1>2, <1>3 DEF BackendTyped, BackendGrows

\* A refusal.
LEMMA RefusedServes ==
    ASSUME WindowTyped, NEW r \in requests, Refused(r), UNCHANGED backend, UNCHANGED <<record, summary, screen>>
    PROVE  \E q : Serves(r, q)
<1> DEFINE q == [r EXCEPT !.step = "failed"]
<1>1. Handled(q, r) /\ q.step = "failed" /\ requests' = (requests \ {r}) \cup {q}
  BY RefusedFacts DEF WindowTyped, Refused
<1> HIDE DEF q
<1>2. RequestOK(q)
  BY <1>1 DEF Handled, RequestOK, WindowTyped
<1>3. BackendTyped' /\ BackendGrows
  BY BackendStays DEF WindowTyped
<1> QED
  BY <1>1, <1>2, <1>3 DEF Serves

\* An answer; what it says is left to show.
LEMMA AnsweredServes ==
    ASSUME WindowTyped, NEW r \in requests, NEW reply, Answered(r, reply), UNCHANGED <<record, summary, screen>>,
           BackendTyped', BackendGrows,
           \A q : Handled(q, r) /\ q.reply = reply =>
                    /\ q.kind \in JobKinds => q.reply.id \in Nat
                    /\ q.kind \in LabelKinds \cup {"version"} => q.reply \in Mark
                    /\ ReplyOfVersions(q) /\ ReplyOfJobs(q) /\ ReplyOfSnapshots(q)
    PROVE  \E q : Serves(r, q)
<1> DEFINE q == [r EXCEPT !.step = "answered", !.reply = reply]
<1>1. Handled(q, r) /\ q.step = "answered" /\ q.reply = reply /\ requests' = (requests \ {r}) \cup {q}
  BY AnsweredFacts DEF WindowTyped, Answered
<1> HIDE DEF q
<1>2. /\ q.kind \in JobKinds => q.reply.id \in Nat
      /\ q.kind \in LabelKinds \cup {"version"} => q.reply \in Mark
      /\ ReplyOfVersions(q) /\ ReplyOfJobs(q) /\ ReplyOfSnapshots(q)
  BY <1>1
<1>3. RequestOK(q)
  BY <1>1, <1>2 DEF Handled, RequestOK, WindowTyped, ReplyOfSnapshots
<1> QED
  BY <1>1, <1>2, <1>3 DEF Serves

\* A job is added, or goes forward.
JobStarts == \E m \in Meetings : jobs' = Append(jobs, [meeting |-> m, step |-> "queued"])
JobMoves ==
    \E j \in Nat, step \in JobSteps :
        /\ j \in DOMAIN jobs => Rank(step) >= Rank(jobs[j].step)
        /\ jobs' = [jobs EXCEPT ![j].step = step]

\* Steps of jobs go forward.
LEMMA JobsGrow ==
    ASSUME BackendTyped, UNCHANGED <<versions, live, recorded>>,
           JobStarts \/ JobMoves
    PROVE  BackendTyped' /\ BackendGrows
<1>1. jobs \in Seq(WindowJob) /\ Len(jobs) \in Nat /\ DOMAIN jobs = 1..Len(jobs)
  BY DEF BackendTyped
<1>2. \A m \in Meetings : Len(versions[m]) \in Nat /\ Len(versions'[m]) >= Len(versions[m])
  BY DEF BackendTyped, ChainOK
<1>3. \A j \in 1..Len(jobs) : jobs[j] \in WindowJob /\ Rank(jobs[j].step) \in Nat
  <2>1. ASSUME NEW j \in 1..Len(jobs) PROVE jobs[j] \in WindowJob
    BY <1>1
  <2> QED
    BY <2>1, RankFacts DEF WindowJob
<1>4. CASE JobStarts
  <2>1. PICK m \in Meetings : jobs' = Append(jobs, [meeting |-> m, step |-> "queued"])
    BY <1>4 DEF JobStarts
  <2>2. [meeting |-> m, step |-> "queued"] \in WindowJob
    BY DEF JobSteps, WindowJob
  <2>3. jobs' \in Seq(WindowJob) /\ Len(jobs') = Len(jobs) + 1 /\ \A j \in 1..Len(jobs) : jobs'[j] = jobs[j]
    <3> DEFINE new == [meeting |-> m, step |-> "queued"]
    <3>1. new \in WindowJob /\ jobs' = Append(jobs, new)
      BY <2>1, <2>2
    <3> HIDE DEF new
    <3> QED
      BY <1>1, <3>1
  <2>4. BackendTyped'
    BY <2>3 DEF BackendTyped
  <2>5. \A j \in 1..Len(jobs) : jobs'[j].meeting = jobs[j].meeting /\ Rank(jobs'[j].step) >= Rank(jobs[j].step)
    BY <1>3, <2>3
  <2>6. Len(jobs') >= Len(jobs)
    BY <1>1, <2>3
  <2> QED
    BY <1>2, <2>4, <2>5, <2>6 DEF BackendGrows
<1>5. CASE JobMoves
  <2>1. PICK j \in Nat, step \in JobSteps :
             /\ j \in DOMAIN jobs => Rank(step) >= Rank(jobs[j].step)
             /\ jobs' = [jobs EXCEPT ![j].step = step]
    BY <1>5 DEF JobMoves
  <2>2. \A k \in 1..Len(jobs) : jobs'[k] = IF k = j THEN [jobs[k] EXCEPT !.step = step] ELSE jobs[k]
    BY <1>1, <2>1
  <2>3. DOMAIN jobs' = 1..Len(jobs) /\ jobs' = [k \in 1..Len(jobs) |-> jobs'[k]]
    BY <1>1, <2>1
  <2>4. ASSUME NEW k \in 1..Len(jobs)
        PROVE  /\ jobs'[k] \in WindowJob
               /\ jobs'[k].meeting = jobs[k].meeting /\ Rank(jobs'[k].step) >= Rank(jobs[k].step)
    <3>1. jobs[k] \in WindowJob /\ Rank(jobs[k].step) \in Nat
      BY <1>3
    <3>2. CASE k = j
      <4>1. jobs'[k] = [jobs[k] EXCEPT !.step = step] /\ Rank(step) >= Rank(jobs[k].step)
        BY <1>1, <2>1, <2>2, <3>2
      <4> QED
        BY <3>1, <4>1 DEF WindowJob
    <3>3. CASE k # j
      <4>1. jobs'[k] = jobs[k]
        BY <2>2, <3>3
      <4> QED
        BY <3>1, <4>1
    <3> QED
      BY <3>2, <3>3
  <2>5. jobs' \in Seq(WindowJob) /\ Len(jobs') = Len(jobs)
    <3>1. jobs' \in [1..Len(jobs) -> WindowJob]
      BY <2>3, <2>4
    <3> QED
      BY <1>1, <3>1
  <2> QED
    BY <1>1, <1>2, <2>4, <2>5 DEF BackendTyped, BackendGrows
<1> QED
  BY <1>4, <1>5

\* What diarize_speakers and the edits store.
LEMMA SpeakersServed ==
    ASSUME WindowTyped, NEW r \in requests, ServeSpeakers(r), UNCHANGED <<record, summary, screen>>
    PROVE  \E q : Serves(r, q)
<1> DEFINE m == r.meeting
           chain == versions[m]
           drafts == IF r.kind = "diarize" THEN {Diarized([speakers |-> n, named |-> FALSE]) : n \in 1..2}
                     ELSE Drafts(chain, r.kind, r.arg, r.click)
<1>1. /\ RequestTyped(r) /\ RequestOK(r) /\ BackendTyped /\ r \in requests
      /\ r.kind \in Edits \cup {"diarize"}
  BY DEF WindowTyped, ServeSpeakers
<1>2. m \in Meetings /\ ChainOK(chain) /\ r.arg \in Nat /\ r.click \in Mark
  BY <1>1 DEF RequestTyped, BackendTyped, RecordKinds, SpeakerKinds, LabelKinds
<1>3. UNCHANGED <<jobs, live, recorded>>
  BY DEF ServeSpeakers
<1>4. CASE Refused(r) /\ UNCHANGED versions
  BY <1>3, <1>4, RefusedServes DEF backend
<1>5. CASE \E draft \in drafts :
              /\ ~Conflicts(chain, draft)
              /\ versions' = [versions EXCEPT ![m] = Recorded(chain, draft)]
              /\ Answered(r, [meeting |-> m, version |-> Len(versions'[m])])
  <2>1. PICK draft \in drafts :
              /\ ~Conflicts(chain, draft)
              /\ versions' = [versions EXCEPT ![m] = Recorded(chain, draft)]
              /\ Answered(r, [meeting |-> m, version |-> Len(versions'[m])])
    BY <1>5
  <2>2. /\ draft \in StoredVersion
        /\ IF draft.operation = "diarize" THEN draft.parent = 0 /\ draft.click = NoClick
           ELSE /\ draft.click.version = draft.parent /\ draft.parent \in 1..Len(chain)
                /\ draft.operation = "undo" =>
                     /\ chain[draft.parent].parent # 0
                     /\ draft.labels = chain[chain[draft.parent].parent].labels
    <3>1. CASE r.kind = "diarize"
      <4>1. PICK n \in 1..2 : draft = Diarized([speakers |-> n, named |-> FALSE])
        BY <2>1, <3>1
      <4>2. [speakers |-> n, named |-> FALSE] \in Labelling /\ NoClick \in Mark
        BY DEF Labelling, NoClick, Mark, MeetingOrNone, None
      <4> QED
        BY <4>1, <4>2 DEF Diarized, Version, StoredVersion
    <3>2. CASE r.kind \in Edits
      <4>1. r.kind # "diarize" /\ draft \in Drafts(chain, r.kind, r.arg, r.click)
        BY <2>1, <3>2 DEF Edits
      <4>2. /\ draft \in StoredVersion /\ draft.operation = r.kind /\ draft.parent = r.arg /\ draft.click = r.click
            /\ r.arg \in 1..Len(chain)
            /\ r.kind = "undo" => /\ chain[r.arg].parent # 0
                                  /\ draft.labels = chain[chain[r.arg].parent].labels
        BY <1>2, <3>2, <4>1, DraftFacts
      <4>3. r.click.version = r.arg
        BY <1>1, <3>2 DEF RequestOK
      <4> QED
        BY <4>1, <4>2, <4>3
    <3> QED
      BY <1>1, <3>1, <3>2
  <2> DEFINE stored == Recorded(chain, draft)
  <2>3. ChainOK(stored) /\ Len(stored) \in Nat /\ Len(chain) \in Nat /\ Len(stored) >= Len(chain) /\ Len(stored) >= 1
    BY <1>2, <2>1, <2>2, RecordedFacts
  <2>4. versions = [x \in Meetings |-> versions[x]] /\ \A x \in Meetings : ChainOK(versions[x])
    BY <1>1 DEF BackendTyped
  <2>5. versions' = [versions EXCEPT ![m] = stored]
    BY <2>1
  <2> HIDE DEF stored
  <2>6. versions' = [x \in Meetings |-> versions'[x]] /\ \A x \in Meetings : versions'[x] = IF x = m THEN stored ELSE versions[x]
    BY <1>2, <2>4, <2>5
  <2>7. \A x \in Meetings : Len(versions[x]) \in Nat
    BY <2>4 DEF ChainOK
  <2>8. BackendTyped'
    BY <1>1, <1>3, <2>3, <2>4, <2>6 DEF BackendTyped
  <2>9. \A j \in 1..Len(jobs) : Rank(jobs[j].step) \in Nat
    <3>1. ASSUME NEW j \in 1..Len(jobs) PROVE jobs[j].step \in JobSteps
      <4>1. jobs[j] \in WindowJob
        BY <1>1 DEF BackendTyped
      <4> QED
        BY <4>1 DEF WindowJob
    <3> QED
      BY <3>1, RankFacts
  <2>10. BackendGrows
    <3>1. Len(jobs) \in Nat
      BY <1>1 DEF BackendTyped
    <3> QED
      BY <1>2, <1>3, <2>3, <2>6, <2>7, <2>9, <3>1 DEF BackendGrows
  <2> DEFINE reply == [meeting |-> m, version |-> Len(versions'[m])]
  <2>11. reply.version = Len(stored) /\ reply \in Mark
    BY <1>2, <2>3, <2>6 DEF Mark, MeetingOrNone
  <2>12. ASSUME NEW q, Handled(q, r), q.reply = reply
         PROVE  /\ q.kind \in JobKinds => q.reply.id \in Nat
                /\ q.kind \in LabelKinds \cup {"version"} => q.reply \in Mark
                /\ ReplyOfVersions(q) /\ ReplyOfJobs(q) /\ ReplyOfSnapshots(q)
    BY <1>1, <2>3, <2>11, <2>12
       DEF Handled, ReplyOfVersions, ReplyOfJobs, ReplyOfSnapshots, JobKinds, CommandKinds, SnapshotKinds, Edits
  <2> HIDE DEF reply
  <2>13. Answered(r, reply)
    BY <2>1 DEF reply
  <2> QED
    BY <2>8, <2>10, <2>12, <2>13, AnsweredServes
<1> QED
  BY <1>4, <1>5 DEF ServeSpeakers

\* The other commands.
LEMMA ReadServed ==
    ASSUME WindowTyped, NEW r \in requests, ServeRead(r) \/ ServeVersion(r), UNCHANGED <<record, summary, screen>>
    PROVE  \E q : Serves(r, q)
<1>1. RequestTyped(r) /\ BackendTyped /\ UNCHANGED backend
  BY DEF WindowTyped, ServeRead, ServeVersion
<1>2. BackendTyped' /\ BackendGrows
  BY <1>1, BackendStays
<1>3. CASE ServeRead(r)
  <2>1. r.kind \in {"detail", "tags", "preview", "restore"} /\ Answered(r, NoVersion)
    BY <1>3 DEF ServeRead
  <2>2. ASSUME NEW q, Handled(q, r), q.reply = NoVersion
        PROVE  /\ q.kind \in JobKinds => q.reply.id \in Nat
               /\ q.kind \in LabelKinds \cup {"version"} => q.reply \in Mark
               /\ ReplyOfVersions(q) /\ ReplyOfJobs(q) /\ ReplyOfSnapshots(q)
    BY <2>1, <2>2
       DEF Handled, ReplyOfVersions, ReplyOfJobs, ReplyOfSnapshots, JobKinds, CommandKinds, SnapshotKinds, LabelKinds, Edits
  <2> QED
    BY <1>2, <2>1, <2>2, AnsweredServes
<1>4. CASE ServeVersion(r)
  <2> DEFINE reply == IF r.kind = "latest" THEN Latest(r.meeting) ELSE [meeting |-> r.meeting, version |-> r.arg]
  <2>1. r.kind \in {"latest", "version"} /\ Answered(r, reply)
    BY <1>4 DEF ServeVersion
  <2>2. r.meeting \in Meetings /\ r.arg \in Nat
    BY <1>1, <2>1 DEF RequestTyped, RecordKinds, SpeakerKinds, LabelKinds
  <2>3. ChainOK(versions[r.meeting]) /\ Len(versions[r.meeting]) \in Nat /\ versions' = versions
    BY <1>1, <2>2 DEF BackendTyped, ChainOK, backend
  <2>4. r.kind = "latest" =>
          \/ reply = NoVersion
          \/ reply = [meeting |-> r.meeting, version |-> Len(versions'[r.meeting])] /\ reply.version >= 1
    <3>1. versions[r.meeting] # <<>> => Len(versions[r.meeting]) >= 1
      BY <2>3 DEF ChainOK
    <3> QED
      BY <2>3, <3>1 DEF Latest
  <2>5. reply \in Mark
    BY <2>2, <2>3 DEF Latest, NoVersion, Mark, MeetingOrNone
  <2>6. r.kind = "version" => reply = [meeting |-> r.meeting, version |-> r.arg]
    OBVIOUS
  <2> HIDE DEF reply
  <2>7. ASSUME NEW q, Handled(q, r), q.reply = reply
        PROVE  /\ q.kind \in JobKinds => q.reply.id \in Nat
               /\ q.kind \in LabelKinds \cup {"version"} => q.reply \in Mark
               /\ ReplyOfVersions(q) /\ ReplyOfJobs(q) /\ ReplyOfSnapshots(q)
    BY <2>1, <2>4, <2>5, <2>6, <2>7
       DEF Handled, ReplyOfVersions, ReplyOfJobs, ReplyOfSnapshots, JobKinds, CommandKinds, SnapshotKinds, LabelKinds, Edits
  <2> QED
    BY <1>2, <2>1, <2>7, AnsweredServes
<1> QED
  BY <1>3, <1>4

\* A command of summaries or a status, served.
LEMMA JobServed ==
    ASSUME WindowTyped, NEW r \in requests, ServeStart(r) \/ ServeCancel(r) \/ ServeStatus(r),
           UNCHANGED <<record, summary, screen>>
    PROVE  \E q : Serves(r, q)
<1>1. /\ RequestTyped(r) /\ BackendTyped /\ r.kind \in JobKinds
      /\ jobs \in Seq(WindowJob) /\ Len(jobs) \in Nat
  BY DEF WindowTyped, BackendTyped, ServeStart, ServeCancel, ServeStatus, JobKinds, CommandKinds
<1>2. r.meeting \in Meetings /\ r.arg \in Nat
  BY <1>1 DEF RequestTyped
<1>3. ASSUME NEW reply, Answered(r, reply), reply.id \in Nat, BackendTyped', BackendGrows,
             \A q : q.kind = r.kind /\ q.meeting = r.meeting /\ q.arg = r.arg /\ q.reply = reply => ReplyOfJobs(q)
      PROVE  \E q : Serves(r, q)
  <2>1. ASSUME NEW q, Handled(q, r), q.reply = reply
        PROVE  /\ q.kind \in JobKinds => q.reply.id \in Nat
               /\ q.kind \in LabelKinds \cup {"version"} => q.reply \in Mark
               /\ ReplyOfVersions(q) /\ ReplyOfJobs(q) /\ ReplyOfSnapshots(q)
    <3>1. q.kind \in JobKinds /\ ReplyOfJobs(q)
      BY <1>1, <1>3, <2>1 DEF Handled
    <3>2. q.kind \notin LabelKinds \cup {"version"} /\ q.kind \notin SnapshotKinds
      BY <3>1 DEF JobKinds, CommandKinds, SnapshotKinds, LabelKinds, Edits
    <3> QED
      BY <1>3, <2>1, <3>1, <3>2 DEF ReplyOfVersions, ReplyOfSnapshots
  <2> QED
    BY <1>3, <2>1, AnsweredServes
<1>4. CASE ServeStart(r)
  <2>1. CASE Refused(r) /\ UNCHANGED jobs
    BY <1>4, <2>1, RefusedServes DEF ServeStart, backend
  <2>2. CASE ~(Refused(r) /\ UNCHANGED jobs)
    <3> DEFINE new == [meeting |-> r.meeting, step |-> "queued"]
               reply == [id |-> Len(jobs) + 1, step |-> "queued"]
    <3>1. jobs' = Append(jobs, new) /\ Answered(r, reply) /\ r.kind = "start" /\ UNCHANGED <<versions, live, recorded>>
      BY <1>4, <2>2 DEF ServeStart
    <3>2. new \in WindowJob /\ JobStarts
      BY <1>2, <3>1 DEF WindowJob, JobSteps, JobStarts
    <3>3. BackendTyped' /\ BackendGrows
      BY <1>1, <3>1, <3>2, JobsGrow
    <3> HIDE DEF new
    <3>4. Len(jobs') = Len(jobs) + 1 /\ jobs'[Len(jobs) + 1] = new
      BY <1>1, <3>1, <3>2
    <3>5. ASSUME NEW q, q.kind = r.kind, q.meeting = r.meeting, q.arg = r.arg, q.reply = reply
          PROVE  ReplyOfJobs(q)
      BY <1>1, <3>1, <3>4, <3>5 DEF ReplyOfJobs, new
    <3>6. reply.id \in Nat
      BY <1>1
    <3> HIDE DEF reply
    <3> QED
      BY <1>3, <3>1, <3>3, <3>5, <3>6
  <2> QED
    BY <2>1, <2>2
<1>5. CASE ServeCancel(r)
  <2> DEFINE reply == [id |-> r.arg, step |-> "over"]
  <2>1. jobs' = [jobs EXCEPT ![r.arg].step = "over"] /\ Answered(r, reply) /\ r.kind = "cancel" /\ UNCHANGED <<versions, live, recorded>>
    BY <1>5 DEF ServeCancel
  <2>2. JobMoves
    <3>1. ASSUME r.arg \in DOMAIN jobs PROVE Rank("over") >= Rank(jobs[r.arg].step)
      <4>1. jobs[r.arg] \in WindowJob
        BY <1>1, <3>1
      <4>2. Rank(jobs[r.arg].step) \in 1..3
        BY <4>1, RankFacts DEF WindowJob
      <4> QED
        BY <4>2, RankFacts
    <3>2. "over" \in JobSteps
      BY DEF JobSteps
    <3> QED
      BY <1>2, <2>1, <3>1, <3>2 DEF JobMoves
  <2>3. BackendTyped' /\ BackendGrows
    BY <1>1, <2>1, <2>2, JobsGrow
  <2>4. ASSUME NEW q, q.kind = r.kind, q.meeting = r.meeting, q.arg = r.arg, q.reply = reply
        PROVE  ReplyOfJobs(q)
    BY <2>1, <2>4 DEF ReplyOfJobs
  <2>5. reply.id \in Nat
    BY <1>2
  <2> HIDE DEF reply
  <2> QED
    BY <1>3, <2>1, <2>3, <2>4, <2>5
<1>6. CASE ServeStatus(r)
  <2> DEFINE reply == [id |-> r.arg, step |-> jobs[r.arg].step]
  <2>1. Answered(r, reply) /\ r.kind = "status" /\ UNCHANGED backend
    BY <1>6 DEF ServeStatus
  <2>2. BackendTyped' /\ BackendGrows /\ jobs' = jobs
    BY <1>1, <2>1, BackendStays DEF backend
  <2>3. ASSUME NEW q, q.kind = r.kind, q.meeting = r.meeting, q.arg = r.arg, q.reply = reply
        PROVE  ReplyOfJobs(q)
    BY <2>1, <2>2, <2>3 DEF ReplyOfJobs
  <2>4. reply.id \in Nat
    BY <1>2
  <2> HIDE DEF reply
  <2> QED
    BY <1>3, <2>1, <2>2, <2>3, <2>4
<1> QED
  BY <1>4, <1>5, <1>6

\* A command that answers with a snapshot, served.
LEMMA SnapshotServed ==
    ASSUME WindowTyped, NEW r \in requests, ServeBegin(r) \/ ServeStop(r) \/ ServeOpen(r) \/ ServePoll(r),
           UNCHANGED <<record, summary, screen>>
    PROVE  \E q : Serves(r, q)
<1>1. BackendTyped /\ r.kind \in SnapshotKinds
  BY DEF WindowTyped, ServeBegin, ServeStop, ServeOpen, ServePoll, SnapshotKinds
<1>2. UNCHANGED <<versions, jobs>>
  BY DEF ServeBegin, ServeStop, ServeOpen, ServePoll, backend
<1>3. ASSUME NEW reply \in Snapshots, Answered(r, reply), live' \in Snapshots, recorded' \subseteq Meetings,
             r.kind = "open" => ~reply.active
      PROVE  \E q : Serves(r, q)
  <2>1. BackendTyped'
    BY <1>1, <1>2, <1>3 DEF BackendTyped
  <2>2. BackendGrows
    <3>1. \A m \in Meetings : Len(versions[m]) \in Nat
      BY <1>1 DEF BackendTyped, ChainOK
    <3>2. Len(jobs) \in Nat
      BY <1>1 DEF BackendTyped
    <3>3. ASSUME NEW j \in 1..Len(jobs) PROVE Rank(jobs[j].step) \in Nat
      <4>1. jobs[j] \in WindowJob
        BY <1>1 DEF BackendTyped
      <4> QED
        BY <4>1, RankFacts DEF WindowJob
    <3> QED
      BY <1>2, <3>1, <3>2, <3>3 DEF BackendGrows
  <2>3. ASSUME NEW q, Handled(q, r), q.reply = reply
        PROVE  /\ q.kind \in JobKinds => q.reply.id \in Nat
               /\ q.kind \in LabelKinds \cup {"version"} => q.reply \in Mark
               /\ ReplyOfVersions(q) /\ ReplyOfJobs(q) /\ ReplyOfSnapshots(q)
    <3>1. q.kind \in SnapshotKinds /\ q.kind = r.kind
      BY <1>1, <2>3 DEF Handled
    <3>2. q.kind \notin JobKinds /\ q.kind \notin LabelKinds \cup {"version"}
      BY <3>1 DEF JobKinds, CommandKinds, SnapshotKinds, LabelKinds, Edits
    <3>3. q.kind \notin {"start", "cancel", "status"}
      BY <3>2 DEF JobKinds, CommandKinds
    <3>4. ReplyOfSnapshots(q)
      BY <1>3, <2>3, <3>1 DEF ReplyOfSnapshots
    <3> QED
      BY <3>2, <3>3, <3>4 DEF ReplyOfVersions, ReplyOfJobs
  <2> QED
    BY <1>3, <2>1, <2>2, <2>3, AnsweredServes
<1>4. live \in Snapshots /\ recorded \subseteq Meetings
  BY <1>1 DEF BackendTyped
<1>5. CASE Refused(r)
  <2>1. CASE UNCHANGED <<live, recorded>>
    BY <1>2, <1>5, <2>1, RefusedServes DEF backend
  <2>2. CASE ServeBegin(r) /\ ~UNCHANGED <<live, recorded>>
    <3>1. PICK m \in Meetings \ recorded :
              /\ live' = [meeting |-> m, active |-> TRUE, queued |-> FALSE]
              /\ recorded' = recorded \cup {m}
              /\ Answered(r, live')
      BY <2>2 DEF ServeBegin
    <3>2. live' \in Snapshots /\ recorded' \subseteq Meetings
      BY <1>4, <3>1 DEF Snapshots
    <3> QED
      BY <1>3, <2>2, <3>1, <3>2 DEF ServeBegin
  <2>3. CASE ~ServeBegin(r) /\ ~UNCHANGED <<live, recorded>>
    <3>1. Answered(r, live') /\ recorded' = recorded /\ live' \in Snapshots /\ (r.kind = "open" => ~live'.active)
      BY <1>4, <2>3 DEF ServeStop, ServeOpen, ServePoll, Snapshots, backend
    <3> QED
      BY <1>3, <1>4, <3>1
  <2> QED
    BY <2>1, <2>2, <2>3
<1>6. CASE ~Refused(r)
  <2>1. CASE ServeBegin(r)
    <3>1. PICK m \in Meetings \ recorded :
              /\ live' = [meeting |-> m, active |-> TRUE, queued |-> FALSE]
              /\ recorded' = recorded \cup {m}
              /\ Answered(r, live')
      BY <1>6, <2>1 DEF ServeBegin
    <3>2. live' \in Snapshots /\ recorded' \subseteq Meetings
      BY <1>4, <3>1 DEF Snapshots
    <3> QED
      BY <1>3, <2>1, <3>1, <3>2 DEF ServeBegin
  <2>2. CASE ServeStop(r)
    <3>1. Answered(r, live') /\ recorded' = recorded /\ live' \in Snapshots /\ r.kind = "stop"
      BY <1>4, <1>6, <2>2 DEF ServeStop, Snapshots
    <3> QED
      BY <1>3, <1>4, <3>1
  <2>3. CASE ServeOpen(r)
    <3>1. PICK m \in recorded : live' = [live EXCEPT !.meeting = m] /\ Answered(r, live')
      BY <1>6, <2>3 DEF ServeOpen
    <3>2. ~live.active /\ recorded' = recorded
      BY <1>6, <2>3 DEF ServeOpen
    <3>3. live' \in Snapshots /\ ~live'.active
      BY <1>4, <3>1, <3>2 DEF Snapshots
    <3> QED
      BY <1>3, <1>4, <3>1, <3>2, <3>3
  <2>4. CASE ServePoll(r)
    <3>1. Answered(r, live) /\ live' = live /\ recorded' = recorded /\ r.kind = "poll"
      BY <2>4 DEF ServePoll, backend
    <3> QED
      BY <1>3, <1>4, <3>1
  <2> QED
    BY <2>1, <2>2, <2>3, <2>4
<1> QED
  BY <1>5, <1>6

\* Every command is answered or refused.
LEMMA ServeKinds ==
    ASSUME WindowTyped, NEW r \in requests, Serve(r)
    PROVE  r.step = "sent" /\ \E q : Serves(r, q)
<1>1. r.step = "sent" /\ UNCHANGED <<record, summary, screen>>
  BY DEF Serve
<1>2. CASE Refuse(r)
  BY <1>1, <1>2, RefusedServes DEF Refuse
<1>3. CASE ServeSpeakers(r)
  BY <1>1, <1>3, SpeakersServed
<1>4. CASE ServeRead(r) \/ ServeVersion(r)
  BY <1>1, <1>4, ReadServed
<1>5. CASE ServeStart(r) \/ ServeCancel(r) \/ ServeStatus(r)
  BY <1>1, <1>5, JobServed
<1>6. CASE ServeBegin(r) \/ ServeStop(r) \/ ServeOpen(r) \/ ServePoll(r)
  BY <1>1, <1>6, SnapshotServed
<1> QED
  BY <1>1, <1>2, <1>3, <1>4, <1>5, <1>6 DEF Serve

\* The threads of the service go on by themselves, or nothing happens.
Works ==
    /\ BackendTyped' /\ BackendGrows
    /\ UNCHANGED <<record, summary, screen, requests>>

WindowStep ==
    \/ OpensRecord \/ AsksPlainly \/ AsksSpeakers \/ AsksSummary \/ TimerFires \/ Works
    \/ \E r \in requests : r.step # "sent" /\ Arrived(r)
    \/ \E r \in requests : r.step = "sent" /\ \E q : Serves(r, q)

\* A job goes on, a queue drains.
LEMMA WorkKinds ==
    ASSUME WindowTyped,
           \/ QueueDrains
           \/ \E j \in DOMAIN jobs : JobAdvances(j)
           \/ UNCHANGED windowVars
    PROVE  Works
<1>1. BackendTyped
  BY DEF WindowTyped
<1>2. CASE UNCHANGED windowVars
  <2>1. UNCHANGED backend /\ UNCHANGED <<record, summary, screen, requests>>
    BY <1>2 DEF windowVars, backend
  <2> QED
    BY <1>1, <2>1, BackendStays DEF Works
<1>3. CASE QueueDrains
  <2>1. live' \in Snapshots
    BY <1>1, <1>3 DEF QueueDrains, BackendTyped, Snapshots
  <2>2. UNCHANGED <<versions, jobs, recorded, record, summary, screen, requests>>
    BY <1>3 DEF QueueDrains
  <2>3. BackendTyped'
    BY <1>1, <2>1, <2>2 DEF BackendTyped
  <2>4. \A m \in Meetings : Len(versions[m]) \in Nat
    BY <1>1 DEF BackendTyped, ChainOK
  <2>5. Len(jobs) \in Nat
    BY <1>1 DEF BackendTyped
  <2>6. ASSUME NEW j \in 1..Len(jobs) PROVE Rank(jobs[j].step) \in Nat
    <3>1. jobs[j] \in WindowJob
      BY <1>1 DEF BackendTyped
    <3> QED
      BY <3>1, RankFacts DEF WindowJob
  <2>7. BackendGrows
    BY <2>2, <2>4, <2>5, <2>6 DEF BackendGrows
  <2> QED
    BY <2>2, <2>3, <2>7 DEF Works
<1>4. ASSUME NEW j \in DOMAIN jobs, JobAdvances(j) PROVE Works
  <2>1. UNCHANGED <<versions, live, recorded, record, summary, screen, requests>>
    BY <1>4 DEF JobAdvances
  <2>2. PICK step \in {"chunking", "over"} :
          Rank(step) > Rank(jobs[j].step) /\ jobs' = [jobs EXCEPT ![j].step = step]
    BY <1>4 DEF JobAdvances
  <2>3. j \in Nat /\ jobs[j] \in WindowJob
    BY <1>1, <1>4 DEF BackendTyped
  <2>4. Rank(jobs[j].step) \in Nat /\ Rank(step) \in Nat /\ step \in JobSteps
    BY <2>2, <2>3, RankFacts DEF WindowJob, JobSteps
  <2>5. Rank(step) >= Rank(jobs[j].step)
    BY <2>2, <2>4
  <2>6. JobMoves
    BY <2>2, <2>3, <2>4, <2>5 DEF JobMoves
  <2> QED
    BY <1>1, <2>1, <2>6, JobsGrow DEF Works
<1> QED
  BY <1>2, <1>3, <1>4

\* Every step is one of these.
LEMMA StepKinds ==
    ASSUME WindowTyped, [WindowNext]_windowVars
    PROVE  WindowStep
<1>1. CASE User
  BY <1>1, ClickKinds DEF WindowStep
<1>2. CASE Timers
  BY <1>2, TimerKinds DEF WindowStep
<1>3. ASSUME NEW r \in requests, Arrives(r) PROVE WindowStep
  <2>1. r.step # "sent"
    BY <1>3 DEF Arrives
  <2>2. Arrived(r)
    BY <1>3, ArrivalKinds
  <2> QED
    BY <2>1, <2>2 DEF WindowStep
<1>4. ASSUME NEW r \in requests, Serve(r) PROVE WindowStep
  BY <1>4, ServeKinds DEF WindowStep
<1>5. CASE QueueDrains \/ (\E j \in DOMAIN jobs : JobAdvances(j)) \/ UNCHANGED windowVars
  BY <1>5, WorkKinds DEF WindowStep
<1> QED
  BY <1>1, <1>2, <1>3, <1>4, <1>5 DEF WindowNext

-----------------------------------------------------------------------------
(* Types are kept.                                                          *)

\* What setting the poll does to the summaries.
LEMMA PollSetFacts ==
    ASSUME NEW sum, SummaryOK(sum), NEW rec, NEW scr, Selected(rec, scr) \in MeetingOrNone
    PROVE  LET p == PollSet(rec, sum, scr)
               m == Selected(rec, scr) IN
           /\ SummaryOK(p) /\ p.job = sum.job /\ p.pending = sum.pending
           /\ p.timer = IF m # None /\ sum.job[m].step \in Running /\ m \notin sum.pending THEN m ELSE None
           /\ p.lost = sum.lost \ {p.timer}
<1> DEFINE p == PollSet(rec, sum, scr)
           m == Selected(rec, scr)
           polled == IF JobOf(sum, m).step \in Running /\ m \notin sum.pending THEN m ELSE None
           t == [sum EXCEPT !.timer = polled]
<1>1. p = [t EXCEPT !.lost = @ \ {polled}]
  BY DEF PollSet
<1>2. t = [job |-> sum.job, pending |-> sum.pending, timer |-> polled, lost |-> sum.lost]
  <2> HIDE DEF polled
  <2> QED
    BY DEF SummaryOK
<1>3. polled = IF m # None /\ sum.job[m].step \in Running /\ m \notin sum.pending THEN m ELSE None
  BY DEF JobOf, NoJob, Running
<1>4. polled \in MeetingOrNone
  BY DEF MeetingOrNone
<1> HIDE DEF t, polled
<1>5. p = [job |-> sum.job, pending |-> sum.pending, timer |-> polled, lost |-> sum.lost \ {polled}]
  <2>1. [t EXCEPT !.lost = @ \ {polled}] =
          [job |-> sum.job, pending |-> sum.pending, timer |-> polled, lost |-> sum.lost \ {polled}]
    BY <1>2
  <2> QED
    BY <1>1, <2>1
<1> HIDE DEF p
<1>6. p.job = sum.job /\ p.pending = sum.pending /\ p.timer = polled /\ p.lost = sum.lost \ {p.timer}
  BY <1>5
<1>7. SummaryOK(p)
  BY <1>4, <1>5, <1>6 DEF SummaryOK
<1> QED
  BY <1>3, <1>6, <1>7 DEF p

\* What a command, its end, a poll that failed and an answer do to them.
LEMMA SummaryForms ==
    ASSUME NEW sum, SummaryOK(sum), NEW m \in Meetings, NEW reply
    PROVE  /\ [sum EXCEPT !.timer = None] =
                [job |-> sum.job, pending |-> sum.pending, timer |-> None, lost |-> sum.lost]
           /\ [sum EXCEPT !.pending = @ \ {m}] =
                [job |-> sum.job, pending |-> sum.pending \ {m}, timer |-> sum.timer, lost |-> sum.lost]
           /\ [sum EXCEPT !.lost = @ \cup {m}] =
                [job |-> sum.job, pending |-> sum.pending, timer |-> sum.timer, lost |-> sum.lost \cup {m}]
           /\ [sum EXCEPT !.job[m] = reply] =
                [job |-> [sum.job EXCEPT ![m] = reply], pending |-> sum.pending,
                 timer |-> sum.timer, lost |-> sum.lost]
<1> USE DEF SummaryOK
<1>1. [sum EXCEPT !.timer = None] = [job |-> sum.job, pending |-> sum.pending, timer |-> None, lost |-> sum.lost]
  OBVIOUS
<1>2. [sum EXCEPT !.pending = @ \ {m}] =
        [job |-> sum.job, pending |-> sum.pending \ {m}, timer |-> sum.timer, lost |-> sum.lost]
  OBVIOUS
<1>3. [sum EXCEPT !.lost = @ \cup {m}] =
        [job |-> sum.job, pending |-> sum.pending, timer |-> sum.timer, lost |-> sum.lost \cup {m}]
  <2> DEFINE more == sum.lost \cup {m}
  <2> HIDE DEF more
  <2>1. [sum EXCEPT !.lost = more] = [job |-> sum.job, pending |-> sum.pending, timer |-> sum.timer, lost |-> more]
    OBVIOUS
  <2> QED
    BY <2>1 DEF more
<1>4. [sum EXCEPT !.job[m] = reply] =
        [job |-> [sum.job EXCEPT ![m] = reply], pending |-> sum.pending, timer |-> sum.timer, lost |-> sum.lost]
  OBVIOUS
<1> QED
  BY <1>1, <1>2, <1>3, <1>4

\* What is told of a job of a meeting.
Told(m, reply) == [summary EXCEPT !.job[m] = reply]

\* A job that is told is the job of its meeting, and no other changes.
LEMMA ToldFacts ==
    ASSUME SummaryTyped, NEW m \in Meetings, NEW reply, reply.id \in Nat
    PROVE  /\ SummaryOK(Told(m, reply))
           /\ Told(m, reply).job[m] = reply
           /\ \A x \in Meetings \ {m} : Told(m, reply).job[x] = summary.job[x]
           /\ Told(m, reply).pending = summary.pending /\ Told(m, reply).timer = summary.timer
           /\ Told(m, reply).lost = summary.lost
<1> DEFINE t == Told(m, reply)
           job == [summary.job EXCEPT ![m] = reply]
<1>1. t = [job |-> job, pending |-> summary.pending, timer |-> summary.timer, lost |-> summary.lost]
  BY DEF Told, SummaryTyped, SummaryOK
<1>2. /\ job = [x \in Meetings |-> job[x]] /\ job[m] = reply
      /\ \A x \in Meetings \ {m} : job[x] = summary.job[x]
  BY DEF SummaryTyped, SummaryOK
<1> HIDE DEF t
<1>3. t.job = job /\ t.pending = summary.pending /\ t.timer = summary.timer /\ t.lost = summary.lost
  BY <1>1
<1> HIDE DEF job
<1>4. SummaryOK(t)
  BY <1>1, <1>2, <1>3 DEF SummaryTyped, SummaryOK
<1> QED
  BY <1>2, <1>3, <1>4 DEF t, job

\* The end of a command: what was told, if it succeeded, and the meeting is free again.
Ended(r) ==
    LET told == IF r.step = "failed" THEN summary ELSE Told(r.meeting, r.reply) IN
    [told EXCEPT !.pending = @ \ {r.meeting}]

\* A command that ends tells its job when it was answered, and its meeting is free again.
LEMMA EndedFacts ==
    ASSUME WindowTyped, NEW r \in requests, r.kind \in CommandKinds, r.step # "sent"
    PROVE  /\ SummaryOK(Ended(r))
           /\ r.meeting \in Meetings
           /\ r.step = "failed" => Ended(r).job = summary.job
           /\ r.step = "answered" => /\ Ended(r).job[r.meeting] = r.reply
                                     /\ \A x \in Meetings \ {r.meeting} : Ended(r).job[x] = summary.job[x]
           /\ Ended(r).pending = summary.pending \ {r.meeting} /\ Ended(r).timer = summary.timer
           /\ Ended(r).lost = summary.lost
<1> DEFINE m == r.meeting
           told == IF r.step = "failed" THEN summary ELSE Told(m, r.reply)
           e == Ended(r)
<1>1. r.meeting \in Meetings /\ r.step \in {"failed", "answered"}
  BY DEF WindowTyped, RequestTyped, JobKinds
<1>2. r.step = "answered" => r.reply.id \in Nat
  BY DEF WindowTyped, RequestOK, JobKinds
<1>3. /\ SummaryOK(told) /\ told.pending = summary.pending /\ told.timer = summary.timer /\ told.lost = summary.lost
      /\ r.step = "failed" => told.job = summary.job
      /\ r.step = "answered" => /\ told.job[m] = r.reply
                                /\ \A x \in Meetings \ {m} : told.job[x] = summary.job[x]
  <2>1. CASE r.step = "failed"
    BY <2>1 DEF WindowTyped, SummaryTyped
  <2>2. CASE r.step = "answered"
    <3>1. told = Told(m, r.reply)
      BY <2>2
    <3>2. r.reply.id \in Nat /\ SummaryTyped
      BY <1>2, <2>2 DEF WindowTyped
    <3>3. /\ SummaryOK(Told(m, r.reply)) /\ Told(m, r.reply).pending = summary.pending
          /\ Told(m, r.reply).timer = summary.timer /\ Told(m, r.reply).lost = summary.lost
          /\ Told(m, r.reply).job[m] = r.reply
          /\ \A x \in Meetings \ {m} : Told(m, r.reply).job[x] = summary.job[x]
      BY ONLY <1>1, <3>2, ToldFacts
    <3> HIDE DEF told
    <3> QED
      BY <2>2, <3>1, <3>3
  <2> QED
    BY <1>1, <2>1, <2>2
<1>4. e = [told EXCEPT !.pending = @ \ {m}]
  BY DEF Ended
<1> HIDE DEF e, told
<1>5. e = [job |-> told.job, pending |-> told.pending \ {m}, timer |-> told.timer, lost |-> told.lost]
  BY <1>1, <1>3, <1>4, SummaryForms
<1>6. e.job = told.job /\ e.pending = summary.pending \ {m} /\ e.timer = summary.timer /\ e.lost = summary.lost
  BY <1>3, <1>5
<1>7. SummaryOK(e)
  BY <1>3, <1>5, <1>6 DEF SummaryOK
<1> QED
  BY <1>1, <1>3, <1>6, <1>7 DEF e

\* The poll and the requests after an answer.
LEMMA RepollsFacts ==
    ASSUME WindowTyped, NEW r \in requests, NEW sum, SummaryOK(sum), NEW again, Repolls(sum, r, again),
           record' = record, screen' \in Screens
    PROVE  /\ SummaryTyped'
           /\ \A q \in requests' : RequestTyped(q) /\ RequestOK(q)
<1>1. Selected(record, screen') \in MeetingOrNone
  BY SelectedFacts DEF WindowTyped, RecordTyped
<1>2. SummaryOK(PollSet(record, sum, screen'))
  BY <1>1, PollSetFacts
<1>3. \A q \in (requests \ {r}) \cup {} : RequestTyped(q) /\ RequestOK(q)
  BY DEF WindowTyped
<1>4. Losing({"poll"}) \in Losses
  BY LossesFacts DEF Counters
<1>5. \A q \in Weakened(requests \ {r}, Losing({"poll"})) \cup {} : RequestTyped(q) /\ RequestOK(q)
  BY <1>3, <1>4, WeakenedTyped
<1> QED
  BY <1>2, <1>3, <1>5 DEF Repolls, SummaryTyped

\* The types are kept by a click or a timer.
LEMMA AsksTyped ==
    ASSUME WindowTyped, OpensRecord \/ AsksPlainly \/ AsksSpeakers \/ AsksSummary \/ TimerFires
    PROVE  WindowTyped'
<1>1. /\ RecordTyped /\ ScreenTyped /\ SummaryTyped /\ BackendTyped
      /\ \A r \in requests : RequestTyped(r) /\ RequestOK(r)
  BY DEF WindowTyped
<1>2. UNCHANGED backend => BackendTyped'
  BY <1>1, BackendStays
<1>3. UNCHANGED screen => ScreenTyped'
  BY <1>1 DEF ScreenTyped
<1>4. ScreenKept => ScreenTyped'
  BY DEF ScreenKept, ScreenTyped
<1>5. UNCHANGED record => RecordTyped'
  BY <1>1 DEF RecordTyped
<1>6. UNCHANGED summary => SummaryTyped'
  BY <1>1 DEF SummaryTyped
<1>7. ASSUME NEW lost \in Losses, NEW q, RequestTyped(q), RequestOK(q), requests' = Weakened(requests, lost) \cup {q}
      PROVE  \A r \in requests' : RequestTyped(r) /\ RequestOK(r)
  <2>1. \A r \in requests \cup {q} : RequestTyped(r) /\ RequestOK(r)
    BY <1>1, <1>7
  <2> QED
    BY <1>7, <2>1, WeakenedTyped
<1>8. ASSUME NEW q, RequestTyped(q), RequestOK(q), requests' = requests \cup {q}
      PROVE  \A r \in requests' : RequestTyped(r) /\ RequestOK(r)
  BY <1>1, <1>8
<1>9. ASSUME NEW kind \in Kinds \ Edits, NEW m \in MeetingOrNone, NEW arg \in Nat,
             kind \in RecordKinds \cup JobKinds => m \in Meetings
      PROVE  RequestTyped(Request(kind, m, arg)) /\ RequestOK(Request(kind, m, arg))
  BY <1>9, RequestFacts
<1>10. /\ {"detail", "tags", "preview", "restore", "begin", "stop", "open", "poll", "start", "cancel", "status"}
            \subseteq Kinds \ Edits
       /\ \A kind \in {"restore", "begin", "stop", "open", "poll"} : kind \notin RecordKinds \cup JobKinds
  BY DEF Kinds, RecordKinds, JobKinds, SnapshotKinds, CommandKinds, SpeakerKinds, LabelKinds, Edits
<1>11. Meetings \subseteq MeetingOrNone /\ None \in MeetingOrNone
  BY DEF MeetingOrNone
<1>12. Losing({"detail", "poll"}) \in Losses /\ Losing({"speaker"}) \in Losses
       /\ \A m \in Meetings : LosingSummary(m) \in Losses
  BY LossesFacts DEF Counters
<1>13. CASE OpensRecord
  <2>1. PICK m \in Meetings :
          /\ record' = Cleared(m) /\ summary' = [summary EXCEPT !.timer = None]
          /\ requests' = Weakened(requests, Losing({"detail", "poll"})) \cup {Request("detail", m, 0)}
          /\ UNCHANGED screen /\ UNCHANGED backend
    BY <1>13 DEF OpensRecord
  <2>2. RecordTyped'
    BY <1>11, <2>1 DEF RecordTyped, Records, Cleared, NoDetail, NoVersion, Mark
  <2>3. SummaryTyped'
    BY <1>1, <1>11, <2>1 DEF SummaryTyped, SummaryOK
  <2>4. RequestTyped(Request("detail", m, 0)) /\ RequestOK(Request("detail", m, 0))
    BY <1>9, <1>10, <1>11
  <2> QED
    BY <1>2, <1>3, <1>7, <1>12, <2>1, <2>2, <2>3, <2>4 DEF WindowTyped
<1>14. CASE AsksPlainly
  <2>1. PICK kind \in {"tags", "preview", "restore", "begin", "stop", "open"}, m \in MeetingOrNone :
          /\ kind \in {"tags", "preview"} => m \in Meetings /\ m = Here
          /\ requests' = requests \cup {Request(kind, m, 0)}
          /\ ScreenKept
          /\ UNCHANGED <<record, summary>> /\ UNCHANGED backend
    BY <1>14 DEF AsksPlainly
  <2>2. RequestTyped(Request(kind, m, 0)) /\ RequestOK(Request(kind, m, 0))
    BY <1>9, <1>10, <2>1
  <2> QED
    BY <1>2, <1>4, <1>5, <1>6, <1>8, <2>1, <2>2 DEF WindowTyped
<1>15. CASE AsksSpeakers
  BY <1>2, <1>3, <1>5, <1>6, <1>7, <1>12, <1>15 DEF AsksSpeakers, SpeakerAsk, WindowTyped
<1>16. CASE AsksSummary
  <2>1. PICK kind \in CommandKinds, arg \in Nat :
          /\ Here \in Meetings \ summary.pending
          /\ summary' = [summary EXCEPT !.pending = @ \cup {Here}, !.timer = None]
          /\ requests' = Weakened(requests, LosingSummary(Here)) \cup {Request(kind, Here, arg)}
          /\ UNCHANGED <<record, screen>> /\ UNCHANGED backend
    BY <1>16 DEF AsksSummary
  <2>2. RequestTyped(Request(kind, Here, arg)) /\ RequestOK(Request(kind, Here, arg))
    BY <1>9, <1>10, <1>11, <2>1 DEF CommandKinds
  <2>3. SummaryTyped'
    BY <1>1, <1>11, <2>1 DEF SummaryTyped, SummaryOK
  <2> QED
    BY <1>2, <1>3, <1>5, <1>7, <1>12, <2>1, <2>2, <2>3 DEF WindowTyped
<1>17. CASE TimerFires
  <2>1. CASE /\ summary.timer # None
             /\ summary' = [summary EXCEPT !.timer = None]
             /\ requests' = requests \cup {Request("status", summary.timer, summary.job[summary.timer].id)}
             /\ UNCHANGED <<record, screen>> /\ UNCHANGED backend
    <3> DEFINE m == summary.timer
    <3>1. m \in Meetings /\ summary.job[m].id \in Nat
      BY <1>1, <2>1 DEF SummaryTyped, SummaryOK, MeetingOrNone
    <3>2. RequestTyped(Request("status", m, summary.job[m].id)) /\ RequestOK(Request("status", m, summary.job[m].id))
      BY <1>9, <1>10, <1>11, <3>1
    <3>3. SummaryTyped'
      BY <1>1, <1>11, <2>1 DEF SummaryTyped, SummaryOK
    <3> QED
      BY <1>2, <1>3, <1>5, <1>8, <2>1, <3>2, <3>3 DEF WindowTyped
  <2>2. CASE /\ screen' = [screen EXCEPT !.timer = FALSE]
             /\ requests' = requests \cup {Request("poll", None, 0)}
             /\ UNCHANGED <<record, summary>> /\ UNCHANGED backend
    <3>1. ScreenTyped'
      BY <1>1, <2>2 DEF ScreenTyped, Screens
    <3>2. RequestTyped(Request("poll", None, 0)) /\ RequestOK(Request("poll", None, 0))
      BY <1>9, <1>10, <1>11
    <3> QED
      BY <1>2, <1>5, <1>6, <1>8, <2>2, <3>1, <3>2 DEF WindowTyped
  <2> QED
    BY <1>17, <2>1, <2>2 DEF TimerFires
<1> QED
  BY <1>13, <1>14, <1>15, <1>16, <1>17

\* The types are kept by an answer.
LEMMA ArrivedTyped ==
    ASSUME WindowTyped, NEW r \in requests, r.step # "sent", Arrived(r)
    PROVE  WindowTyped'
<1>1. /\ RecordTyped /\ ScreenTyped /\ SummaryTyped /\ BackendTyped
      /\ \A s \in requests : RequestTyped(s) /\ RequestOK(s)
      /\ SummaryOK(summary)
  BY DEF WindowTyped, SummaryTyped
<1>2. UNCHANGED backend => BackendTyped'
  BY <1>1, BackendStays
<1>3. UNCHANGED screen => ScreenTyped'
  BY <1>1 DEF ScreenTyped
<1>4. ScreenKept => ScreenTyped'
  BY DEF ScreenKept, ScreenTyped
<1>5. UNCHANGED record => RecordTyped'
  BY <1>1 DEF RecordTyped
<1>6. UNCHANGED summary => SummaryTyped'
  BY <1>1 DEF SummaryTyped
<1>7. requests' = requests \ {r} => \A s \in requests' : RequestTyped(s) /\ RequestOK(s)
  BY <1>1
<1>8. r.kind \in RecordKinds \cup JobKinds => r.meeting \in Meetings
  BY <1>1 DEF RequestTyped
<1>9. r.step \in {"answered", "failed"}
  BY <1>1 DEF RequestTyped
<1>10. Meetings \subseteq MeetingOrNone /\ None \in MeetingOrNone
  BY DEF MeetingOrNone
<1>11. CASE Drops(r)
  BY <1>2, <1>4, <1>5, <1>6, <1>7, <1>11 DEF Drops, WindowTyped
<1>12. CASE Notes(r)
  <2>1. RecordTyped'
    BY <1>1, <1>8, <1>10, <1>12 DEF Notes, RecordTyped, Records, RecordKinds
  <2> QED
    BY <1>2, <1>3, <1>6, <1>7, <1>12, <2>1 DEF Notes, WindowTyped
<1>13. CASE ShowsDetail(r)
  <2>1. r.meeting \in Meetings /\ RecordTyped'
    BY <1>1, <1>8, <1>10, <1>13 DEF ShowsDetail, RecordTyped, Records, RecordKinds
  <2>2. SummaryTyped'
    <3>1. Selected(record', screen) \in MeetingOrNone
      BY <1>1, <2>1, SelectedFacts DEF RecordTyped, ScreenTyped
    <3>2. summary' = PollSet(record', summary, screen)
      BY <1>13 DEF ShowsDetail
    <3> QED
      BY <1>1, <3>1, <3>2, PollSetFacts DEF SummaryTyped
  <2>3. RequestTyped(Request("latest", r.meeting, 0)) /\ RequestOK(Request("latest", r.meeting, 0))
    BY <1>10, <2>1, RequestFacts DEF Kinds, RecordKinds, SpeakerKinds, LabelKinds, Edits
  <2>4. Losing({"speaker", "poll"}) \in Losses
    BY LossesFacts DEF Counters
  <2>5. \A s \in (requests \ {r}) \cup {Request("latest", r.meeting, 0)} : RequestTyped(s) /\ RequestOK(s)
    BY <1>1, <2>3
  <2>6. \A s \in requests' : RequestTyped(s) /\ RequestOK(s)
    <3>1. \A s \in Weakened(requests \ {r}, Losing({"speaker", "poll"})) \cup {Request("latest", r.meeting, 0)} :
            RequestTyped(s) /\ RequestOK(s)
      BY <2>4, <2>5, WeakenedTyped
    <3> QED
      BY <1>13, <3>1 DEF ShowsDetail
  <2> QED
    BY <1>2, <1>3, <1>13, <2>1, <2>2, <2>6 DEF ShowsDetail, WindowTyped
<1>14. CASE ShowsLabels(r)
  <2>1. r.reply \in Mark
    BY <1>1, <1>14 DEF ShowsLabels, RequestOK
  <2>2. RecordTyped'
    <3>1. CASE r.kind = "version"
      BY <1>1, <1>14, <2>1, <3>1 DEF ShowsLabels, RecordTyped, Records
    <3>2. CASE r.kind # "version"
      <4> DEFINE shown == [record EXCEPT !.shown = r.reply]
      <4>1. shown \in Records
        BY <1>1, <2>1 DEF RecordTyped, Records
      <4>2. record' = [shown EXCEPT !.latest = r.reply]
        BY <1>14, <3>2 DEF ShowsLabels
      <4> HIDE DEF shown
      <4> QED
        BY <2>1, <4>1, <4>2 DEF RecordTyped, Records
    <3> QED
      BY <3>1, <3>2
  <2> QED
    BY <1>2, <1>3, <1>6, <1>7, <1>14, <2>2 DEF ShowsLabels, WindowTyped
<1>15. CASE AsksLabels(r)
  <2> DEFINE ask == Request("latest", r.meeting, 0)
             q == [ask EXCEPT !.current = r.current]
  <2>1. r.meeting \in Meetings /\ r.current \subseteq Counters
    BY <1>1, <1>8, <1>15 DEF AsksLabels, RecordKinds, SpeakerKinds, RequestTyped
  <2>2. RequestTyped(ask) /\ RequestOK(ask)
    BY <1>10, <2>1, RequestFacts DEF Kinds, RecordKinds, SpeakerKinds, LabelKinds, Edits
  <2> HIDE DEF ask
  <2>3. q = [kind |-> ask.kind, meeting |-> ask.meeting, arg |-> ask.arg, click |-> ask.click,
             current |-> r.current, step |-> ask.step, reply |-> ask.reply]
    BY <2>2 DEF RequestTyped
  <2> HIDE DEF q
  <2>4. RequestTyped(q) /\ RequestOK(q)
    <3>1. /\ q.kind = ask.kind /\ q.meeting = ask.meeting /\ q.arg = ask.arg /\ q.click = ask.click
          /\ q.current = r.current /\ q.step = ask.step /\ q.reply = ask.reply
      BY <2>3
    <3>2. RequestTyped(q)
      BY <2>1, <2>2, <2>3, <3>1 DEF RequestTyped
    <3>3. RequestOK(q)
      BY <2>2, <3>1 DEF RequestOK
    <3> QED
      BY <3>2, <3>3
  <2>5. requests' = (requests \ {r}) \cup {q}
    BY <1>15 DEF AsksLabels, q, ask
  <2>6. \A s \in requests' : RequestTyped(s) /\ RequestOK(s)
    BY <1>1, <2>4, <2>5
  <2> QED
    BY <1>2, <1>3, <1>5, <1>6, <1>15, <2>6 DEF AsksLabels, WindowTyped
<1>16. CASE EndsCommand(r)
  <2>1. SummaryOK(Ended(r)) /\ Repolls(Ended(r), r, Here = r.meeting)
    BY <1>16, EndedFacts DEF EndsCommand, Ended, Told
  <2>2. record' = record /\ screen' = screen /\ screen' \in Screens /\ UNCHANGED backend
    BY <1>1, <1>16 DEF EndsCommand, ScreenTyped
  <2>3. SummaryTyped' /\ \A q \in requests' : RequestTyped(q) /\ RequestOK(q)
    BY <2>1, <2>2, RepollsFacts
  <2> QED
    BY <1>2, <1>3, <1>5, <2>2, <2>3 DEF WindowTyped
<1>17. CASE ShowsStatus(r)
  <2>1. record' = record /\ screen' = screen /\ screen' \in Screens /\ UNCHANGED backend /\ r.meeting \in Meetings
    BY <1>1, <1>8, <1>17 DEF ShowsStatus, ScreenTyped, JobKinds
  <2>2. CASE r.step = "failed"
    <3> DEFINE sum == [summary EXCEPT !.lost = @ \cup {r.meeting}]
    <3>0. sum = [job |-> summary.job, pending |-> summary.pending, timer |-> summary.timer,
                 lost |-> summary.lost \cup {r.meeting}]
      BY <1>1, <2>1, SummaryForms
    <3>2. Repolls(sum, r, FALSE)
      BY <1>17, <2>2 DEF ShowsStatus
    <3> HIDE DEF sum
    <3>1. SummaryOK(sum)
      BY <1>1, <3>0 DEF SummaryOK
    <3>3. SummaryTyped' /\ \A q \in requests' : RequestTyped(q) /\ RequestOK(q)
      BY <2>1, <3>1, <3>2, RepollsFacts
    <3> QED
      BY <1>2, <1>3, <1>5, <2>1, <3>3 DEF WindowTyped
  <2>3. CASE r.step = "answered"
    <3>1. r.reply.id \in Nat
      BY <1>1, <1>17, <2>3 DEF ShowsStatus, RequestOK, JobKinds
    <3>2. SummaryOK(Told(r.meeting, r.reply))
      BY <1>1, <2>1, <3>1, ToldFacts
    <3>3. Repolls(Told(r.meeting, r.reply), r, TRUE)
      BY <1>17, <2>3 DEF ShowsStatus, Told
    <3>4. SummaryTyped' /\ \A q \in requests' : RequestTyped(q) /\ RequestOK(q)
      BY <2>1, <3>2, <3>3, RepollsFacts
    <3> QED
      BY <1>2, <1>3, <1>5, <2>1, <3>4 DEF WindowTyped
  <2> QED
    BY <1>9, <2>2, <2>3
<1>18. CASE ShowsSnapshot(r)
  <2>1. record' = record /\ screen' \in Screens /\ UNCHANGED backend
    BY <1>18 DEF ShowsSnapshot
  <2>2. Repolls(summary, r, Selected(record, screen') # Here)
    BY <1>18 DEF ShowsSnapshot
  <2>3. SummaryTyped' /\ \A q \in requests' : RequestTyped(q) /\ RequestOK(q)
    BY <1>1, <2>1, <2>2, RepollsFacts
  <2> QED
    BY <1>2, <1>5, <2>1, <2>3 DEF WindowTyped, ScreenTyped
<1> QED
  BY <1>11, <1>12, <1>13, <1>14, <1>15, <1>16, <1>17, <1>18 DEF Arrived

\* The types are kept by every step.
LEMMA TypedStep ==
    ASSUME WindowTyped, WindowStep
    PROVE  WindowTyped'
<1>1. CASE OpensRecord \/ AsksPlainly \/ AsksSpeakers \/ AsksSummary \/ TimerFires
  BY <1>1, AsksTyped
<1>2. CASE \E r \in requests : r.step # "sent" /\ Arrived(r)
  BY <1>2, ArrivedTyped
<1>3. CASE Works
  BY <1>3 DEF Works, WindowTyped, RecordTyped, ScreenTyped, SummaryTyped
<1>4. ASSUME NEW r \in requests, NEW q, Serves(r, q) PROVE WindowTyped'
  <2>1. \A s \in requests' : RequestTyped(s) /\ RequestOK(s)
    BY <1>4 DEF Serves, Handled, WindowTyped
  <2>2. BackendTyped' /\ UNCHANGED <<record, summary, screen>>
    BY <1>4 DEF Serves
  <2> QED
    BY <2>1, <2>2 DEF WindowTyped, RecordTyped, ScreenTyped, SummaryTyped
<1> QED
  BY <1>1, <1>2, <1>3, <1>4 DEF WindowStep

\* The window that is opened is well typed, and shows nothing yet.
LEMMA WindowStarts ==
    ASSUME WindowInit
    PROVE  WindowTyped
<1>1. RecordTyped
  BY DEF WindowInit, NoDetail, NoVersion, RecordTyped, Records, Mark, MeetingOrNone
<1>2. recorded \subseteq Meetings /\ live \in Snapshots
  <2>1. recorded \subseteq Meetings
    BY DEF WindowInit
  <2>2. PICK m \in recorded \cup {None} : live = [meeting |-> m, active |-> FALSE, queued |-> FALSE]
    BY DEF WindowInit
  <2>3. live \in Snapshots
    BY <2>1, <2>2 DEF Snapshots
  <2> QED
    BY <2>1, <2>3
<1>3. ScreenTyped
  BY <1>2 DEF WindowInit, ScreenTyped, Screens
<1>4. SummaryTyped
  BY DEF WindowInit, SummaryTyped, SummaryOK, NoJob, MeetingOrNone
<1>5. BackendTyped
  <2> DEFINE first == Diarized([speakers |-> 2, named |-> FALSE])
  <2>1. first \in StoredVersion /\ first.operation = "diarize" /\ first.parent = 0 /\ first.click = NoClick
    <3>1. NoClick \in Mark /\ [speakers |-> 2, named |-> FALSE] \in Labelling
      BY DEF NoClick, Mark, MeetingOrNone, None, Labelling
    <3> QED
      BY <3>1 DEF Diarized, Version, StoredVersion
  <2> HIDE DEF first
  <2>2. ChainOK(<< >>)
    BY DEF ChainOK, EditsAreLinear, UndoRestores, UndoesAnEdit
  <2>3. ChainOK(<<first>>)
    <3> DEFINE one == <<first>>
    <3>1. one \in Seq(StoredVersion) /\ \A v \in DOMAIN one : v = 1 /\ one[v] = first
      BY <2>1
    <3> HIDE DEF one
    <3>2. ChainOK(one)
      BY <2>1, <3>1 DEF ChainOK, EditsAreLinear, UndoRestores, UndoesAnEdit, Edits
    <3> QED
      BY <3>2 DEF one
  <2>4. PICK analysed : versions = [m \in Meetings |-> IF m \in analysed THEN <<first>> ELSE << >>]
    BY DEF WindowInit, first
  <2>5. \A m \in Meetings : ChainOK(versions[m])
    BY <2>2, <2>3, <2>4
  <2>6. versions = [m \in Meetings |-> versions[m]]
    BY <2>4
  <2>7. jobs \in Seq(WindowJob)
    BY DEF WindowInit
  <2> QED
    BY <1>2, <2>5, <2>6, <2>7 DEF BackendTyped
<1>6. \A r \in requests : RequestTyped(r) /\ RequestOK(r)
  BY DEF WindowInit
<1> QED
  BY <1>1, <1>3, <1>4, <1>5, <1>6 DEF WindowTyped

\* What the window and the service keep has its type; an answer is of the
\* kind its command asks for, and a chain of versions is linear.
THEOREM WindowIsTyped == WindowSpec => []WindowTyped
<1>1. WindowInit => WindowTyped
  BY WindowStarts
<1>2. WindowTyped /\ [WindowNext]_windowVars => WindowTyped'
  BY StepKinds, TypedStep
<1> QED
  BY <1>1, <1>2, PTL DEF WindowSpec

\* An edit of speaker labels is stored on top of the version it was drafted
\* from (ChainOK), and that is the version that was looked at.
LEMMA ChainsBuildOnLatest ==
    ASSUME WindowTyped
    PROVE  EditsBuildOnLatest
<1> SUFFICES ASSUME NEW m \in Meetings
             PROVE  /\ EditsAreLinear(versions[m]) /\ UndoRestores(versions[m])
                    /\ \A v \in DOMAIN versions[m] :
                         LET click == versions[m][v].click IN
                         click.meeting = m => click.version = versions[m][v].parent
  BY DEF EditsBuildOnLatest
<1>1. ChainOK(versions[m])
  BY DEF WindowTyped, BackendTyped
<1>2. NoClick.meeting # m
  BY RecordsAssumption DEF NoClick
<1> QED
  BY <1>1, <1>2 DEF ChainOK

\* However the edits, analyses and undos of several clicks interleave with the
\* answers, no edit of speaker labels is stored over one it has not seen.
THEOREM LabelsBuildOnLatest == WindowSpec => []EditsBuildOnLatest
  BY WindowIsTyped, ChainsBuildOnLatest, PTL

-----------------------------------------------------------------------------
(* The selected record.                                                     *)

\* A version that exists, or none.
Known(v) == v = NoVersion \/ (v.meeting \in Meetings /\ v.version \in 1..Len(versions[v.meeting]))

\* What is shown is of the selected record.
RecordParts ==
    record.selected # None =>
        /\ record.detail \in {None, record.selected} /\ record.preview \in {None, record.selected}
        /\ Of(record.latest, record.selected) /\ Of(record.shown, record.selected)
        /\ record.shown.version <= record.latest.version

\* A request that knows the current selection is about it.
OfSelected(r) ==
    r.kind \in RecordKinds /\ "detail" \in r.current /\ record.selected # None => r.meeting = record.selected

\* Only the last click of the speaker workspace has its number.
LastClick(r, s) ==
    r.kind \in SpeakerKinds /\ s.kind \in SpeakerKinds /\ "speaker" \in r.current /\ "speaker" \in s.current => r = s

VersionOK(r) ==
    r.kind = "version" =>
        /\ {"speaker", "detail"} \subseteq r.current => r.arg <= record.latest.version
        /\ r.step = "answered" => r.reply = [meeting |-> r.meeting, version |-> r.arg]

LabelsOK(r) ==
    r.kind \in LabelKinds /\ r.step = "answered" =>
        /\ r.reply = NoVersion \/ r.reply.meeting = r.meeting
        /\ Known(r.reply)
        /\ "speaker" \in r.current /\ r.reply.meeting = record.latest.meeting =>
               r.reply.version >= record.latest.version

RequestOfRecord(r) == OfSelected(r) /\ VersionOK(r) /\ LabelsOK(r)

RecordInv ==
    /\ Known(record.latest) /\ RecordParts
    /\ \A r, s \in requests : LastClick(r, s)
    /\ \A r \in requests : RequestOfRecord(r)

\* What exists stays.
LEMMA KnownStays ==
    ASSUME WindowTyped, BackendGrows, BackendTyped'
    PROVE  /\ \A v \in Mark : Known(v) => Known(v)'
           /\ \A v \in Mark, m \in Meetings : Of(v, m) => Of(v, m)'
<1>1. \A m \in Meetings : Len(versions[m]) \in Nat /\ Len(versions'[m]) \in Nat /\ Len(versions'[m]) >= Len(versions[m])
  BY DEF WindowTyped, BackendTyped, BackendGrows, ChainOK
<1>2. ASSUME NEW v \in Mark, Known(v) PROVE Known(v)'
  BY <1>1, <1>2 DEF Known, Mark
<1>3. ASSUME NEW v \in Mark, NEW m \in Meetings, Of(v, m) PROVE Of(v, m)'
  <2>1. v.meeting \in {None, m} /\ v.version \in Nat /\ v.version <= (IF v.meeting = None THEN 0 ELSE Len(versions[v.meeting]))
    BY <1>3 DEF Of, Mark
  <2>2. v.version <= (IF v.meeting = None THEN 0 ELSE Len(versions'[v.meeting]))
    <3>1. CASE v.meeting = None
      BY <2>1, <3>1
    <3>2. CASE v.meeting # None
      <4>1. v.meeting = m /\ v.version <= Len(versions[m])
        BY <2>1, <3>2
      <4>2. Len(versions[m]) \in Nat /\ Len(versions'[m]) \in Nat /\ Len(versions'[m]) >= Len(versions[m])
        BY <1>1
      <4>3. v.version <= Len(versions'[m])
        BY <2>1, <4>1, <4>2
      <4> QED
        BY <3>2, <4>1, <4>3
    <3> QED
      BY <3>1, <3>2
  <2> QED
    BY <2>1, <2>2 DEF Of
<1> QED
  BY <1>2, <1>3

\* Every step lets what is stored grow.
LEMMA StepGrows ==
    ASSUME WindowTyped, WindowStep
    PROVE  BackendTyped' /\ BackendGrows
<1>1. BackendTyped
  BY DEF WindowTyped
<1>2. CASE UNCHANGED backend
  BY <1>1, <1>2, BackendStays
<1>3. CASE Works
  BY <1>3 DEF Works
<1>4. ASSUME NEW r \in requests, NEW q, Serves(r, q) PROVE BackendTyped' /\ BackendGrows
  BY <1>4 DEF Serves
<1>5. OpensRecord \/ AsksPlainly \/ AsksSpeakers \/ AsksSummary \/ TimerFires => UNCHANGED backend
  BY DEF OpensRecord, AsksPlainly, AsksSpeakers, AsksSummary, TimerFires
<1>6. ASSUME NEW r, Arrived(r) PROVE UNCHANGED backend
  <2>1. Drops(r) \/ Notes(r) \/ ShowsDetail(r) \/ ShowsLabels(r) \/ AsksLabels(r) => UNCHANGED backend
    BY DEF Drops, Notes, ShowsDetail, ShowsLabels, AsksLabels
  <2>2. EndsCommand(r) \/ ShowsStatus(r) \/ ShowsSnapshot(r) => UNCHANGED backend
    BY DEF EndsCommand, ShowsStatus, ShowsSnapshot
  <2> QED
    BY <1>6, <2>1, <2>2 DEF Arrived
<1> QED
  BY <1>2, <1>3, <1>4, <1>5, <1>6 DEF WindowStep

\* What shows of the record stays as it is.
LEMMA PartsStay ==
    ASSUME WindowTyped, RecordInv, BackendGrows, BackendTyped', record' = record
    PROVE  Known(record.latest)' /\ RecordParts'
<1>1. record.latest \in Mark /\ record.shown \in Mark /\ (record.selected # None => record.selected \in Meetings)
  BY DEF WindowTyped, RecordTyped, Records, MeetingOrNone
<1>2. Known(record.latest)'
  BY <1>1, KnownStays DEF RecordInv, Known
<1>3. ASSUME record.selected # None
      PROVE  Of(record.latest, record.selected)' /\ Of(record.shown, record.selected)'
  <2>1. Of(record.latest, record.selected) /\ Of(record.shown, record.selected)
    BY <1>3 DEF RecordInv, RecordParts
  <2> QED
    BY <1>1, <1>3, <2>1, KnownStays DEF Of
<1> QED
  BY <1>2, <1>3 DEF RecordParts, RecordInv

\* Requests that are left, and new ones.
Ages(lost, new) == lost \in Losses /\ requests' \subseteq Weakened(requests, lost) \cup new

\* A request that grows old still fits.
LEMMA WeakenedFits ==
    ASSUME WindowTyped, BackendGrows, BackendTyped', NEW r \in requests, RequestOfRecord(r), NEW lost \in Losses,
           record'.selected = record.selected, record'.latest = record.latest
    PROVE  RequestOfRecord(Weaken(r, lost))'
<1> DEFINE w == Weaken(r, lost)
<1>1. /\ w.kind = r.kind /\ w.meeting = r.meeting /\ w.arg = r.arg /\ w.step = r.step /\ w.reply = r.reply
      /\ w.current \subseteq r.current
  BY WeakenFacts DEF WindowTyped
<1> HIDE DEF w
<1>2. r.kind \in LabelKinds /\ r.step = "answered" => r.reply \in Mark
  BY DEF WindowTyped, RequestOK
<1>3. OfSelected(w)'
  BY <1>1 DEF OfSelected, RequestOfRecord
<1>4. VersionOK(w)'
  BY <1>1 DEF VersionOK, RequestOfRecord
<1>5. LabelsOK(w)'
  <2>1. SUFFICES ASSUME r.kind \in LabelKinds, r.step = "answered"
                 PROVE  /\ w.reply = NoVersion \/ w.reply.meeting = w.meeting
                        /\ Known(w.reply)'
                        /\ "speaker" \in w.current /\ w.reply.meeting = record.latest.meeting =>
                             w.reply.version >= record.latest.version
    BY <1>1 DEF LabelsOK
  <2>2. r.reply \in Mark /\ Known(r.reply)
    BY <1>2, <2>1 DEF RequestOfRecord, LabelsOK
  <2>3. Known(w.reply)'
    BY <1>1, <2>2, KnownStays
  <2>4. /\ w.reply = NoVersion \/ w.reply.meeting = w.meeting
        /\ "speaker" \in w.current /\ w.reply.meeting = record.latest.meeting =>
             w.reply.version >= record.latest.version
    BY <1>1, <2>1 DEF RequestOfRecord, LabelsOK
  <2> QED
    BY <2>3, <2>4
<1> QED
  BY <1>3, <1>4, <1>5 DEF RequestOfRecord, w

\* The last click stays the last one.
LEMMA ClicksAge ==
    ASSUME WindowTyped, RecordInv, NEW lost, NEW new, Ages(lost, new),
           \A q \in new : q.kind \in SpeakerKinds =>
               new = {q} /\ \A m \in MeetingOrNone : "speaker" \in lost[m]
    PROVE  \A r, s \in requests' : LastClick(r, s)
<1>1. ASSUME NEW r \in requests
      PROVE  LET w == Weaken(r, lost) IN
             w.kind = r.kind /\ w.meeting \in MeetingOrNone /\ w.current = r.current \ lost[w.meeting]
  BY <1>1, WeakenFacts DEF WindowTyped, Ages, RequestTyped
<1> SUFFICES ASSUME NEW r \in requests', NEW s \in requests',
                    r.kind \in SpeakerKinds, s.kind \in SpeakerKinds, "speaker" \in r.current, "speaker" \in s.current
             PROVE  r = s
  BY DEF LastClick
<1>2. CASE r \in new \/ s \in new
  <2>1. \A m \in MeetingOrNone : "speaker" \in lost[m]
    BY <1>2
  <2>2. ASSUME NEW p \in requests PROVE "speaker" \notin Weaken(p, lost).current
    BY <1>1, <2>1, <2>2
  <2>3. r \notin Weakened(requests, lost) /\ s \notin Weakened(requests, lost)
    BY <2>2 DEF Weakened
  <2> QED
    BY <2>3 DEF Ages
<1>3. CASE r \notin new /\ s \notin new
  <2>1. PICK p \in requests, q \in requests : r = Weaken(p, lost) /\ s = Weaken(q, lost)
    BY <1>3 DEF Ages, Weakened
  <2>2. p.kind \in SpeakerKinds /\ q.kind \in SpeakerKinds /\ "speaker" \in p.current /\ "speaker" \in q.current
    BY <1>1, <2>1
  <2> QED
    BY <2>1, <2>2 DEF RecordInv, LastClick
<1> QED
  BY <1>2, <1>3

\* What is new of a request about the selected record.
Asked(q) == q.step = "sent" /\ OfSelected(q) /\ (q.kind = "version" => q.arg <= record.latest.version)

\* Steps that leave the selection and the latest version alone.
LEMMA RequestsFit ==
    ASSUME WindowTyped, RecordInv, BackendGrows, BackendTyped', NEW lost, NEW new, Ages(lost, new),
           record'.selected = record.selected, record'.latest = record.latest,
           \A q \in new : /\ Asked(q)
                          /\ q.kind \in SpeakerKinds => new = {q} /\ \A m \in MeetingOrNone : "speaker" \in lost[m]
    PROVE  /\ \A r, s \in requests' : LastClick(r, s)
           /\ \A r \in requests' : RequestOfRecord(r)'
<1>1. \A r, s \in requests' : LastClick(r, s)
  BY ClicksAge
<1>2. ASSUME NEW r \in requests PROVE RequestOfRecord(Weaken(r, lost))'
  BY <1>2, WeakenedFits DEF RecordInv, Ages
<1>3. ASSUME NEW q \in new PROVE RequestOfRecord(q)'
  BY <1>3 DEF Asked, RequestOfRecord, OfSelected, VersionOK, LabelsOK
<1>4. ASSUME NEW r \in requests' PROVE RequestOfRecord(r)'
  <2>1. CASE r \in new
    BY <1>3, <2>1
  <2>2. CASE r \notin new
    <3>1. PICK p \in requests : r = Weaken(p, lost)
      BY <2>2 DEF Ages, Weakened
    <3> QED
      BY <1>2, <3>1
  <2> QED
    BY <2>1, <2>2
<1> QED
  BY <1>1, <1>4

\* Requests that are left, whatever the poll does.
LEMMA RepollsAge ==
    ASSUME WindowTyped, NEW r \in requests, NEW sum, NEW again, Repolls(sum, r, again)
    PROVE  \E lost : /\ Ages(lost, {})
                     /\ \A m \in MeetingOrNone : "summary" \notin lost[m] /\ (again => "poll" \in lost[m])
<1>1. /\ Losing({}) \in Losses /\ Losing({"poll"}) \in Losses
      /\ \A m \in MeetingOrNone : Losing({})[m] = {} /\ Losing({"poll"})[m] = {"poll"}
  BY LossesFacts DEF Counters
<1>2. requests \ {r} \subseteq requests /\ requests = Weakened(requests, Losing({}))
  BY WeakenNothing DEF WindowTyped
<1>3. Weakened(requests \ {r}, Losing({"poll"})) \subseteq Weakened(requests, Losing({"poll"}))
  BY DEF Weakened
<1> QED
  BY <1>1, <1>2, <1>3 DEF Repolls, Ages

\* What shows of the record may go on; its latest version does not go back.
RecordGoesOn ==
    RecordInv' /\ (record'.latest.meeting = record.latest.meeting => record'.latest.version >= record.latest.version)

\* Steps that leave the record alone.
LEMMA RecordStays ==
    ASSUME WindowTyped, RecordInv, BackendGrows, BackendTyped', record' = record, NEW lost, NEW new, Ages(lost, new),
           \A q \in new : /\ Asked(q)
                          /\ q.kind \in SpeakerKinds => new = {q} /\ \A m \in MeetingOrNone : "speaker" \in lost[m]
    PROVE  RecordGoesOn
<1>1. /\ \A r, s \in requests' : LastClick(r, s)
      /\ \A r \in requests' : RequestOfRecord(r)'
  BY RequestsFit
<1>2. Known(record.latest)' /\ RecordParts'
  BY PartsStay
<1>3. record.latest.version \in Nat
  BY DEF WindowTyped, RecordTyped, Records, Mark
<1> QED
  BY <1>1, <1>2, <1>3 DEF RecordGoesOn, RecordInv, LastClick

\* What is asked for now is of the selected record.
LEMMA AsksOfSelected ==
    ASSUME WindowTyped, NEW q, q.kind \in RecordKinds => q.meeting \in Meetings /\ q.meeting = Here
    PROVE  OfSelected(q)
  BY RecordsAssumption DEF OfSelected, Here, Selected, None

\* Clicks and timers.
LEMMA AsksOfRecord ==
    ASSUME WindowTyped, RecordInv, BackendGrows, BackendTyped', AsksPlainly \/ AsksSpeakers \/ AsksSummary \/ TimerFires
    PROVE  RecordGoesOn
<1>1. Losing({}) \in Losses /\ Losing({"speaker"}) \in Losses /\ \A m \in Meetings : LosingSummary(m) \in Losses
  BY LossesFacts DEF Counters
<1>2. requests = Weakened(requests, Losing({}))
  BY WeakenNothing DEF WindowTyped
<1>3. \A kind, m, arg : LET q == Request(kind, m, arg) IN q.kind = kind /\ q.meeting = m /\ q.step = "sent"
  BY DEF Request
<1>4. {"restore", "begin", "stop", "open", "poll", "start", "cancel", "status"} \cap RecordKinds = {}
      /\ {"tags", "preview", "restore", "begin", "stop", "open", "poll", "start", "cancel", "status"} \cap SpeakerKinds = {}
      /\ "version" \in SpeakerKinds
  BY DEF RecordKinds, SpeakerKinds, LabelKinds, Edits
<1>5. ASSUME NEW kind, NEW m, NEW arg, NEW lost \in Losses, kind \notin SpeakerKinds,
             kind \in RecordKinds => m \in Meetings /\ m = Here,
             requests' \subseteq Weakened(requests, lost) \cup {Request(kind, m, arg)}, record' = record
      PROVE  RecordGoesOn
  <2>1. OfSelected(Request(kind, m, arg))
    BY <1>3, <1>5, AsksOfSelected
  <2>2. Asked(Request(kind, m, arg)) /\ Request(kind, m, arg).kind \notin SpeakerKinds
    BY <1>3, <1>4, <1>5, <2>1 DEF Asked
  <2>3. Ages(lost, {Request(kind, m, arg)})
    BY <1>5 DEF Ages
  <2> QED
    BY <1>5, <2>2, <2>3, RecordStays
<1>6. CASE AsksPlainly
  <2>1. PICK kind \in {"tags", "preview", "restore", "begin", "stop", "open"}, m \in MeetingOrNone :
          /\ kind \in {"tags", "preview"} => m \in Meetings /\ m = Here
          /\ requests' = requests \cup {Request(kind, m, 0)} /\ record' = record
    BY <1>6 DEF AsksPlainly
  <2> QED
    BY <1>1, <1>2, <1>4, <1>5, <2>1
<1>7. CASE AsksSpeakers
  <2>1. PICK q : /\ SpeakerAsk(q)
                 /\ requests' = Weakened(requests, Losing({"speaker"})) \cup {q} /\ record' = record
    BY <1>7 DEF AsksSpeakers
  <2>2. q.meeting \in Meetings /\ q.meeting = Here
    BY <2>1 DEF SpeakerAsk, RequestTyped, RecordKinds
  <2>3. OfSelected(q)
    BY <2>2, AsksOfSelected
  <2>4. Asked(q)
    BY <2>1, <2>3 DEF SpeakerAsk, Asked
  <2>5. \A m \in MeetingOrNone : "speaker" \in Losing({"speaker"})[m]
    BY DEF Losing
  <2>6. Ages(Losing({"speaker"}), {q})
    BY <1>1, <2>1 DEF Ages
  <2> QED
    BY <2>1, <2>4, <2>5, <2>6, RecordStays
<1>8. CASE AsksSummary
  <2>1. PICK kind \in CommandKinds, arg \in Nat :
          /\ Here \in Meetings \ summary.pending
          /\ requests' = Weakened(requests, LosingSummary(Here)) \cup {Request(kind, Here, arg)} /\ record' = record
    BY <1>8 DEF AsksSummary
  <2> QED
    BY <1>1, <1>4, <1>5, <2>1 DEF CommandKinds
<1>9. CASE TimerFires
  <2>1. PICK kind \in {"status", "poll"} :
          \E m, arg : requests' = requests \cup {Request(kind, m, arg)} /\ record' = record
    BY <1>9 DEF TimerFires
  <2>2. PICK m, arg : requests' = requests \cup {Request(kind, m, arg)} /\ record' = record
    BY <2>1
  <2> QED
    BY <1>1, <1>2, <1>4, <1>5, <2>2
<1> QED
  BY <1>6, <1>7, <1>8, <1>9

\* A record that is opened.
LEMMA OpensFreshRecord ==
    ASSUME WindowTyped, RecordInv, BackendGrows, BackendTyped', OpensRecord
    PROVE  RecordGoesOn
<1> DEFINE lost == Losing({"detail", "poll"})
<1>1. PICK m \in Meetings : record' = Cleared(m) /\ requests' = Weakened(requests, lost) \cup {Request("detail", m, 0)}
  BY DEF OpensRecord
<1>2. lost \in Losses /\ \A x \in MeetingOrNone : lost[x] = {"detail", "poll"}
  BY LossesFacts DEF Counters
<1>3. /\ record'.selected = m /\ record'.detail = None /\ record'.preview = None
      /\ record'.latest = NoVersion /\ record'.shown = NoVersion
  BY <1>1 DEF Cleared, NoDetail
<1>4. LET q == Request("detail", m, 0) IN q.kind = "detail" /\ q.meeting = m /\ q.step = "sent" /\ "detail" \notin SpeakerKinds
  BY DEF Request, SpeakerKinds, LabelKinds, Edits
<1> HIDE DEF lost
<1>5. \A r, s \in requests' : LastClick(r, s)
  <2>1. Ages(lost, {Request("detail", m, 0)})
    BY <1>1, <1>2 DEF Ages
  <2> QED
    BY <1>4, <2>1, ClicksAge
<1>6. ASSUME NEW r \in requests PROVE RequestOfRecord(Weaken(r, lost))'
  <2> DEFINE w == Weaken(r, lost)
  <2>1. /\ w.kind = r.kind /\ w.meeting = r.meeting /\ w.arg = r.arg /\ w.step = r.step /\ w.reply = r.reply
        /\ "detail" \notin w.current
    BY <1>2, WeakenFacts DEF WindowTyped, RequestTyped
  <2> HIDE DEF w
  <2>2. r.kind \in LabelKinds /\ r.step = "answered" => r.reply \in Mark /\ r.reply.version \in Nat
    BY DEF WindowTyped, RequestOK, Mark
  <2>3. RequestOfRecord(r)
    BY DEF RecordInv
  <2>4. OfSelected(w)' /\ VersionOK(w)'
    BY <2>1, <2>3 DEF OfSelected, VersionOK, RequestOfRecord
  <2>5. LabelsOK(w)'
    <3>1. SUFFICES ASSUME r.kind \in LabelKinds, r.step = "answered"
                   PROVE  /\ w.reply = NoVersion \/ w.reply.meeting = w.meeting
                          /\ Known(w.reply)'
                          /\ w.reply.version >= 0
      BY <1>3, <2>1 DEF LabelsOK, NoVersion
    <3>2. r.reply \in Mark /\ Known(r.reply)
      BY <2>2, <2>3, <3>1 DEF RequestOfRecord, LabelsOK
    <3>3. Known(w.reply)'
      BY <2>1, <3>2, KnownStays
    <3> QED
      BY <2>1, <2>2, <2>3, <3>1, <3>3 DEF RequestOfRecord, LabelsOK
  <2> QED
    BY <2>4, <2>5 DEF RequestOfRecord, w
<1>7. RequestOfRecord(Request("detail", m, 0))'
  BY <1>3, <1>4 DEF RequestOfRecord, OfSelected, VersionOK, LabelsOK, LabelKinds, Edits
<1>8. \A r \in requests' : RequestOfRecord(r)'
  BY <1>1, <1>6, <1>7 DEF Weakened
<1>9. Known(record.latest)' /\ RecordParts'
  BY <1>3 DEF Known, RecordParts, Of, NoVersion
<1>10. record'.latest.meeting = record.latest.meeting => record'.latest.version >= record.latest.version
  <2>1. record.latest.meeting = None => record.latest.version = 0
    BY RecordsAssumption DEF RecordInv, Known, NoVersion, None
  <2> QED
    BY <1>3, <2>1 DEF NoVersion
<1> QED
  BY <1>5, <1>8, <1>9, <1>10 DEF RecordGoesOn, RecordInv, LastClick

\* What the selection tells of a request that is still about it.
LEMMA StillFacts ==
    ASSUME WindowTyped, NEW r \in requests, StillSelected(r), r.meeting \in Meetings
    PROVE  "detail" \in r.current /\ (record.selected # None => r.meeting = record.selected)
  BY RecordsAssumption DEF StillSelected, IsCurrent, Here, Selected, None

\* Answers that leave the record as it is, or show the detail, the tags or a preview of it.
LEMMA NotesOfRecord ==
    ASSUME WindowTyped, RecordInv, BackendGrows, BackendTyped', NEW r \in requests,
           \/ Drops(r) \/ Notes(r) \/ ShowsDetail(r)
           \/ EndsCommand(r) \/ ShowsStatus(r) \/ ShowsSnapshot(r)
    PROVE  RecordGoesOn
<1>1. Losing({}) \in Losses /\ Losing({"speaker", "poll"}) \in Losses
  BY LossesFacts DEF Counters
<1>2. requests \ {r} \subseteq requests /\ requests = Weakened(requests, Losing({}))
  BY WeakenNothing DEF WindowTyped
<1>3. record \in Records /\ record.latest.version \in Nat
  BY DEF WindowTyped, RecordTyped, Records, Mark
<1>4. r.kind \in RecordKinds => r.meeting \in Meetings
  BY DEF WindowTyped, RequestTyped
<1>5. ASSUME NEW lost, NEW new, Ages(lost, new),
             \A q \in new : /\ Asked(q)
                            /\ q.kind \in SpeakerKinds => new = {q} /\ \A m \in MeetingOrNone : "speaker" \in lost[m],
             record'.selected = record.selected, record'.latest = record.latest, record'.shown = record.shown,
             record.selected # None =>
                 record'.detail \in {None, record.selected} /\ record'.preview \in {None, record.selected}
      PROVE  RecordGoesOn
  <2>1. /\ \A p, s \in requests' : LastClick(p, s)
        /\ \A p \in requests' : RequestOfRecord(p)'
    BY <1>5, RequestsFit
  <2>2. record.latest \in Mark /\ record.shown \in Mark /\ (record.selected # None => record.selected \in Meetings)
    BY <1>3 DEF Records, MeetingOrNone
  <2>3. Known(record.latest)'
    BY <1>5, <2>2, KnownStays DEF RecordInv, Known
  <2>4. RecordParts'
    <3>1. ASSUME record.selected # None
          PROVE  Of(record.latest, record.selected)' /\ Of(record.shown, record.selected)'
      <4>1. Of(record.latest, record.selected) /\ Of(record.shown, record.selected)
        BY <3>1 DEF RecordInv, RecordParts
      <4> QED
        BY <1>5, <2>2, <3>1, <4>1, KnownStays DEF Of
    <3> QED
      BY <1>5, <3>1 DEF RecordParts, RecordInv
  <2> QED
    BY <1>3, <1>5, <2>1, <2>3, <2>4 DEF RecordGoesOn, RecordInv, LastClick
<1>6. ASSUME record' = record, NEW lost, Ages(lost, {}) PROVE RecordGoesOn
  BY <1>6, RecordStays
<1>8. requests' = requests \ {r} => Ages(Losing({}), {})
  BY <1>1, <1>2 DEF Ages
<1>9. CASE Drops(r)
  BY <1>6, <1>8, <1>9 DEF Drops
<1>10. CASE EndsCommand(r) \/ ShowsStatus(r) \/ ShowsSnapshot(r)
  <2>1. PICK sum, again : Repolls(sum, r, again) /\ record' = record
    BY <1>10 DEF EndsCommand, ShowsStatus, ShowsSnapshot
  <2> QED
    BY <1>6, <2>1, RepollsAge
<1>11. CASE Notes(r)
  <2>1. /\ record'.selected = record.selected /\ record'.latest = record.latest /\ record'.shown = record.shown
        /\ record'.detail = record.detail \/ (record'.detail = r.meeting /\ StillSelected(r) /\ r.kind \in RecordKinds)
        /\ record'.preview \in {None, record.preview} \/ (record'.preview = r.meeting /\ StillSelected(r) /\ r.kind \in RecordKinds)
    BY <1>3, <1>11 DEF Notes, Records, RecordKinds
  <2>2. record.selected # None =>
          record'.detail \in {None, record.selected} /\ record'.preview \in {None, record.selected}
    BY <1>4, <2>1, StillFacts DEF RecordInv, RecordParts
  <2> QED
    BY <1>5, <1>8, <1>11, <2>1, <2>2 DEF Notes
<1>12. CASE ShowsDetail(r)
  <2> DEFINE q == Request("latest", r.meeting, 0)
             lost == Losing({"speaker", "poll"})
  <2>1. /\ record'.selected = record.selected /\ record'.latest = record.latest /\ record'.shown = record.shown
        /\ record'.detail = r.meeting /\ record'.preview = record.preview
    BY <1>3, <1>12 DEF ShowsDetail, Records
  <2>2. record.selected # None => r.meeting = record.selected
    BY <1>12 DEF ShowsDetail, RecordInv, RequestOfRecord, OfSelected, RecordKinds
  <2>3. Weakened(requests \ {r}, lost) \subseteq Weakened(requests, lost)
    BY DEF Weakened
  <2>4. Ages(lost, {q})
    BY <1>1, <1>12, <2>3 DEF Ages, ShowsDetail
  <2>5. \A m \in MeetingOrNone : "speaker" \in lost[m]
    BY DEF Losing
  <2>6. q.kind = "latest" /\ q.meeting = r.meeting /\ q.step = "sent"
    BY DEF Request
  <2> HIDE DEF q, lost
  <2>7. Asked(q)
    BY <2>2, <2>6 DEF Asked, OfSelected
  <2> QED
    BY <1>5, <2>1, <2>2, <2>4, <2>5, <2>7 DEF RecordInv, RecordParts
<1> QED
  BY <1>9, <1>10, <1>11, <1>12

\* After an analysis its labels are asked for, under its number.
LEMMA LabelsOfAnalysis ==
    ASSUME WindowTyped, RecordInv, BackendGrows, BackendTyped', NEW r \in requests, AsksLabels(r)
    PROVE  RecordGoesOn
<1> DEFINE ask == Request("latest", r.meeting, 0)
           q == [ask EXCEPT !.current = r.current]
<1>1. /\ r.kind = "diarize" /\ r.kind \in SpeakerKinds /\ r.kind \in RecordKinds /\ "speaker" \in r.current
      /\ requests' = (requests \ {r}) \cup {q} /\ record' = record
  BY DEF AsksLabels, SpeakerKinds, RecordKinds, AnswersLastClick, IsCurrent
<1>2. q.kind = "latest" /\ q.meeting = r.meeting /\ q.step = "sent" /\ q.current = r.current
  BY DEF Request
<1> HIDE DEF q
<1>3. Known(record.latest)' /\ RecordParts'
  BY <1>1, PartsStay
<1>4. RequestOfRecord(q)'
  <2>1. RequestOfRecord(r)
    BY DEF RecordInv
  <2> QED
    BY <1>1, <1>2, <2>1 DEF RequestOfRecord, OfSelected, VersionOK, LabelsOK, RecordKinds, SpeakerKinds, LabelKinds
<1>5. ASSUME NEW s \in requests \ {r}
      PROVE  RequestOfRecord(s)' /\ ~(s.kind \in SpeakerKinds /\ "speaker" \in s.current)
  <2>1. Weaken(s, Losing({})) = s
    BY DEF Weaken, Losing, WindowTyped, RequestTyped
  <2>2. Losing({}) \in Losses
    BY LossesFacts DEF Counters
  <2>3. RequestOfRecord(s)'
    BY <1>1, <2>1, <2>2, WeakenedFits DEF RecordInv
  <2> QED
    BY <1>1, <2>3 DEF RecordInv, LastClick
<1>6. \A p, s \in requests' : LastClick(p, s)
  BY <1>1, <1>5 DEF LastClick
<1>7. \A s \in requests' : RequestOfRecord(s)'
  BY <1>1, <1>4, <1>5
<1>8. record.latest.version \in Nat
  BY DEF WindowTyped, RecordTyped, Records, Mark
<1> QED
  BY <1>1, <1>3, <1>6, <1>7, <1>8 DEF RecordGoesOn, RecordInv, LastClick

\* Labels that are shown: no earlier than the ones before, and no other answer has the number of the click.
LEMMA LabelsOfRecord ==
    ASSUME WindowTyped, RecordInv, BackendGrows, BackendTyped', NEW r \in requests, ShowsLabels(r)
    PROVE  RecordGoesOn
<1>1. /\ r.kind \in LabelKinds \cup {"version"} /\ r.kind \in SpeakerKinds /\ r.kind \in RecordKinds /\ r.step = "answered"
      /\ "speaker" \in r.current /\ "detail" \in r.current /\ StillSelected(r)
      /\ requests' = requests \ {r}
  BY DEF ShowsLabels, SpeakerKinds, RecordKinds, AnswersLastClick, StillSelected, IsCurrent
<1>2. r.meeting \in Meetings /\ r.reply \in Mark /\ r.arg \in Nat
  BY <1>1 DEF WindowTyped, RequestTyped, RequestOK
<1>3. record \in Records /\ record.latest \in Mark
  BY DEF WindowTyped, RecordTyped, Records
<1>4. /\ record'.selected = record.selected /\ record'.detail = record.detail /\ record'.preview = record.preview
      /\ record'.shown = r.reply
      /\ record'.latest = IF r.kind = "version" THEN record.latest ELSE r.reply
  <2>1. CASE r.kind = "version"
    BY <1>3, <2>1 DEF ShowsLabels, Records
  <2>2. CASE r.kind # "version"
    <3> DEFINE shown == [record EXCEPT !.shown = r.reply]
    <3>1. /\ shown \in Records /\ shown.selected = record.selected /\ shown.detail = record.detail
          /\ shown.preview = record.preview /\ shown.shown = r.reply
      BY <1>2, <1>3 DEF Records
    <3>2. record' = [shown EXCEPT !.latest = r.reply]
      BY <2>2 DEF ShowsLabels
    <3> HIDE DEF shown
    <3> QED
      BY <2>2, <3>1, <3>2 DEF Records
  <2> QED
    BY <2>1, <2>2
<1>5. RequestOfRecord(r)
  BY DEF RecordInv
<1>6. record.selected # None => r.meeting = record.selected /\ record.selected \in Meetings
  BY <1>1, <1>2, StillFacts
<1>7. CASE r.kind = "version"
  <2>1. r.reply = [meeting |-> r.meeting, version |-> r.arg] /\ r.arg <= record.latest.version
    BY <1>1, <1>5, <1>7 DEF RequestOfRecord, VersionOK
  <2>2. Known(record.latest)'
    BY <1>3, <1>4, <1>7, KnownStays DEF RecordInv, Known
  <2>3. record.selected # None => Of(record.latest, record.selected) /\ Of(r.reply, record.selected)
    <3>1. SUFFICES ASSUME record.selected # None
                   PROVE  Of(record.latest, record.selected) /\ Of(r.reply, record.selected)
      OBVIOUS
    <3>2. r.meeting = record.selected /\ r.meeting # None /\ Of(record.latest, record.selected)
      BY <1>6, <3>1 DEF RecordInv, RecordParts
    <3>3. record.latest.meeting \in {None, r.meeting} /\ record.latest.version \in Nat
      BY <1>3, <3>2 DEF Of, Mark
    <3>4. Len(versions[r.meeting]) \in Nat
      BY <1>2 DEF WindowTyped, BackendTyped, ChainOK
    <3>5. record.latest.version <= Len(versions[r.meeting])
      BY <3>2, <3>3, <3>4 DEF Of
    <3>6. r.arg <= Len(versions[r.meeting])
      BY <1>2, <2>1, <3>3, <3>4, <3>5
    <3> QED
      BY <2>1, <3>2, <3>6 DEF Of
  <2>4. record.selected # None => Of(record.latest, record.selected)' /\ Of(r.reply, record.selected)'
    BY <1>2, <1>3, <1>4, <1>6, <1>7, <2>3, KnownStays DEF Of
  <2>5. RecordParts'
    BY <1>4, <1>7, <2>1, <2>4 DEF RecordParts, RecordInv
  <2>6. \A s \in requests' : RequestOfRecord(s)'
    <3>1. ASSUME NEW s \in requests PROVE Weaken(s, Losing({})) = s
      BY <3>1 DEF Weaken, Losing, WindowTyped, RequestTyped
    <3>2. Losing({}) \in Losses
      BY LossesFacts DEF Counters
    <3>3. ASSUME NEW s \in requests PROVE RequestOfRecord(s)'
      BY <1>4, <1>7, <3>1, <3>2, <3>3, WeakenedFits DEF RecordInv
    <3> QED
      BY <1>1, <3>3
  <2>7. \A p, s \in requests' : LastClick(p, s)
    BY <1>1 DEF RecordInv
  <2>8. record.latest.version \in Nat
    BY <1>3 DEF Mark
  <2> QED
    BY <1>4, <1>7, <2>2, <2>5, <2>6, <2>7, <2>8 DEF RecordGoesOn, RecordInv, LastClick
<1>8. CASE r.kind # "version"
  <2>1. /\ r.reply = NoVersion \/ r.reply.meeting = r.meeting
        /\ Known(r.reply)
        /\ r.reply.meeting = record.latest.meeting => r.reply.version >= record.latest.version
    BY <1>1, <1>5, <1>8 DEF RequestOfRecord, LabelsOK
  <2>2. record'.latest = r.reply /\ record'.shown = r.reply
    BY <1>4, <1>8
  <2>3. Known(record.latest)'
    BY <1>2, <2>1, <2>2, KnownStays DEF Known
  <2>4. record.selected # None => Of(r.reply, record.selected)
    <3>1. SUFFICES ASSUME record.selected # None PROVE Of(r.reply, r.meeting)
      BY <1>6
    <3>2. CASE r.reply = NoVersion
      BY <3>2 DEF Of, NoVersion
    <3>3. CASE r.reply # NoVersion
      BY <1>2, <2>1, <3>3, RecordsAssumption DEF Of, Known, None
    <3> QED
      BY <3>2, <3>3
  <2>5. record.selected # None => Of(r.reply, record.selected)'
    BY <1>2, <1>4, <1>6, <2>4, KnownStays DEF Of
  <2>6. r.reply.version \in Nat
    BY <1>2 DEF Mark
  <2>7. RecordParts'
    BY <1>4, <2>2, <2>5, <2>6 DEF RecordParts, RecordInv
  <2>8. ASSUME NEW s \in requests \ {r} PROVE RequestOfRecord(s)'
    <3>1. RequestOfRecord(s) /\ ~(s.kind \in SpeakerKinds /\ "speaker" \in s.current)
      BY <1>1 DEF RecordInv, LastClick
    <3>2. s.kind \in LabelKinds \cup {"version"} => "speaker" \notin s.current
      BY <3>1 DEF SpeakerKinds
    <3>3. OfSelected(s)'
      BY <1>4, <3>1 DEF RequestOfRecord, OfSelected
    <3>4. VersionOK(s)'
      BY <3>1, <3>2 DEF RequestOfRecord, VersionOK
    <3>5. s.kind \in LabelKinds /\ s.step = "answered" => s.reply \in Mark
      BY DEF WindowTyped, RequestOK
    <3>6. s.kind \in LabelKinds /\ s.step = "answered" => Known(s.reply)'
      BY <3>1, <3>5, KnownStays DEF RequestOfRecord, LabelsOK
    <3>7. LabelsOK(s)'
      BY <3>1, <3>2, <3>6 DEF RequestOfRecord, LabelsOK
    <3> QED
      BY <3>3, <3>4, <3>7 DEF RequestOfRecord
  <2>9. \A p, s \in requests' : LastClick(p, s)
    BY <1>1 DEF RecordInv
  <2> QED
    BY <1>1, <2>1, <2>2, <2>3, <2>7, <2>8, <2>9 DEF RecordGoesOn, RecordInv, LastClick
<1> QED
  BY <1>7, <1>8

\* An answer of the service: the latest version it has is none that is older.
LEMMA ServesRecord ==
    ASSUME WindowTyped, RecordInv, NEW r \in requests, NEW q, r.step = "sent", Serves(r, q)
    PROVE  RecordGoesOn
<1>1. /\ requests' = (requests \ {r}) \cup {q} /\ record' = record
      /\ q.kind = r.kind /\ q.meeting = r.meeting /\ q.arg = r.arg /\ q.current = r.current
      /\ q.step = "answered" => ReplyOfVersions(q)
      /\ BackendTyped' /\ BackendGrows
  BY DEF Serves, Handled
<1>2. Known(record.latest)' /\ RecordParts'
  BY <1>1, PartsStay
<1>3. RequestOfRecord(r)
  BY DEF RecordInv
<1>4. OfSelected(q)' /\ VersionOK(q)'
  BY <1>1, <1>3 DEF RequestOfRecord, OfSelected, VersionOK, ReplyOfVersions
<1>5. LabelsOK(q)'
  <2>1. SUFFICES ASSUME q.kind \in LabelKinds, q.step = "answered"
                 PROVE  /\ q.reply = NoVersion \/ q.reply.meeting = q.meeting
                        /\ Known(q.reply)'
                        /\ q.reply.meeting = record.latest.meeting => q.reply.version >= record.latest.version
    BY <1>1 DEF LabelsOK
  <2>2. q.meeting \in Meetings
    BY <1>1, <2>1 DEF WindowTyped, RequestTyped, RecordKinds, SpeakerKinds
  <2>3. Known(record.latest) /\ record.latest.version \in Nat
    BY DEF RecordInv, WindowTyped, RecordTyped, Records, Mark
  <2>4. CASE q.reply = NoVersion
    <3>1. record.latest.meeting = None => record.latest.version = 0
      BY <2>3, RecordsAssumption DEF Known, NoVersion, None
    <3> QED
      BY <2>4, <3>1 DEF Known, NoVersion
  <2>5. CASE q.reply = [meeting |-> q.meeting, version |-> Len(versions'[q.meeting])] /\ q.reply.version >= 1
    <3>1. /\ Len(versions[q.meeting]) \in Nat /\ Len(versions'[q.meeting]) \in Nat
          /\ Len(versions'[q.meeting]) >= Len(versions[q.meeting])
      BY <1>1, <2>2 DEF BackendTyped, BackendGrows, ChainOK, WindowTyped
    <3>2. q.reply.meeting = q.meeting /\ q.reply.version = Len(versions'[q.meeting])
      BY <2>5
    <3>3. Known(q.reply)'
      BY <2>2, <2>5, <3>1, <3>2 DEF Known
    <3>4. record.latest.meeting = q.meeting => record.latest.version <= Len(versions[q.meeting])
      BY <2>2, <2>3, <3>1, RecordsAssumption DEF Known, NoVersion, None
    <3> QED
      BY <2>3, <3>1, <3>2, <3>3, <3>4
  <2> QED
    BY <1>1, <2>1, <2>4, <2>5 DEF ReplyOfVersions
<1>6. ASSUME NEW s \in requests PROVE RequestOfRecord(s)'
  <2>1. Weaken(s, Losing({})) = s
    BY <1>6 DEF Weaken, Losing, WindowTyped, RequestTyped
  <2>2. Losing({}) \in Losses
    BY LossesFacts DEF Counters
  <2> QED
    BY <1>1, <1>6, <2>1, <2>2, WeakenedFits DEF RecordInv
<1>7. \A p, s \in requests' : LastClick(p, s)
  BY <1>1 DEF RecordInv, LastClick
<1>8. \A s \in requests' : RequestOfRecord(s)'
  BY <1>1, <1>4, <1>5, <1>6 DEF RequestOfRecord
<1>9. record.latest.version \in Nat
  BY DEF WindowTyped, RecordTyped, Records, Mark
<1> QED
  BY <1>1, <1>2, <1>7, <1>8, <1>9 DEF RecordGoesOn, RecordInv, LastClick

\* Every step.
LEMMA RecordStep ==
    ASSUME WindowTyped, RecordInv, WindowStep
    PROVE  RecordGoesOn
<1>1. BackendGrows /\ BackendTyped'
  BY StepGrows
<1>2. CASE OpensRecord
  BY <1>1, <1>2, OpensFreshRecord
<1>3. CASE AsksPlainly \/ AsksSpeakers \/ AsksSummary \/ TimerFires
  BY <1>1, <1>3, AsksOfRecord
<1>4. CASE Works
  <2>1. requests = Weakened(requests, Losing({})) /\ Losing({}) \in Losses
    BY WeakenNothing, LossesFacts DEF WindowTyped, Counters
  <2>2. Ages(Losing({}), {}) /\ record' = record
    BY <1>4, <2>1 DEF Ages, Works
  <2> QED
    BY <1>1, <2>2, RecordStays
<1>5. ASSUME NEW r \in requests, Arrived(r) PROVE RecordGoesOn
  <2>1. CASE Drops(r) \/ Notes(r) \/ ShowsDetail(r) \/ EndsCommand(r) \/ ShowsStatus(r) \/ ShowsSnapshot(r)
    BY <1>1, <2>1, NotesOfRecord
  <2>2. CASE ShowsLabels(r)
    BY <1>1, <2>2, LabelsOfRecord
  <2>3. CASE AsksLabels(r)
    BY <1>1, <2>3, LabelsOfAnalysis
  <2> QED
    BY <1>5, <2>1, <2>2, <2>3 DEF Arrived
<1>6. ASSUME NEW r \in requests, NEW q, r.step = "sent", Serves(r, q) PROVE RecordGoesOn
  BY <1>6, ServesRecord
<1> QED
  BY <1>2, <1>3, <1>4, <1>5, <1>6 DEF WindowStep

\* The window shows nothing at first.
LEMMA RecordStarts ==
    ASSUME WindowInit
    PROVE  RecordInv
  BY DEF WindowInit, NoDetail, NoVersion, None, RecordInv, Known, RecordParts

\* The invariant gives what is to be seen.
LEMMA RecordShows ==
    ASSUME WindowTyped, RecordInv
    PROVE  RecordIsConsistent
<1>1. live \in Snapshots /\ screen.latest \in Snapshots
  BY DEF WindowTyped, BackendTyped, ScreenTyped, Screens
<1>2. record.selected # None => Here \in {None, record.selected}
  BY DEF Here, Selected
<1> QED
  BY <1>1, <1>2 DEF RecordInv, RecordParts, RecordIsConsistent

\* The selection, the answers that know it and the number of the last click fit together.
THEOREM RecordHolds == WindowSpec => [](WindowTyped /\ RecordInv)
<1>1. WindowInit => WindowTyped /\ RecordInv
  BY WindowStarts, RecordStarts
<1>2. WindowTyped /\ RecordInv /\ [WindowNext]_windowVars => (WindowTyped /\ RecordInv)'
  BY StepKinds, TypedStep, RecordStep DEF RecordGoesOn
<1> QED
  BY <1>1, <1>2, PTL DEF WindowSpec

\* However late the answers of other selections and other clicks come, what is
\* shown around the selected record (detail, labels, preview) is of that record.
THEOREM RecordShown == WindowSpec => []RecordIsConsistent
  BY RecordHolds, RecordShows, PTL

\* The latest version known of the selected record never goes back.
THEOREM SpeakersForward == WindowSpec => SpeakersMoveForward
<1>1. WindowTyped /\ RecordInv /\ [WindowNext]_windowVars =>
        [/\ record'.selected = record.selected /\ record'.detail = record.detail
         /\ record'.latest.meeting = record.latest.meeting
         => record'.latest.version >= record.latest.version]_windowVars
  BY StepKinds, RecordStep DEF RecordGoesOn
<1> QED
  BY <1>1, RecordHolds, PTL DEF WindowSpec, SpeakersMoveForward

-----------------------------------------------------------------------------
(* The summaries.                                                           *)

\* A job of the meeting, no further than it is.
JobKnown(m, job) ==
    /\ job.id \in 1..Len(jobs) /\ jobs[job.id].meeting = m
    /\ job.step \in JobSteps /\ Rank(job.step) <= Rank(jobs[job.id].step)

JobShown(m, job) == job = NoJob \/ JobKnown(m, job)

\* A timer is of a job that is known, of a meeting without a command.
TimerOK(sum) == sum.timer # None => sum.timer \in Meetings \ sum.pending /\ sum.job[sum.timer].id # 0

\* A command keeps its number until its answer arrives.
CommandOK(r) == r.kind \in CommandKinds => r.meeting \in summary.pending /\ "summary" \in r.current

\* There is one command of a meeting at a time.
OneCommand(r, s) == r.kind \in CommandKinds /\ s.kind \in CommandKinds /\ r.meeting = s.meeting => r = s

StartOK(r) ==
    r.kind = "start" /\ r.step = "answered" =>
        JobKnown(r.meeting, r.reply) /\ r.reply.id > summary.job[r.meeting].id

CancelOK(r) ==
    r.kind = "cancel" =>
        /\ r.arg # 0 /\ r.arg = summary.job[r.meeting].id
        /\ r.step = "answered" => r.reply = [id |-> r.arg, step |-> "over"] /\ jobs[r.arg].step = "over"

\* A poll that counts is of a meeting without a command, and tells nothing old.
StatusOK(r) ==
    r.kind = "status" =>
        /\ r.arg \in 1..Len(jobs) /\ jobs[r.arg].meeting = r.meeting
        /\ {"poll", "summary"} \subseteq r.current => r.meeting \notin summary.pending
        /\ r.step = "answered" =>
             /\ r.reply.id = r.arg /\ JobKnown(r.meeting, r.reply)
             /\ {"poll", "summary"} \subseteq r.current /\ summary.job[r.meeting].id = r.arg =>
                    Rank(r.reply.step) >= Rank(summary.job[r.meeting].step)

RequestOfJob(r) == CommandOK(r) /\ StartOK(r) /\ CancelOK(r) /\ StatusOK(r)

SummaryInv ==
    /\ \A m \in Meetings : JobShown(m, summary.job[m])
    /\ TimerOK(summary)
    /\ \A r, s \in requests : OneCommand(r, s)
    /\ \A r \in requests : RequestOfJob(r)

\* What is known of a summary goes on.
SummaryForward ==
    \A m \in Meetings :
        LET before == summary.job[m]  after == summary'.job[m] IN
        /\ after.id >= before.id
        /\ after.id = before.id => Rank(after.step) >= Rank(before.step)
        /\ after.id # 0 => jobs[after.id].meeting = m

SummaryGoesOn == SummaryInv' /\ SummaryForward

\* The jobs, and what is known of them while they go on.
LEMMA JobFacts ==
    ASSUME WindowTyped
    PROVE  /\ Len(jobs) \in Nat
           /\ \A j \in 1..Len(jobs) : jobs[j].meeting \in Meetings /\ jobs[j].step \in JobSteps /\ Rank(jobs[j].step) \in 1..3
<1>1. jobs \in Seq(WindowJob)
  BY DEF WindowTyped, BackendTyped
<1>2. ASSUME NEW j \in 1..Len(jobs) PROVE jobs[j] \in WindowJob
  BY <1>1
<1>3. ASSUME NEW j \in 1..Len(jobs)
      PROVE  jobs[j].meeting \in Meetings /\ jobs[j].step \in JobSteps /\ Rank(jobs[j].step) \in 1..3
  <2>1. jobs[j].meeting \in Meetings /\ jobs[j].step \in JobSteps
    BY <1>2 DEF WindowJob
  <2> QED
    BY <2>1, RankFacts
<1> QED
  BY <1>1, <1>3

\* The jobs of the backend stay, and their number only grows.
LEMMA JobsGoOn ==
    ASSUME WindowTyped, BackendGrows, BackendTyped'
    PROVE  /\ Len(jobs') \in Nat /\ Len(jobs') >= Len(jobs)
           /\ \A j \in 1..Len(jobs) : /\ j \in 1..Len(jobs')
                                      /\ jobs'[j].meeting = jobs[j].meeting
                                      /\ jobs'[j].step \in JobSteps
                                      /\ Rank(jobs'[j].step) \in 1..3 /\ Rank(jobs'[j].step) >= Rank(jobs[j].step)
                                      /\ jobs[j].step = "over" => jobs'[j].step = "over"
<1>1. jobs' \in Seq(WindowJob) /\ Len(jobs') >= Len(jobs) /\ Len(jobs) \in Nat
  BY JobFacts DEF BackendTyped, BackendGrows
<1>2. Len(jobs') \in Nat
  BY <1>1
<1>3. ASSUME NEW j \in 1..Len(jobs)
      PROVE  /\ j \in 1..Len(jobs')
             /\ jobs'[j].meeting = jobs[j].meeting
             /\ jobs'[j].step \in JobSteps
             /\ Rank(jobs'[j].step) \in 1..3 /\ Rank(jobs'[j].step) >= Rank(jobs[j].step)
             /\ jobs[j].step = "over" => jobs'[j].step = "over"
  <2>1. j \in 1..Len(jobs')
    BY <1>1, <1>2
  <2>2. jobs'[j] \in WindowJob
    BY <1>1, <2>1
  <2>3. jobs'[j].step \in JobSteps
    BY <2>2 DEF WindowJob
  <2>4. Rank(jobs'[j].step) \in 1..3 /\ (Rank(jobs'[j].step) = 3 => jobs'[j].step = "over")
    BY <2>3, RankFacts
  <2>5. jobs'[j].meeting = jobs[j].meeting /\ Rank(jobs'[j].step) >= Rank(jobs[j].step)
    BY DEF BackendGrows
  <2>6. jobs[j].step = "over" => jobs'[j].step = "over"
    BY <2>4, <2>5, RankFacts
  <2> QED
    BY <2>1, <2>3, <2>4, <2>5, <2>6
<1> QED
  BY <1>1, <1>2, <1>3

\* What a client knows of a job stays true of it.
LEMMA JobKnownStays ==
    ASSUME WindowTyped, BackendGrows, BackendTyped', NEW m, NEW job, JobKnown(m, job)
    PROVE  JobKnown(m, job)'
<1>1. job.id \in 1..Len(jobs) /\ jobs[job.id].meeting = m /\ job.step \in JobSteps /\ Rank(job.step) <= Rank(jobs[job.id].step)
  BY DEF JobKnown
<1>2. /\ job.id \in 1..Len(jobs') /\ jobs'[job.id].meeting = m
      /\ Rank(jobs'[job.id].step) \in 1..3 /\ Rank(jobs'[job.id].step) >= Rank(jobs[job.id].step)
  BY <1>1, JobsGoOn
<1>3. Rank(jobs[job.id].step) \in 1..3 /\ Rank(job.step) \in 1..3
  BY <1>1, JobFacts, RankFacts
<1>4. Rank(job.step) <= Rank(jobs'[job.id].step)
  BY <1>1, <1>2, <1>3
<1> QED
  BY <1>1, <1>2, <1>4 DEF JobKnown

\* What is shown of a summary.
LEMMA JobShownFacts ==
    ASSUME WindowTyped, NEW m, NEW job, JobShown(m, job)
    PROVE  /\ job.id \in Nat /\ Rank(job.step) \in 0..3 /\ job.id <= Len(jobs)
           /\ job.id # 0 => JobKnown(m, job)
           /\ job.step \in Running => job.id # 0
<1>1. CASE job = NoJob
  <2>1. job.id = 0 /\ job.step = "none" /\ job.step \notin Running
    BY <1>1 DEF NoJob, Running
  <2> QED
    BY <2>1, RankFacts, JobFacts
<1>2. CASE JobKnown(m, job)
  BY <1>2, RankFacts, JobFacts DEF JobKnown
<1> QED
  BY <1>1, <1>2 DEF JobShown

\* A poll that is set is of a job that is known.
LEMMA PollTimer ==
    ASSUME WindowTyped, NEW sum, SummaryOK(sum), \A m \in Meetings : JobShown(m, sum.job[m]),
           NEW rec \in Records, NEW scr \in Screens
    PROVE  TimerOK(PollSet(rec, sum, scr))
<1> DEFINE p == PollSet(rec, sum, scr)
           m == Selected(rec, scr)
<1>1. m \in MeetingOrNone /\ (m # None => m \in Meetings)
  BY SelectedFacts
<1>2. /\ p.job = sum.job /\ p.pending = sum.pending
      /\ p.timer = IF m # None /\ sum.job[m].step \in Running /\ m \notin sum.pending THEN m ELSE None
  BY <1>1, PollSetFacts
<1> HIDE DEF p
<1>3. m # None /\ sum.job[m].step \in Running => sum.job[m].id # 0
  BY <1>1, JobShownFacts
<1> HIDE DEF m
<1>4. TimerOK(p)
  BY <1>1, <1>2, <1>3 DEF TimerOK
<1> QED
  BY <1>4 DEF p

\* A request that grows old still fits; commands and polls that count are of
\* meetings whose summary did not change meanwhile.
LEMMA JobRequestFits ==
    ASSUME WindowTyped, BackendGrows, BackendTyped', \A m \in Meetings : JobShown(m, summary.job[m]),
           NEW r \in requests, RequestOfJob(r), NEW lost \in Losses,
           r.kind \in CommandKinds => /\ r.meeting \in summary'.pending /\ "summary" \notin lost[r.meeting]
                                      /\ summary'.job[r.meeting] = summary.job[r.meeting],
           r.kind = "status" => \/ "poll" \in lost[r.meeting] \/ ~({"poll", "summary"} \subseteq r.current)
                                \/ /\ r.meeting \notin summary.pending => r.meeting \notin summary'.pending
                                   /\ summary'.job[r.meeting] = summary.job[r.meeting]
    PROVE  RequestOfJob(Weaken(r, lost))'
<1> DEFINE w == Weaken(r, lost)
<1>1. /\ w.kind = r.kind /\ w.meeting = r.meeting /\ w.arg = r.arg /\ w.step = r.step /\ w.reply = r.reply
      /\ w.current = r.current \ lost[r.meeting]
  BY WeakenFacts DEF WindowTyped
<1> HIDE DEF w
<1>2. CommandOK(w)'
  BY <1>1 DEF CommandOK, RequestOfJob
<1>3. StartOK(w)'
  <2>1. SUFFICES ASSUME r.kind = "start", r.step = "answered"
                 PROVE  JobKnown(r.meeting, r.reply)' /\ r.reply.id > summary'.job[r.meeting].id
    BY <1>1 DEF StartOK
  <2>2. JobKnown(r.meeting, r.reply) /\ r.reply.id > summary.job[r.meeting].id
    BY <2>1 DEF RequestOfJob, StartOK
  <2>3. summary'.job[r.meeting] = summary.job[r.meeting]
    BY <2>1 DEF CommandKinds
  <2> QED
    BY <2>2, <2>3, JobKnownStays
<1>4. CancelOK(w)'
  <2>1. SUFFICES ASSUME r.kind = "cancel"
                 PROVE  /\ r.arg # 0 /\ r.arg = summary'.job[r.meeting].id
                        /\ r.step = "answered" => r.reply = [id |-> r.arg, step |-> "over"] /\ jobs'[r.arg].step = "over"
    BY <1>1 DEF CancelOK
  <2>2. summary'.job[r.meeting] = summary.job[r.meeting]
    BY <2>1 DEF CommandKinds
  <2>3. /\ r.arg # 0 /\ r.arg = summary.job[r.meeting].id
        /\ r.step = "answered" => r.reply = [id |-> r.arg, step |-> "over"] /\ jobs[r.arg].step = "over"
    BY <2>1 DEF RequestOfJob, CancelOK
  <2>4. r.arg \in 1..Len(jobs) \/ r.step # "answered"
    <3>1. r.meeting \in Meetings
      BY <2>1 DEF WindowTyped, RequestTyped, JobKinds, CommandKinds
    <3>2. JobKnown(r.meeting, summary.job[r.meeting])
      BY <2>3, <3>1, JobShownFacts
    <3> QED
      BY <2>3, <3>2 DEF JobKnown
  <2> QED
    BY <2>2, <2>3, <2>4, JobsGoOn
<1>5. StatusOK(w)'
  <2>1. SUFFICES ASSUME r.kind = "status" PROVE StatusOK(w)'
    BY <1>1 DEF StatusOK
  <2>2. r.arg \in 1..Len(jobs) /\ jobs[r.arg].meeting = r.meeting
    BY <2>1 DEF RequestOfJob, StatusOK
  <2>3. r.arg \in 1..Len(jobs') /\ jobs'[r.arg].meeting = r.meeting
    BY <2>2, JobsGoOn
  <2>4. r.step = "answered" => r.reply.id = r.arg /\ JobKnown(r.meeting, r.reply)'
    BY <2>1, JobKnownStays DEF RequestOfJob, StatusOK
  <2>5. ASSUME {"poll", "summary"} \subseteq w.current
        PROVE  /\ r.meeting \notin summary'.pending
               /\ r.step = "answered" /\ summary'.job[r.meeting].id = r.arg =>
                    Rank(r.reply.step) >= Rank(summary'.job[r.meeting].step)
    <3>1. /\ {"poll", "summary"} \subseteq r.current /\ "poll" \notin lost[r.meeting]
      BY <1>1, <2>5
    <3>2. r.meeting \notin summary.pending
      BY <2>1, <3>1 DEF RequestOfJob, StatusOK
    <3>3. r.meeting \notin summary'.pending /\ summary'.job[r.meeting] = summary.job[r.meeting]
      BY <2>1, <3>1, <3>2
    <3>4. r.step = "answered" /\ summary.job[r.meeting].id = r.arg =>
             Rank(r.reply.step) >= Rank(summary.job[r.meeting].step)
      BY <2>1, <3>1 DEF RequestOfJob, StatusOK
    <3> QED
      BY <3>3, <3>4
  <2> QED
    BY <1>1, <2>3, <2>4, <2>5 DEF StatusOK
<1> QED
  BY <1>2, <1>3, <1>4, <1>5 DEF RequestOfJob, w

\* There is one command of a meeting after the others grew old, too.
LEMMA CommandsAge ==
    ASSUME WindowTyped, SummaryInv, NEW lost, NEW new, Ages(lost, new),
           \A q \in new : q.kind \in CommandKinds => new = {q} /\ q.meeting \notin summary.pending
    PROVE  \A r, s \in requests' : OneCommand(r, s)
<1>1. ASSUME NEW r \in requests
      PROVE  Weaken(r, lost).kind = r.kind /\ Weaken(r, lost).meeting = r.meeting
  BY <1>1, WeakenFacts DEF WindowTyped, Ages
<1>2. \A r \in requests : r.kind \in CommandKinds => r.meeting \in summary.pending
  BY DEF SummaryInv, RequestOfJob, CommandOK
<1>3. \A r, s \in requests : OneCommand(r, s)
  BY DEF SummaryInv
<1> SUFFICES ASSUME NEW r \in requests', NEW s \in requests',
                    r.kind \in CommandKinds, s.kind \in CommandKinds, r.meeting = s.meeting
             PROVE  r = s
  BY DEF OneCommand
<1>4. CASE r \in new /\ s \in new
  BY <1>4
<1>5. CASE r \notin new /\ s \notin new
  <2>1. PICK p \in requests, q \in requests : r = Weaken(p, lost) /\ s = Weaken(q, lost)
    BY <1>5 DEF Ages, Weakened
  <2>2. p = q
    BY <1>1, <1>3, <2>1 DEF OneCommand
  <2> QED
    BY <2>1, <2>2
<1>6. ASSUME NEW x \in requests', NEW y \in requests', x \in new, y \notin new,
             x.kind \in CommandKinds, y.kind \in CommandKinds, x.meeting = y.meeting
      PROVE  FALSE
  <2>1. PICK p \in requests : y = Weaken(p, lost)
    BY <1>6 DEF Ages, Weakened
  <2> QED
    BY <1>1, <1>2, <1>6, <2>1
<1> QED
  BY <1>4, <1>5, <1>6

\* Steps that tell nothing of a job.
LEMMA SummaryStays ==
    ASSUME WindowTyped, SummaryInv, BackendGrows, BackendTyped', NEW lost, NEW new, Ages(lost, new),
           summary'.job = summary.job, TimerOK(summary)', summary.pending \subseteq summary'.pending,
           \A m \in summary.pending : "summary" \notin lost[m],
           summary'.pending = summary.pending \/ \A m \in MeetingOrNone : "poll" \in lost[m],
           \A q \in new : /\ RequestOfJob(q)'
                          /\ q.kind \in CommandKinds => new = {q} /\ q.meeting \notin summary.pending
    PROVE  SummaryGoesOn
<1>1. \A r, s \in requests' : OneCommand(r, s)
  BY CommandsAge
<1>2. ASSUME NEW m \in Meetings
      PROVE  /\ JobShown(m, summary.job[m])'
             /\ summary.job[m].id \in Nat /\ Rank(summary.job[m].step) \in 0..3
             /\ summary.job[m].id # 0 => jobs[summary.job[m].id].meeting = m
  <2>1. JobShown(m, summary.job[m])
    BY DEF SummaryInv
  <2>2. JobKnown(m, summary.job[m]) => JobKnown(m, summary.job[m])'
    BY JobKnownStays
  <2>3. JobShown(m, summary.job[m])'
    BY <2>1, <2>2 DEF JobShown
  <2>4. /\ summary.job[m].id \in Nat /\ Rank(summary.job[m].step) \in 0..3
        /\ summary.job[m].id # 0 => JobKnown(m, summary.job[m])
    BY <2>1, JobShownFacts
  <2> QED
    BY <2>3, <2>4 DEF JobKnown
<1>3. ASSUME NEW r \in requests PROVE RequestOfJob(Weaken(r, lost))'
  <2>1. RequestOfJob(r) /\ r.meeting \in MeetingOrNone /\ \A m \in Meetings : JobShown(m, summary.job[m])
    BY DEF SummaryInv, WindowTyped, RequestTyped
  <2>2. r.kind \in CommandKinds => r.meeting \in summary.pending
    BY <2>1 DEF RequestOfJob, CommandOK
  <2> QED
    BY <2>1, <2>2, JobRequestFits DEF Ages
<1>4. \A r \in requests' : RequestOfJob(r)'
  BY <1>3 DEF Ages, Weakened
<1>5. SummaryForward
  <2>1. ASSUME NEW m \in Meetings
        PROVE  LET before == summary.job[m]  after == summary'.job[m] IN
               /\ after.id >= before.id
               /\ after.id = before.id => Rank(after.step) >= Rank(before.step)
               /\ after.id # 0 => jobs[after.id].meeting = m
    BY <1>2
  <2> QED
    BY <2>1 DEF SummaryForward
<1>6. SummaryInv'
  BY <1>1, <1>2, <1>4 DEF SummaryInv, OneCommand
<1> QED
  BY <1>5, <1>6 DEF SummaryGoesOn

\* What is not about a job fits.
LEMMA NotOfJob ==
    ASSUME NEW q, q.kind \notin JobKinds
    PROVE  RequestOfJob(q)' /\ q.kind \notin CommandKinds
  BY DEF RequestOfJob, CommandOK, StartOK, CancelOK, StatusOK, JobKinds, CommandKinds

\* The timer that is kept or cleared.
LEMMA TimerKept ==
    ASSUME SummaryInv, summary'.job = summary.job,
           summary'.timer = None \/ (summary'.timer = summary.timer /\ summary'.pending = summary.pending)
    PROVE  TimerOK(summary)'
  BY DEF SummaryInv, TimerOK

\* Clicks.
LEMMA ClicksOfSummary ==
    ASSUME WindowTyped, SummaryInv, BackendGrows, BackendTyped', OpensRecord \/ AsksPlainly \/ AsksSpeakers \/ AsksSummary
    PROVE  SummaryGoesOn
<1>1. /\ Losing({}) \in Losses /\ Losing({"speaker"}) \in Losses /\ Losing({"detail", "poll"}) \in Losses
      /\ \A m \in MeetingOrNone : /\ Losing({})[m] = {} /\ Losing({"speaker"})[m] = {"speaker"}
                                  /\ Losing({"detail", "poll"})[m] = {"detail", "poll"}
      /\ \A m \in Meetings : LosingSummary(m) \in Losses
  BY LossesFacts DEF Counters
<1>2. requests = Weakened(requests, Losing({}))
  BY WeakenNothing DEF WindowTyped
<1>3. \A kind, m, arg : LET q == Request(kind, m, arg) IN
          q.kind = kind /\ q.meeting = m /\ q.step = "sent" /\ q.arg = arg /\ q.current = Counters
  BY DEF Request
<1>4. /\ {"detail", "tags", "preview", "restore", "begin", "stop", "open"} \cap JobKinds = {}
      /\ SpeakerKinds \cap JobKinds = {}
  BY DEF JobKinds, CommandKinds, SpeakerKinds, LabelKinds, Edits
<1>5. summary.pending \subseteq MeetingOrNone /\ SummaryOK(summary)
  BY DEF WindowTyped, SummaryTyped, SummaryOK, MeetingOrNone
<1>6. CASE OpensRecord
  <2>1. PICK m \in Meetings :
          /\ summary' = [summary EXCEPT !.timer = None]
          /\ requests' = Weakened(requests, Losing({"detail", "poll"})) \cup {Request("detail", m, 0)}
    BY <1>6 DEF OpensRecord
  <2>2. summary' = [job |-> summary.job, pending |-> summary.pending, timer |-> None, lost |-> summary.lost]
    BY <1>5, <2>1, SummaryForms
  <2>3. Ages(Losing({"detail", "poll"}), {Request("detail", m, 0)})
    BY <1>1, <2>1 DEF Ages
  <2>4. summary'.job = summary.job /\ summary'.pending = summary.pending /\ summary'.timer = None
    BY <2>2
  <2>5. TimerOK(summary)'
    BY <2>4, TimerKept
  <2>6. Request("detail", m, 0).kind \notin JobKinds
    BY <1>3, <1>4
  <2>7. RequestOfJob(Request("detail", m, 0))' /\ Request("detail", m, 0).kind \notin CommandKinds
    BY <2>6, NotOfJob
  <2> QED
    BY <1>1, <1>5, <2>3, <2>4, <2>5, <2>7, SummaryStays
<1>7. ASSUME NEW lost \in Losses, NEW q, q.kind \notin JobKinds, requests' = Weakened(requests, lost) \cup {q},
             \A m \in MeetingOrNone : "summary" \notin lost[m], summary' = summary
      PROVE  SummaryGoesOn
  <2>1. Ages(lost, {q})
    BY <1>7 DEF Ages
  <2>2. TimerOK(summary)'
    BY <1>7, TimerKept
  <2>3. RequestOfJob(q)' /\ q.kind \notin CommandKinds
    BY <1>7, NotOfJob
  <2> QED
    BY <1>5, <1>7, <2>1, <2>2, <2>3, SummaryStays
<1>8. CASE AsksPlainly
  <2>1. PICK kind \in {"tags", "preview", "restore", "begin", "stop", "open"}, m \in MeetingOrNone :
          requests' = requests \cup {Request(kind, m, 0)} /\ summary' = summary
    BY <1>8 DEF AsksPlainly
  <2>2. Request(kind, m, 0).kind \notin JobKinds
    BY <1>3, <1>4
  <2> QED
    BY <1>1, <1>2, <1>7, <2>1, <2>2
<1>9. CASE AsksSpeakers
  <2>1. PICK q : /\ q.kind \in SpeakerKinds
                 /\ requests' = Weakened(requests, Losing({"speaker"})) \cup {q} /\ summary' = summary
    BY <1>9 DEF AsksSpeakers, SpeakerAsk
  <2> QED
    BY <1>1, <1>4, <1>7, <2>1
<1>10. CASE AsksSummary
  <2>1. PICK kind \in CommandKinds, arg \in Nat :
          /\ Here \in Meetings \ summary.pending
          /\ kind = "cancel" => arg = summary.job[Here].id /\ summary.job[Here].step \in Running
          /\ summary' = [summary EXCEPT !.pending = @ \cup {Here}, !.timer = None]
          /\ requests' = Weakened(requests, LosingSummary(Here)) \cup {Request(kind, Here, arg)}
    BY <1>10 DEF AsksSummary
  <2>0. PICK q, lost : q = Request(kind, Here, arg) /\ lost = LosingSummary(Here)
    OBVIOUS
  <2>2. summary'.job = summary.job /\ summary'.pending = summary.pending \cup {Here} /\ summary'.timer = None
    BY <1>5, <2>1 DEF SummaryOK
  <2>3. \A m \in MeetingOrNone : "poll" \in lost[m] /\ (m # Here => "summary" \notin lost[m])
    BY <2>0 DEF LosingSummary
  <2>4. Ages(lost, {q})
    BY <1>1, <2>0, <2>1 DEF Ages
  <2>5. TimerOK(summary)'
    BY <2>2, TimerKept
  <2>6. q.kind = kind /\ q.meeting = Here /\ q.step = "sent" /\ q.arg = arg /\ q.current = Counters
    BY <1>3, <2>0
  <2>7. kind = "cancel" => arg # 0
    <3>1. JobShown(Here, summary.job[Here])
      BY <2>1 DEF SummaryInv
    <3> QED
      BY <2>1, <3>1, JobShownFacts
  <2>8. RequestOfJob(q)'
    BY <2>1, <2>2, <2>6, <2>7 DEF RequestOfJob, CommandOK, StartOK, CancelOK, StatusOK, CommandKinds, Counters
  <2>9. \A m \in summary.pending : "summary" \notin lost[m]
    BY <1>5, <2>1, <2>3
  <2> QED
    BY <2>1, <2>2, <2>3, <2>4, <2>5, <2>6, <2>8, <2>9, SummaryStays
<1> QED
  BY <1>6, <1>8, <1>9, <1>10

\* Timers.
LEMMA TimersOfSummary ==
    ASSUME WindowTyped, SummaryInv, BackendGrows, BackendTyped', TimerFires
    PROVE  SummaryGoesOn
<1>1. Losing({}) \in Losses /\ \A m \in MeetingOrNone : Losing({})[m] = {}
  BY LossesFacts DEF Counters
<1>2. requests = Weakened(requests, Losing({}))
  BY WeakenNothing DEF WindowTyped
<1>3. summary.pending \subseteq MeetingOrNone /\ SummaryOK(summary)
  BY DEF WindowTyped, SummaryTyped, SummaryOK, MeetingOrNone
<1>4. CASE /\ summary.timer # None
           /\ summary' = [summary EXCEPT !.timer = None]
           /\ requests' = requests \cup {Request("status", summary.timer, summary.job[summary.timer].id)}
  <2>0. PICK q, m : m = summary.timer /\ q = Request("status", m, summary.job[m].id)
    OBVIOUS
  <2>1. summary' = [job |-> summary.job, pending |-> summary.pending, timer |-> None, lost |-> summary.lost]
    BY <1>3, <1>4 DEF SummaryOK
  <2>2. summary'.job = summary.job /\ summary'.pending = summary.pending /\ summary'.timer = None
    BY <2>1
  <2>3. TimerOK(summary)'
    BY <2>2, TimerKept
  <2>4. q.kind = "status" /\ q.meeting = m /\ q.arg = summary.job[m].id /\ q.step = "sent"
    BY <2>0 DEF Request
  <2>5. m \in Meetings \ summary.pending /\ summary.job[m].id # 0
    BY <1>4, <2>0 DEF SummaryInv, TimerOK
  <2>6. JobKnown(m, summary.job[m])
    BY <2>5, JobShownFacts DEF SummaryInv
  <2>7. q.arg \in 1..Len(jobs') /\ jobs'[q.arg].meeting = m
    BY <2>4, <2>6, JobsGoOn DEF JobKnown
  <2>8. RequestOfJob(q)' /\ q.kind \notin CommandKinds
    BY <2>2, <2>4, <2>5, <2>7 DEF RequestOfJob, CommandOK, StartOK, CancelOK, StatusOK, CommandKinds
  <2>9. Ages(Losing({}), {q})
    BY <1>1, <1>2, <1>4, <2>0 DEF Ages
  <2> QED
    BY <1>1, <1>3, <2>2, <2>3, <2>8, <2>9, SummaryStays
<1>5. CASE /\ requests' = requests \cup {Request("poll", None, 0)}
           /\ summary' = summary
  <2> DEFINE q == Request("poll", None, 0)
  <2>1. q.kind \notin JobKinds
    BY DEF Request, JobKinds, CommandKinds
  <2>2. RequestOfJob(q)' /\ q.kind \notin CommandKinds
    BY <2>1, NotOfJob
  <2>3. TimerOK(summary)'
    BY <1>5, TimerKept
  <2>4. Ages(Losing({}), {q})
    BY <1>1, <1>2, <1>5 DEF Ages
  <2> HIDE DEF q
  <2> QED
    BY <1>1, <1>3, <1>5, <2>2, <2>3, <2>4, SummaryStays
<1> QED
  BY <1>4, <1>5 DEF TimerFires

\* Answers that tell nothing of a job.
LEMMA OthersOfSummary ==
    ASSUME WindowTyped, SummaryInv, BackendGrows, BackendTyped', NEW r \in requests,
           Drops(r) \/ Notes(r) \/ ShowsDetail(r) \/ ShowsLabels(r) \/ AsksLabels(r) \/ ShowsSnapshot(r)
    PROVE  SummaryGoesOn
<1>1. /\ Losing({}) \in Losses /\ \A m \in MeetingOrNone : Losing({})[m] = {}
      /\ Losing({"speaker", "poll"}) \in Losses /\ \A m \in MeetingOrNone : Losing({"speaker", "poll"})[m] = {"speaker", "poll"}
  BY LossesFacts DEF Counters
<1>2. requests = Weakened(requests, Losing({})) /\ requests \ {r} \subseteq requests
  BY WeakenNothing DEF WindowTyped
<1>3. summary.pending \subseteq MeetingOrNone /\ SummaryOK(summary)
  BY DEF WindowTyped, SummaryTyped, SummaryOK, MeetingOrNone
<1>4. \A m \in Meetings : JobShown(m, summary.job[m])
  BY DEF SummaryInv
<1>5. ASSUME NEW new, Ages(Losing({}), new), summary' = summary, \A q \in new : q.kind \notin JobKinds
      PROVE  SummaryGoesOn
  <2>2. TimerOK(summary)'
    BY <1>5, TimerKept
  <2>3. \A q \in new : RequestOfJob(q)' /\ q.kind \notin CommandKinds
    BY <1>5, NotOfJob
  <2> QED
    BY <1>1, <1>3, <1>5, <2>2, <2>3, SummaryStays
<1>6. CASE Drops(r) \/ Notes(r) \/ ShowsLabels(r)
  <2>1. requests' = requests \ {r} /\ summary' = summary
    BY <1>6 DEF Drops, Notes, ShowsLabels
  <2>2. Ages(Losing({}), {})
    BY <1>1, <1>2, <2>1 DEF Ages
  <2> QED
    BY <1>5, <2>1, <2>2
<1>7. CASE AsksLabels(r)
  <2> DEFINE q == [Request("latest", r.meeting, 0) EXCEPT !.current = r.current]
  <2>1. q.kind = "latest" /\ "latest" \notin JobKinds
    BY DEF Request, JobKinds, CommandKinds
  <2>2. Ages(Losing({}), {q}) /\ summary' = summary
    BY <1>1, <1>2, <1>7 DEF Ages, AsksLabels
  <2> HIDE DEF q
  <2> QED
    BY <1>5, <2>1, <2>2
<1>8. CASE ShowsDetail(r)
  <2> DEFINE q == Request("latest", r.meeting, 0)
             lost == Losing({"speaker", "poll"})
  <2>1. record' \in Records /\ screen \in Screens
    BY <1>8, ArrivedTyped DEF ShowsDetail, WindowTyped, RecordTyped, ScreenTyped, Records, RequestTyped, RecordKinds, MeetingOrNone
  <2>2. summary' = PollSet(record', summary, screen)
    BY <1>8 DEF ShowsDetail
  <2>3. Selected(record', screen) \in MeetingOrNone
    BY <2>1, SelectedFacts
  <2>4. summary'.job = summary.job /\ summary'.pending = summary.pending
    BY <1>3, <2>2, <2>3, PollSetFacts
  <2>5. TimerOK(summary')
    BY <1>3, <1>4, <2>1, <2>2, PollTimer
  <2>6. q.kind = "latest" /\ "latest" \notin JobKinds
    BY DEF Request, JobKinds, CommandKinds
  <2>7. Weakened(requests \ {r}, lost) \subseteq Weakened(requests, lost)
    BY DEF Weakened
  <2>8. Ages(lost, {q})
    BY <1>1, <1>8, <2>7 DEF Ages, ShowsDetail
  <2>9. \A m \in MeetingOrNone : "summary" \notin lost[m]
    BY <1>1
  <2> HIDE DEF q, lost
  <2>10. RequestOfJob(q)' /\ q.kind \notin CommandKinds
    BY <2>6, NotOfJob
  <2>11. TimerOK(summary)'
    BY <2>5 DEF TimerOK
  <2> QED
    BY <1>3, <2>4, <2>8, <2>9, <2>10, <2>11, SummaryStays
<1>9. CASE ShowsSnapshot(r)
  <2>1. /\ Repolls(summary, r, Selected(record, screen') # Here)
        /\ screen' \in Screens /\ record \in Records
    BY <1>9 DEF ShowsSnapshot, WindowTyped, RecordTyped
  <2>2. PICK lost : Ages(lost, {}) /\ \A m \in MeetingOrNone : "summary" \notin lost[m]
    BY <2>1, RepollsAge
  <2>3. summary' = summary \/ summary' = PollSet(record, summary, screen')
    BY <2>1 DEF Repolls
  <2>4. summary'.job = summary.job /\ summary'.pending = summary.pending /\ TimerOK(summary)'
    <3>1. CASE summary' = summary
      BY <3>1, TimerKept
    <3>2. CASE summary' = PollSet(record, summary, screen')
      <4>1. Selected(record, screen') \in MeetingOrNone
        BY <2>1, SelectedFacts
      <4>2. summary'.job = summary.job /\ summary'.pending = summary.pending
        BY <1>3, <3>2, <4>1, PollSetFacts
      <4>3. TimerOK(summary')
        BY <1>3, <1>4, <2>1, <3>2, PollTimer
      <4> QED
        BY <4>2, <4>3 DEF TimerOK
    <3> QED
      BY <2>3, <3>1, <3>2
  <2> QED
    BY <1>3, <2>2, <2>4, SummaryStays
<1> QED
  BY <1>6, <1>7, <1>8, <1>9

\* Answers that tell of the job of one meeting: r is such an answer, and the
\* summaries are told of in sum before the poll is set again.
LEMMA TellsOfJob ==
    ASSUME WindowTyped, SummaryInv, BackendGrows, BackendTyped', NEW r \in requests, NEW sum, SummaryOK(sum), NEW again,
           Repolls(sum, r, again), record' = record, screen' = screen,
           r.meeting \in Meetings, JobShown(r.meeting, sum.job[r.meeting]),
           LET before == summary.job[r.meeting]  after == sum.job[r.meeting] IN
               /\ after.id >= before.id
               /\ after.id = before.id => Rank(after.step) >= Rank(before.step),
           \A m \in Meetings \ {r.meeting} : sum.job[m] = summary.job[m],
           sum.pending = summary.pending \ {r.meeting},
           sum.timer = summary.timer, ~again => summary.timer # r.meeting,
           r.meeting \in summary.pending => r.kind \in CommandKinds,
           r.meeting \notin summary.pending => again
    PROVE  SummaryGoesOn
<1> DEFINE m == r.meeting
<1>1. PICK lost : /\ Ages(lost, {})
                  /\ requests' \subseteq Weakened(requests \ {r}, lost)
                  /\ \A x \in MeetingOrNone : "summary" \notin lost[x] /\ (again => "poll" \in lost[x])
  <2>1. /\ Losing({}) \in Losses /\ Losing({"poll"}) \in Losses
        /\ \A x \in MeetingOrNone : Losing({})[x] = {} /\ Losing({"poll"})[x] = {"poll"}
    BY LossesFacts DEF Counters
  <2>2. requests \ {r} = Weakened(requests \ {r}, Losing({}))
    BY WeakenNothing DEF WindowTyped
  <2>3. \A lost : Weakened(requests \ {r}, lost) \subseteq Weakened(requests, lost)
    BY DEF Weakened
  <2>4. CASE again
    <3>1. requests' = Weakened(requests \ {r}, Losing({"poll"}))
      BY <2>4 DEF Repolls
    <3>2. Ages(Losing({"poll"}), {})
      BY <2>1, <2>3, <3>1 DEF Ages
    <3> QED
      BY <2>1, <3>1, <3>2
  <2>5. CASE ~again
    <3>1. requests' = Weakened(requests \ {r}, Losing({}))
      BY <2>2, <2>5 DEF Repolls
    <3>2. Ages(Losing({}), {})
      BY <2>1, <2>3, <3>1 DEF Ages
    <3> QED
      BY <2>1, <2>5, <3>1, <3>2
  <2> QED
    BY <2>4, <2>5
<1>2. record \in Records /\ screen' \in Screens
  BY DEF WindowTyped, RecordTyped, ScreenTyped
<1>3. \A x \in Meetings : JobShown(x, sum.job[x])
  BY DEF SummaryInv
<1>4. summary'.job = sum.job /\ summary'.pending = sum.pending /\ TimerOK(summary)'
  <2>1. CASE again
    <3>0. summary' = PollSet(record, sum, screen')
      BY <2>1 DEF Repolls
    <3>1. Selected(record, screen') \in MeetingOrNone
      BY <1>2, SelectedFacts
    <3>2. summary'.job = sum.job /\ summary'.pending = sum.pending
      BY <3>0, <3>1, PollSetFacts
    <3>3. TimerOK(summary')
      BY <1>2, <1>3, <3>0, PollTimer
    <3> QED
      BY <3>2, <3>3 DEF TimerOK
  <2>2. CASE ~again
    <3>1. summary' = sum
      BY <2>2 DEF Repolls
    <3> QED
      BY <2>2, <3>1 DEF SummaryInv, TimerOK
  <2> QED
    BY <2>1, <2>2
<1>5. ASSUME NEW x \in Meetings
      PROVE  /\ JobShown(x, summary.job[x])'
             /\ LET before == summary.job[x]  after == summary'.job[x] IN
                /\ after.id >= before.id
                /\ after.id = before.id => Rank(after.step) >= Rank(before.step)
                /\ after.id # 0 => jobs[after.id].meeting = x
  <2>1. JobShown(x, sum.job[x]) /\ JobShown(x, summary.job[x])
    BY <1>3 DEF SummaryInv
  <2>2. JobKnown(x, sum.job[x]) => JobKnown(x, sum.job[x])'
    <3>1. PICK j : j = sum.job[x]
      OBVIOUS
    <3>2. JobKnown(x, j) => JobKnown(x, j)'
      BY JobKnownStays
    <3> QED
      BY <3>1, <3>2 DEF JobKnown
  <2>3. JobShown(x, summary.job[x])'
    BY <1>4, <2>1, <2>2 DEF JobShown
  <2>4. /\ sum.job[x].id \in Nat /\ Rank(sum.job[x].step) \in 0..3
        /\ sum.job[x].id # 0 => jobs[sum.job[x].id].meeting = x
    BY <2>1, JobShownFacts DEF JobKnown
  <2>5. sum.job[x].id >= summary.job[x].id
        /\ (sum.job[x].id = summary.job[x].id => Rank(sum.job[x].step) >= Rank(summary.job[x].step))
    <3>1. CASE x = m
      BY <3>1
    <3>2. CASE x # m
      BY <2>4, <3>2
    <3> QED
      BY <3>1, <3>2
  <2> QED
    BY <1>4, <2>3, <2>4, <2>5
<1>6. \A p, s \in requests' : OneCommand(p, s)
  BY <1>1, CommandsAge
<1>7. ASSUME NEW s \in requests, s # r PROVE RequestOfJob(Weaken(s, lost))'
  <2>1. RequestOfJob(s) /\ (s.kind \in JobKinds => s.meeting \in Meetings) /\ Meetings \subseteq MeetingOrNone
    BY <1>7 DEF SummaryInv, WindowTyped, RequestTyped, MeetingOrNone
  <2>2. s.kind \in CommandKinds => s.meeting \in summary.pending /\ s.meeting \in Meetings /\ s.meeting # m
    <3>1. s.kind \in CommandKinds => s.meeting \in summary.pending /\ s.meeting \in Meetings
      BY <2>1 DEF RequestOfJob, CommandOK, JobKinds
    <3>2. OneCommand(s, r)
      BY <1>7 DEF SummaryInv
    <3> QED
      BY <1>7, <3>1, <3>2 DEF OneCommand
  <2>3. s.kind \in CommandKinds => /\ s.meeting \in summary'.pending /\ "summary" \notin lost[s.meeting]
                                   /\ summary'.job[s.meeting] = summary.job[s.meeting]
    BY <1>1, <1>4, <2>1, <2>2
  <2>4. s.kind = "status" => \/ "poll" \in lost[s.meeting] \/ ~({"poll", "summary"} \subseteq s.current)
                             \/ /\ s.meeting \notin summary.pending => s.meeting \notin summary'.pending
                                /\ summary'.job[s.meeting] = summary.job[s.meeting]
    <3>1. SUFFICES ASSUME s.kind = "status"
                   PROVE  \/ "poll" \in lost[s.meeting] \/ ~({"poll", "summary"} \subseteq s.current)
                          \/ /\ s.meeting \notin summary.pending => s.meeting \notin summary'.pending
                             /\ summary'.job[s.meeting] = summary.job[s.meeting]
      OBVIOUS
    <3>2. s.meeting \in Meetings /\ s.meeting \in MeetingOrNone
      BY <2>1, <3>1 DEF JobKinds
    <3>3. CASE again
      BY <1>1, <3>2, <3>3
    <3>4. CASE ~again /\ s.meeting = m
      <4>1. m \in summary.pending
        BY <3>4
      <4> QED
        BY <2>1, <3>1, <3>4, <4>1 DEF RequestOfJob, StatusOK
    <3>5. CASE s.meeting # m
      BY <1>4, <3>2, <3>5
    <3> QED
      BY <3>3, <3>4, <3>5
  <2>5. \A x \in Meetings : JobShown(x, summary.job[x])
    BY DEF SummaryInv
  <2> QED
    BY <1>1, <2>1, <2>3, <2>4, <2>5, JobRequestFits DEF Ages
<1>8. \A s \in requests' : RequestOfJob(s)'
  BY <1>1, <1>7 DEF Weakened
<1>9. SummaryForward
  BY <1>5 DEF SummaryForward
<1>10. SummaryInv'
  BY <1>4, <1>5, <1>6, <1>8 DEF SummaryInv, OneCommand
<1> QED
  BY <1>9, <1>10 DEF SummaryGoesOn

\* The answer of a command.
LEMMA EndsOfSummary ==
    ASSUME WindowTyped, SummaryInv, BackendGrows, BackendTyped', NEW r \in requests, r.step # "sent", EndsCommand(r)
    PROVE  SummaryGoesOn
<1> DEFINE m == r.meeting
<1>1. /\ r.kind \in CommandKinds /\ Repolls(Ended(r), r, Here = m) /\ record' = record /\ screen' = screen
      /\ r.step \in {"failed", "answered"}
  BY DEF EndsCommand, Ended, Told, WindowTyped, RequestTyped
<1>2. PICK sum, again : sum = Ended(r) /\ again = (Here = m)
  OBVIOUS
<1>3. /\ SummaryOK(sum) /\ m \in Meetings
      /\ r.step = "failed" => sum.job = summary.job
      /\ r.step = "answered" => sum.job[m] = r.reply /\ \A x \in Meetings \ {m} : sum.job[x] = summary.job[x]
      /\ sum.pending = summary.pending \ {m} /\ sum.timer = summary.timer
  BY <1>1, <1>2, EndedFacts
<1>4. m \in summary.pending /\ RequestOfJob(r)
  BY <1>1 DEF SummaryInv, RequestOfJob, CommandOK
<1>5. summary.timer # m
  BY <1>3, <1>4, RecordsAssumption DEF SummaryInv, TimerOK, None
<1>6. JobShown(m, summary.job[m]) /\ summary.job[m].id \in Nat /\ Rank(summary.job[m].step) \in 0..3
  BY <1>3, JobShownFacts DEF SummaryInv
<1>7. /\ JobShown(m, sum.job[m])
      /\ sum.job[m].id >= summary.job[m].id
      /\ sum.job[m].id = summary.job[m].id => Rank(sum.job[m].step) >= Rank(summary.job[m].step)
  <2>1. CASE r.step = "failed"
    BY <1>3, <1>6, <2>1
  <2>2. CASE r.step = "answered" /\ r.kind = "start"
    <3>1. JobKnown(m, r.reply) /\ r.reply.id > summary.job[m].id
      BY <1>4, <2>2 DEF RequestOfJob, StartOK
    <3>2. r.reply.id \in Nat
      BY <2>2 DEF WindowTyped, RequestOK, JobKinds, CommandKinds
    <3> QED
      BY <1>3, <1>6, <2>2, <3>1, <3>2 DEF JobShown
  <2>3. CASE r.step = "answered" /\ r.kind = "cancel"
    <3>1. r.arg # 0 /\ r.arg = summary.job[m].id /\ r.reply = [id |-> r.arg, step |-> "over"] /\ jobs[r.arg].step = "over"
      BY <1>4, <2>3 DEF RequestOfJob, CancelOK
    <3>2. r.reply.id = r.arg /\ r.reply.step = "over" /\ sum.job[m] = r.reply
      BY <1>3, <2>3, <3>1
    <3>3. JobKnown(m, summary.job[m])
      BY <1>6, <3>1, JobShownFacts
    <3>4. JobKnown(m, r.reply)
      BY <3>1, <3>2, <3>3, RankFacts DEF JobKnown, JobSteps
    <3>5. Rank(r.reply.step) >= Rank(summary.job[m].step)
      BY <1>6, <3>2, RankFacts
    <3> QED
      BY <1>6, <3>1, <3>2, <3>4, <3>5 DEF JobShown
  <2> QED
    BY <1>1, <2>1, <2>2, <2>3 DEF CommandKinds
<1>8. \A x \in Meetings \ {m} : sum.job[x] = summary.job[x]
  BY <1>1, <1>3
<1>9. Repolls(sum, r, again)
  BY <1>1, <1>2
<1> QED
  BY <1>1, <1>3, <1>4, <1>5, <1>7, <1>8, <1>9, TellsOfJob

\* The answer of a poll.
LEMMA StatusOfSummary ==
    ASSUME WindowTyped, SummaryInv, BackendGrows, BackendTyped', NEW r \in requests, r.step # "sent", ShowsStatus(r)
    PROVE  SummaryGoesOn
<1> DEFINE m == r.meeting
<1>1. /\ r.kind = "status" /\ PollIsCurrent(r) /\ record' = record /\ screen' = screen
      /\ r.step \in {"failed", "answered"} /\ m \in Meetings
  BY DEF ShowsStatus, WindowTyped, RequestTyped, JobKinds
<1>2. summary.pending \subseteq MeetingOrNone /\ SummaryOK(summary) /\ \A x \in Meetings : JobShown(x, summary.job[x])
  BY DEF WindowTyped, SummaryTyped, SummaryOK, MeetingOrNone, SummaryInv
<1>3. {"poll", "summary"} \subseteq r.current /\ summary.job[m].id = r.arg
  BY <1>1, RecordsAssumption DEF PollIsCurrent, IsCurrent, JobOf, None
<1>4. StatusOK(r)
  BY DEF SummaryInv, RequestOfJob
<1>5. m \notin summary.pending
  BY <1>1, <1>3, <1>4 DEF StatusOK
<1>6. CASE r.step = "failed"
  <2>1. requests' = requests \ {r} /\ summary' = [summary EXCEPT !.lost = @ \cup {m}]
    BY <1>6 DEF ShowsStatus, Repolls
  <2>2. summary' = [job |-> summary.job, pending |-> summary.pending, timer |-> summary.timer, lost |-> summary.lost \cup {m}]
    BY <1>1, <1>2, <2>1, SummaryForms
  <2>3. summary'.job = summary.job /\ summary'.pending = summary.pending /\ summary'.timer = summary.timer
    BY <2>2
  <2>4. TimerOK(summary)'
    BY <2>3, TimerKept
  <2>5. Losing({}) \in Losses /\ \A x \in MeetingOrNone : Losing({})[x] = {}
    BY LossesFacts DEF Counters
  <2>6. Ages(Losing({}), {})
    BY <2>1, <2>5, WeakenNothing DEF Ages, WindowTyped
  <2> QED
    BY <1>2, <2>3, <2>4, <2>5, <2>6, SummaryStays
<1>7. CASE r.step = "answered"
  <2>1. PICK sum, again : sum = Told(m, r.reply) /\ again = TRUE
    OBVIOUS
  <2>2. Repolls(sum, r, again) /\ again
    BY <1>7, <2>1 DEF ShowsStatus, Told
  <2>3. /\ r.reply.id = r.arg /\ JobKnown(m, r.reply)
        /\ Rank(r.reply.step) >= Rank(summary.job[m].step)
    BY <1>1, <1>3, <1>4, <1>7 DEF StatusOK
  <2>4. r.reply.id \in Nat /\ SummaryTyped
    BY <1>1, <1>7 DEF WindowTyped, RequestOK, JobKinds
  <2>5. /\ SummaryOK(Told(m, r.reply)) /\ Told(m, r.reply).job[m] = r.reply
        /\ \A x \in Meetings \ {m} : Told(m, r.reply).job[x] = summary.job[x]
        /\ Told(m, r.reply).pending = summary.pending /\ Told(m, r.reply).timer = summary.timer
    BY ONLY <1>1, <2>4, ToldFacts
  <2>6. /\ SummaryOK(sum) /\ sum.job[m] = r.reply
        /\ \A x \in Meetings \ {m} : sum.job[x] = summary.job[x]
        /\ sum.pending = summary.pending \ {m} /\ sum.timer = summary.timer
    BY <1>5, <2>1, <2>5
  <2>7. sum.job[m].id >= summary.job[m].id
    BY <1>3, <2>3, <2>4, <2>6
  <2>8. JobShown(m, sum.job[m])
    BY <2>3, <2>6 DEF JobShown
  <2> QED
    BY <1>1, <1>5, <2>2, <2>3, <2>6, <2>7, <2>8, TellsOfJob
<1> QED
  BY <1>1, <1>6, <1>7

\* The service: a new job is later than the ones known, a step is no earlier than the one known.
LEMMA ServesSummary ==
    ASSUME WindowTyped, SummaryInv, NEW r \in requests, NEW q, r.step = "sent", Serves(r, q)
    PROVE  SummaryGoesOn
<1> DEFINE m == r.meeting
<1>1. /\ requests' = (requests \ {r}) \cup {q} /\ summary' = summary
      /\ q.kind = r.kind /\ q.meeting = m /\ q.arg = r.arg /\ q.current = r.current
      /\ q.step = "answered" => ReplyOfJobs(q)
      /\ BackendTyped' /\ BackendGrows
  BY DEF Serves, Handled
<1>2. RequestOfJob(r) /\ \A x \in Meetings : JobShown(x, summary.job[x])
  BY DEF SummaryInv
<1>3. r.kind \in JobKinds => m \in Meetings
  BY DEF WindowTyped, RequestTyped
<1>4. Len(jobs') \in Nat /\ Len(jobs) \in Nat
  BY <1>1, JobsGoOn, JobFacts
<1>5. CommandOK(q)'
  BY <1>1, <1>2 DEF RequestOfJob, CommandOK
<1>6. StartOK(q)'
  <2>1. SUFFICES ASSUME q.kind = "start", q.step = "answered"
                 PROVE  JobKnown(q.meeting, q.reply)' /\ q.reply.id > summary.job[m].id
    BY <1>1 DEF StartOK
  <2>2. /\ q.reply = [id |-> Len(jobs'), step |-> "queued"] /\ Len(jobs') > Len(jobs)
        /\ jobs'[Len(jobs')] = [meeting |-> m, step |-> "queued"]
    BY <1>1, <2>1 DEF ReplyOfJobs
  <2>3. q.reply.id = Len(jobs') /\ q.reply.step = "queued" /\ jobs'[Len(jobs')].meeting = m /\ jobs'[Len(jobs')].step = "queued"
    BY <2>2
  <2>4. summary.job[m].id \in Nat /\ summary.job[m].id <= Len(jobs)
    <3>1. m \in Meetings
      BY <1>1, <1>3, <2>1 DEF JobKinds, CommandKinds
    <3> QED
      BY <1>2, <3>1, JobShownFacts
  <2>5. Len(jobs') \in 1..Len(jobs')
    BY <1>4, <2>2
  <2>6. "queued" \in JobSteps /\ Rank("queued") <= Rank("queued")
    BY RankFacts DEF JobSteps
  <2>7. JobKnown(q.meeting, q.reply)'
    BY <1>1, <2>3, <2>5, <2>6 DEF JobKnown
  <2> QED
    BY <1>4, <2>2, <2>3, <2>4, <2>7
<1>7. CancelOK(q)'
  <2>1. SUFFICES ASSUME q.kind = "cancel"
                 PROVE  /\ q.arg # 0 /\ q.arg = summary.job[m].id
                        /\ q.step = "answered" => q.reply = [id |-> q.arg, step |-> "over"] /\ jobs'[q.arg].step = "over"
    BY <1>1 DEF CancelOK
  <2>2. r.arg # 0 /\ r.arg = summary.job[m].id
    BY <1>1, <1>2, <2>1 DEF RequestOfJob, CancelOK
  <2>3. JobKnown(m, summary.job[m])
    BY <1>1, <1>2, <1>3, <2>1, <2>2, JobShownFacts DEF JobKinds, CommandKinds
  <2>4. r.arg \in 1..Len(jobs)
    BY <2>2, <2>3 DEF JobKnown
  <2>5. ASSUME q.step = "answered"
        PROVE  q.reply = [id |-> q.arg, step |-> "over"] /\ jobs'[q.arg].step = "over"
    <3>1. q.reply = [id |-> q.arg, step |-> "over"] /\ jobs' = [jobs EXCEPT ![q.arg].step = "over"]
      BY <1>1, <2>1, <2>5 DEF ReplyOfJobs
    <3>2. jobs \in Seq(WindowJob) /\ q.arg \in DOMAIN jobs
      BY <1>1, <2>4 DEF WindowTyped, BackendTyped
    <3>3. jobs[q.arg] \in WindowJob
      BY <3>2
    <3>4. jobs'[q.arg] = [jobs[q.arg] EXCEPT !.step = "over"]
      BY <3>1, <3>2
    <3>5. jobs'[q.arg].step = "over"
      BY <3>3, <3>4 DEF WindowJob
    <3> QED
      BY <3>1, <3>5
  <2> QED
    BY <1>1, <2>2, <2>5
<1>8. StatusOK(q)'
  <2>1. SUFFICES ASSUME q.kind = "status" PROVE StatusOK(q)'
    BY <1>1 DEF StatusOK
  <2>2. /\ r.arg \in 1..Len(jobs) /\ jobs[r.arg].meeting = m
        /\ {"poll", "summary"} \subseteq r.current => m \notin summary.pending
    BY <1>1, <1>2, <2>1 DEF RequestOfJob, StatusOK
  <2>3. r.arg \in 1..Len(jobs') /\ jobs'[r.arg].meeting = m
    BY <1>1, <2>2, JobsGoOn
  <2>4. ASSUME q.step = "answered"
        PROVE  /\ q.reply.id = r.arg /\ JobKnown(m, q.reply)'
               /\ summary.job[m].id = r.arg => Rank(q.reply.step) >= Rank(summary.job[m].step)
    <3>1. q.reply = [id |-> r.arg, step |-> jobs[r.arg].step] /\ jobs' = jobs
      BY <1>1, <2>1, <2>4 DEF ReplyOfJobs
    <3>2. q.reply.id = r.arg /\ q.reply.step = jobs[r.arg].step
      BY <3>1
    <3>3. jobs[r.arg].step \in JobSteps /\ Rank(jobs[r.arg].step) \in 1..3
      BY <2>2, JobFacts
    <3>4. JobKnown(m, q.reply)
      BY <2>2, <3>2, <3>3 DEF JobKnown
    <3>5. JobKnown(m, q.reply)'
      BY <3>1, <3>4 DEF JobKnown
    <3>6. summary.job[m].id = r.arg => JobKnown(m, summary.job[m])
      BY <1>1, <1>2, <1>3, <2>1, <2>2, <1>4, JobShownFacts DEF JobKinds
    <3>7. summary.job[m].id = r.arg => Rank(q.reply.step) >= Rank(summary.job[m].step)
      <4>1. SUFFICES ASSUME summary.job[m].id = r.arg PROVE Rank(q.reply.step) >= Rank(summary.job[m].step)
        OBVIOUS
      <4>2. Rank(summary.job[m].step) <= Rank(jobs[r.arg].step) /\ summary.job[m].step \in JobSteps
        BY <3>6, <4>1 DEF JobKnown
      <4>3. Rank(summary.job[m].step) \in 1..3
        BY <4>2, RankFacts
      <4> QED
        BY <3>2, <3>3, <4>2, <4>3
    <3> QED
      BY <3>2, <3>5, <3>7
  <2> QED
    BY <1>1, <2>1, <2>2, <2>3, <2>4 DEF StatusOK
<1>9. ASSUME NEW s \in requests PROVE RequestOfJob(s)'
  <2>1. Weaken(s, Losing({})) = s /\ RequestOfJob(s)
    BY <1>9 DEF Weaken, Losing, WindowTyped, RequestTyped, SummaryInv
  <2>2. Losing({}) \in Losses /\ \A x \in MeetingOrNone : Losing({})[x] = {}
    BY LossesFacts DEF Counters
  <2>3. s.kind \in CommandKinds => s.meeting \in summary.pending
    BY <2>1 DEF RequestOfJob, CommandOK
  <2>4. s.meeting \in MeetingOrNone
    BY <1>9 DEF WindowTyped, RequestTyped
  <2>5. RequestOfJob(Weaken(s, Losing({})))'
    BY <1>1, <1>2, <1>9, <2>1, <2>2, <2>3, <2>4, JobRequestFits
  <2>6. PICK w : w = Weaken(s, Losing({}))
    OBVIOUS
  <2> QED
    BY <2>1, <2>5, <2>6
<1>10. \A s \in requests' : RequestOfJob(s)'
  BY <1>1, <1>5, <1>6, <1>7, <1>8, <1>9 DEF RequestOfJob
<1>11. \A p, s \in requests' : OneCommand(p, s)
  BY <1>1 DEF SummaryInv, OneCommand
<1>12. ASSUME NEW x \in Meetings
       PROVE  /\ JobShown(x, summary.job[x])'
              /\ summary.job[x].id \in Nat /\ Rank(summary.job[x].step) \in 0..3
              /\ summary.job[x].id # 0 => jobs[summary.job[x].id].meeting = x
  <2>1. PICK j : j = summary.job[x]
    OBVIOUS
  <2>2. JobKnown(x, j) => JobKnown(x, j)'
    BY <1>1, JobKnownStays
  <2>3. JobShown(x, summary.job[x])'
    BY <1>1, <1>2, <2>1, <2>2 DEF JobShown, JobKnown
  <2> QED
    BY <1>2, <2>3, JobShownFacts DEF JobKnown
<1>13. SummaryForward
  BY <1>1, <1>12 DEF SummaryForward
<1>14. SummaryInv'
  BY <1>1, <1>10, <1>11, <1>12 DEF SummaryInv, OneCommand, TimerOK
<1> QED
  BY <1>13, <1>14 DEF SummaryGoesOn

\* Every step.
LEMMA SummaryStep ==
    ASSUME WindowTyped, SummaryInv, WindowStep
    PROVE  SummaryGoesOn
<1>1. BackendGrows /\ BackendTyped'
  BY StepGrows
<1>2. CASE OpensRecord \/ AsksPlainly \/ AsksSpeakers \/ AsksSummary
  BY <1>1, <1>2, ClicksOfSummary
<1>3. CASE TimerFires
  BY <1>1, <1>3, TimersOfSummary
<1>4. CASE Works
  <2>1. summary' = summary /\ requests' = requests
    BY <1>4 DEF Works
  <2>2. /\ Losing({}) \in Losses /\ \A m \in MeetingOrNone : Losing({})[m] = {}
        /\ requests = Weakened(requests, Losing({}))
    BY LossesFacts, WeakenNothing DEF WindowTyped, Counters
  <2>3. Ages(Losing({}), {})
    BY <2>1, <2>2 DEF Ages
  <2>4. TimerOK(summary)'
    BY <2>1, TimerKept
  <2>5. summary.pending \subseteq MeetingOrNone
    BY DEF WindowTyped, SummaryTyped, SummaryOK, MeetingOrNone
  <2> QED
    BY <1>1, <2>1, <2>2, <2>3, <2>4, <2>5, SummaryStays
<1>5. ASSUME NEW r \in requests, r.step # "sent", Arrived(r) PROVE SummaryGoesOn
  <2>1. CASE Drops(r) \/ Notes(r) \/ ShowsDetail(r) \/ ShowsLabels(r) \/ AsksLabels(r) \/ ShowsSnapshot(r)
    BY <1>1, <2>1, OthersOfSummary
  <2>2. CASE EndsCommand(r)
    BY <1>1, <1>5, <2>2, EndsOfSummary
  <2>3. CASE ShowsStatus(r)
    BY <1>1, <1>5, <2>3, StatusOfSummary
  <2> QED
    BY <1>5, <2>1, <2>2, <2>3 DEF Arrived
<1>6. ASSUME NEW r \in requests, NEW q, r.step = "sent", Serves(r, q) PROVE SummaryGoesOn
  BY <1>6, ServesSummary
<1> QED
  BY <1>2, <1>3, <1>4, <1>5, <1>6 DEF WindowStep

\* No summary is known at first.
LEMMA SummaryStarts ==
    ASSUME WindowInit
    PROVE  SummaryInv
  BY DEF WindowInit, SummaryInv, JobShown, TimerOK

\* Commands, polls and what is shown of the jobs fit together.
THEOREM SummaryHolds == WindowSpec => [](WindowTyped /\ SummaryInv)
<1>1. WindowInit => WindowTyped /\ SummaryInv
  BY WindowStarts, SummaryStarts
<1>2. WindowTyped /\ SummaryInv /\ [WindowNext]_windowVars => (WindowTyped /\ SummaryInv)'
  BY StepKinds, TypedStep, SummaryStep DEF SummaryGoesOn
<1> QED
  BY <1>1, <1>2, PTL DEF WindowSpec

\* What is shown of a summary never goes back to an earlier job or step.
THEOREM SummariesForward == WindowSpec => SummaryMovesForward
<1>1. WindowTyped /\ SummaryInv /\ [WindowNext]_windowVars =>
        [\A m \in Meetings :
          LET before == summary.job[m]  after == summary'.job[m] IN
          /\ after.id >= before.id
          /\ after.id = before.id => Rank(after.step) >= Rank(before.step)
          /\ after.id # 0 => jobs[after.id].meeting = m]_windowVars
  BY StepKinds, SummaryStep DEF SummaryGoesOn, SummaryForward
<1> QED
  BY <1>1, SummaryHolds, PTL DEF WindowSpec, SummaryMovesForward

\* No answer that comes late takes the window back, neither to earlier speaker
\* labels nor to an earlier state of a summary.
THEOREM WindowForward == WindowSpec => WindowMovesForward
  BY SpeakersForward, SummariesForward DEF WindowMovesForward

-----------------------------------------------------------------------------
(* What is running is followed.                                             *)

\* Where a meeting was opened no session runs.
OpenedAtRest == \A r \in requests : r.kind = "open" /\ r.step = "answered" => ~r.reply.active

WatchInv == OpenedAtRest /\ SnapshotIsWatched /\ SummaryIsWatched

\* The poll that was set follows the meeting that is looked at.
LEMMA PollFollows ==
    ASSUME NEW sum, SummaryOK(sum), record' \in Records, screen' \in Screens,
           summary' = PollSet(record', sum, screen')
    PROVE  SummaryIsWatched'
<1>1. PICK m : m = Selected(record', screen')
  OBVIOUS
<1>2. m \in MeetingOrNone /\ Here' = m
  BY <1>1, SelectedFacts DEF Here
<1>3. /\ summary'.job = sum.job /\ summary'.pending = sum.pending
      /\ summary'.timer = IF m # None /\ sum.job[m].step \in Running /\ m \notin sum.pending THEN m ELSE None
  BY <1>1, <1>2, PollSetFacts
<1>4. JobOf(summary, Here)'.step \in Running => m # None /\ sum.job[m].step \in Running
  BY <1>2, <1>3 DEF JobOf, NoJob, Running
<1> QED
  BY <1>2, <1>3, <1>4 DEF SummaryIsWatched

\* What follows the selected summary stays, where it stays the same.
LEMMA WatchStays ==
    ASSUME SummaryIsWatched, Here' = Here, JobOf(summary', Here) = JobOf(summary, Here),
           summary'.timer = summary.timer,
           Here \in summary.pending => Here \in summary'.pending, Here \in summary.lost => Here \in summary'.lost,
           \A r \in requests : r.kind = "status" /\ PollIsCurrent(r) =>
               \E s \in requests' : /\ s.kind = "status" /\ s.meeting = r.meeting /\ s.arg = r.arg
                                    /\ {"poll", "summary"} \subseteq s.current
    PROVE  SummaryIsWatched'
<1>1. JobOf(summary, Here)' = JobOf(summary, Here)
  BY DEF JobOf
<1>2. ASSUME NEW r \in requests, r.kind = "status", PollIsCurrent(r)
      PROVE  \E s \in requests' : s.kind = "status" /\ PollIsCurrent(s)'
  <2>1. PICK s \in requests' : /\ s.kind = "status" /\ s.meeting = r.meeting /\ s.arg = r.arg
                               /\ {"poll", "summary"} \subseteq s.current
    BY <1>2
  <2>2. Here = r.meeting /\ JobOf(summary, Here).id = r.arg
    BY <1>2 DEF PollIsCurrent
  <2>3. Here' = s.meeting /\ JobOf(summary, Here)'.id = s.arg
    BY <1>1, <2>1, <2>2
  <2>4. PollIsCurrent(s)'
    BY <2>1, <2>3 DEF PollIsCurrent, IsCurrent
  <2> QED
    BY <2>1, <2>4
<1> QED
  BY <1>1, <1>2 DEF SummaryIsWatched

\* Where the summaries, the record and the screen stay, so does what follows them.
LEMMA WatchKept ==
    ASSUME WindowTyped, SummaryIsWatched, UNCHANGED summary, Here' = Here,
           \A r \in requests : r.kind = "status" /\ PollIsCurrent(r) =>
               \E s \in requests' : /\ s.kind = "status" /\ s.meeting = r.meeting /\ s.arg = r.arg
                                    /\ {"poll", "summary"} \subseteq s.current
    PROVE  SummaryIsWatched'
  BY WatchStays

\* Clicks and timers.
LEMMA AsksAreWatched ==
    ASSUME WindowTyped, WindowTyped', WatchInv, OpensRecord \/ AsksPlainly \/ AsksSpeakers \/ AsksSummary \/ TimerFires
    PROVE  SummaryIsWatched'
<1>1. SummaryIsWatched
  BY DEF WatchInv
<1>2. \A r \in requests : RequestTyped(r)
  BY DEF WindowTyped
<1>3. UNCHANGED <<record, screen.latest>> => Here' = Here
  BY DEF Here, Selected
<1>4. CASE OpensRecord
  <2>1. PICK m \in Meetings : record' = Cleared(m)
    BY <1>4 DEF OpensRecord
  <2>2. Here' = None
    BY <2>1, RecordsAssumption DEF Here, Selected, Cleared, NoDetail, None
  <2>3. JobOf(summary, Here)'.step \notin Running
    BY <2>2 DEF JobOf, NoJob, Running
  <2> QED
    BY <2>3 DEF SummaryIsWatched
<1>5. CASE AsksPlainly
  <2>1. requests \subseteq requests' /\ UNCHANGED summary /\ Here' = Here
    BY <1>3, <1>5 DEF AsksPlainly, ScreenKept
  <2> QED
    BY <1>1, <2>1, WatchKept DEF PollIsCurrent, IsCurrent
<1>6. CASE AsksSpeakers
  <2>1. /\ Weakened(requests, Losing({"speaker"})) \subseteq requests' /\ UNCHANGED summary /\ Here' = Here
        /\ Losing({"speaker"}) \in Losses
    BY <1>3, <1>6, LossesFacts DEF AsksSpeakers, Counters
  <2>2. ASSUME NEW r \in requests, r.kind = "status", PollIsCurrent(r)
        PROVE  \E s \in requests' : /\ s.kind = "status" /\ s.meeting = r.meeting /\ s.arg = r.arg
                                    /\ {"poll", "summary"} \subseteq s.current
    <3>1. PICK s : s = Weaken(r, Losing({"speaker"}))
      OBVIOUS
    <3>2. s \in requests'
      BY <2>1, <3>1 DEF Weakened
    <3>3. r.meeting \in MeetingOrNone
      BY <1>2 DEF RequestTyped
    <3>4. s.kind = r.kind /\ s.meeting = r.meeting /\ s.arg = r.arg /\ s.current = r.current \ {"speaker"}
      BY <1>2, <2>1, <3>1, <3>3, WeakenFacts DEF Losing
    <3> QED
      BY <2>2, <3>2, <3>4 DEF PollIsCurrent, IsCurrent
  <2> QED
    BY <1>1, <2>1, <2>2, WatchKept
<1>7. CASE AsksSummary
  <2>1. summary' = [summary EXCEPT !.pending = @ \cup {Here}, !.timer = None] /\ Here' = Here
    BY <1>3, <1>7 DEF AsksSummary
  <2>2. Here' \in summary'.pending
    BY <2>1 DEF WindowTyped, SummaryTyped, SummaryOK
  <2> QED
    BY <2>2 DEF SummaryIsWatched
<1>8. CASE /\ summary.timer # None
           /\ summary' = [summary EXCEPT !.timer = None]
           /\ requests' = requests \cup {Request("status", summary.timer, summary.job[summary.timer].id)}
           /\ UNCHANGED <<record, screen>>
  <2>0. Here' = Here
    BY <1>3, <1>8
  <2>1. PICK q, m : m = summary.timer /\ q = Request("status", m, summary.job[m].id)
    OBVIOUS
  <2>2. summary' = [job |-> summary.job, pending |-> summary.pending, timer |-> None, lost |-> summary.lost]
    BY <1>8 DEF WindowTyped, SummaryTyped, SummaryOK
  <2>3. summary'.job = summary.job /\ summary'.pending = summary.pending /\ summary'.lost = summary.lost
    BY <2>2
  <2>4. JobOf(summary, Here)' = JobOf(summary, Here)
    BY <2>0, <2>3 DEF JobOf
  <2>5. \A r : PollIsCurrent(r)' <=> PollIsCurrent(r)
    BY <2>0, <2>4 DEF PollIsCurrent
  <2>6. CASE Here = m
    <3>1. q \in requests' /\ q.kind = "status" /\ q.meeting = m /\ q.arg = summary.job[m].id /\ q.current = Counters
      BY <1>8, <2>1 DEF Request
    <3>2. PollIsCurrent(q)
      BY <1>8, <2>1, <2>6, <3>1 DEF PollIsCurrent, IsCurrent, JobOf, Counters
    <3> QED
      BY <2>5, <3>1, <3>2 DEF SummaryIsWatched
  <2>7. CASE Here # m
    BY <1>1, <1>8, <2>0, <2>1, <2>3, <2>4, <2>5, <2>7 DEF SummaryIsWatched
  <2> QED
    BY <2>6, <2>7
<1>9. CASE /\ screen' = [screen EXCEPT !.timer = FALSE]
           /\ requests' = requests \cup {Request("poll", None, 0)}
           /\ UNCHANGED <<record, summary>>
  <2>1. screen'.latest = screen.latest
    BY <1>9 DEF WindowTyped, ScreenTyped, Screens
  <2>2. Here' = Here
    BY <1>3, <1>9, <2>1
  <2> QED
    BY <1>1, <1>9, <2>2, WatchKept DEF PollIsCurrent, IsCurrent
<1> QED
  BY <1>4, <1>5, <1>6, <1>7, <1>8, <1>9 DEF TimerFires

\* Answers.
LEMMA AnswersAreWatched ==
    ASSUME WindowTyped, WindowTyped', WatchInv, NEW r \in requests, r.step # "sent", Arrived(r)
    PROVE  SummaryIsWatched'
<1>1. SummaryIsWatched
  BY DEF WatchInv
<1>2. UNCHANGED <<record, screen.latest>> => Here' = Here
  BY DEF Here, Selected
<1>3. record' \in Records /\ screen' \in Screens /\ SummaryOK(summary) /\ record \in Records
  BY DEF WindowTyped, RecordTyped, ScreenTyped, SummaryTyped
<1>4. r.kind \in RecordKinds \cup JobKinds => r.meeting \in Meetings
  BY DEF WindowTyped, RequestTyped
<1>5. ASSUME UNCHANGED summary, Here' = Here, r.kind = "status" => ~PollIsCurrent(r), requests \ {r} \subseteq requests'
      PROVE  SummaryIsWatched'
  BY <1>1, <1>5, WatchKept DEF PollIsCurrent, IsCurrent
<1>6. CASE Drops(r)
  BY <1>2, <1>5, <1>6 DEF Drops, ScreenKept
<1>7. CASE Notes(r)
  <2>1. Here' = Here
    <3>1. CASE StillSelected(r) /\ r.kind \in {"tags", "preview"}
      <4>1. r.meeting = Here /\ r.meeting # None
        BY <1>4, <3>1, RecordsAssumption DEF StillSelected, RecordKinds, None
      <4>2. record'.selected = record.selected /\ record'.detail \in {record.detail, r.meeting} /\ screen' = screen
        BY <1>3, <1>7 DEF Notes, Records
      <4> QED
        BY <4>1, <4>2 DEF Here, Selected
    <3>2. CASE r.kind = "restore" /\ record' = [record EXCEPT !.preview = None]
      <4>1. record'.selected = record.selected /\ record'.detail = record.detail /\ screen' = screen
        BY <1>3, <1>7, <3>2 DEF Notes, Records
      <4> QED
        BY <4>1 DEF Here, Selected
    <3> QED
      BY <1>7, <3>1, <3>2 DEF Notes
  <2>2. r.kind # "status" /\ UNCHANGED summary /\ requests \ {r} \subseteq requests'
    BY <1>7 DEF Notes
  <2> QED
    BY <1>5, <2>1, <2>2
<1>8. CASE ShowsDetail(r)
  <2>1. summary' = PollSet(record', summary, screen')
    BY <1>8 DEF ShowsDetail
  <2> QED
    BY <1>3, <2>1, PollFollows
<1>9. CASE ShowsLabels(r)
  <2>1. record'.selected = record.selected /\ record'.detail = record.detail /\ screen' = screen
    <3>1. CASE r.kind = "version"
      BY <1>3, <1>9, <3>1 DEF ShowsLabels, Records
    <3>2. CASE r.kind # "version"
      BY <1>3, <1>9, <3>2 DEF ShowsLabels, Records
    <3> QED
      BY <3>1, <3>2
  <2>2. Here' = Here
    BY <2>1 DEF Here, Selected
  <2>3. r.kind # "status" /\ UNCHANGED summary /\ requests \ {r} \subseteq requests'
    BY <1>9 DEF ShowsLabels, LabelKinds, Edits
  <2> QED
    BY <1>5, <2>2, <2>3
<1>10. CASE AsksLabels(r)
  BY <1>2, <1>5, <1>10 DEF AsksLabels
<1>11. CASE EndsCommand(r)
  <2>1. /\ r.kind \in CommandKinds /\ Repolls(Ended(r), r, Here = r.meeting) /\ record' = record /\ screen' = screen
    BY <1>11 DEF EndsCommand, Ended, Told
  <2>2. /\ SummaryOK(Ended(r)) /\ r.meeting \in Meetings
        /\ r.step = "failed" => Ended(r).job = summary.job
        /\ r.step = "answered" => \A x \in Meetings \ {r.meeting} : Ended(r).job[x] = summary.job[x]
        /\ Ended(r).pending = summary.pending \ {r.meeting} /\ Ended(r).timer = summary.timer
        /\ Ended(r).lost = summary.lost
    BY <2>1, EndedFacts
  <2>3. CASE Here = r.meeting
    <3>1. PICK sum : sum = Ended(r)
      OBVIOUS
    <3>2. summary' = PollSet(record', sum, screen')
      BY <2>1, <2>3, <3>1 DEF Repolls
    <3> QED
      BY <1>3, <2>2, <3>1, <3>2, PollFollows
  <2>4. CASE Here # r.meeting
    <3>1. summary' = Ended(r) /\ requests' = requests \ {r} /\ Here' = Here
      BY <1>2, <2>1, <2>4 DEF Repolls
    <3>2. Here \in MeetingOrNone
      BY SelectedFacts DEF Here, WindowTyped, RecordTyped, ScreenTyped
    <3>3. r.step \in {"answered", "failed"}
      BY DEF WindowTyped, RequestTyped
    <3>4. JobOf(summary', Here) = JobOf(summary, Here)
      BY <2>2, <2>4, <3>1, <3>2, <3>3 DEF JobOf, MeetingOrNone
    <3>5. /\ summary'.timer = summary.timer /\ (Here \in summary.pending => Here \in summary'.pending)
          /\ summary'.lost = summary.lost
      BY <2>2, <2>4, <3>1
    <3>6. ASSUME NEW s \in requests, s.kind = "status", PollIsCurrent(s)
          PROVE  s \in requests' /\ {"poll", "summary"} \subseteq s.current
      BY <2>1, <3>1, <3>6 DEF PollIsCurrent, IsCurrent, CommandKinds
    <3> QED
      BY <1>1, <3>1, <3>4, <3>5, <3>6, WatchStays
  <2> QED
    BY <2>3, <2>4
<1>12. CASE ShowsStatus(r)
  <2>1. r.kind = "status" /\ PollIsCurrent(r) /\ record' = record /\ screen' = screen /\ r.step \in {"failed", "answered"}
    BY <1>12 DEF ShowsStatus, WindowTyped, RequestTyped
  <2>2. r.meeting \in Meetings /\ Here = r.meeting
    BY <1>4, <2>1 DEF JobKinds, PollIsCurrent
  <2>3. CASE r.step = "failed"
    <3>1. summary' = [summary EXCEPT !.lost = @ \cup {r.meeting}]
      BY <1>12, <2>3 DEF ShowsStatus, Repolls
    <3>2. summary' = [job |-> summary.job, pending |-> summary.pending, timer |-> summary.timer, lost |-> summary.lost \cup {r.meeting}]
      BY <1>3, <2>2, <3>1, SummaryForms
    <3>3. r.meeting \in summary'.lost /\ Here' = r.meeting
      BY <1>2, <2>1, <2>2, <3>2
    <3> QED
      BY <3>3 DEF SummaryIsWatched
  <2>4. CASE r.step = "answered"
    <3>1. PICK sum : sum = Told(r.meeting, r.reply)
      OBVIOUS
    <3>2. summary' = PollSet(record', sum, screen')
      BY <1>12, <2>1, <2>4, <3>1 DEF ShowsStatus, Repolls, Told
    <3>3. r.reply.id \in Nat /\ SummaryTyped
      BY <2>1, <2>4 DEF WindowTyped, RequestOK, JobKinds
    <3>4. SummaryOK(Told(r.meeting, r.reply))
      BY ONLY <2>2, <3>3, ToldFacts
    <3> QED
      BY <1>3, <3>1, <3>2, <3>4, PollFollows
  <2> QED
    BY <2>1, <2>3, <2>4
<1>13. CASE ShowsSnapshot(r)
  <2>1. r.kind \in SnapshotKinds /\ Repolls(summary, r, Selected(record, screen') # Here) /\ record' = record
    BY <1>13 DEF ShowsSnapshot
  <2>2. CASE Selected(record, screen') # Here
    <3>1. summary' = PollSet(record', summary, screen')
      BY <2>1, <2>2 DEF Repolls
    <3> QED
      BY <1>3, <3>1, PollFollows
  <2>3. CASE Selected(record, screen') = Here
    <3>1. summary' = summary /\ requests' = requests \ {r}
      BY <2>1, <2>3 DEF Repolls
    <3>2. Here' = Here
      BY <2>1, <2>3 DEF Here
    <3>3. r.kind # "status"
      BY <2>1 DEF SnapshotKinds
    <3> QED
      BY <1>5, <3>1, <3>2, <3>3
  <2> QED
    BY <2>2, <2>3
<1> QED
  BY <1>6, <1>7, <1>8, <1>9, <1>10, <1>11, <1>12, <1>13 DEF Arrived

\* A request of a kind is still there, however old.
LEMMA KindKept ==
    ASSUME WindowTyped, NEW S, S \subseteq requests, NEW lost \in Losses, NEW r \in S
    PROVE  \E s \in Weakened(S, lost) : s.kind = r.kind
<1>1. Weaken(r, lost).kind = r.kind
  BY WeakenFacts DEF WindowTyped
<1> QED
  BY <1>1 DEF Weakened

\* The snapshot: a poll is under way, or its timer is set.
LEMMA SnapshotStep ==
    ASSUME WindowTyped, WatchInv, WindowStep
    PROVE  SnapshotIsWatched'
<1> DEFINE Polled(S) == \E r \in S : r.kind = "poll"
<1>1. SnapshotIsWatched
  BY DEF WatchInv
<1>2. ASSUME screen'.latest = screen.latest, screen'.timer = screen.timer, screen'.opened = screen.opened,
             Polled(requests) => Polled(requests')
      PROVE  SnapshotIsWatched'
  BY <1>1, <1>2 DEF SnapshotIsWatched
<1>3. /\ Losing({"detail", "poll"}) \in Losses /\ Losing({"speaker"}) \in Losses /\ Losing({"speaker", "poll"}) \in Losses
      /\ Losing({"poll"}) \in Losses /\ \A m \in Meetings : LosingSummary(m) \in Losses
  BY LossesFacts DEF Counters
<1>4. ASSUME NEW S, S \subseteq requests, NEW lost \in Losses, \A r \in requests \ S : r.kind # "poll",
             Weakened(S, lost) \subseteq requests'
      PROVE  Polled(requests) => Polled(requests')
  <2>1. ASSUME NEW r \in requests, r.kind = "poll" PROVE Polled(requests')
    <3>1. r \in S
      BY <1>4, <2>1
    <3>2. \E s \in Weakened(S, lost) : s.kind = r.kind
      BY <1>4, <3>1, KindKept
    <3> QED
      BY <1>4, <2>1, <3>2
  <2> QED
    BY <2>1
<1>5. requests \subseteq requests /\ \A r \in requests \ requests : r.kind # "poll"
  OBVIOUS
<1>6. ASSUME NEW r, r.kind # "poll"
      PROVE  requests \ {r} \subseteq requests /\ \A s \in requests \ (requests \ {r}) : s.kind # "poll"
  BY <1>6
<1>7. CASE OpensRecord
  <2>1. UNCHANGED screen /\ Weakened(requests, Losing({"detail", "poll"})) \subseteq requests'
    BY <1>7 DEF OpensRecord
  <2>2. Polled(requests) => Polled(requests')
    BY <1>3, <1>4, <1>5, <2>1
  <2> QED
    BY <1>2, <2>1, <2>2
<1>8. CASE AsksPlainly
  <2>1. ScreenKept /\ requests \subseteq requests'
    BY <1>8 DEF AsksPlainly
  <2> QED
    BY <1>2, <2>1 DEF ScreenKept
<1>9. CASE AsksSpeakers
  <2>1. UNCHANGED screen /\ Weakened(requests, Losing({"speaker"})) \subseteq requests'
    BY <1>9 DEF AsksSpeakers
  <2>2. Polled(requests) => Polled(requests')
    BY <1>3, <1>4, <1>5, <2>1
  <2> QED
    BY <1>2, <2>1, <2>2
<1>10. CASE AsksSummary
  <2>1. UNCHANGED screen /\ Weakened(requests, LosingSummary(Here)) \subseteq requests' /\ Here \in Meetings
    BY <1>10 DEF AsksSummary
  <2>2. Polled(requests) => Polled(requests')
    BY <1>3, <1>4, <1>5, <2>1
  <2> QED
    BY <1>2, <2>1, <2>2
<1>11. CASE TimerFires
  <2>1. CASE UNCHANGED screen /\ requests \subseteq requests'
    BY <1>2, <2>1
  <2>2. CASE requests' = requests \cup {Request("poll", None, 0)}
    <3>1. Request("poll", None, 0).kind = "poll"
      BY DEF Request
    <3> QED
      BY <2>2, <3>1 DEF SnapshotIsWatched
  <2> QED
    BY <1>11, <2>1, <2>2 DEF TimerFires
<1>12. CASE Works
  BY <1>2, <1>12 DEF Works
<1>13. ASSUME NEW r \in requests, NEW q, Serves(r, q) PROVE SnapshotIsWatched'
  <2>1. requests' = (requests \ {r}) \cup {q} /\ q.kind = r.kind /\ UNCHANGED screen
    BY <1>13 DEF Serves, Handled
  <2>2. Polled(requests) => Polled(requests')
    BY <2>1
  <2> QED
    BY <1>2, <2>1, <2>2
<1>14. ASSUME NEW r \in requests, r.kind # "poll", NEW sum, NEW again, Repolls(sum, r, again)
       PROVE  Polled(requests) => Polled(requests')
  <2>1. CASE again
    <3>1. Weakened(requests \ {r}, Losing({"poll"})) \subseteq requests'
      BY <1>14, <2>1 DEF Repolls
    <3> QED
      BY <1>3, <1>4, <1>6, <1>14, <3>1
  <2>2. CASE ~again
    BY <1>14, <2>2 DEF Repolls
  <2> QED
    BY <2>1, <2>2
<1>15. ASSUME NEW r \in requests, r.step # "sent", Arrived(r) PROVE SnapshotIsWatched'
  <2>1. CASE Drops(r)
    <3>1. r.kind # "poll" /\ requests' = requests \ {r} /\ ScreenKept
      BY <2>1 DEF Drops
    <3> QED
      BY <1>2, <3>1 DEF ScreenKept
  <2>2. CASE Notes(r) \/ ShowsLabels(r)
    <3>1. r.kind # "poll" /\ requests' = requests \ {r} /\ UNCHANGED screen
      BY <2>2 DEF Notes, ShowsLabels, LabelKinds, Edits
    <3> QED
      BY <1>2, <3>1
  <2>3. CASE AsksLabels(r)
    <3>1. r.kind # "poll" /\ requests \ {r} \subseteq requests' /\ UNCHANGED screen
      BY <2>3 DEF AsksLabels
    <3> QED
      BY <1>2, <3>1
  <2>4. CASE ShowsDetail(r)
    <3>1. r.kind # "poll" /\ UNCHANGED screen /\ Weakened(requests \ {r}, Losing({"speaker", "poll"})) \subseteq requests'
      BY <2>4 DEF ShowsDetail
    <3>2. Polled(requests) => Polled(requests')
      BY <1>3, <1>4, <1>6, <3>1
    <3> QED
      BY <1>2, <3>1, <3>2
  <2>5. CASE EndsCommand(r) \/ ShowsStatus(r)
    <3>1. PICK sum, again : r.kind # "poll" /\ UNCHANGED screen /\ Repolls(sum, r, again)
      BY <2>5 DEF EndsCommand, ShowsStatus, CommandKinds
    <3> QED
      BY <1>2, <1>14, <3>1
  <2>6. CASE ShowsSnapshot(r)
    <3>1. /\ r.step # "answered" => r.kind = "poll"
          /\ r.step = "answered" => screen'.latest = r.reply
          /\ screen'.opened = (r.kind = "open")
          /\ r.kind # "open" => screen'.timer = (screen'.latest.active \/ screen'.latest.queued)
      BY <2>6 DEF ShowsSnapshot
    <3>2. CASE r.kind = "open"
      <4>1. ~screen'.latest.active /\ screen'.opened
        BY <3>1, <3>2 DEF WatchInv, OpenedAtRest
      <4> QED
        BY <4>1 DEF SnapshotIsWatched
    <3>3. CASE r.kind # "open"
      BY <3>1, <3>3 DEF SnapshotIsWatched
    <3> QED
      BY <3>2, <3>3
  <2> QED
    BY <1>15, <2>1, <2>2, <2>3, <2>4, <2>5, <2>6 DEF Arrived
<1> QED
  BY <1>7, <1>8, <1>9, <1>10, <1>11, <1>12, <1>13, <1>15 DEF WindowStep

\* Where nothing was opened that runs: only the service answers.
LEMMA OpenedStep ==
    ASSUME WindowTyped, OpenedAtRest, WindowStep
    PROVE  OpenedAtRest'
<1>1. ASSUME NEW lost, NEW new, Ages(lost, new), \A q \in new : q.step = "sent"
      PROVE  OpenedAtRest'
  <2>1. ASSUME NEW r \in requests
        PROVE  Weaken(r, lost).kind = r.kind /\ Weaken(r, lost).step = r.step /\ Weaken(r, lost).reply = r.reply
    BY <1>1, <2>1, WeakenFacts DEF WindowTyped, Ages
  <2> QED
    BY <1>1, <2>1 DEF Ages, Weakened, OpenedAtRest
<1>2. /\ Losing({}) \in Losses /\ Losing({"detail", "poll"}) \in Losses /\ Losing({"speaker"}) \in Losses
      /\ Losing({"speaker", "poll"}) \in Losses /\ \A m \in Meetings : LosingSummary(m) \in Losses
  BY LossesFacts DEF Counters
<1>3. requests = Weakened(requests, Losing({}))
  BY WeakenNothing DEF WindowTyped
<1>4. ASSUME NEW new, requests' \subseteq requests \cup new, \A q \in new : q.step = "sent" PROVE OpenedAtRest'
  BY <1>4 DEF OpenedAtRest
<1>5. \A kind, m, arg : Request(kind, m, arg).step = "sent"
  BY DEF Request
<1>6. ASSUME NEW lost \in Losses, NEW S, S \subseteq requests, NEW q, q.step = "sent",
             requests' = Weakened(S, lost) \cup {q}
      PROVE  OpenedAtRest'
  <2>1. Weakened(S, lost) \subseteq Weakened(requests, lost)
    BY <1>6 DEF Weakened
  <2>2. Ages(lost, {q})
    BY <1>6, <2>1 DEF Ages
  <2> QED
    BY <1>1, <1>6, <2>2
<1>7. CASE OpensRecord
  BY <1>2, <1>5, <1>6, <1>7 DEF OpensRecord
<1>8. CASE AsksPlainly
  BY <1>5, <1>8 DEF AsksPlainly, OpenedAtRest
<1>9. CASE AsksSpeakers
  BY <1>2, <1>6, <1>9 DEF AsksSpeakers, SpeakerAsk
<1>10. CASE AsksSummary
  <2>1. PICK q : Here \in Meetings /\ q.step = "sent" /\ requests' = Weakened(requests, LosingSummary(Here)) \cup {q}
    BY <1>5, <1>10 DEF AsksSummary
  <2> QED
    BY <1>2, <1>6, <2>1
<1>11. CASE TimerFires
  BY <1>5, <1>11 DEF TimerFires, OpenedAtRest
<1>12. CASE Works
  BY <1>12 DEF Works, OpenedAtRest
<1>13. ASSUME NEW r \in requests, NEW q, Serves(r, q) PROVE OpenedAtRest'
  <2>1. requests' = (requests \ {r}) \cup {q} /\ (q.step = "answered" => ReplyOfSnapshots(q))
    BY <1>13 DEF Serves
  <2> QED
    BY <2>1 DEF ReplyOfSnapshots, SnapshotKinds, OpenedAtRest
<1>14. ASSUME NEW r \in requests, Arrived(r) PROVE OpenedAtRest'
  <2>1. CASE Drops(r) \/ Notes(r) \/ ShowsLabels(r)
    <3>1. requests' = requests \ {r}
      BY <2>1 DEF Drops, Notes, ShowsLabels
    <3> QED
      BY <3>1 DEF OpenedAtRest
  <2>2. CASE AsksLabels(r)
    <3> DEFINE q == [Request("latest", r.meeting, 0) EXCEPT !.current = r.current]
    <3>1. q.step = "sent"
      BY DEF Request
    <3>2. requests' = (requests \ {r}) \cup {q}
      BY <2>2 DEF AsksLabels
    <3> HIDE DEF q
    <3> QED
      BY <3>1, <3>2 DEF OpenedAtRest
  <2>3. CASE ShowsDetail(r)
    <3>1. requests \ {r} \subseteq requests
      OBVIOUS
    <3> QED
      BY <1>2, <1>5, <1>6, <2>3, <3>1 DEF ShowsDetail
  <2>4. CASE EndsCommand(r) \/ ShowsStatus(r) \/ ShowsSnapshot(r)
    <3>1. PICK sum, again : Repolls(sum, r, again)
      BY <2>4 DEF EndsCommand, ShowsStatus, ShowsSnapshot
    <3>2. \E lost : Ages(lost, {})
      BY <3>1, RepollsAge
    <3> QED
      BY <1>1, <3>2
  <2> QED
    BY <1>14, <2>1, <2>2, <2>3, <2>4 DEF Arrived
<1> QED
  BY <1>7, <1>8, <1>9, <1>10, <1>11, <1>12, <1>13, <1>14 DEF WindowStep

\* Every step.
LEMMA WatchStep ==
    ASSUME WindowTyped, WatchInv, WindowStep
    PROVE  WatchInv'
<1>1. WindowTyped'
  BY TypedStep
<1>2. OpenedAtRest' /\ SnapshotIsWatched'
  BY OpenedStep, SnapshotStep DEF WatchInv
<1>3. SummaryIsWatched'
  <2>1. CASE OpensRecord \/ AsksPlainly \/ AsksSpeakers \/ AsksSummary \/ TimerFires
    BY <1>1, <2>1, AsksAreWatched
  <2>2. CASE \E r \in requests : r.step # "sent" /\ Arrived(r)
    BY <1>1, <2>2, AnswersAreWatched
  <2>3. CASE Works
    <3>1. UNCHANGED <<record, summary, screen, requests>> /\ SummaryIsWatched
      BY <2>3 DEF Works, WatchInv
    <3> QED
      BY <3>1 DEF SummaryIsWatched, PollIsCurrent, Here
  <2>4. ASSUME NEW r \in requests, NEW q, Serves(r, q) PROVE SummaryIsWatched'
    <3>1. /\ requests' = (requests \ {r}) \cup {q} /\ UNCHANGED <<record, summary, screen>>
          /\ q.kind = r.kind /\ q.meeting = r.meeting /\ q.arg = r.arg /\ q.current = r.current
      BY <2>4 DEF Serves, Handled
    <3>2. Here' = Here
      BY <3>1 DEF Here, Selected
    <3>3. ASSUME NEW s \in requests, s.kind = "status", PollIsCurrent(s)
          PROVE  \E t \in requests' : /\ t.kind = "status" /\ t.meeting = s.meeting /\ t.arg = s.arg
                                      /\ {"poll", "summary"} \subseteq t.current
      <4>1. {"poll", "summary"} \subseteq s.current
        BY <3>3 DEF PollIsCurrent, IsCurrent
      <4>2. CASE s = r
        BY <3>1, <3>3, <4>1, <4>2
      <4>3. CASE s # r
        BY <3>1, <3>3, <4>1, <4>3
      <4> QED
        BY <4>2, <4>3
    <3>4. SummaryIsWatched
      BY DEF WatchInv
    <3> QED
      BY <3>1, <3>2, <3>3, <3>4, WatchKept
  <2> QED
    BY <2>1, <2>2, <2>3, <2>4 DEF WindowStep
<1> QED
  BY <1>2, <1>3 DEF WatchInv

\* Nothing runs at first.
LEMMA WatchStarts ==
    ASSUME WindowInit
    PROVE  WatchInv
<1>1. OpenedAtRest
  BY DEF WindowInit, OpenedAtRest
<1>2. ~screen.latest.active /\ ~screen.latest.queued
  <2>1. PICK m : live = [meeting |-> m, active |-> FALSE, queued |-> FALSE]
    BY DEF WindowInit
  <2>2. screen.latest = live
    BY DEF WindowInit
  <2>3. live.active = FALSE /\ live.queued = FALSE
    BY <2>1
  <2> QED
    BY <2>2, <2>3
<1>3. SnapshotIsWatched
  BY <1>2 DEF SnapshotIsWatched
<1>4. SummaryIsWatched
  <2>1. Here = None \/ Here \in Meetings
    BY WindowStarts, HereFacts DEF WindowTyped
  <2>2. summary.job = [m \in Meetings |-> NoJob]
    BY DEF WindowInit
  <2>3. JobOf(summary, Here) = NoJob
    BY <2>1, <2>2 DEF JobOf
  <2> QED
    BY <2>3 DEF SummaryIsWatched, NoJob, Running
<1> QED
  BY <1>1, <1>3, <1>4 DEF WatchInv

\* A summary that runs for the selected meeting is polled, has a command under
\* way or lost a poll; a session on the screen, or its translations, are polled.
THEOREM WindowWatches == WindowSpec => []WindowKeepsWatching
<1>1. WindowInit => WindowTyped /\ WatchInv
  BY WindowStarts, WatchStarts
<1>2. WindowTyped /\ WatchInv /\ [WindowNext]_windowVars => (WindowTyped /\ WatchInv)'
  BY StepKinds, TypedStep, WatchStep
<1>3. WatchInv => WindowKeepsWatching
  BY DEF WatchInv, WindowKeepsWatching
<1> QED
  BY <1>1, <1>2, <1>3, PTL DEF WindowSpec

=============================================================================
