----------------------------- MODULE ExportBundle -----------------------------
(***************************************************************************)
(* Exports of a meeting (mvp/export.rs) beside the library of meetings: the *)
(* summary and the snapshot are read, every file is written in a staging    *)
(* directory, moved to its name, read back, and the bundle is recorded.     *)
(* Export commands run on a pool of threads and take no lock: two of them,  *)
(* from two buttons, may overlap with each other and with every change of   *)
(* the library.  The process may end at any step; what is in the folder     *)
(* stays.                                                                   *)
(***************************************************************************)
EXTENDS MeetingLibrary, ExportProjection

CONSTANTS
    Clients,          \* threads that run an export command
    AskedOptions,     \* options a user may choose
    ExportedMeetings, \* meetings a user may export
    DocumentLimit     \* finals that still fit in a document (MAX_PARAGRAPHS and so on)

ASSUME ExportBounds ==
    ExportedMeetings \subseteq Ids /\ DocumentLimit \in Nat /\ \A o \in AskedOptions : o = Legacy \/ ValidOptions(o)

VARIABLES
    exporters,  \* the export each client runs
    folder,     \* files at their names; run: the export that wrote it, a history
    staging,    \* files in staging directories
    dirs,       \* staging directories, by the run that made them
    rows,       \* mvp_exports
    raced,      \* snapshots of which two exports ran at the same time
    touched,    \* snapshots of which the user changed a file
    orphaned    \* snapshots whose export was cut short

exportVars == <<exporters, folder, staging, dirs, rows, raced, touched, orphaned>>
vars == <<libraryVars, exportVars>>

NoSnapshot == [meeting |-> 0, state |-> Absent, finals |-> <<>>, translated |-> <<>>, version |-> 0, label |-> "", generation |-> 0]
Blank == [step |-> "idle", run |-> 0, meeting |-> 0, options |-> Legacy, summary |-> NoSummary,
          snapshot |-> NoSnapshot, todo |-> <<>>, staged |-> <<>>, done |-> <<>>, dirt |-> <<>>, result |-> ""]

Init ==
    /\ LibraryInit
    /\ exporters = [c \in Clients |-> Blank]
    /\ folder = {} /\ staging = {} /\ dirs = {} /\ rows = {} /\ raced = {} /\ touched = {} /\ orphaned = {}

(* The id of a snapshot is a digest of what the meeting says: the snapshot. *)
(* The options are not part of it.                                          *)
Name(x, format) == [id |-> x.snapshot, format |-> format]
(* The bytes under a name are the Facts of these two. *)
Bytes(x) == [projection |-> Projection(x.options), summary |-> x.summary.version]
FileOf(x, format) == [name |-> Name(x, format), bytes |-> Bytes(x), edited |-> FALSE, run |-> x.run]
TempOf(x, format, whole) == [run |-> x.run, format |-> format, whole |-> whole]

Named(name) == {f \in folder : f.name = name}
(* A file with the bytes that this export wrote *)
Same(f, x) == f.bytes = Bytes(x) /\ ~f.edited
Busy(x) == x.step \notin {"idle", "answered"}
Publishing(x) == x.step \in {"staging", "publishing", "checked", "renamed", "recording", "cleaning"}

Put1(c, x) == exporters' = [exporters EXCEPT ![c] = x]
Answered(x, result) == [x EXCEPT !.step = "answered", !.result = result]

-----------------------------------------------------------------------------
(* The command arrives: export_meeting (Legacy) or export_meeting_options.  *)
Ask(c, m, options) ==
    /\ phase = "open" /\ left.exports > 0 /\ ~Busy(exporters[c])
    /\ left' = [left EXCEPT !.exports = @ - 1]
    /\ Put1(c, [Blank EXCEPT !.step = "asked", !.run = left.exports, !.meeting = m, !.options = options])
    /\ UNCHANGED <<database, window, loads, recovery, changed, folder, staging, dirs, rows, raced, touched, orphaned>>

(* The summary of the version asked for, or that of the latest job.  The    *)
(* latest job may be an unfinished one (running, failed or cancelled): then *)
(* no summary is linked, whatever the earlier ones say.                     *)
ChooseSummary(c, unfinished) ==
    LET x == exporters[c]
        versions == meetings[x.meeting].summaries
        v == IF x.options.summaryVersion = 0 THEN Len(versions) ELSE x.options.summaryVersion IN
    /\ x.step = "asked"
    /\ Put1(c, IF ~x.options.summary \/ v = 0 \/ (x.options.summaryVersion = 0 /\ unfinished) THEN [x EXCEPT !.step = "chosen"]
               ELSE IF v \in DOMAIN versions THEN [x EXCEPT !.step = "chosen", !.summary = [version |-> v, sections |-> versions[v]]]
               ELSE Answered(x, IF unfinished THEN "SUMMARY_VERSION_NOT_COMPLETED" ELSE "SUMMARY_VERSION_NOT_FOUND"))
    /\ UNCHANGED <<libraryVars, folder, staging, dirs, rows, raced, touched, orphaned>>

SnapshotGeneration(m) == Max({0} \cup {r.name.id.generation : r \in {r \in rows : r.name.id.meeting = m}}) + 1

(* snapshot_from_transaction; a version of speakers that is asked for       *)
(* replaces the latest one.                                                 *)
SnapshotOf(m, options) ==
    LET r == meetings[m]
        v == IF options.speaker /\ options.speakerVersion # 0 THEN options.speakerVersion ELSE Len(r.speakers)
    IN [meeting |-> m, state |-> r.state, finals |-> r.finals, translated |-> r.translated, version |-> v,
        label |-> IF v \in DOMAIN r.speakers THEN r.speakers[v] ELSE "", generation |-> SnapshotGeneration(m)]

Refusal(m, options) ==
    IF ~Live(m) THEN "MVP_STORAGE_MEETING_NOT_FOUND"
    ELSE IF options.speaker /\ SnapshotOf(m, options).label = "" THEN "SPEAKER_VERSION_NOT_FOUND"
    ELSE IF meetings[m].state = "recording" THEN "MVP_EXPORT_RECORDING_NOT_ALLOWED"
    ELSE IF meetings[m].incomplete THEN "MVP_EXPORT_INCOMPLETE"
    ELSE IF Len(meetings[m].finals) > DocumentLimit /\ ToSet(options.formats) \cap {"docx", "pdf"} # {}
         THEN "MVP_EXPORT_DOCUMENT_RENDER_FAILED"
    ELSE ""

(* The snapshot is read in one transaction, everything is rendered from it, *)
(* and the staging directory is made.                                       *)
ReadSnapshot(c) ==
    LET x == exporters[c]
        refusal == Refusal(x.meeting, x.options)
        s == SnapshotOf(x.meeting, x.options)
        others == {d \in Clients \ {c} : Publishing(exporters[d]) /\ exporters[d].snapshot = s} IN
    /\ x.step = "chosen"
    /\ Put1(c, IF refusal # "" THEN Answered(x, refusal)
               ELSE [x EXCEPT !.step = "staging", !.snapshot = s, !.todo = x.options.formats])
    /\ dirs' = IF refusal = "" THEN dirs \cup {x.run} ELSE dirs
    /\ raced' = IF refusal = "" /\ others # {} THEN raced \cup {s} ELSE raced
    /\ UNCHANGED <<libraryVars, folder, staging, rows, touched, orphaned>>

-----------------------------------------------------------------------------
(* An error: what was published is removed first, then what is staged. *)
Published(x, formats) == [i \in DOMAIN formats |-> [place |-> "folder", format |-> formats[i]]]
Staged(formats) == [i \in DOMAIN formats |-> [place |-> "staging", format |-> formats[i]]]

Failing(x, result, dirt) == [x EXCEPT !.step = "cleaning", !.result = result, !.dirt = dirt]

(* The cleanup of an error stops: its error takes the place of the first.   *)
Stuck(x) == Answered(x, "MVP_EXPORT_CLEANUP_FAILED")

(* A check that is followed by `?` answers at once and cleans nothing: what *)
(* is staged, published and made stays.                                     *)
AtOnce(x) == Answered(x, "MVP_EXPORT_TARGET_UNAVAILABLE")

(* Answers after which something may be left *)
Uncleaned == {"MVP_EXPORT_CLEANUP_FAILED", "MVP_EXPORT_TARGET_UNAVAILABLE"}

(* stage_export: the file is made, written, flushed and read back. *)
StageFile(c) ==
    LET x == exporters[c] IN
    /\ x.step = "staging" /\ x.todo # <<>>
    /\ Put1(c, [x EXCEPT !.todo = Tail(@), !.staged = Append(@, Head(x.todo))])
    /\ staging' = staging \cup {TempOf(x, Head(x.todo), TRUE)}
    /\ UNCHANGED <<libraryVars, folder, dirs, rows, raced, touched, orphaned>>

(* Not made (nothing is left of it), or written in part: cleanup_file finds *)
(* another length and keeps the part, and the directory stays with it.      *)
StageFails(c, created) ==
    LET x == exporters[c] IN
    /\ x.step = "staging" /\ x.todo # <<>> /\ left.faults > 0
    /\ left' = [left EXCEPT !.faults = @ - 1]
    /\ staging' = IF created THEN staging \cup {TempOf(x, Head(x.todo), FALSE)} ELSE staging
    /\ Put1(c, Failing(x, IF created THEN "MVP_EXPORT_CLEANUP_FAILED" ELSE "MVP_EXPORT_TEMP_CREATE_FAILED", Staged(x.staged)))
    /\ UNCHANGED <<database, window, loads, recovery, changed, folder, dirs, rows, raced, touched, orphaned>>

(* Fault: the bundle is recorded before it is published. *)
StagedAllRecorded(c) ==
    LET x == exporters[c] IN
    /\ x.step = "staging" /\ x.todo = <<>>
    /\ Put1(c, [x EXCEPT !.step = "publishing"])
    /\ rows' = rows \cup {[name |-> Name(x, f), bytes |-> Bytes(x)] : f \in ToSet(x.staged)}
    /\ UNCHANGED <<libraryVars, folder, staging, dirs, raced, touched, orphaned>>

StagedAll(c) ==
    /\ exporters[c].step = "staging" /\ exporters[c].todo = <<>>
    /\ Put1(c, [exporters[c] EXCEPT !.step = "publishing"])
    /\ UNCHANGED <<libraryVars, folder, staging, dirs, rows, raced, touched, orphaned>>

(* publish_staged_exports looks at the name *)
CheckTarget(c) ==
    LET x == exporters[c] IN
    /\ x.step = "publishing" /\ x.staged # <<>>
    /\ Put1(c, IF Named(Name(x, Head(x.staged))) # {}
               THEN Failing(x, "MVP_EXPORT_TARGET_EXISTS", Published(x, x.done) \o Staged(x.staged))
               ELSE [x EXCEPT !.step = "checked"])
    /\ UNCHANGED <<libraryVars, folder, staging, dirs, rows, raced, touched, orphaned>>

(* rename takes the place of a file that has come meanwhile. *)
Rename(c) ==
    LET x == exporters[c]  format == Head(x.staged) IN
    /\ x.step = "checked"
    /\ folder' = (folder \ Named(Name(x, format))) \cup {FileOf(x, format)}
    /\ staging' = staging \ {TempOf(x, format, TRUE)}
    /\ Put1(c, [x EXCEPT !.step = "renamed"])
    /\ UNCHANGED <<libraryVars, dirs, rows, raced, touched, orphaned>>

(* Also a target whose look-up fails in another way: the cleanup is the same *)
RenameFails(c) ==
    LET x == exporters[c] IN
    /\ x.step = "checked" /\ left.faults > 0
    /\ left' = [left EXCEPT !.faults = @ - 1]
    /\ Put1(c, Failing(x, "MVP_EXPORT_ATOMIC_PUBLISH_FAILED", Published(x, x.done) \o Staged(x.staged)))
    /\ UNCHANGED <<database, window, loads, recovery, changed, folder, staging, dirs, rows, raced, touched, orphaned>>

(* The folders, the staged file and, once renamed, the file at its name are *)
(* looked at again before each file; so is the new staging directory, and   *)
(* each rendered text before it is staged.  In a cleanup one file, or the   *)
(* directory, cannot be looked at or removed.                               *)
GivesUp(c) ==
    LET x == exporters[c] IN
    /\ x.step \in {"staging", "publishing", "renamed", "cleaning"} /\ left.faults > 0
    /\ left' = [left EXCEPT !.faults = @ - 1]
    /\ Put1(c, IF x.step = "cleaning" THEN Stuck(x) ELSE AtOnce(x))
    /\ orphaned' = orphaned \cup {x.snapshot}
    /\ UNCHANGED <<database, window, loads, recovery, changed, folder, staging, dirs, rows, raced, touched>>

(* The file is read back.  Gone: the error returns and cleans nothing.      *)
(* Other bytes: it counts as published, and the cleanup will refuse it.     *)
ReadBack(c) ==
    LET x == exporters[c]
        format == Head(x.staged)
        there == Named(Name(x, format))
        next == [x EXCEPT !.staged = Tail(@), !.done = Append(@, format)] IN
    /\ x.step = "renamed"
    /\ Put1(c, IF there = {} THEN AtOnce(x)
               ELSE IF \E f \in there : ~Same(f, x)
               THEN Failing(next, "MVP_EXPORT_PUBLISHED_VALIDATE_FAILED", Published(next, next.done) \o Staged(next.staged))
               ELSE [next EXCEPT !.step = IF next.staged = <<>> THEN "recording" ELSE "publishing"])
    /\ orphaned' = IF there = {} THEN orphaned \cup {x.snapshot} ELSE orphaned
    /\ UNCHANGED <<libraryVars, folder, staging, dirs, rows, raced, touched>>

(* record_export_snapshot, one transaction: the meeting may have been       *)
(* purged, and the same bundle recorded by another export.                  *)
Record(c) ==
    LET x == exporters[c]
        mine == {[name |-> Name(x, f), bytes |-> Bytes(x)] : f \in ToSet(x.done)}
        refused == meetings[x.snapshot.meeting].state = Purged \/ mine \cap rows # {} IN
    /\ x.step = "recording"
    /\ rows' = IF refused THEN rows ELSE rows \cup mine
    /\ Put1(c, IF refused THEN Failing(x, "MVP_STORAGE_EXPORT_RECORD_FAILED", Published(x, x.done)) ELSE [x EXCEPT !.step = "closing"])
    /\ UNCHANGED <<libraryVars, folder, staging, dirs, raced, touched, orphaned>>

(* The queue of the writer is full, or the writer has stopped. *)
RecordFails(c) ==
    LET x == exporters[c] IN
    /\ x.step = "recording" /\ left.faults > 0
    /\ left' = [left EXCEPT !.faults = @ - 1]
    /\ Put1(c, Failing(x, "MVP_STORAGE_QUEUE_FULL", Published(x, x.done)))
    /\ UNCHANGED <<database, window, loads, recovery, changed, folder, staging, dirs, rows, raced, touched, orphaned>>

(* cleanup_empty_staging_dir after a bundle that is recorded *)
Close(c) ==
    LET x == exporters[c] IN
    /\ x.step = "closing"
    /\ dirs' = dirs \ {x.run}
    /\ Put1(c, Answered(x, "ok"))
    /\ UNCHANGED <<libraryVars, folder, staging, rows, raced, touched, orphaned>>

(* The directory cannot be removed: an error, of a bundle that is published *)
(* and recorded whole.                                                      *)
CloseFails(c) ==
    LET x == exporters[c] IN
    /\ x.step = "closing" /\ left.faults > 0
    /\ left' = [left EXCEPT !.faults = @ - 1]
    /\ Put1(c, AtOnce(x))
    /\ UNCHANGED <<database, window, loads, recovery, changed, folder, staging, dirs, rows, raced, touched, orphaned>>

(* Fault: cleanup_file does not compare the bytes. *)
CleanupAny(c) ==
    LET x == exporters[c]
        item == Head(x.dirt)
        target == Named(Name(x, item.format)) IN
    /\ x.step = "cleaning" /\ x.dirt # <<>>
    /\ folder' = IF item.place = "folder" THEN folder \ target ELSE folder
    /\ staging' = IF item.place = "staging" THEN staging \ {TempOf(x, item.format, TRUE)} ELSE staging
    /\ Put1(c, [x EXCEPT !.dirt = Tail(@)])
    /\ UNCHANGED <<libraryVars, dirs, rows, raced, touched, orphaned>>

(* cleanup_file: only an item with the bytes written is removed; another     *)
(* one stops the cleanup.                                                   *)
Cleanup(c) ==
    LET x == exporters[c]
        item == Head(x.dirt)
        target == Named(Name(x, item.format))
        foreign == item.place = "folder" /\ \E f \in target : ~Same(f, x) IN
    /\ x.step = "cleaning" /\ x.dirt # <<>>
    /\ folder' = IF item.place = "folder" /\ ~foreign THEN folder \ target ELSE folder
    /\ staging' = IF item.place = "staging" THEN staging \ {TempOf(x, item.format, TRUE)} ELSE staging
    /\ Put1(c, IF foreign THEN Stuck(x) ELSE [x EXCEPT !.dirt = Tail(@)])
    /\ orphaned' = IF foreign THEN orphaned \cup {x.snapshot} ELSE orphaned
    /\ UNCHANGED <<libraryVars, dirs, rows, raced, touched>>

(* Only an empty directory can be removed. *)
CleanupEnds(c) ==
    LET x == exporters[c]  empty == \A f \in staging : f.run # x.run IN
    /\ x.step = "cleaning" /\ x.dirt = <<>>
    /\ dirs' = IF empty THEN dirs \ {x.run} ELSE dirs
    /\ Put1(c, IF empty THEN Answered(x, x.result) ELSE Stuck(x))
    /\ orphaned' = IF empty THEN orphaned ELSE orphaned \cup {x.snapshot}
    /\ UNCHANGED <<libraryVars, folder, staging, rows, raced, touched>>

-----------------------------------------------------------------------------
(* The user edits or removes an exported file. *)
Meddle(f, removed) ==
    /\ left.faults > 0 /\ ~f.edited
    /\ left' = [left EXCEPT !.faults = @ - 1]
    /\ folder' = (folder \ {f}) \cup (IF removed THEN {} ELSE {[f EXCEPT !.edited = TRUE]})
    /\ touched' = touched \cup {f.name.id}
    /\ UNCHANGED <<database, window, loads, recovery, changed, exporters, staging, dirs, rows, raced, orphaned>>

(* The process ends with all its threads; files stay where they are. *)
CrashAll ==
    /\ Crash
    /\ exporters' = [c \in Clients |-> Blank]
    /\ orphaned' = orphaned \cup {exporters[c].snapshot : c \in {c \in Clients : Publishing(exporters[c]) \/ exporters[c].step = "closing"}}
    /\ UNCHANGED <<folder, staging, dirs, rows, raced, touched>>

(* A purge removes the rows of the meeting, and none of its exported files. *)
LibraryStep ==
    /\ LibrarySteps
    /\ rows' = {r \in rows : meetings'[r.name.id.meeting].state # Purged}
    /\ UNCHANGED <<exporters, folder, staging, dirs, raced, touched, orphaned>>

Exports ==
    \E c \in Clients :
        \/ \E m \in ExportedMeetings, options \in AskedOptions : Ask(c, m, options)
        \/ (\E unfinished \in BOOLEAN : ChooseSummary(c, unfinished)) \/ ReadSnapshot(c)
        \/ StageFile(c) \/ (\E created \in BOOLEAN : StageFails(c, created)) \/ StagedAll(c)
        \/ CheckTarget(c) \/ Rename(c) \/ RenameFails(c) \/ ReadBack(c) \/ GivesUp(c)
        \/ Record(c) \/ RecordFails(c) \/ Close(c) \/ CloseFails(c)
        \/ Cleanup(c) \/ CleanupEnds(c)

Next == LibraryStep \/ CrashAll \/ Exports \/ (\E f \in folder, removed \in BOOLEAN : Meddle(f, removed))

Spec == Init /\ [][Next]_vars

-----------------------------------------------------------------------------
Undisturbed(s) == s \notin raced \cup touched

(* A recorded export names a file with those bytes, across crashes, changes *)
(* and failures of other exports -- unless the user touched it or another   *)
(* export of the same snapshot ran at the same time (export.rs: publish,    *)
(* then record_export_snapshot).                                            *)
RowsTellFiles ==
    \A r \in rows : Undisturbed(r.name.id) => \E f \in folder : f.name = r.name /\ f.bytes = r.bytes /\ ~f.edited

(* An export that answers an error has left none of its files, and no       *)
(* staging directory -- unless its cleanup failed, or the error came from a *)
(* check that cleans nothing.                                               *)
FailedExportLeavesNothing ==
    \A c \in Clients : LET x == exporters[c] IN
        x.step = "answered" /\ x.result \notin {"ok"} \cup Uncleaned /\ Undisturbed(x.snapshot) =>
            x.run \notin dirs /\ \A f \in folder \cup staging : f.run # x.run

(* The same meeting can be exported again and again: a name is taken only   *)
(* when an export of that snapshot was cut short, or met another one.       *)
TakenOnlyByOrphans ==
    \A c \in Clients :
        exporters[c].result = "MVP_EXPORT_TARGET_EXISTS" => exporters[c].snapshot \in raced \cup touched \cup orphaned

(* The records of exports and the exports folder tell the same, after       *)
(* success, failure and crash.                                              *)
FolderAgrees == RowsTellFiles /\ FailedExportLeavesNothing /\ TakenOnlyByOrphans

(* All formats of a bundle tell the same of the meeting: the same lines and *)
(* summary, and of speakers and times at most what the JSON file tells.     *)
FormatsAgree ==
    \A c \in Clients : LET x == exporters[c] IN
        x.step = "staging" /\ x.staged = <<>> => \A options \in AskedOptions \cup {x.options} :
            LET said(format, kinds) == {f \in Facts(format, options, x.snapshot, x.summary) : f.what \in kinds}
                told == {"original", "translation", "summary", "citation", "unlinked", "summary missing"}
                formats == IF options = Legacy THEN ToSet(Legacy.formats) ELSE FormatNames
            IN \A format \in formats :
                 /\ said(format, told) = said("json", told)
                 /\ said(format, {"time", "speaker"}) \subseteq said("json", {"time", "speaker"})

(* A file the user has edited is neither removed nor replaced, by the       *)
(* cleanup of a failed export nor by a later one.                           *)
EditedFilesKept == [][\A f \in folder : f.edited /\ f.name.id \notin raced => f \in folder']_vars

=============================================================================
