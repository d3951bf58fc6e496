---------------------------- MODULE MeetingLibrary ----------------------------
(***************************************************************************)
(* The library of meetings: the database file from the moment the program   *)
(* finds it (mvp/storage.rs), what the writer thread changes in it and in   *)
(* its search index, and the library window of main.ts, which reads lists   *)
(* of meetings and search hits page by page while the changes go on.        *)
(*                                                                          *)
(* A meeting is a number, its id; started_at may be the same for two of     *)
(* them.  Calls to the backend are records of loads: asked, answered by one *)
(* read connection, shown, in any order.                                    *)
(***************************************************************************)
EXTENDS SchemaMigration, SearchIndex

CONSTANTS
    OldVersions,   \* schema versions of the file that is found
    SearchWords,   \* words typed in the search box
    PageSize,      \* R3_PAGE_SIZE
    MaxChanges,    \* bound on changes of the tables
    MaxLoads,      \* bound on loads of the library window
    MaxExports     \* bound on exports, see ExportBundle

ASSUME LibraryBounds ==
    /\ OldVersions \subseteq 0..(SchemaVersion + 1)
    /\ SearchWords \subseteq Words
    /\ PageSize \in Nat \ {0}
    /\ MaxChanges \in Nat /\ MaxLoads \in Nat /\ MaxExports \in Nat

VARIABLES
    phase,      \* "closed", "migrated", "indexed" or "open": how far the writer has started
    file,       \* [version, known, parts]
    meetings,   \* the rows of the tables, by meeting
    index,      \* mvp_search_fts and mvp_search_trigram_fts
    window,     \* librarySearch, libraryTags, searchPage, meetingPage, libraryMore
    loads,      \* calls of loadMeetingLibrary that have not returned
    recovery,   \* the list of the recovery centre
    changed,    \* which meetings each change so far concerned
    left        \* what is left of the bounds

database == <<phase, file, meetings, index>>
libraryVars == <<phase, file, meetings, index, window, loads, recovery, changed, left>>

Ids == 1..4
Tags == {"tag"}
Absent == "absent"
Purged == "purged"
NoPage == [none |-> TRUE]

NoMeeting ==
    [state |-> Absent, incomplete |-> FALSE, deleted |-> FALSE, started |-> 0, finals |-> <<>>, translated |-> <<>>,
     tried |-> {}, speakers |-> <<>>, summaries |-> <<>>, tags |-> {}]

(* A file of each version: two meetings that started in the same            *)
(* millisecond, one of them interrupted, and one left recording by a crash. *)
OldMeeting(version, m) ==
    LET has(v, new, none) == IF version >= v THEN new ELSE none
        row(state, started, finals, translated, tried, speakers, summaries, tags) ==
            [state |-> state, incomplete |-> FALSE, deleted |-> FALSE, started |-> started, finals |-> finals,
             translated |-> translated, tried |-> tried, speakers |-> speakers, summaries |-> summaries, tags |-> tags]
        summary == {[kind |-> 1, at |-> 0, text |-> "term"], [kind |-> 2, at |-> 0, text |-> "inner"]}
    IN IF version = 0 \/ m = 4 THEN NoMeeting
       ELSE CASE m = 1 -> row("completed", 1, <<"term">>, has(2, <<"inner">>, <<NoRow>>), has(4, {1}, {}),
                              has(6, <<"term", "inner">>, <<>>), has(5, <<summary>>, <<>>), has(5, Tags, {}))
              [] m = 2 -> row("interrupted", 1, <<"inner", "other">>, has(2, <<NoText, NoRow>>, <<NoRow, NoRow>>),
                              has(4, {1}, {}), <<>>, <<>>, {})
              [] m = 3 -> row("recording", 2, <<"other">>, <<NoRow>>, {}, <<>>, <<>>, has(5, Tags, {}))

OldIndex(version, old) ==
    IF version <= 5 THEN NoIndex ELSE Put(NoIndex, AllRows(old) \cup StaleRows(old))

(* What a behaviour may do, so that the bounds do not multiply: read pages  *)
(* across a change, change the tables and crash, export twice across a      *)
(* change or with a fault, export once with both, or export while a meeting *)
(* is deleted and purged.                                                   *)
Plan(changes, reads, faults, bundles) ==
    [changes |-> changes, loads |-> reads, faults |-> faults, exports |-> bundles]
Plans == {Plan(1, MaxLoads, 0, 0), Plan(MaxChanges, 1, 1, 0), Plan(1, 0, 0, MaxExports), Plan(0, 0, 1, MaxExports),
          Plan(1, 0, 1, 1), Plan(2, 0, 0, 1)}

LibraryInit ==
    /\ \E version \in OldVersions, known \in BOOLEAN :
         /\ file = [version |-> version, known |-> known, parts |-> PartsOf(version)]
         /\ meetings = [m \in Ids |-> OldMeeting(version, m)]
         /\ index = OldIndex(version, meetings)
         /\ left \in IF version = SchemaVersion THEN Plans ELSE {Plan(1, 0, 1, 0)}
    /\ phase = "closed"
    /\ window = [word |-> "", tags |-> {}, search |-> NoPage, list |-> NoPage, more |-> FALSE]
    /\ loads = {}
    /\ recovery = [asked |-> FALSE, shown |-> {}, interrupted |-> {}]
    /\ changed = <<>>

-----------------------------------------------------------------------------
(* The start of the writer thread: open_writer_connection *)
Migrate ==
    /\ phase = "closed" /\ Accepts(file)
    /\ phase' = "migrated"
    /\ file' = Migrated(file)
    /\ meetings' = IF CopiesAttempts(file.version)
                   THEN [m \in Ids |-> [meetings[m] EXCEPT
                            !.tried = {k \in DOMAIN meetings[m].finals : meetings[m].translated[k] # NoRow}]]
                   ELSE meetings
    /\ UNCHANGED <<index, window, loads, recovery, changed, left>>

(* A transaction of its own: a crash may fall between the two. *)
EnsureSearchIndex ==
    /\ phase = "migrated"
    /\ phase' = "indexed"
    /\ index' = Ensured(index, meetings)
    /\ UNCHANGED <<file, meetings, window, loads, recovery, changed, left>>

(* recover_interrupted, the first request of the service *)
RecoverInterrupted ==
    /\ phase = "indexed"
    /\ phase' = "open"
    /\ meetings' = [m \in Ids |-> IF meetings[m].state = "recording"
                                  THEN [meetings[m] EXCEPT !.state = "interrupted"] ELSE meetings[m]]
    /\ UNCHANGED <<file, index, window, loads, recovery, changed, left>>

(* The process ends: what is not in the file is gone. *)
Crash ==
    /\ left.faults > 0 /\ phase # "closed"
    /\ left' = [left EXCEPT !.faults = @ - 1]
    /\ phase' = "closed"
    /\ window' = [window EXCEPT !.search = NoPage, !.list = NoPage, !.more = FALSE]
    /\ loads' = {}
    /\ recovery' = [recovery EXCEPT !.asked = FALSE, !.shown = {}]
    /\ UNCHANGED <<file, meetings, index, changed>>

-----------------------------------------------------------------------------
(* Requests of the writer thread, each one transaction *)
Change(ms, newMeetings, newIndex) ==
    /\ phase = "open" /\ left.changes > 0
    /\ left' = [left EXCEPT !.changes = @ - 1]
    /\ changed' = Append(changed, ms)
    /\ meetings' = newMeetings
    /\ index' = newIndex
    /\ UNCHANGED <<phase, file, window, loads, recovery>>

ChangeOf(m, new, newIndex) == Change({m}, [meetings EXCEPT ![m] = new], newIndex)

Live(m) == meetings[m].state \notin {Absent, Purged} /\ ~meetings[m].deleted

(* start_meeting *)
StartMeeting(m) ==
    /\ meetings[m].state = Absent /\ \A other \in Ids : meetings[other].state # "recording"
    /\ \A other \in Ids : other < m => meetings[other].state # Absent
    /\ ChangeOf(m, [NoMeeting EXCEPT !.state = "recording", !.started = m], index)

(* commit_final; a final of a recording has no translation row yet *)
CommitFinal(m, text) ==
    /\ meetings[m].state = "recording" /\ Len(meetings[m].finals) < 2
    /\ ChangeOf(m, [meetings[m] EXCEPT !.finals = Append(@, text), !.translated = Append(@, NoRow)],
                FinalInserted(index, m, Len(meetings[m].finals) + 1, text))

(* complete_meeting, interrupt_meeting, and incomplete_meeting, which       *)
(* interrupts and records an event with the reason                          *)
FinishMeeting(m, state, incomplete) ==
    /\ meetings[m].state = "recording"
    /\ incomplete => state = "interrupted"
    /\ ChangeOf(m, [meetings[m] EXCEPT !.state = state, !.incomplete = incomplete], index)

(* begin_translation writes NULL and an attempt, finish_translation a text  *)
(* (a failed one NULL): both are upserts of one row.                        *)
WriteTranslation(m, k, text) ==
    /\ k \in DOMAIN meetings[m].finals
    /\ text # NoText => meetings[m].translated[k] # NoRow
    /\ ChangeOf(m, [meetings[m] EXCEPT !.translated[k] = text, !.tried = @ \cup {k}],
                TranslationWritten(index, m, k, meetings[m].translated[k], text))

RecordSpeakerVersion(m, label) ==
    /\ Live(m) /\ meetings[m].state # "recording" /\ Len(meetings[m].speakers) < 2
    /\ ChangeOf(m, [meetings[m] EXCEPT !.speakers = Append(@, label)],
                SpeakersRecorded(index, m, meetings[m], label))

(* finish_summary_job: the sections of one job, all of them at once *)
PublishSummary(m, sections) ==
    /\ Live(m) /\ meetings[m].state # "recording" /\ Len(meetings[m].summaries) < 2
    /\ ChangeOf(m, [meetings[m] EXCEPT !.summaries = Append(@, sections)],
                SummaryPublished(index, m, Len(meetings[m].summaries) + 1, sections))

ReplaceTags(m, tags) ==
    /\ Live(m) /\ tags # meetings[m].tags
    /\ ChangeOf(m, [meetings[m] EXCEPT !.tags = tags], index)

(* delete_tag: the assignments go with the tag. *)
DeleteTag(tag) ==
    LET holders == {m \in Ids : tag \in meetings[m].tags} IN
    /\ holders # {}
    /\ Change(holders, [m \in Ids |-> [meetings[m] EXCEPT !.tags = @ \ {tag}]], index)

SoftDelete(m) ==
    /\ Live(m) /\ meetings[m].state # "recording"
    /\ ChangeOf(m, [meetings[m] EXCEPT !.deleted = TRUE], index)

Restore(m) ==
    /\ meetings[m].deleted
    /\ ChangeOf(m, [meetings[m] EXCEPT !.deleted = FALSE], index)

Purge(m) ==
    /\ meetings[m].deleted
    /\ ChangeOf(m, [NoMeeting EXCEPT !.state = Purged], MeetingPurged(index, m))

-----------------------------------------------------------------------------
(* What a read connection answers *)
ScopeRank(scope) ==
    CASE scope = "original" -> 1 [] scope = "speaker" -> 2 [] scope = "summary" -> 3 [] scope = "translation" -> 4

Tagged(m, tags) == tags \subseteq meetings[m].tags

(* list_meetings: newest first *)
ListItems(tags) ==
    {[key |-> <<-meetings[m].started, -m>>, meeting |-> m] : m \in {m \in Ids : Live(m) /\ Tagged(m, tags)}}

(* search_segments: by meeting, sequence and scope *)
SearchItems(word, tags) ==
    {[key |-> <<r.meeting, r.at, ScopeRank(r.scope)>>, row |-> r] :
        r \in {r \in Found(index, word) : Live(r.meeting) /\ Tagged(r.meeting, tags)}}

ItemsOf(word, tags) == IF word = "" THEN ListItems(tags) ELSE SearchItems(word, tags)

(* interrupted_meetings names a column that no migration creates. *)
InterruptedColumns == {"id", "started_at", "ended_at", "last_opened_at", "last_final_sequence", "completion_error", "state"}
Interrupted == {m \in Ids : meetings[m].state = "interrupted"}

-----------------------------------------------------------------------------
(* loadMeetingLibrary up to its await.  since, chained: history of the page *)
(* for the properties.                                                      *)
Load(word, tags, cursor, append) ==
    /\ phase = "open" /\ left.loads > 0
    /\ left' = [left EXCEPT !.loads = @ - 1]
    /\ loads' = loads \cup {[id |-> left.loads, word |-> word, tags |-> tags, cursor |-> cursor,
                             append |-> append, step |-> "asked", page |-> NoPage]}
    /\ window' = [window EXCEPT !.word = word, !.tags = tags, !.more = FALSE,
                                !.search = IF word = "" THEN NoPage ELSE @]
    /\ UNCHANGED <<database, recovery, changed>>

(* A change of the search box or of the tags *)
ChangeFilter(word, tags) ==
    /\ <<word, tags>> # <<window.word, window.tags>>
    /\ Load(word, tags, <<>>, FALSE)

(* The refresh button, and the reload after tags, a deletion or a restore *)
Reload == Load(window.word, window.tags, <<>>, FALSE)

(* The cursor is that of the page shown, the query that of the boxes. *)
More ==
    LET shown == IF window.search # NoPage /\ window.search.next # <<>> THEN window.search ELSE window.list IN
    /\ window.more
    /\ shown # NoPage /\ shown.next # <<>>
    /\ Load(window.word, window.tags, shown.next, TRUE)

Serve(load) ==
    /\ load.step = "asked" /\ phase = "open" /\ Readable(file)
    /\ LET page == PageOf(ItemsOf(load.word, load.tags), load.cursor, PageSize) IN
       loads' = (loads \ {load}) \cup
                {[load EXCEPT !.step = "answered",
                              !.page = [items |-> page.items, next |-> page.next, word |-> load.word, tags |-> load.tags,
                                        since |-> Len(changed), chained |-> load.cursor = <<>>]]}
    /\ UNCHANGED <<database, window, recovery, changed, left>>

(* The load fails: storage is busy, or a hit of it has just been purged. *)
Fail(load) ==
    /\ load.step = "asked" /\ left.faults > 0
    /\ left' = [left EXCEPT !.faults = @ - 1]
    /\ loads' = (loads \ {load}) \cup {[load EXCEPT !.step = "failed"]}
    /\ UNCHANGED <<database, window, recovery, changed>>

(* A page replaces what is shown, or goes below it. *)
Joined(load, shown) ==
    IF load.append /\ shown # NoPage
    THEN [shown EXCEPT !.items = @ \o load.page.items, !.next = load.page.next,
                       !.chained = @ /\ load.cursor = shown.next /\ <<load.word, load.tags>> = <<shown.word, shown.tags>>]
    ELSE load.page

(* finally: the state of the button is that of the page now shown. *)
MoreEnabled(search, list) == IF search # NoPage THEN search.next # <<>> ELSE list = NoPage \/ list.next # <<>>

Arrive(load) ==
    /\ load.step \in {"answered", "failed"}
    /\ LET search == IF load.step = "answered" /\ load.word # "" THEN Joined(load, window.search) ELSE window.search
           list == IF load.step = "failed" THEN window.list
                   ELSE IF load.word # "" THEN NoPage ELSE Joined(load, window.list)
       IN window' = [window EXCEPT !.search = search, !.list = list, !.more = MoreEnabled(search, list)]
    /\ loads' = loads \ {load}
    /\ UNCHANGED <<database, recovery, changed, left>>

(* refreshInterruptedMeetings: an error leaves the list as it was. *)
RefreshInterrupted ==
    /\ phase = "open" /\ left.loads > 0
    /\ left' = [left EXCEPT !.loads = @ - 1]
    /\ recovery' = [asked |-> TRUE, interrupted |-> Interrupted,
                    shown |-> IF InterruptedColumns \subseteq MeetingColumns(file.parts) THEN Interrupted ELSE recovery.shown]
    /\ UNCHANGED <<database, window, loads, changed>>

-----------------------------------------------------------------------------
Starts == Migrate \/ EnsureSearchIndex \/ RecoverInterrupted

Writes ==
    \E m \in Ids :
        \/ StartMeeting(m)
        \/ \E text \in Texts : CommitFinal(m, text)
        \/ \E state \in {"completed", "interrupted"}, incomplete \in BOOLEAN : FinishMeeting(m, state, incomplete)
        \/ \E k \in 1..2, text \in Texts \cup {NoText} : WriteTranslation(m, k, text)
        \/ \E label \in Texts : RecordSpeakerVersion(m, label)
        \/ \E text \in Texts : PublishSummary(m, {[kind |-> 1, at |-> 0, text |-> text], [kind |-> 1, at |-> 1, text |-> "term"]})
        \/ \E tags \in SUBSET Tags : ReplaceTags(m, tags)
        \/ SoftDelete(m) \/ Restore(m) \/ Purge(m)

Browse ==
    \/ \E word \in SearchWords \cup {""}, tags \in SUBSET Tags : ChangeFilter(word, tags)
    \/ Reload \/ More \/ RefreshInterrupted
    \/ \E load \in loads : Serve(load) \/ Fail(load) \/ Arrive(load)

LibrarySteps == Starts \/ Writes \/ (\E tag \in Tags : DeleteTag(tag)) \/ Browse
LibraryNext == LibrarySteps \/ Crash

LibrarySpec == LibraryInit /\ [][LibraryNext]_libraryVars

-----------------------------------------------------------------------------
(* Types of the state.                                                      *)
LibraryTypeOK ==
    /\ phase \in {"closed", "migrated", "indexed", "open"}
    /\ file.version \in 0..(SchemaVersion + 1) /\ file.parts \subseteq Parts
    /\ \A m \in Ids : /\ meetings[m].state \in {Absent, Purged, "recording", "completed", "interrupted"}
                      /\ Len(meetings[m].finals) = Len(meetings[m].translated)
                      /\ meetings[m].tried \subseteq DOMAIN meetings[m].finals
    /\ index.words \cup index.trigrams \subseteq
         [meeting : Ids, job : 0..2, kind : 0..2, at : 0..2, text : Texts,
          scope : {"original", "translation", "speaker", "summary"}]

(* Once the writer has started, whatever release wrote the file: every      *)
(* table and column of the current schema is there, every translation has   *)
(* an attempt, and both search tables hold exactly what the tables hold --  *)
(* after each change, and after a crash between the migration and the       *)
(* rebuild of the index (storage.rs: migrate, ensure_search_index and the   *)
(* triggers).                                                               *)
OpenedDatabaseIsWhole ==
    phase \in {"indexed", "open"} =>
        /\ Readable(file) /\ file.parts = Parts
        /\ \A m \in Ids : \A k \in DOMAIN meetings[m].finals : meetings[m].translated[k] # NoRow => k \in meetings[m].tried
        /\ index.words = AllRows(meetings) /\ index.trigrams = AllRows(meetings)

Untouched(m, since) == \A i \in (since + 1)..Len(changed) : m \notin changed[i]

(* Pages that were each asked from the cursor of the one before, under one  *)
(* query, until there is no more: a meeting (a hit) that no change touched  *)
(* meanwhile is shown once if it matches, and not at all otherwise -- for   *)
(* meetings that began in the same millisecond, and whatever was inserted,  *)
(* deleted or retagged between the pages.  Hits in summaries are left out:  *)
(* their keys repeat, and a page that ends between two of them loses the    *)
(* second (storage.rs: list_meetings, search_segments_on_connection).       *)
PageIsExact(page) ==
    page # NoPage /\ page.chained /\ page.next = <<>> =>
        LET counted(item) == IF page.word = "" THEN Untouched(item.meeting, page.since)
                             ELSE item.row.scope # "summary" /\ Untouched(item.row.meeting, page.since)
            shown == SelectSeq(page.items, LAMBDA item : counted(item))
        IN /\ \A i, j \in DOMAIN shown : shown[i].key = shown[j].key => i = j
           /\ {shown[i] : i \in DOMAIN shown} = {item \in ItemsOf(page.word, page.tags) : counted(item)}

PagesAreExact == PageIsExact(window.search) /\ PageIsExact(window.list)

(* The recovery centre lists the meetings that are interrupted.             *)
InterruptedAreOffered == recovery.asked => recovery.shown = recovery.interrupted

=============================================================================
