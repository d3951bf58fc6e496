----------------------------- MODULE SearchIndex -----------------------------
(***************************************************************************)
(* The full-text index of mvp/storage.rs: two tables of rows (words, and    *)
(* trigrams of them) kept up to date by triggers, the rows a text finds, and*)
(* the pages in which hits and meetings are read.                           *)
(*                                                                          *)
(* A text is seen from one query word: it has a "term" that begins with it, *)
(* holds it only "inner"side a term, or is "other".  NoText is NULL.        *)
(* Equal rows are one row: the UNION of search_source_sql removes copies.   *)
(***************************************************************************)
EXTENDS Integers, Sequences, SequencesExt, FiniteSetsExt

Texts == {"term", "inner", "other"}
NoText == "null"
NoRow == "no row"
(* A word of three or more Latin letters, of three or more CJK characters,  *)
(* and of fewer than three; "" is the empty search box.                     *)
Words == {"latin", "cjk", "short"}

Row(m, k, scope, text) == [meeting |-> m, job |-> 0, kind |-> 0, at |-> k, scope |-> scope, text |-> text]
SummaryRow(m, job, s) ==
    [meeting |-> m, job |-> job, kind |-> s.kind, at |-> s.at, scope |-> "summary", text |-> s.text]

(* The rows of one meeting as a rebuild reads them from the tables *)
OriginalRows(m, r) == {Row(m, k, "original", r.finals[k]) : k \in DOMAIN r.finals}
TranslationRows(m, r) ==
    {Row(m, k, "translation", r.translated[k]) : k \in {k \in DOMAIN r.finals : r.translated[k] \in Texts}}
SpeakerRows(m, r) ==
    IF r.speakers = <<>> THEN {}
    ELSE {Row(m, k, "speaker", Last(r.speakers)) : k \in DOMAIN r.finals}
SummaryRows(m, r) == UNION {{SummaryRow(m, j, s) : s \in r.summaries[j]} : j \in DOMAIN r.summaries}

MeetingRows(m, r) ==
    OriginalRows(m, r) \cup TranslationRows(m, r) \cup SpeakerRows(m, r) \cup SummaryRows(m, r)

AllRows(meetings) == UNION {MeetingRows(m, meetings[m]) : m \in DOMAIN meetings}

(* Rows of releases before speaker labels were replaced *)
StaleRows(meetings) ==
    UNION {{Row(m, k, "speaker", meetings[m].speakers[v]) :
               k \in DOMAIN meetings[m].finals, v \in DOMAIN meetings[m].speakers} : m \in DOMAIN meetings}

-----------------------------------------------------------------------------
NoIndex == [words |-> {}, trigrams |-> {}]

(* A trigger writes both tables. *)
Put(index, rows) == [words |-> index.words \cup rows, trigrams |-> index.trigrams \cup rows]
Drop(index, rows) == [words |-> index.words \ rows, trigrams |-> index.trigrams \ rows]
EitherOf(index) == index.words \cup index.trigrams

FinalInserted(index, m, k, text) == Put(index, {Row(m, k, "original", text)})

(* Fault: the update trigger leaves the row of the earlier text. *)
TranslationAppended(index, m, k, old, new) ==
    Put(index, IF new = NoText THEN {} ELSE {Row(m, k, "translation", new)})

(* The row is inserted, or updated by the upsert of a later attempt. *)
TranslationWritten(index, m, k, old, new) ==
    LET kept == IF old = NoRow THEN index
                ELSE Drop(index, {r \in EitherOf(index) : r.meeting = m /\ r.at = k /\ r.scope = "translation"})
    IN Put(kept, IF new = NoText THEN {} ELSE {Row(m, k, "translation", new)})

(* record_speaker_version drops the labels of the meeting itself; the       *)
(* triggers of the assignments put the new ones.                            *)
SpeakersRecorded(index, m, r, label) ==
    LET kept == Drop(index, {x \in EitherOf(index) : x.meeting = m /\ x.scope = "speaker"})
    IN Put(kept, {Row(m, k, "speaker", label) : k \in DOMAIN r.finals})

SummaryPublished(index, m, job, sections) == Put(index, {SummaryRow(m, job, s) : s \in sections})

MeetingPurged(index, m) == Drop(index, {r \in EitherOf(index) : r.meeting = m})

(* ensure_search_index: the labels are always renewed, an empty table is    *)
(* filled from the tables, an empty trigram table from the words.           *)
Ensured(index, meetings) ==
    LET labels == UNION {SpeakerRows(m, meetings[m]) : m \in DOMAIN meetings}
        renewed(rows) == {r \in rows : r.scope # "speaker"} \cup labels
        words == IF renewed(index.words) = {} THEN AllRows(meetings) ELSE renewed(index.words)
        trigrams == IF renewed(index.trigrams) = {} THEN words ELSE renewed(index.trigrams)
    IN [words |-> words, trigrams |-> trigrams]

-----------------------------------------------------------------------------
Begins(r) == r.text = "term"
Holds(r) == r.text \in {"term", "inner"}

(* search_source_sql: the branches that its UNION joins *)
Found(index, word) ==
    {r \in index.words : Begins(r)} \cup
    (IF word \in {"latin", "cjk"} THEN {r \in index.trigrams : Holds(r)} ELSE {}) \cup
    (IF word \in {"cjk", "short"} THEN {r \in index.words : Holds(r)} ELSE {})

(* Keys are tuples of numbers, smallest first. *)
Before(a, b) == \E i \in DOMAIN a : a[i] < b[i] /\ \A j \in 1..(i - 1) : a[j] = b[j]

(* A cursor of the other kind of page is parsed, not refused: that of a     *)
(* list comes before every hit, that of a search after every meeting.       *)
Foreign(key, cursor) == Len(key) # Len(cursor)

(* Fault: the cursor compares the first column only. *)
AfterFirstColumn(key, cursor) == cursor = <<>> \/ cursor[1] < key[1]

After(key, cursor) ==
    \/ cursor = <<>>
    \/ IF Foreign(key, cursor) THEN Len(key) > Len(cursor) ELSE Before(cursor, key)

Sorted(items) ==
    FoldSet(LAMBDA x, seq : SelectSeq(seq, LAMBDA y : Before(y.key, x.key)) \o <<x>> \o
                            SelectSeq(seq, LAMBDA y : ~Before(y.key, x.key)), <<>>, items)

(* One row more than the page is read to know whether another page follows. *)
PageOf(items, cursor, size) ==
    LET later == Sorted({i \in items : After(i.key, cursor)})
    IN IF Len(later) > size THEN [items |-> SubSeq(later, 1, size), next |-> later[size].key]
       ELSE [items |-> later, next |-> <<>>]

=============================================================================
