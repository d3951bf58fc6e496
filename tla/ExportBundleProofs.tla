-------------------------- MODULE ExportBundleProofs --------------------------
(***************************************************************************)
(* For any threads, options, exported meetings, words, pages and bounds: the *)
(* library keeps its types and its database whole, the formats of a bundle   *)
(* tell the same, the folder of exports and their records agree, and files   *)
(* that the user edited stay.                                                *)
(*                                                                          *)
(* DatabaseInv is about the library alone.  FolderInv says of each export    *)
(* which files of its snapshot are its own (Mine), what it finds under its   *)
(* names if nobody disturbs it (Ours), and of each file who answers for it   *)
(* (FilesKnown).  A step of one export is handled once, by Kept and OneStep: *)
(* the lemma of an action names the export after the step, and shows what    *)
(* the step changes that the others see.                                     *)
(***************************************************************************)
EXTENDS ExportBundle, WellFoundedInduction, NaturalsInduction, TLAPS

-----------------------------------------------------------------------------
(* The library: the rows of a meeting have their types.                     *)

States == {Absent, Purged, "recording", "completed", "interrupted"}
Sections == [kind : 0..2, at : 0..2, text : Texts]
MeetingRow ==
    [state : States, incomplete : BOOLEAN, deleted : BOOLEAN, started : 0..4, finals : Seq(Texts),
     translated : Seq(Texts \cup {NoText, NoRow}), tried : SUBSET Nat, speakers : Seq(Texts),
     summaries : Seq(SUBSET Sections), tags : SUBSET Tags]
Lefts == [changes : Nat, loads : Nat, faults : Nat, exports : Nat]

\* A translation belongs to a final; a meeting that is gone has no rows, and one that is not there never had.
MeetingOK(r) ==
    /\ r \in MeetingRow
    /\ Len(r.translated) = Len(r.finals)
    /\ r.state \in {Absent, Purged} => r.finals = <<>> /\ r.translated = <<>> /\ r.speakers = <<>> /\ r.summaries = <<>>

MeetingsTyped == meetings \in [Ids -> MeetingRow] /\ \A m \in Ids : MeetingOK(meetings[m])
LeftTyped == left \in Lefts

\* What every step of the library does to meetings.
MeetingsGoOn ==
    /\ MeetingsTyped'
    /\ \A m \in Ids : meetings[m].state = Purged => meetings'[m].state = Purged

\* The meeting m is replaced by a row that goes on from it.
LEMMA OneMeetingGoesOn ==
    ASSUME MeetingsTyped, NEW m \in Ids, NEW r, MeetingOK(r), meetings[m].state = Purged => r.state = Purged,
           meetings' = [meetings EXCEPT ![m] = r]
    PROVE  MeetingsGoOn
  BY DEF MeetingsGoOn, MeetingsTyped, MeetingOK

EmptyRow(state, n) ==
    [state |-> state, incomplete |-> FALSE, deleted |-> FALSE, started |-> n, finals |-> <<>>, translated |-> <<>>,
     tried |-> {}, speakers |-> <<>>, summaries |-> <<>>, tags |-> {}]

\* An empty row has its types.
LEMMA EmptyRowOK ==
    ASSUME NEW state \in States, NEW n \in 0..4
    PROVE  MeetingOK(EmptyRow(state, n))
<1>1. <<>> \in Seq(Texts) /\ <<>> \in Seq(Texts \cup {NoText, NoRow}) /\ <<>> \in Seq(SUBSET Sections) /\ Len(<<>>) = 0
  OBVIOUS
<1>2. EmptyRow(state, n) \in MeetingRow
  BY <1>1 DEF MeetingRow, EmptyRow
<1> QED
  BY <1>1, <1>2 DEF MeetingOK, EmptyRow

\* An empty row by the values in it, and with another state or start.
RowOf(state, n, no, nil, none) ==
    [state |-> state, incomplete |-> no, deleted |-> no, started |-> n, finals |-> nil, translated |-> nil,
     tried |-> none, speakers |-> nil, summaries |-> nil, tags |-> none]

\* An empty row in another state is an empty row.
LEMMA RowMoved ==
    ASSUME NEW s, NEW n, NEW t
    PROVE  [EmptyRow(s, n) EXCEPT !.state = t] = EmptyRow(t, n)
<1>1. \A x, y : EmptyRow(x, y) = RowOf(x, y, FALSE, <<>>, {})
  BY DEF EmptyRow, RowOf
<1>2. \A no, nil, none : [RowOf(s, n, no, nil, none) EXCEPT !.state = t] = RowOf(t, n, no, nil, none)
  BY SMT DEF RowOf
<1> QED
  BY <1>1, <1>2, Zenon

\* An empty row with another start is an empty row.
LEMMA RowStarted ==
    ASSUME NEW s, NEW n, NEW k
    PROVE  [EmptyRow(s, n) EXCEPT !.started = k] = EmptyRow(s, k)
<1>1. \A x, y : EmptyRow(x, y) = RowOf(x, y, FALSE, <<>>, {})
  BY DEF EmptyRow, RowOf
<1>2. \A no, nil, none : [RowOf(s, n, no, nil, none) EXCEPT !.started = k] = RowOf(s, k, no, nil, none)
  BY SMT DEF RowOf
<1> QED
  BY <1>1, <1>2, Zenon

\* A meeting that is new, and one that is gone.
LEMMA NoMeetingFacts ==
    /\ NoMeeting = EmptyRow(Absent, 0) /\ [NoMeeting EXCEPT !.state = Purged] = EmptyRow(Purged, 0)
    /\ \A m \in Ids : [NoMeeting EXCEPT !.state = "recording", !.started = m] = EmptyRow("recording", m)
<1>1. NoMeeting = EmptyRow(Absent, 0)
  BY DEF NoMeeting, EmptyRow
<1>2. [NoMeeting EXCEPT !.state = Purged] = EmptyRow(Purged, 0)
  BY <1>1, RowMoved, Zenon
<1>3. ASSUME NEW m
      PROVE  [NoMeeting EXCEPT !.state = "recording", !.started = m] = EmptyRow("recording", m)
  <2> DEFINE q == EmptyRow("recording", 0)
  <2>1. [NoMeeting EXCEPT !.state = "recording"] = q
    BY <1>1, RowMoved, Zenon
  <2>2. [NoMeeting EXCEPT !.state = "recording", !.started = m] = [[NoMeeting EXCEPT !.state = "recording"] EXCEPT !.started = m]
    BY Zenon DEF NoMeeting
  <2>3. [q EXCEPT !.started = m] = EmptyRow("recording", m)
    BY RowStarted, Zenon
  <2> QED
    BY <2>1, <2>2, <2>3
<1> QED
  BY <1>1, <1>2, <1>3

\* A change of the library replaces one row, and takes from the bound on changes.
Writes1(m, r) ==
    /\ MeetingOK(r) /\ (meetings[m].state = Purged => r.state = Purged)
    /\ meetings' = [meetings EXCEPT ![m] = r]

\* A meeting starts with an empty row.
LEMMA StartMeetingWrites ==
    ASSUME MeetingsTyped, NEW m \in Ids, StartMeeting(m)
    PROVE  \E r : Writes1(m, r)
<1> DEFINE r == EmptyRow("recording", m)
<1>1. MeetingOK(r)
  BY EmptyRowOK DEF Ids, States
<1>2. meetings' = [meetings EXCEPT ![m] = r] /\ meetings[m].state # Purged
  BY NoMeetingFacts DEF StartMeeting, ChangeOf, Change, Absent, Purged
<1> QED
  BY <1>1, <1>2 DEF Writes1

\* A final goes to the end of its meeting, without a translation.
LEMMA CommitFinalWrites ==
    ASSUME MeetingsTyped, NEW m \in Ids, NEW text \in Texts, CommitFinal(m, text)
    PROVE  \E r : Writes1(m, r)
<1> DEFINE o == meetings[m]
           r == [o EXCEPT !.finals = Append(@, text), !.translated = Append(@, NoRow)]
<1>1. o \in MeetingRow /\ MeetingOK(o) /\ o.state = "recording"
  BY DEF MeetingsTyped, CommitFinal
<1>2. r = [o EXCEPT !.finals = Append(o.finals, text), !.translated = Append(o.translated, NoRow)]
  OBVIOUS
<1>3. Append(o.finals, text) \in Seq(Texts) /\ Append(o.translated, NoRow) \in Seq(Texts \cup {NoText, NoRow})
      /\ Len(Append(o.finals, text)) = Len(o.finals) + 1 /\ Len(Append(o.translated, NoRow)) = Len(o.translated) + 1
  BY <1>1 DEF MeetingRow
<1>4. r \in MeetingRow /\ r.state = "recording" /\ r.finals = Append(o.finals, text) /\ r.translated = Append(o.translated, NoRow)
  BY <1>1, <1>2, <1>3 DEF MeetingRow
<1>5. MeetingOK(r)
  BY <1>1, <1>3, <1>4 DEF MeetingOK, Absent, Purged
<1>6. meetings' = [meetings EXCEPT ![m] = r]
  BY DEF CommitFinal, ChangeOf, Change
<1> QED
  BY <1>1, <1>5, <1>6 DEF Writes1, Purged

\* A recording ends.
LEMMA FinishMeetingWrites ==
    ASSUME MeetingsTyped, NEW m \in Ids, NEW state \in {"completed", "interrupted"}, NEW incomplete \in BOOLEAN,
           FinishMeeting(m, state, incomplete)
    PROVE  \E r : Writes1(m, r)
<1> DEFINE o == meetings[m]
           r == [o EXCEPT !.state = state, !.incomplete = incomplete]
<1>1. o \in MeetingRow /\ MeetingOK(o) /\ o.state = "recording"
  BY DEF MeetingsTyped, FinishMeeting
<1>2. r \in MeetingRow /\ r.state = state /\ r.finals = o.finals /\ r.translated = o.translated
  BY <1>1 DEF MeetingRow, States
<1>3. MeetingOK(r)
  BY <1>1, <1>2 DEF MeetingOK, Absent, Purged
<1>4. meetings' = [meetings EXCEPT ![m] = r]
  BY DEF FinishMeeting, ChangeOf, Change
<1> QED
  BY <1>1, <1>3, <1>4 DEF Writes1, Purged

\* A meeting with a final is neither absent nor purged.
LEMMA LiveRows ==
    ASSUME NEW o, MeetingOK(o), o.finals # <<>> \/ o.state \notin {Absent, Purged}
    PROVE  o \in MeetingRow /\ Len(o.translated) = Len(o.finals) /\ o.state \notin {Absent, Purged}
  BY DEF MeetingOK

\* One entry of a sequence is replaced.
LEMMA EntryReplaced ==
    ASSUME NEW S, NEW q \in Seq(S), NEW k \in DOMAIN q, NEW e \in S
    PROVE  LET w == [q EXCEPT ![k] = e] IN
           /\ w \in Seq(S) /\ Len(w) = Len(q) /\ w[k] = e /\ \A i \in DOMAIN q : i # k => w[i] = q[i]
<1> DEFINE w == [q EXCEPT ![k] = e]
<1>1. DOMAIN w = 1..Len(q) /\ Len(q) \in Nat /\ \A i \in 1..Len(q) : w[i] \in S
  OBVIOUS
<1>2. w \in [1..Len(q) -> S]
  BY <1>1
<1> QED
  BY <1>1, <1>2

\* A translation that is written, and the attempt of it.
WithTranslation(o, k, text) == [o EXCEPT !.translated[k] = text, !.tried = @ \cup {k}]

\* A row with another translation keeps its types.
LEMMA TranslationRowOK ==
    ASSUME NEW o, MeetingOK(o), NEW k \in DOMAIN o.finals, NEW text \in Texts \cup {NoText},
           NEW r, r = WithTranslation(o, k, text)
    PROVE  /\ MeetingOK(r) /\ r.state = o.state /\ r.finals = o.finals /\ r.speakers = o.speakers
           /\ r.summaries = o.summaries /\ r.tried = o.tried \cup {k} /\ o.state \notin {Absent, Purged}
           /\ Len(r.translated) = Len(o.translated) /\ r.translated[k] = text
           /\ \A i \in DOMAIN o.translated : i # k => r.translated[i] = o.translated[i]
<1>1. o \in MeetingRow /\ Len(o.translated) = Len(o.finals) /\ o.state \notin {Absent, Purged}
  BY LiveRows DEF MeetingRow
<1>2. PICK q : q = o.translated
  OBVIOUS
<1>3. PICK w : w = [q EXCEPT ![k] = text]
  OBVIOUS
<1>4. PICK tried : tried = o.tried \cup {k}
  OBVIOUS
<1>5. q \in Seq(Texts \cup {NoText, NoRow}) /\ k \in DOMAIN q
  BY <1>1, <1>2 DEF MeetingRow
<1>6. /\ w \in Seq(Texts \cup {NoText, NoRow}) /\ Len(w) = Len(q) /\ w[k] = text
      /\ \A i \in DOMAIN q : i # k => w[i] = q[i]
  BY <1>3, <1>5, EntryReplaced
<1>7. tried \in SUBSET Nat
  BY <1>1, <1>4 DEF MeetingRow
<1>8. r = [[o EXCEPT !.translated = w] EXCEPT !.tried = tried]
  BY <1>1, <1>2, <1>3, <1>4, Zenon DEF MeetingRow, WithTranslation
<1>9. r \in MeetingRow /\ r.translated = w /\ r.tried = tried
      /\ r.state = o.state /\ r.finals = o.finals /\ r.speakers = o.speakers /\ r.summaries = o.summaries
  BY <1>1, <1>6, <1>7, <1>8 DEF MeetingRow
<1>10. MeetingOK(r)
  BY <1>1, <1>2, <1>6, <1>9 DEF MeetingOK
<1> QED
  BY <1>1, <1>2, <1>4, <1>6, <1>9, <1>10

\* A translation is written into one row.
LEMMA WriteTranslationWrites ==
    ASSUME MeetingsTyped, NEW m \in Ids, NEW k \in 1..2, NEW text \in Texts \cup {NoText}, WriteTranslation(m, k, text)
    PROVE  \E r : Writes1(m, r)
<1>1. PICK o : o = meetings[m]
  OBVIOUS
<1>2. PICK r : r = WithTranslation(o, k, text)
  OBVIOUS
<1>3. MeetingOK(o) /\ k \in DOMAIN o.finals
  BY <1>1 DEF MeetingsTyped, WriteTranslation
<1>4. MeetingOK(r) /\ r.state = o.state
  BY <1>2, <1>3, TranslationRowOK
<1>5. meetings' = [meetings EXCEPT ![m] = r]
  BY <1>1, <1>2 DEF WriteTranslation, ChangeOf, Change, WithTranslation
<1> QED
  BY <1>1, <1>4, <1>5 DEF Writes1

\* A version of the speakers goes to the end.
LEMMA RecordSpeakerVersionWrites ==
    ASSUME MeetingsTyped, NEW m \in Ids, NEW label \in Texts, RecordSpeakerVersion(m, label)
    PROVE  \E r : Writes1(m, r)
<1> DEFINE o == meetings[m]
           r == [o EXCEPT !.speakers = Append(@, label)]
<1>1. o \in MeetingRow /\ Len(o.translated) = Len(o.finals) /\ o.state \notin {Absent, Purged}
  BY LiveRows DEF MeetingsTyped, RecordSpeakerVersion, Live
<1>2. Append(o.speakers, label) \in Seq(Texts)
  BY <1>1 DEF MeetingRow
<1>3. r \in MeetingRow /\ r.state = o.state /\ r.finals = o.finals /\ r.translated = o.translated
  BY <1>1, <1>2 DEF MeetingRow
<1>4. MeetingOK(r)
  BY <1>1, <1>3 DEF MeetingOK
<1>5. meetings' = [meetings EXCEPT ![m] = r]
  BY DEF RecordSpeakerVersion, ChangeOf, Change
<1> QED
  BY <1>1, <1>4, <1>5 DEF Writes1

\* A summary goes to the end.
LEMMA PublishSummaryWrites ==
    ASSUME MeetingsTyped, NEW m \in Ids, NEW sections \in SUBSET Sections, PublishSummary(m, sections)
    PROVE  \E r : Writes1(m, r)
<1> DEFINE o == meetings[m]
           r == [o EXCEPT !.summaries = Append(@, sections)]
<1>1. o \in MeetingRow /\ Len(o.translated) = Len(o.finals) /\ o.state \notin {Absent, Purged}
  BY LiveRows DEF MeetingsTyped, PublishSummary, Live
<1>2. Append(o.summaries, sections) \in Seq(SUBSET Sections)
  BY <1>1 DEF MeetingRow
<1>3. r \in MeetingRow /\ r.state = o.state /\ r.finals = o.finals /\ r.translated = o.translated
  BY <1>1, <1>2 DEF MeetingRow
<1>4. MeetingOK(r)
  BY <1>1, <1>3 DEF MeetingOK
<1>5. meetings' = [meetings EXCEPT ![m] = r]
  BY DEF PublishSummary, ChangeOf, Change
<1> QED
  BY <1>1, <1>4, <1>5 DEF Writes1

\* The tags of a meeting change.
LEMMA ReplaceTagsWrites ==
    ASSUME MeetingsTyped, NEW m \in Ids, NEW tags \in SUBSET Tags, ReplaceTags(m, tags)
    PROVE  \E r : Writes1(m, r)
<1> DEFINE o == meetings[m]
           r == [o EXCEPT !.tags = tags]
<1>1. o \in MeetingRow /\ MeetingOK(o)
  BY DEF MeetingsTyped
<1>2. r \in MeetingRow /\ r.state = o.state /\ r.finals = o.finals /\ r.translated = o.translated
      /\ r.speakers = o.speakers /\ r.summaries = o.summaries
  BY <1>1 DEF MeetingRow
<1>3. MeetingOK(r)
  BY <1>1, <1>2 DEF MeetingOK
<1>4. meetings' = [meetings EXCEPT ![m] = r]
  BY DEF ReplaceTags, ChangeOf, Change
<1> QED
  BY <1>2, <1>3, <1>4 DEF Writes1

\* A meeting is marked as deleted, or restored.
LEMMA DeletionWrites ==
    ASSUME MeetingsTyped, NEW m \in Ids, SoftDelete(m) \/ Restore(m)
    PROVE  \E r : Writes1(m, r)
<1> DEFINE o == meetings[m]
<1>1. o \in MeetingRow /\ MeetingOK(o)
  BY DEF MeetingsTyped
<1>2. ASSUME NEW deleted \in BOOLEAN
      PROVE  MeetingOK([o EXCEPT !.deleted = deleted]) /\ [o EXCEPT !.deleted = deleted].state = o.state
  <2> DEFINE r == [o EXCEPT !.deleted = deleted]
  <2>1. r \in MeetingRow /\ r.state = o.state /\ r.finals = o.finals /\ r.translated = o.translated
        /\ r.speakers = o.speakers /\ r.summaries = o.summaries
    BY <1>1 DEF MeetingRow
  <2> QED
    BY <1>1, <2>1 DEF MeetingOK
<1>3. \E deleted \in BOOLEAN : meetings' = [meetings EXCEPT ![m] = [o EXCEPT !.deleted = deleted]]
  BY DEF SoftDelete, Restore, ChangeOf, Change
<1> QED
  BY <1>2, <1>3 DEF Writes1

\* A purge leaves an empty row.
LEMMA PurgeWrites ==
    ASSUME MeetingsTyped, NEW m \in Ids, Purge(m)
    PROVE  \E r : Writes1(m, r)
<1>1. MeetingOK(EmptyRow(Purged, 0)) /\ EmptyRow(Purged, 0).state = Purged
  BY EmptyRowOK DEF States, EmptyRow
<1>2. meetings' = [meetings EXCEPT ![m] = EmptyRow(Purged, 0)]
  BY NoMeetingFacts DEF Purge, ChangeOf, Change
<1> QED
  BY <1>1, <1>2 DEF Writes1

\* No step of the library takes from the bound on exports.
LeftGoesOn == LeftTyped' /\ left'.exports = left.exports

\* Each bound goes down by one, and keeps its type.
LEMMA LeftFacts ==
    ASSUME LeftTyped
    PROVE  /\ left' = left => LeftGoesOn
           /\ left.changes > 0 /\ left' = [left EXCEPT !.changes = @ - 1] => LeftGoesOn
           /\ left.loads > 0 /\ left' = [left EXCEPT !.loads = @ - 1] => LeftGoesOn
           /\ left.faults > 0 /\ left' = [left EXCEPT !.faults = @ - 1] => LeftGoesOn
<1>1. left \in Lefts
  BY DEF LeftTyped
<1>2. left' = left => LeftGoesOn
  BY <1>1 DEF LeftTyped, LeftGoesOn
<1>3. ASSUME left.changes > 0, left' = [left EXCEPT !.changes = @ - 1] PROVE LeftGoesOn
  BY <1>1, <1>3 DEF LeftTyped, LeftGoesOn, Lefts
<1>4. ASSUME left.loads > 0, left' = [left EXCEPT !.loads = @ - 1] PROVE LeftGoesOn
  BY <1>1, <1>4 DEF LeftTyped, LeftGoesOn, Lefts
<1>5. ASSUME left.faults > 0, left' = [left EXCEPT !.faults = @ - 1] PROVE LeftGoesOn
  BY <1>1, <1>5 DEF LeftTyped, LeftGoesOn, Lefts
<1> QED
  BY <1>2, <1>3, <1>4, <1>5

\* The sections that a summary of the model has.
LEMMA SectionsFacts ==
    ASSUME NEW text \in Texts
    PROVE  {[kind |-> 1, at |-> 0, text |-> text], [kind |-> 1, at |-> 1, text |-> "term"]} \in SUBSET Sections
  BY DEF Sections, Texts

\* What one change of one meeting does.
LEMMA WritesGoOn ==
    ASSUME MeetingsTyped, LeftTyped, Writes
    PROVE  \E m \in Ids : \E r : Writes1(m, r)
<1>1. PICK m \in Ids :
        \/ StartMeeting(m)
        \/ \E text \in Texts : CommitFinal(m, text)
        \/ \E state \in {"completed", "interrupted"}, incomplete \in BOOLEAN : FinishMeeting(m, state, incomplete)
        \/ \E k \in 1..2, text \in Texts \cup {NoText} : WriteTranslation(m, k, text)
        \/ \E label \in Texts : RecordSpeakerVersion(m, label)
        \/ \E text \in Texts : PublishSummary(m, {[kind |-> 1, at |-> 0, text |-> text], [kind |-> 1, at |-> 1, text |-> "term"]})
        \/ \E tags \in SUBSET Tags : ReplaceTags(m, tags)
        \/ SoftDelete(m) \/ Restore(m) \/ Purge(m)
  BY Zenon DEF Writes
<1>2. ASSUME NEW text \in Texts,
             PublishSummary(m, {[kind |-> 1, at |-> 0, text |-> text], [kind |-> 1, at |-> 1, text |-> "term"]})
      PROVE  \E r : Writes1(m, r)
  <2>1. PICK sections \in SUBSET Sections : PublishSummary(m, sections)
    BY <1>2, SectionsFacts
  <2> QED
    BY <2>1, PublishSummaryWrites
<1> QED
  BY <1>1, <1>2, StartMeetingWrites, CommitFinalWrites, FinishMeetingWrites, WriteTranslationWrites,
     RecordSpeakerVersionWrites, ReplaceTagsWrites, DeletionWrites, PurgeWrites

\* Each of them counts as a change.
LEMMA WritesCount ==
    ASSUME Writes \/ \E tag \in Tags : DeleteTag(tag)
    PROVE  /\ left.changes > 0 /\ left' = [left EXCEPT !.changes = @ - 1]
           /\ phase = "open" /\ UNCHANGED <<phase, file>>
<1>1. \E ms, new, i : Change(ms, new, i)
  <2>1. CASE Writes
    BY <2>1, Zenon DEF Writes, StartMeeting, CommitFinal, FinishMeeting, WriteTranslation, RecordSpeakerVersion,
       PublishSummary, ReplaceTags, SoftDelete, Restore, Purge, ChangeOf
  <2>2. CASE \E tag \in Tags : DeleteTag(tag)
    BY <2>2, Zenon DEF DeleteTag
  <2> QED
    BY <2>1, <2>2
<1> QED
  BY <1>1 DEF Change

\* A row with another set of attempts, other tags, or another state.
LEMMA RowTried ==
    ASSUME NEW o, MeetingOK(o), NEW tried \in SUBSET Nat
    PROVE  MeetingOK([o EXCEPT !.tried = tried]) /\ [o EXCEPT !.tried = tried].state = o.state
  BY DEF MeetingRow, MeetingOK

\* A row with other tags keeps its types.
LEMMA RowTagged ==
    ASSUME NEW o, MeetingOK(o), NEW tags \in SUBSET Tags
    PROVE  MeetingOK([o EXCEPT !.tags = tags]) /\ [o EXCEPT !.tags = tags].state = o.state
  BY DEF MeetingRow, MeetingOK

\* A row with another state keeps its types.
LEMMA RowStopped ==
    ASSUME NEW o, MeetingOK(o), o.state = "recording"
    PROVE  MeetingOK([o EXCEPT !.state = "interrupted"])
  BY DEF MeetingRow, MeetingOK, States, Absent, Purged

\* Every row is replaced by one that goes on from it.
LEMMA AllMeetingsGoOn ==
    ASSUME MeetingsTyped, meetings' = [m \in Ids |-> meetings'[m]],
           \A m \in Ids : MeetingOK(meetings'[m]) /\ (meetings[m].state = Purged => meetings'[m].state = Purged)
    PROVE  MeetingsGoOn
<1>1. \A m \in Ids : meetings'[m] \in MeetingRow
  BY DEF MeetingOK
<1>2. meetings' \in [Ids -> MeetingRow]
  BY <1>1
<1> QED
  BY <1>2 DEF MeetingsGoOn, MeetingsTyped

\* Meetings that do not change go on.
LEMMA MeetingsStay == ASSUME MeetingsTyped, meetings' = meetings PROVE MeetingsGoOn
  BY DEF MeetingsGoOn, MeetingsTyped

\* A tag is taken from every meeting that has it.
LEMMA DeleteTagGoesOn ==
    ASSUME MeetingsTyped, NEW tag \in Tags, DeleteTag(tag)
    PROVE  MeetingsGoOn
<1>1. meetings' = [m \in Ids |-> [meetings[m] EXCEPT !.tags = meetings[m].tags \ {tag}]]
  BY DEF DeleteTag, Change
<1>2. \A m \in Ids : MeetingOK(meetings[m]) /\ meetings[m].tags \ {tag} \in SUBSET Tags
  BY DEF MeetingsTyped, MeetingRow
<1>3. \A m \in Ids : meetings'[m] = [meetings[m] EXCEPT !.tags = meetings[m].tags \ {tag}]
  BY <1>1
<1>4. ASSUME NEW m \in Ids
      PROVE  MeetingOK(meetings'[m]) /\ (meetings[m].state = Purged => meetings'[m].state = Purged)
  <2>1. PICK o, tags : o = meetings[m] /\ tags = meetings[m].tags \ {tag}
    OBVIOUS
  <2>2. meetings'[m] = [o EXCEPT !.tags = tags] /\ MeetingOK(o) /\ tags \in SUBSET Tags
    BY <1>2, <1>3, <2>1
  <2> QED
    BY <2>1, <2>2, RowTagged
<1>5. meetings' = [m \in Ids |-> meetings'[m]]
  BY <1>1
<1> QED
  BY <1>4, <1>5, AllMeetingsGoOn

\* The migration copies attempts, and keeps the types.
LEMMA MigrateGoesOn ==
    ASSUME MeetingsTyped, Migrate
    PROVE  MeetingsGoOn
<1>1. CASE meetings' = meetings
  BY <1>1, MeetingsStay
<1>2. CASE meetings' = [m \in Ids |-> [meetings[m] EXCEPT
                            !.tried = {k \in DOMAIN meetings[m].finals : meetings[m].translated[k] # NoRow}]]
  <2>1. ASSUME NEW m \in Ids
        PROVE  MeetingOK(meetings'[m]) /\ (meetings[m].state = Purged => meetings'[m].state = Purged)
    <3>1. PICK o, tried : o = meetings[m] /\ tried = {k \in DOMAIN o.finals : o.translated[k] # NoRow}
      OBVIOUS
    <3>2. meetings'[m] = [o EXCEPT !.tried = tried] /\ MeetingOK(o)
      BY <1>2, <3>1 DEF MeetingsTyped
    <3>3. tried \in SUBSET Nat
      BY <3>1, <3>2 DEF MeetingOK, MeetingRow
    <3> QED
      BY <3>1, <3>2, <3>3, RowTried
  <2>2. meetings' = [m \in Ids |-> meetings'[m]]
    BY <1>2
  <2> QED
    BY <2>1, <2>2, AllMeetingsGoOn
<1> QED
  BY <1>1, <1>2 DEF Migrate

\* The recovery stops the recordings, and keeps the types.
LEMMA RecoverGoesOn ==
    ASSUME MeetingsTyped, RecoverInterrupted
    PROVE  MeetingsGoOn
<1>1. meetings' = [m \in Ids |-> IF meetings[m].state = "recording"
                                 THEN [meetings[m] EXCEPT !.state = "interrupted"] ELSE meetings[m]]
  BY DEF RecoverInterrupted
<1>2. ASSUME NEW m \in Ids
      PROVE  MeetingOK(meetings'[m]) /\ (meetings[m].state = Purged => meetings'[m].state = Purged)
  <2>1. PICK o : o = meetings[m]
    OBVIOUS
  <2>2. meetings'[m] = (IF o.state = "recording" THEN [o EXCEPT !.state = "interrupted"] ELSE o) /\ MeetingOK(o)
    BY <1>1, <2>1 DEF MeetingsTyped
  <2>3. o.state = "recording" => MeetingOK([o EXCEPT !.state = "interrupted"])
    BY <2>2, RowStopped
  <2> QED
    BY <2>1, <2>2, <2>3 DEF Purged
<1>3. meetings' = [m \in Ids |-> meetings'[m]]
  BY <1>1
<1> QED
  BY <1>2, <1>3, AllMeetingsGoOn

\* Loads and answers of the library window change no meeting.
LEMMA BrowseGoesOn ==
    ASSUME LeftTyped, Browse
    PROVE  UNCHANGED database /\ LeftGoesOn
<1>1. ASSUME NEW word, NEW tags, NEW cursor, NEW append, Load(word, tags, cursor, append)
      PROVE  UNCHANGED database /\ LeftGoesOn
  BY <1>1, LeftFacts DEF Load
<1>2. ASSUME NEW load, Serve(load) \/ Fail(load) \/ Arrive(load)
      PROVE  UNCHANGED database /\ LeftGoesOn
  BY <1>2, LeftFacts DEF Serve, Fail, Arrive
<1>3. RefreshInterrupted => UNCHANGED database /\ LeftGoesOn
  BY LeftFacts DEF RefreshInterrupted
<1> QED
  BY <1>1, <1>2, <1>3, Zenon DEF Browse, ChangeFilter, Reload, More

\* A step of the library, and the end of the process.
LEMMA LibraryGoesOn ==
    ASSUME MeetingsTyped, LeftTyped, LibrarySteps \/ Crash
    PROVE  MeetingsGoOn /\ LeftGoesOn
<1>1. CASE Starts
  <2>1. LeftGoesOn
    BY <1>1, LeftFacts DEF Starts, Migrate, EnsureSearchIndex, RecoverInterrupted
  <2>2. EnsureSearchIndex => meetings' = meetings
    BY DEF EnsureSearchIndex
  <2> QED
    BY <1>1, <2>1, <2>2, MeetingsStay, MigrateGoesOn, RecoverGoesOn DEF Starts
<1>2. CASE Writes
  <2>0. PICK m \in Ids : \E r : Writes1(m, r)
    BY <1>2, WritesGoOn
  <2>1. PICK r : Writes1(m, r)
    BY <2>0
  <2>2. MeetingsGoOn
    BY <2>1, OneMeetingGoesOn DEF Writes1
  <2>3. LeftGoesOn
    BY <1>2, WritesCount, LeftFacts
  <2> QED
    BY <2>2, <2>3
<1>3. CASE \E tag \in Tags : DeleteTag(tag)
  BY <1>3, DeleteTagGoesOn, WritesCount, LeftFacts
<1>4. CASE Browse
  BY <1>4, BrowseGoesOn, MeetingsStay DEF database
<1>5. CASE Crash
  BY <1>5, LeftFacts, MeetingsStay DEF Crash
<1> QED
  BY <1>1, <1>2, <1>3, <1>4, <1>5 DEF LibrarySteps

-----------------------------------------------------------------------------
(* The files that are found.                                                *)

\* The rows of a file, by the parts of them that its release had.
FoundRow(state, started, finals, translated, tried, speakers, summaries, tags) ==
    [state |-> state, incomplete |-> FALSE, deleted |-> FALSE, started |-> started, finals |-> finals,
     translated |-> translated, tried |-> tried, speakers |-> speakers, summaries |-> summaries, tags |-> tags]

Since(version, v, new, none) == IF version >= v THEN new ELSE none

OneSummary == {[kind |-> 1, at |-> 0, text |-> "term"], [kind |-> 2, at |-> 0, text |-> "inner"]}

FoundFirst(version) ==
    FoundRow("completed", 1, <<"term">>, Since(version, 2, <<"inner">>, <<NoRow>>), Since(version, 4, {1}, {}),
             Since(version, 6, <<"term", "inner">>, <<>>), Since(version, 5, <<OneSummary>>, <<>>), Since(version, 5, Tags, {}))
FoundSecond(version) ==
    FoundRow("interrupted", 1, <<"inner", "other">>, Since(version, 2, <<NoText, NoRow>>, <<NoRow, NoRow>>),
             Since(version, 4, {1}, {}), <<>>, <<>>, {})
FoundThird(version) ==
    FoundRow("recording", 2, <<"other">>, <<NoRow>>, {}, <<>>, <<>>, Since(version, 5, Tags, {}))

\* The meetings of the file that is found, by the parts of their rows.
LEMMA OldMeetings ==
    ASSUME NEW version \in 0..9, NEW m \in Ids
    PROVE  /\ version = 0 \/ m = 4 => OldMeeting(version, m) = NoMeeting
           /\ version # 0 /\ m = 1 => OldMeeting(version, m) = FoundFirst(version)
           /\ version # 0 /\ m = 2 => OldMeeting(version, m) = FoundSecond(version)
           /\ version # 0 /\ m = 3 => OldMeeting(version, m) = FoundThird(version)
<1>1. version = 0 \/ m = 4 => OldMeeting(version, m) = NoMeeting
  BY DEF OldMeeting
<1>2. version # 0 /\ m = 1 => OldMeeting(version, m) = FoundFirst(version)
  BY DEF OldMeeting, FoundFirst, FoundRow, Since, OneSummary
<1>3. version # 0 /\ m = 2 => OldMeeting(version, m) = FoundSecond(version)
  BY DEF OldMeeting, FoundSecond, FoundRow, Since
<1>4. version # 0 /\ m = 3 => OldMeeting(version, m) = FoundThird(version)
  BY DEF OldMeeting, FoundThird, FoundRow, Since
<1> QED
  BY <1>1, <1>2, <1>3, <1>4

\* A part that a later release added has its type before and after.
LEMMA SinceIn ==
    ASSUME NEW version, NEW v, NEW S, NEW new \in S, NEW none \in S
    PROVE  Since(version, v, new, none) \in S
  BY DEF Since

\* A part that a later release added has the same length before and after.
LEMMA SinceLong ==
    ASSUME NEW version, NEW v, NEW new, NEW none, Len(new) = Len(none)
    PROVE  Len(Since(version, v, new, none)) = Len(none)
  BY DEF Since

\* Sequences of no, one or two values.
LEMMA ShortSequences ==
    ASSUME NEW S, NEW a \in S, NEW b \in S
    PROVE  /\ <<>> \in Seq(S) /\ <<a>> \in Seq(S) /\ <<a, b>> \in Seq(S)
           /\ Len(<<a>>) = 1 /\ Len(<<a, b>>) = 2
  OBVIOUS

FoundParts(state, started, finals, translated, tried, speakers, summaries, tags) ==
    /\ state \in {"completed", "interrupted", "recording"} /\ started \in 0..4 /\ finals \in Seq(Texts)
    /\ translated \in Seq(Texts \cup {NoText, NoRow}) /\ tried \in SUBSET Nat /\ speakers \in Seq(Texts)
    /\ summaries \in Seq(SUBSET Sections) /\ tags \in SUBSET Tags /\ Len(translated) = Len(finals)

\* A row that is found has its types when its parts have.
LEMMA FoundRowOK ==
    ASSUME NEW state, NEW started, NEW finals, NEW translated, NEW tried, NEW speakers, NEW summaries, NEW tags,
           FoundParts(state, started, finals, translated, tried, speakers, summaries, tags)
    PROVE  MeetingOK(FoundRow(state, started, finals, translated, tried, speakers, summaries, tags))
<1>1. FoundRow(state, started, finals, translated, tried, speakers, summaries, tags) \in MeetingRow
  BY DEF FoundRow, MeetingRow, States, FoundParts
<1> QED
  BY <1>1 DEF MeetingOK, FoundRow, Absent, Purged, FoundParts

\* The three meetings of the file that is found have their types.
LEMMA FoundFacts ==
    ASSUME NEW version \in 1..9
    PROVE  /\ MeetingOK(FoundFirst(version)) /\ MeetingOK(FoundSecond(version)) /\ MeetingOK(FoundThird(version))
<1>1. "term" \in Texts /\ "inner" \in Texts /\ "other" \in Texts
      /\ {"inner", NoText, NoRow} \subseteq Texts \cup {NoText, NoRow}
  BY DEF Texts
<1>2. PICK a, b, c : a = <<"term">> /\ b = <<"inner", "other">> /\ c = <<"other">>
  OBVIOUS
<1>3. a \in Seq(Texts) /\ b \in Seq(Texts) /\ c \in Seq(Texts) /\ Len(a) = 1 /\ Len(b) = 2 /\ Len(c) = 1
  BY <1>1, <1>2
<1>4. PICK d, e, f : d = <<NoRow>> /\ e = Since(version, 2, <<"inner">>, <<NoRow>>)
                     /\ f = Since(version, 2, <<NoText, NoRow>>, <<NoRow, NoRow>>)
  OBVIOUS
<1>5. /\ <<"inner">> \in Seq(Texts \cup {NoText, NoRow}) /\ d \in Seq(Texts \cup {NoText, NoRow})
      /\ <<NoText, NoRow>> \in Seq(Texts \cup {NoText, NoRow}) /\ <<NoRow, NoRow>> \in Seq(Texts \cup {NoText, NoRow})
  BY <1>1, <1>4, ShortSequences
<1>6. e \in Seq(Texts \cup {NoText, NoRow}) /\ f \in Seq(Texts \cup {NoText, NoRow})
  BY <1>4, <1>5, SinceIn
<1>7. Len(<<"inner">>) = 1 /\ Len(d) = 1 /\ Len(<<NoText, NoRow>>) = 2 /\ Len(<<NoRow, NoRow>>) = 2
  BY <1>4
<1>8. Len(e) = 1 /\ Len(f) = 2
  BY <1>4, <1>7, SinceLong
<1>9. OneSummary \in SUBSET Sections
  BY DEF OneSummary, Sections, Texts
<1>10. PICK g, h : g = Since(version, 5, <<OneSummary>>, <<>>) /\ h = Since(version, 6, <<"term", "inner">>, <<>>)
  OBVIOUS
<1>11. <<OneSummary>> \in Seq(SUBSET Sections) /\ <<>> \in Seq(SUBSET Sections)
       /\ <<"term", "inner">> \in Seq(Texts) /\ <<>> \in Seq(Texts)
  BY <1>1, <1>9, ShortSequences
<1>12. g \in Seq(SUBSET Sections) /\ h \in Seq(Texts)
  BY <1>10, <1>11, SinceIn
<1>13. PICK t, u, nil, none : nil = <<>> /\ none = {} /\ t = Since(version, 4, {1}, {}) /\ u = Since(version, 5, Tags, {})
  OBVIOUS
<1>14. /\ t \in SUBSET Nat /\ u \in SUBSET Tags /\ none \in SUBSET Nat /\ none \in SUBSET Tags
       /\ nil \in Seq(Texts) /\ nil \in Seq(SUBSET Sections)
  BY <1>11, <1>13 DEF Since
<1>15. MeetingOK(FoundRow("completed", 1, a, e, t, h, g, u))
  <2>1. FoundParts("completed", 1, a, e, t, h, g, u)
    BY <1>3, <1>5, <1>6, <1>7, <1>8, <1>12, <1>14 DEF FoundParts
  <2> QED
    BY ONLY <2>1, FoundRowOK
<1>16. MeetingOK(FoundRow("interrupted", 1, b, f, t, nil, nil, none))
  <2>1. FoundParts("interrupted", 1, b, f, t, nil, nil, none)
    BY <1>3, <1>5, <1>6, <1>7, <1>8, <1>12, <1>14 DEF FoundParts
  <2> QED
    BY ONLY <2>1, FoundRowOK
<1>17. MeetingOK(FoundRow("recording", 2, c, d, none, nil, nil, u))
  <2>1. FoundParts("recording", 2, c, d, none, nil, nil, u)
    BY <1>3, <1>5, <1>6, <1>7, <1>8, <1>12, <1>14 DEF FoundParts
  <2> QED
    BY ONLY <2>1, FoundRowOK
<1> QED
  BY <1>2, <1>4, <1>10, <1>13, <1>15, <1>16, <1>17 DEF FoundFirst, FoundSecond, FoundThird

\* What is found has its types.
LEMMA LibraryStarts ==
    ASSUME LibraryInit
    PROVE  MeetingsTyped /\ LeftTyped
<1>1. PICK version \in OldVersions, known \in BOOLEAN :
         /\ file = [version |-> version, known |-> known, parts |-> PartsOf(version)]
         /\ meetings = [m \in Ids |-> OldMeeting(version, m)]
         /\ index = OldIndex(version, meetings)
         /\ left \in IF version = SchemaVersion THEN Plans ELSE {Plan(1, 0, 1, 0)}
  BY DEF LibraryInit
<1>2. version \in 0..9
  BY LibraryBounds DEF SchemaVersion
<1>3. ASSUME NEW m \in Ids PROVE MeetingOK(OldMeeting(version, m))
  <2>1. MeetingOK(NoMeeting)
    <3>1. Absent \in States /\ 0 \in 0..4
      BY DEF States
    <3> QED
      BY <3>1, EmptyRowOK, NoMeetingFacts, Zenon
  <2>2. version = 0 \/ version \in 1..9
    BY <1>2
  <2>3. CASE version = 0 \/ m = 4
    BY <1>2, <2>1, <2>3, OldMeetings
  <2>4. CASE version # 0 /\ m = 1
    BY <1>2, <2>2, <2>4, OldMeetings, FoundFacts
  <2>5. CASE version # 0 /\ m = 2
    BY <1>2, <2>2, <2>5, OldMeetings, FoundFacts
  <2>6. CASE version # 0 /\ m = 3
    BY <1>2, <2>2, <2>6, OldMeetings, FoundFacts
  <2> QED
    BY <2>3, <2>4, <2>5, <2>6 DEF Ids
<1>4. \A m \in Ids : meetings[m] = OldMeeting(version, m)
  BY <1>1
<1>5. meetings \in [Ids -> MeetingRow]
  BY <1>1, <1>3 DEF MeetingOK
<1>6. MaxChanges \in Nat /\ MaxLoads \in Nat /\ MaxExports \in Nat
  BY LibraryBounds
<1>7. Plans \subseteq Lefts /\ Plan(1, 0, 1, 0) \in Lefts
  BY <1>6 DEF Plans, Plan, Lefts
<1> QED
  BY <1>1, <1>3, <1>4, <1>5, <1>7 DEF MeetingsTyped, LeftTyped

-----------------------------------------------------------------------------
(* The search index is what the tables say.                                 *)

\* Every row of a meeting names it, and its part of the transcript.
LEMMA RowsFacts ==
    ASSUME NEW m, NEW q
    PROVE  /\ \A r \in OriginalRows(m, q) : r.meeting = m /\ r.scope = "original"
           /\ \A r \in TranslationRows(m, q) : r.meeting = m /\ r.scope = "translation"
           /\ \A r \in SpeakerRows(m, q) : r.meeting = m /\ r.scope = "speaker"
           /\ \A r \in SummaryRows(m, q) : r.meeting = m /\ r.scope = "summary"
<1>1. \A k, scope, text : LET r == Row(m, k, scope, text) IN r.meeting = m /\ r.scope = scope
  BY DEF Row
<1>2. \A j, s : LET r == SummaryRow(m, j, s) IN r.meeting = m /\ r.scope = "summary"
  BY DEF SummaryRow
<1>3. \A r \in OriginalRows(m, q) : \E k, text : r = Row(m, k, "original", text)
  BY DEF OriginalRows
<1>4. \A r \in TranslationRows(m, q) : \E k, text : r = Row(m, k, "translation", text)
  BY DEF TranslationRows
<1>5. \A r \in SpeakerRows(m, q) : \E k, text : r = Row(m, k, "speaker", text)
  BY DEF SpeakerRows
<1>6. \A r \in SummaryRows(m, q) : \E j, s : r = SummaryRow(m, j, s)
  BY DEF SummaryRows
<1> QED
  BY <1>1, <1>2, <1>3, <1>4, <1>5, <1>6

\* Rows that are alike in what the index holds have the same rows in it.
LEMMA SameRows ==
    ASSUME NEW m, NEW q, NEW r, q.finals = r.finals, q.translated = r.translated, q.speakers = r.speakers, q.summaries = r.summaries
    PROVE  MeetingRows(m, q) = MeetingRows(m, r)
  BY DEF MeetingRows, OriginalRows, TranslationRows, SpeakerRows, SummaryRows

\* A meeting without finals, speakers and summaries has none.
LEMMA NoRows ==
    ASSUME NEW m, NEW q, q.finals = <<>>, q.speakers = <<>>, q.summaries = <<>>
    PROVE  MeetingRows(m, q) = {}
  BY DEF MeetingRows, OriginalRows, TranslationRows, SpeakerRows, SummaryRows

\* Meetings that are alike in what the index holds have the same rows.
LEMMA AllSameRows ==
    ASSUME NEW F, NEW G, DOMAIN F = DOMAIN G, \A m \in DOMAIN F : MeetingRows(m, F[m]) = MeetingRows(m, G[m])
    PROVE  AllRows(F) = AllRows(G)
  BY DEF AllRows

\* The rows when one meeting changes.
Replaced(F, G, m, q) == m \in DOMAIN F /\ G = [F EXCEPT ![m] = q]

\* When one meeting is replaced, the rows of the others stay.
LEMMA OneMeetingRows ==
    ASSUME NEW F, NEW G, NEW m, NEW q, Replaced(F, G, m, q)
    PROVE  /\ AllRows(G) = {r \in AllRows(F) : r.meeting # m} \cup MeetingRows(m, q)
           /\ AllRows(F) = {r \in AllRows(F) : r.meeting # m} \cup MeetingRows(m, F[m])
           /\ \A r \in MeetingRows(m, q) \cup MeetingRows(m, F[m]) : r.meeting = m
<1> USE DEF Replaced
<1>1. \A n, x : \A r \in MeetingRows(n, x) : r.meeting = n
  BY RowsFacts DEF MeetingRows
<1>2. \A r : r \in AllRows(F) <=> \E n \in DOMAIN F : r \in MeetingRows(n, F[n])
  BY DEF AllRows
<1>3. \A r : r \in AllRows(G) <=> \E n \in DOMAIN G : r \in MeetingRows(n, G[n])
  BY DEF AllRows
<1>4. DOMAIN G = DOMAIN F /\ G[m] = q /\ \A n \in DOMAIN F : n # m => G[n] = F[n]
  OBVIOUS
<1>5. ASSUME NEW r
      PROVE  r \in AllRows(G) <=> r \in {x \in AllRows(F) : x.meeting # m} \cup MeetingRows(m, q)
  <2>1. ASSUME NEW n \in DOMAIN F, r \in MeetingRows(n, G[n]) PROVE r \in {x \in AllRows(F) : x.meeting # m} \cup MeetingRows(m, q)
    <3>1. CASE n = m
      BY <1>4, <2>1, <3>1
    <3>2. CASE n # m
      BY <1>1, <1>2, <1>4, <2>1, <3>2
    <3> QED
      BY <3>1, <3>2
  <2>2. ASSUME r \in MeetingRows(m, q) PROVE r \in AllRows(G)
    BY <1>3, <1>4, <2>2
  <2>3. ASSUME r \in AllRows(F), r.meeting # m PROVE r \in AllRows(G)
    <3>1. PICK n \in DOMAIN F : r \in MeetingRows(n, F[n])
      BY <1>2, <2>3
    <3>2. n # m
      BY <1>1, <2>3, <3>1
    <3> QED
      BY <1>3, <1>4, <3>1, <3>2
  <2> QED
    BY <1>3, <1>4, <2>1, <2>2, <2>3
<1>6. ASSUME NEW r
      PROVE  r \in AllRows(F) <=> r \in {x \in AllRows(F) : x.meeting # m} \cup MeetingRows(m, F[m])
  BY <1>1, <1>2
<1> QED
  BY <1>1, <1>5, <1>6

\* Both tables hold the same rows, and every trigger keeps them so.
Both(held) == [words |-> held, trigrams |-> held]

\* Both tables of an index hold what it is made of.
LEMMA BothFacts ==
    ASSUME NEW W, NEW R
    PROVE  /\ Put(Both(W), R) = Both(W \cup R) /\ Drop(Both(W), R) = Both(W \ R) /\ EitherOf(Both(W)) = W
           /\ Both(W).words = W /\ Both(W).trigrams = W
  BY DEF Put, Drop, EitherOf, Both

\* A final without labels adds its text.
FinalAdded(o, r, text) ==
    /\ o.finals \in Seq(Texts) /\ o.translated \in Seq(Texts \cup {NoText, NoRow})
    /\ Len(o.translated) = Len(o.finals) /\ o.speakers = <<>>
    /\ r.finals = Append(o.finals, text) /\ r.translated = Append(o.translated, NoRow)
    /\ r.speakers = o.speakers /\ r.summaries = o.summaries

\* A final adds its rows to those of the meeting.
LEMMA FinalRows ==
    ASSUME NEW m, NEW o, NEW r, NEW text, FinalAdded(o, r, text)
    PROVE  MeetingRows(m, r) = MeetingRows(m, o) \cup {Row(m, Len(o.finals) + 1, "original", text)}
<1> USE DEF FinalAdded
<1>1. PICK n \in Nat : n = Len(o.finals)
  OBVIOUS
<1>2. DOMAIN r.finals = 1..n + 1 /\ DOMAIN o.finals = 1..n
  BY <1>1
<1>3. r.finals[n + 1] = text /\ \A k \in 1..n : r.finals[k] = o.finals[k]
  BY <1>1
<1>4. r.translated[n + 1] = NoRow /\ \A k \in 1..n : r.translated[k] = o.translated[k]
  BY <1>1
<1>5. OriginalRows(m, r) = OriginalRows(m, o) \cup {Row(m, n + 1, "original", text)}
  <2>1. \A k : k \in 1..n + 1 <=> k \in 1..n \/ k = n + 1
    OBVIOUS
  <2>2. OriginalRows(m, o) = {Row(m, k, "original", o.finals[k]) : k \in 1..n}
        /\ OriginalRows(m, r) = {Row(m, k, "original", r.finals[k]) : k \in 1..n + 1}
    BY <1>2, Zenon DEF OriginalRows
  <2> QED
    BY <1>3, <2>1, <2>2
<1>6. TranslationRows(m, r) = TranslationRows(m, o)
  <2>1. NoRow \notin Texts
    BY DEF NoRow, Texts
  <2>2. \A k : k \in 1..n + 1 <=> k \in 1..n \/ k = n + 1
    OBVIOUS
  <2>3. {k \in 1..n + 1 : r.translated[k] \in Texts} = {k \in 1..n : o.translated[k] \in Texts}
    BY <1>4, <2>1, <2>2
  <2>4. TranslationRows(m, o) = {Row(m, k, "translation", o.translated[k]) : k \in {k \in 1..n : o.translated[k] \in Texts}}
        /\ TranslationRows(m, r) = {Row(m, k, "translation", r.translated[k]) : k \in {k \in 1..n + 1 : r.translated[k] \in Texts}}
    BY <1>2, Zenon DEF TranslationRows
  <2> QED
    BY <1>4, <2>3, <2>4
<1>7. SpeakerRows(m, r) = SpeakerRows(m, o) /\ SummaryRows(m, r) = SummaryRows(m, o)
  BY DEF SpeakerRows, SummaryRows
<1> QED
  BY <1>1, <1>5, <1>6, <1>7 DEF MeetingRows

\* The rows of a translation.
TranslationAt(held, m, k) == {x \in held : x.meeting = m /\ x.at = k /\ x.scope = "translation"}

\* A translation that is written takes the place of the one before.
Written(o, r, k, text) ==
    /\ k \in DOMAIN o.finals /\ text \in Texts \cup {NoText} /\ r.translated[k] = text
    /\ \A i \in DOMAIN o.finals : i # k => r.translated[i] = o.translated[i]
    /\ r.finals = o.finals /\ r.speakers = o.speakers /\ r.summaries = o.summaries

\* A translation replaces the row of its segment.
LEMMA WrittenRows ==
    ASSUME NEW m, NEW o, NEW r, NEW k, NEW text, Written(o, r, k, text)
    PROVE  /\ MeetingRows(m, r) = (MeetingRows(m, o) \ TranslationAt(MeetingRows(m, o), m, k)) \cup
                                  (IF text = NoText THEN {} ELSE {Row(m, k, "translation", text)})
           /\ o.translated[k] = NoRow => TranslationAt(MeetingRows(m, o), m, k) = {}
<1> USE DEF Written
<1>1. PICK A, B, T, S, C : A = OriginalRows(m, o) /\ B = TranslationRows(m, o) /\ C = TranslationRows(m, r)
                           /\ T = SpeakerRows(m, o) /\ S = SummaryRows(m, o)
  OBVIOUS
<1>2. MeetingRows(m, o) = A \cup B \cup T \cup S /\ MeetingRows(m, r) = A \cup C \cup T \cup S
  BY <1>1 DEF MeetingRows, OriginalRows, SpeakerRows, SummaryRows
<1>3. \A x \in A \cup T \cup S : x.scope # "translation"
  BY <1>1, RowsFacts
<1>4. NoText \notin Texts /\ NoRow \notin Texts
  BY DEF NoText, NoRow, Texts
<1>5. \A x : x \in B <=> \E i \in DOMAIN o.finals : o.translated[i] \in Texts /\ x = Row(m, i, "translation", o.translated[i])
  BY <1>1 DEF TranslationRows
<1>6. \A x : x \in C <=> \E i \in DOMAIN o.finals : r.translated[i] \in Texts /\ x = Row(m, i, "translation", r.translated[i])
  BY <1>1 DEF TranslationRows
<1>7. \A i, t : LET x == Row(m, i, "translation", t) IN x.meeting = m /\ x.at = i /\ x.scope = "translation"
  BY DEF Row
<1>8. \A i \in DOMAIN o.finals : i # k => r.translated[i] = o.translated[i]
  OBVIOUS
<1>9. C = (B \ TranslationAt(B, m, k)) \cup (IF text = NoText THEN {} ELSE {Row(m, k, "translation", text)})
  <2>1. ASSUME NEW x \in C PROVE x \in (B \ TranslationAt(B, m, k)) \cup (IF text = NoText THEN {} ELSE {Row(m, k, "translation", text)})
    <3>1. PICK i \in DOMAIN o.finals : r.translated[i] \in Texts /\ x = Row(m, i, "translation", r.translated[i])
      BY <1>6, <2>1
    <3> QED
      BY <1>4, <1>5, <1>7, <1>8, <3>1 DEF TranslationAt
  <2>2. ASSUME NEW x \in B, x \notin TranslationAt(B, m, k) PROVE x \in C
    <3>1. PICK i \in DOMAIN o.finals : o.translated[i] \in Texts /\ x = Row(m, i, "translation", o.translated[i])
      BY <1>5, <2>2
    <3>2. i # k
      BY <1>7, <2>2, <3>1 DEF TranslationAt
    <3> QED
      BY <1>6, <1>8, <3>1, <3>2
  <2>3. text # NoText => Row(m, k, "translation", text) \in C
    BY <1>6
  <2> QED
    BY <2>1, <2>2, <2>3
<1>10. TranslationAt(MeetingRows(m, o), m, k) = TranslationAt(B, m, k)
  BY <1>2, <1>3 DEF TranslationAt
<1>11. o.translated[k] = NoRow => TranslationAt(B, m, k) = {}
  BY <1>4, <1>5, <1>7 DEF TranslationAt
<1>12. MeetingRows(m, o) \ TranslationAt(B, m, k) = A \cup (B \ TranslationAt(B, m, k)) \cup T \cup S
  BY <1>2, <1>3 DEF TranslationAt
<1> QED
  BY <1>2, <1>9, <1>10, <1>11, <1>12

\* New labels take the place of the old ones.
LEMMA LabelledRows ==
    ASSUME NEW m, NEW o, NEW r, NEW label \in Texts, o.speakers \in Seq(Texts),
           r.finals = o.finals, r.translated = o.translated, r.summaries = o.summaries, r.speakers = Append(o.speakers, label)
    PROVE  MeetingRows(m, r) = {x \in MeetingRows(m, o) : x.scope # "speaker"} \cup {Row(m, k, "speaker", label) : k \in DOMAIN o.finals}
<1>1. PICK A, B, T, S, C : A = OriginalRows(m, o) /\ B = TranslationRows(m, o) /\ C = SpeakerRows(m, r)
                           /\ T = SpeakerRows(m, o) /\ S = SummaryRows(m, o)
  OBVIOUS
<1>2. MeetingRows(m, o) = A \cup B \cup T \cup S /\ MeetingRows(m, r) = A \cup B \cup C \cup S
  BY <1>1 DEF MeetingRows, OriginalRows, TranslationRows, SummaryRows
<1>3. (\A x \in A \cup B \cup S : x.scope # "speaker") /\ (\A x \in T : x.scope = "speaker")
  BY <1>1, RowsFacts
<1>4. r.speakers # <<>> /\ Last(r.speakers) = label
  <2>1. PICK q, w : q \in Seq(Texts) /\ q = o.speakers /\ w = Append(q, label)
    OBVIOUS
  <2>2. Len(w) = Len(q) + 1 /\ w[Len(q) + 1] = label /\ Len(q) \in Nat /\ Len(<<>>) = 0
    BY <2>1
  <2> QED
    BY <2>1, <2>2 DEF Last
<1>5. C = {Row(m, k, "speaker", label) : k \in DOMAIN o.finals}
  BY <1>1, <1>4 DEF SpeakerRows
<1> QED
  BY <1>2, <1>3, <1>5

\* A summary adds its sections.
LEMMA SummarizedRows ==
    ASSUME NEW m, NEW o, NEW r, NEW sections \in SUBSET Sections, o.summaries \in Seq(SUBSET Sections),
           r.finals = o.finals, r.translated = o.translated, r.speakers = o.speakers, r.summaries = Append(o.summaries, sections)
    PROVE  MeetingRows(m, r) = MeetingRows(m, o) \cup {SummaryRow(m, Len(o.summaries) + 1, s) : s \in sections}
<1>1. PICK A, B, T, S, C : A = OriginalRows(m, o) /\ B = TranslationRows(m, o) /\ C = SummaryRows(m, r)
                           /\ T = SpeakerRows(m, o) /\ S = SummaryRows(m, o)
  OBVIOUS
<1>2. MeetingRows(m, o) = A \cup B \cup T \cup S /\ MeetingRows(m, r) = A \cup B \cup T \cup C
  BY <1>1 DEF MeetingRows, OriginalRows, TranslationRows, SpeakerRows
<1>3. PICK n \in Nat : n = Len(o.summaries)
  OBVIOUS
<1>4. DOMAIN r.summaries = 1..n + 1 /\ DOMAIN o.summaries = 1..n /\ r.summaries[n + 1] = sections
      /\ \A j \in 1..n : r.summaries[j] = o.summaries[j]
  BY <1>3
<1>5. \A j : j \in 1..n + 1 <=> j \in 1..n \/ j = n + 1
  BY <1>3
<1>6. \A x : x \in S <=> \E j \in 1..n : \E s \in o.summaries[j] : x = SummaryRow(m, j, s)
  BY <1>1, <1>4 DEF SummaryRows
<1>7. \A x : x \in C <=> \E j \in 1..n + 1 : \E s \in r.summaries[j] : x = SummaryRow(m, j, s)
  BY <1>1, <1>4 DEF SummaryRows
<1>8. C = S \cup {SummaryRow(m, n + 1, s) : s \in sections}
  BY <1>4, <1>5, <1>6, <1>7
<1> QED
  BY <1>2, <1>3, <1>8

-----------------------------------------------------------------------------
(* The database once the writer has started.                                *)

AttemptsOf(r) == \A k \in DOMAIN r.finals : r.translated[k] # NoRow => k \in r.tried
Unlabelled(r) == r.state = "recording" => r.speakers = <<>>
Plain(held) == {x \in held : x.scope # "speaker"}

\* The parts of a file are those of its release.
FileKnown ==
    /\ phase \in {"closed", "migrated", "indexed", "open"} /\ file.version \in 0..9 /\ file.parts = PartsOf(file.version)
    /\ phase # "closed" => Readable(file)

AttemptsKept == CopiesAttempts(file.version) \/ \A m \in Ids : AttemptsOf(meetings[m])
RecordingsUnlabelled == \A m \in Ids : Unlabelled(meetings[m])

\* Before the index is renewed it may lack labels, or everything.
IndexKept ==
    /\ phase \in {"indexed", "open"} => index = Both(AllRows(meetings))
    /\ phase \in {"closed", "migrated"} =>
         \/ index = NoIndex /\ \A m \in Ids : meetings[m].speakers = <<>>
         \/ Plain(index.words) = Plain(AllRows(meetings)) /\ Plain(index.trigrams) = Plain(AllRows(meetings))

DatabaseInv == MeetingsTyped /\ LeftTyped /\ FileKnown /\ AttemptsKept /\ RecordingsUnlabelled /\ IndexKept

\* What a change of the meeting m leaves whole.
Whole1(m, r) ==
    /\ meetings' = [meetings EXCEPT ![m] = r]
    /\ AttemptsOf(meetings[m]) => AttemptsOf(r)
    /\ Unlabelled(r)
    /\ index' = Both({x \in AllRows(meetings) : x.meeting # m} \cup MeetingRows(m, r))

Ready == MeetingsTyped /\ RecordingsUnlabelled /\ index = Both(AllRows(meetings))

\* The rows of the index, when one meeting is taken apart.
LEMMA ReadyFacts ==
    ASSUME Ready, NEW m \in Ids
    PROVE  \E W, R, K :
             /\ W = AllRows(meetings) /\ R = {x \in W : x.meeting # m} /\ K = MeetingRows(m, meetings[m])
             /\ index = Both(W) /\ W = R \cup K /\ \A x \in K : x.meeting = m
<1>1. PICK G : G = [meetings EXCEPT ![m] = meetings[m]]
  OBVIOUS
<1>2. m \in DOMAIN meetings
  BY DEF Ready, MeetingsTyped
<1>3. PICK W, R, K : W = AllRows(meetings) /\ R = {x \in W : x.meeting # m} /\ K = MeetingRows(m, meetings[m])
  OBVIOUS
<1>4. W = R \cup K /\ \A x \in K : x.meeting = m
  <2>1. Replaced(meetings, G, m, meetings[m])
    BY <1>1, <1>2 DEF Replaced
  <2> QED
    BY ONLY <1>3, <2>1, OneMeetingRows
<1> QED
  BY <1>3, <1>4 DEF Ready

\* A change that the index does not show.
LEMMA QuietWrite ==
    ASSUME Ready, NEW m \in Ids, NEW r, meetings' = [meetings EXCEPT ![m] = r], index' = index,
           r.finals = meetings[m].finals, r.translated = meetings[m].translated, r.speakers = meetings[m].speakers,
           r.summaries = meetings[m].summaries, r.tried = meetings[m].tried \/ r.finals = <<>>,
           r.state = "recording" => meetings[m].state = "recording" \/ r.speakers = <<>>
    PROVE  Whole1(m, r)
<1>1. MeetingRows(m, r) = MeetingRows(m, meetings[m])
  BY SameRows
<1>2. index' = Both({x \in AllRows(meetings) : x.meeting # m} \cup MeetingRows(m, r))
  BY <1>1, ReadyFacts
<1>3. AttemptsOf(meetings[m]) => AttemptsOf(r)
  BY DEF AttemptsOf
<1>4. Unlabelled(r)
  BY DEF Unlabelled, Ready, RecordingsUnlabelled
<1> QED
  BY <1>2, <1>3, <1>4 DEF Whole1

\* A meeting that starts has no rows in the index.
LEMMA StartMeetingWhole ==
    ASSUME Ready, NEW m \in Ids, StartMeeting(m)
    PROVE  \E r : Whole1(m, r)
<1> DEFINE r == EmptyRow("recording", m)
<1>1. PICK o : o = meetings[m]
  OBVIOUS
<1>2. meetings' = [meetings EXCEPT ![m] = r] /\ index' = index /\ o.state = Absent
  BY <1>1, NoMeetingFacts DEF StartMeeting, ChangeOf, Change
<1>3. o.finals = <<>> /\ o.translated = <<>> /\ o.speakers = <<>> /\ o.summaries = <<>>
  BY <1>1, <1>2 DEF Ready, MeetingsTyped, MeetingOK
<1>4. r.finals = <<>> /\ r.translated = <<>> /\ r.speakers = <<>> /\ r.summaries = <<>>
  BY DEF EmptyRow
<1>5. Whole1(m, r)
  BY <1>1, <1>2, <1>3, <1>4, QuietWrite
<1> QED
  BY <1>5

\* The end of a recording leaves its rows.
LEMMA FinishMeetingWhole ==
    ASSUME Ready, NEW m \in Ids, NEW state \in {"completed", "interrupted"}, NEW incomplete \in BOOLEAN,
           FinishMeeting(m, state, incomplete)
    PROVE  \E r : Whole1(m, r)
<1>1. PICK o : o = meetings[m]
  OBVIOUS
<1>2. PICK r : r = [o EXCEPT !.state = state, !.incomplete = incomplete]
  OBVIOUS
<1>3. o \in MeetingRow
  BY <1>1 DEF Ready, MeetingsTyped
<1>4. r.state = state /\ r.finals = o.finals /\ r.translated = o.translated /\ r.speakers = o.speakers
      /\ r.summaries = o.summaries /\ r.tried = o.tried
  BY <1>2, <1>3 DEF MeetingRow
<1>5. meetings' = [meetings EXCEPT ![m] = r] /\ index' = index
  BY <1>1, <1>2 DEF FinishMeeting, ChangeOf, Change
<1>6. Whole1(m, r)
  BY <1>1, <1>4, <1>5, QuietWrite
<1> QED
  BY <1>6

\* Tags and deletion marks are not in the index.
LEMMA TagsAndDeletionWhole ==
    ASSUME Ready, NEW m \in Ids, (\E tags \in SUBSET Tags : ReplaceTags(m, tags)) \/ SoftDelete(m) \/ Restore(m)
    PROVE  \E r : Whole1(m, r)
<1>1. PICK o : o = meetings[m]
  OBVIOUS
<1>2. o \in MeetingRow
  BY <1>1 DEF Ready, MeetingsTyped
<1>3. ASSUME NEW r, \E tags : r = [o EXCEPT !.tags = tags] \/ r = [o EXCEPT !.deleted = tags],
             meetings' = [meetings EXCEPT ![m] = r], index' = index
      PROVE  Whole1(m, r)
  <2>1. r.state = o.state /\ r.finals = o.finals /\ r.translated = o.translated /\ r.speakers = o.speakers
        /\ r.summaries = o.summaries /\ r.tried = o.tried
    BY <1>2, <1>3 DEF MeetingRow
  <2> QED
    BY <1>1, <1>3, <2>1, QuietWrite
<1>4. \E r : (\E tags : r = [o EXCEPT !.tags = tags] \/ r = [o EXCEPT !.deleted = tags])
             /\ meetings' = [meetings EXCEPT ![m] = r] /\ index' = index
  BY <1>1 DEF ReplaceTags, SoftDelete, Restore, ChangeOf, Change
<1> QED
  BY <1>3, <1>4

\* The trigger of a final keeps the index whole.
LEMMA CommitFinalWhole ==
    ASSUME Ready, NEW m \in Ids, NEW text \in Texts, CommitFinal(m, text)
    PROVE  \E r : Whole1(m, r)
<1>1. PICK o : o = meetings[m]
  OBVIOUS
<1>2. PICK r : r = [o EXCEPT !.finals = Append(o.finals, text), !.translated = Append(o.translated, NoRow)]
  OBVIOUS
<1>3. o \in MeetingRow /\ Len(o.translated) = Len(o.finals) /\ o.state = "recording" /\ o.speakers = <<>>
  BY <1>1 DEF Ready, MeetingsTyped, MeetingOK, CommitFinal, RecordingsUnlabelled, Unlabelled
<1>4. r.state = o.state /\ r.finals = Append(o.finals, text) /\ r.translated = Append(o.translated, NoRow)
      /\ r.speakers = o.speakers /\ r.summaries = o.summaries /\ r.tried = o.tried
  BY <1>2, <1>3 DEF MeetingRow
<1>5. meetings' = [meetings EXCEPT ![m] = r]
      /\ index' = Put(index, {Row(m, Len(o.finals) + 1, "original", text)})
  BY <1>1, <1>2 DEF CommitFinal, ChangeOf, Change, FinalInserted
<1>6. PICK f, t : f = o.finals /\ t = o.translated
  OBVIOUS
<1>7. f \in Seq(Texts) /\ t \in Seq(Texts \cup {NoText, NoRow}) /\ Len(t) = Len(f)
  BY <1>3, <1>6 DEF MeetingRow
<1>8. MeetingRows(m, r) = MeetingRows(m, o) \cup {Row(m, Len(o.finals) + 1, "original", text)}
  <2>1. FinalAdded(o, r, text)
    BY <1>3, <1>4, <1>6, <1>7 DEF FinalAdded
  <2> QED
    BY ONLY <2>1, FinalRows
<1>9. index' = Both({x \in AllRows(meetings) : x.meeting # m} \cup MeetingRows(m, r))
  <2>1. PICK W, R, K : /\ W = AllRows(meetings) /\ R = {x \in W : x.meeting # m} /\ K = MeetingRows(m, o)
                       /\ index = Both(W) /\ W = R \cup K /\ \A x \in K : x.meeting = m
    BY <1>1, ReadyFacts
  <2>2. PICK N : N = {Row(m, Len(o.finals) + 1, "original", text)}
    OBVIOUS
  <2>3. index' = Both(W \cup N)
    BY <1>5, <2>1, <2>2, BothFacts
  <2>4. MeetingRows(m, r) = K \cup N /\ W \cup N = R \cup (K \cup N)
    BY <1>8, <2>1, <2>2
  <2> QED
    BY <2>1, <2>3, <2>4
<1>10. AttemptsOf(o) => AttemptsOf(r)
  <2>1. DOMAIN r.finals = DOMAIN f \cup {Len(f) + 1} /\ r.translated[Len(f) + 1] = NoRow
        /\ \A k \in DOMAIN f : r.translated[k] = t[k]
    BY <1>4, <1>6, <1>7
  <2> QED
    BY <1>4, <1>6, <2>1 DEF AttemptsOf
<1>11. Whole1(m, r)
  BY <1>1, <1>3, <1>4, <1>5, <1>9, <1>10 DEF Whole1, Unlabelled
<1> QED
  BY <1>11

\* The triggers of a translation keep the index whole.
LEMMA WriteTranslationWhole ==
    ASSUME Ready, NEW m \in Ids, NEW k \in 1..2, NEW text \in Texts \cup {NoText}, WriteTranslation(m, k, text)
    PROVE  \E r : Whole1(m, r)
<1>1. PICK o : o = meetings[m]
  OBVIOUS
<1>2. PICK r : r = WithTranslation(o, k, text)
  OBVIOUS
<1>3. MeetingOK(o) /\ k \in DOMAIN o.finals /\ Unlabelled(o)
  BY <1>1 DEF Ready, MeetingsTyped, WriteTranslation, RecordingsUnlabelled
<1>4. /\ MeetingOK(r) /\ r.state = o.state /\ r.finals = o.finals /\ r.speakers = o.speakers
      /\ r.summaries = o.summaries /\ r.tried = o.tried \cup {k}
      /\ Len(r.translated) = Len(o.translated) /\ r.translated[k] = text
      /\ \A i \in DOMAIN o.translated : i # k => r.translated[i] = o.translated[i]
  BY <1>2, <1>3, TranslationRowOK
<1>5. meetings' = [meetings EXCEPT ![m] = r]
      /\ index' = TranslationWritten(index, m, k, o.translated[k], text)
  BY <1>1, <1>2 DEF WriteTranslation, ChangeOf, Change, WithTranslation
<1>6. o \in MeetingRow /\ Len(o.translated) = Len(o.finals)
  BY <1>3 DEF MeetingOK
<1>7. o.finals \in Seq(Texts) /\ o.translated \in Seq(Texts \cup {NoText, NoRow}) /\ DOMAIN o.translated = DOMAIN o.finals
  BY <1>6 DEF MeetingRow
<1>8. /\ MeetingRows(m, r) = (MeetingRows(m, o) \ TranslationAt(MeetingRows(m, o), m, k)) \cup
                             (IF text = NoText THEN {} ELSE {Row(m, k, "translation", text)})
      /\ o.translated[k] = NoRow => TranslationAt(MeetingRows(m, o), m, k) = {}
  <2>1. Written(o, r, k, text)
    BY <1>3, <1>4, <1>7 DEF Written
  <2> QED
    BY ONLY <2>1, WrittenRows
<1>9. index' = Both({x \in AllRows(meetings) : x.meeting # m} \cup MeetingRows(m, r))
  <2>1. PICK W, R, K : /\ W = AllRows(meetings) /\ R = {x \in W : x.meeting # m} /\ K = MeetingRows(m, o)
                       /\ index = Both(W) /\ W = R \cup K /\ \A x \in K : x.meeting = m
    BY <1>1, ReadyFacts
  <2>2. PICK N, D : N = (IF text = NoText THEN {} ELSE {Row(m, k, "translation", text)}) /\ D = TranslationAt(W, m, k)
    OBVIOUS
  <2>3. D = TranslationAt(K, m, k) /\ D \cap R = {}
    BY <2>1, <2>2 DEF TranslationAt
  <2>4. index' = IF o.translated[k] = NoRow THEN Put(index, N) ELSE Put(Drop(index, D), N)
    BY <1>5, <2>1, <2>2, BothFacts DEF TranslationWritten, TranslationAt
  <2>5. index' = Both((W \ D) \cup N)
    <3>1. Put(Both(W), N) = Both(W \cup N) /\ Put(Drop(Both(W), D), N) = Both((W \ D) \cup N)
      BY Zenon DEF Put, Drop, Both
    <3>2. o.translated[k] = NoRow => D = {}
      BY <1>8, <2>1, <2>3
    <3>3. D = {} => W \cup N = (W \ D) \cup N
      OBVIOUS
    <3>4. index = Both(W)
      BY <2>1
    <3> QED
      BY ONLY <2>4, <3>1, <3>2, <3>3, <3>4
  <2>6. MeetingRows(m, r) = (K \ D) \cup N
    BY <1>8, <2>1, <2>2, <2>3
  <2>7. (W \ D) \cup N = R \cup ((K \ D) \cup N)
    BY <2>1, <2>3
  <2> QED
    BY <2>1, <2>5, <2>6, <2>7
<1>10. AttemptsOf(o) => AttemptsOf(r)
  BY <1>4, <1>7 DEF AttemptsOf
<1>11. Unlabelled(r)
  BY <1>3, <1>4 DEF Unlabelled
<1>12. Whole1(m, r)
  BY <1>1, <1>5, <1>9, <1>10, <1>11 DEF Whole1
<1> QED
  BY <1>12

\* The trigger of a version of speakers keeps the index whole.
LEMMA RecordSpeakerVersionWhole ==
    ASSUME Ready, NEW m \in Ids, NEW label \in Texts, RecordSpeakerVersion(m, label)
    PROVE  \E r : Whole1(m, r)
<1>1. PICK o : o = meetings[m]
  OBVIOUS
<1>2. PICK r : r = [o EXCEPT !.speakers = Append(o.speakers, label)]
  OBVIOUS
<1>3. o \in MeetingRow /\ o.state # "recording"
  BY <1>1 DEF Ready, MeetingsTyped, RecordSpeakerVersion
<1>4. r.state = o.state /\ r.finals = o.finals /\ r.translated = o.translated /\ r.speakers = Append(o.speakers, label)
      /\ r.summaries = o.summaries /\ r.tried = o.tried
  BY <1>2, <1>3 DEF MeetingRow
<1>5. meetings' = [meetings EXCEPT ![m] = r] /\ index' = SpeakersRecorded(index, m, o, label)
  BY <1>1, <1>2 DEF RecordSpeakerVersion, ChangeOf, Change
<1>6. PICK N : N = {Row(m, k, "speaker", label) : k \in DOMAIN o.finals}
  OBVIOUS
<1>7. MeetingRows(m, r) = {x \in MeetingRows(m, o) : x.scope # "speaker"} \cup N
  <2>1. o.speakers \in Seq(Texts)
    BY <1>3 DEF MeetingRow
  <2> QED
    BY <1>4, <1>6, <2>1, LabelledRows
<1>8. index' = Both({x \in AllRows(meetings) : x.meeting # m} \cup MeetingRows(m, r))
  <2>1. PICK W, R, K : /\ W = AllRows(meetings) /\ R = {x \in W : x.meeting # m} /\ K = MeetingRows(m, o)
                       /\ index = Both(W) /\ W = R \cup K /\ \A x \in K : x.meeting = m
    BY <1>1, ReadyFacts
  <2>2. PICK D : D = {x \in W : x.meeting = m /\ x.scope = "speaker"}
    OBVIOUS
  <2>3. EitherOf(index) = W
    BY <2>1, BothFacts
  <2>4. index' = Put(Drop(index, D), N)
    BY <1>5, <1>6, <2>2, <2>3, Zenon DEF SpeakersRecorded
  <2>5. Put(Drop(Both(W), D), N) = Both((W \ D) \cup N)
    BY Zenon DEF Put, Drop, Both
  <2>6. (W \ D) \cup N = R \cup MeetingRows(m, r)
    BY <1>7, <2>1, <2>2
  <2> QED
    BY <2>1, <2>4, <2>5, <2>6
<1>9. AttemptsOf(o) => AttemptsOf(r)
  BY <1>4 DEF AttemptsOf
<1>10. Whole1(m, r)
  BY <1>1, <1>3, <1>4, <1>5, <1>8, <1>9 DEF Whole1, Unlabelled
<1> QED
  BY <1>10

\* The trigger of a summary keeps the index whole.
LEMMA PublishSummaryWhole ==
    ASSUME Ready, NEW m \in Ids, NEW sections \in SUBSET Sections, PublishSummary(m, sections)
    PROVE  \E r : Whole1(m, r)
<1>1. PICK o : o = meetings[m]
  OBVIOUS
<1>2. PICK r : r = [o EXCEPT !.summaries = Append(o.summaries, sections)]
  OBVIOUS
<1>3. o \in MeetingRow /\ o.state # "recording"
  BY <1>1 DEF Ready, MeetingsTyped, PublishSummary
<1>4. r.state = o.state /\ r.finals = o.finals /\ r.translated = o.translated /\ r.speakers = o.speakers
      /\ r.summaries = Append(o.summaries, sections) /\ r.tried = o.tried
  BY <1>2, <1>3 DEF MeetingRow
<1>5. meetings' = [meetings EXCEPT ![m] = r]
      /\ index' = Put(index, {SummaryRow(m, Len(o.summaries) + 1, s) : s \in sections})
  BY <1>1, <1>2 DEF PublishSummary, ChangeOf, Change, SummaryPublished
<1>6. PICK N : N = {SummaryRow(m, Len(o.summaries) + 1, s) : s \in sections}
  OBVIOUS
<1>7. MeetingRows(m, r) = MeetingRows(m, o) \cup N
  <2>1. o.summaries \in Seq(SUBSET Sections)
    BY <1>3 DEF MeetingRow
  <2> QED
    BY <1>4, <1>6, <2>1, SummarizedRows
<1>8. index' = Both({x \in AllRows(meetings) : x.meeting # m} \cup MeetingRows(m, r))
  <2>1. PICK W, R, K : /\ W = AllRows(meetings) /\ R = {x \in W : x.meeting # m} /\ K = MeetingRows(m, o)
                       /\ index = Both(W) /\ W = R \cup K /\ \A x \in K : x.meeting = m
    BY <1>1, ReadyFacts
  <2>2. index' = Both(W \cup N)
    BY <1>5, <1>6, <2>1, BothFacts
  <2>3. W \cup N = R \cup MeetingRows(m, r)
    BY <1>7, <2>1
  <2> QED
    BY <2>1, <2>2, <2>3
<1>9. AttemptsOf(o) => AttemptsOf(r)
  BY <1>4 DEF AttemptsOf
<1>10. Whole1(m, r)
  BY <1>1, <1>3, <1>4, <1>5, <1>8, <1>9 DEF Whole1, Unlabelled
<1> QED
  BY <1>10

\* A purge takes all the rows of its meeting.
LEMMA PurgeWhole ==
    ASSUME Ready, NEW m \in Ids, Purge(m)
    PROVE  \E r : Whole1(m, r)
<1>1. PICK r : r = EmptyRow(Purged, 0)
  OBVIOUS
<1>2. meetings' = [meetings EXCEPT ![m] = r] /\ index' = MeetingPurged(index, m)
  BY <1>1, NoMeetingFacts DEF Purge, ChangeOf, Change
<1>3. r.state = Purged /\ r.finals = <<>> /\ r.speakers = <<>> /\ r.summaries = <<>>
  BY <1>1 DEF EmptyRow
<1>4. MeetingRows(m, r) = {}
  BY <1>3, NoRows
<1>5. index' = Both({x \in AllRows(meetings) : x.meeting # m} \cup MeetingRows(m, r))
  <2>1. PICK W, R, K : /\ W = AllRows(meetings) /\ R = {x \in W : x.meeting # m} /\ K = MeetingRows(m, meetings[m])
                       /\ index = Both(W) /\ W = R \cup K /\ \A x \in K : x.meeting = m
    BY ReadyFacts
  <2>2. PICK D : D = {x \in W : x.meeting = m}
    OBVIOUS
  <2>3. EitherOf(index) = W
    BY <2>1, BothFacts
  <2>4. index' = Drop(index, D)
    BY <1>2, <2>2, <2>3, Zenon DEF MeetingPurged
  <2>5. index' = Both(W \ D)
    BY <2>1, <2>4, BothFacts
  <2>6. W \ D = R \cup MeetingRows(m, r)
    BY <1>4, <2>1, <2>2
  <2> QED
    BY <2>1, <2>5, <2>6
<1>6. AttemptsOf(r)
  BY <1>3 DEF AttemptsOf
<1>7. Whole1(m, r)
  BY <1>2, <1>3, <1>5, <1>6 DEF Whole1, Unlabelled, Purged
<1> QED
  BY <1>7

\* One change of one meeting leaves the database whole.
LEMMA WritesWhole ==
    ASSUME Ready, Writes
    PROVE  \E m \in Ids : \E r : Whole1(m, r)
<1>1. PICK m \in Ids :
        \/ StartMeeting(m)
        \/ \E text \in Texts : CommitFinal(m, text)
        \/ \E state \in {"completed", "interrupted"}, incomplete \in BOOLEAN : FinishMeeting(m, state, incomplete)
        \/ \E k \in 1..2, text \in Texts \cup {NoText} : WriteTranslation(m, k, text)
        \/ \E label \in Texts : RecordSpeakerVersion(m, label)
        \/ \E text \in Texts : PublishSummary(m, {[kind |-> 1, at |-> 0, text |-> text], [kind |-> 1, at |-> 1, text |-> "term"]})
        \/ (\E tags \in SUBSET Tags : ReplaceTags(m, tags)) \/ SoftDelete(m) \/ Restore(m)
        \/ Purge(m)
  BY Zenon DEF Writes
<1>2. ASSUME NEW text \in Texts,
             PublishSummary(m, {[kind |-> 1, at |-> 0, text |-> text], [kind |-> 1, at |-> 1, text |-> "term"]})
      PROVE  \E r : Whole1(m, r)
  <2>1. PICK sections \in SUBSET Sections : PublishSummary(m, sections)
    BY <1>2, SectionsFacts
  <2> QED
    BY <2>1, PublishSummaryWhole
<1> QED
  BY <1>1, <1>2, StartMeetingWhole, CommitFinalWhole, FinishMeetingWhole, WriteTranslationWhole,
     RecordSpeakerVersionWhole, TagsAndDeletionWhole, PurgeWhole

\* Every row is replaced by one that is alike in what the index holds.
LEMMA AlikeRows ==
    ASSUME MeetingsTyped, meetings' = [m \in Ids |-> meetings'[m]],
           \A m \in Ids : LET o == meetings[m]  r == meetings'[m] IN
              r.finals = o.finals /\ r.translated = o.translated /\ r.speakers = o.speakers /\ r.summaries = o.summaries
    PROVE  AllRows(meetings') = AllRows(meetings)
<1>1. PICK F, G : F = meetings /\ G = meetings'
  OBVIOUS
<1>2. DOMAIN F = Ids /\ DOMAIN G = Ids
  BY <1>1 DEF MeetingsTyped
<1>3. \A m \in Ids : MeetingRows(m, F[m]) = MeetingRows(m, G[m])
  <2> SUFFICES ASSUME NEW m \in Ids PROVE MeetingRows(m, F[m]) = MeetingRows(m, G[m])
    OBVIOUS
  <2>1. PICK o, r : o = F[m] /\ r = G[m]
    OBVIOUS
  <2>2. r.finals = o.finals /\ r.translated = o.translated /\ r.speakers = o.speakers /\ r.summaries = o.summaries
    BY <1>1, <2>1
  <2> QED
    BY <2>1, <2>2, SameRows
<1> QED
  BY <1>1, <1>2, <1>3, AllSameRows

\* The steps that bring a file to the current version make it whole.
LEMMA MigratedParts ==
    ASSUME NEW version \in 0..7
    PROVE  LaterSteps(version, PartsOf(version)) = Parts /\ PartsOf(8) = Parts
<1>1. PartsOf(8) = Parts
  BY DEF PartsOf, Parts
<1>2. PartsOf(0) = {} /\ PartsOf(1) = {"meetings"} /\ PartsOf(2) = {"meetings", "translations"}
      /\ PartsOf(3) = {"meetings", "translations"}
      /\ PartsOf(4) = {"meetings", "translations", "attempts", "recovery", "timeline"}
      /\ PartsOf(5) = PartsOf(4) \cup {"library"} /\ PartsOf(6) = PartsOf(5) \cup {"speakers"}
      /\ PartsOf(7) = PartsOf(6) \cup {"binaryExports"}
  BY DEF PartsOf, Parts
<1>3. AddV5(PartsOf(4)) = PartsOf(5) /\ AddV6(PartsOf(5)) = PartsOf(6)
  BY <1>2 DEF AddV5, AddV6
<1>4. AddV7(PartsOf(6)) = PartsOf(7)
  BY <1>2 DEF AddV7
<1>5. AddV8(PartsOf(7)) = Parts
  BY <1>2 DEF AddV8, Parts
<1>6. FromV1(PartsOf(1)) = PartsOf(4) /\ FromV2(PartsOf(2)) = PartsOf(4) /\ FromV3(PartsOf(3)) = PartsOf(4)
  BY <1>2 DEF FromV1, FromV2, FromV3, AddTimeline
<1>7. BeforeV5(0, PartsOf(0)) = PartsOf(4) \cup {"binaryExports"} /\ BeforeV5(1, PartsOf(1)) = PartsOf(4)
      /\ BeforeV5(2, PartsOf(2)) = PartsOf(4) /\ BeforeV5(3, PartsOf(3)) = PartsOf(4) /\ BeforeV5(4, PartsOf(4)) = PartsOf(4)
  <2>1. \A p : BeforeV5(0, p) = Created /\ BeforeV5(1, p) = FromV1(p) /\ BeforeV5(2, p) = FromV2(p)
                /\ BeforeV5(3, p) = FromV3(p) /\ BeforeV5(4, p) = p
    BY DEF BeforeV5
  <2> QED
    BY <1>6, <2>1 DEF Created
<1>8. AddV8(AddV7(AddV6(AddV5(PartsOf(4) \cup {"binaryExports"})))) = Parts
  <2>1. AddV6(AddV5(PartsOf(4) \cup {"binaryExports"})) = PartsOf(7)
    BY <1>2 DEF AddV5, AddV6
  <2>2. AddV7(PartsOf(7)) = PartsOf(7)
    BY <1>2 DEF AddV7
  <2> QED
    BY <1>5, <2>1, <2>2
<1>9. CASE version \in 0..4
  <2>1. LaterSteps(version, PartsOf(version)) = AddV8(AddV7(AddV6(AddV5(BeforeV5(version, PartsOf(version))))))
    BY <1>9 DEF LaterSteps
  <2>2. version \in {0, 1, 2, 3, 4}
    BY <1>9
  <2>3. BeforeV5(version, PartsOf(version)) \in {PartsOf(4), PartsOf(4) \cup {"binaryExports"}}
    BY <1>7, <2>2
  <2> QED
    BY <1>1, <1>3, <1>4, <1>5, <1>8, <2>1, <2>3
<1>10. CASE version \in {5, 6, 7}
  <2>1. LaterSteps(5, PartsOf(5)) = AddV8(AddV7(AddV6(PartsOf(5)))) /\ LaterSteps(6, PartsOf(6)) = AddV8(AddV7(PartsOf(6)))
        /\ LaterSteps(7, PartsOf(7)) = AddV8(PartsOf(7))
    BY DEF LaterSteps
  <2> QED
    BY <1>1, <1>3, <1>4, <1>5, <1>10, <2>1
<1> QED
  BY <1>9, <1>10

\* The migration brings every part of the schema, and an attempt for every translation.
LEMMA MigrateWhole ==
    ASSUME DatabaseInv, Migrate
    PROVE  FileKnown' /\ AttemptsKept' /\ RecordingsUnlabelled' /\ IndexKept'
<1>1. FileKnown'
  <2>1. CASE file.version = SchemaVersion
    BY <2>1 DEF DatabaseInv, FileKnown, Migrate, Accepts, Migrated, Readable, SchemaVersion
  <2>2. CASE file.version # SchemaVersion
    <3>1. file.version \in 0..7
      BY <2>2 DEF Migrate, Accepts, SchemaVersion
    <3>2. file' = [version |-> 8, known |-> TRUE, parts |-> LaterSteps(file.version, file.parts)] /\ phase' = "migrated"
      BY <2>2 DEF Migrate, Migrated, SchemaVersion
    <3>3. file.parts = PartsOf(file.version)
      BY DEF DatabaseInv, FileKnown
    <3>4. LaterSteps(file.version, file.parts) = PartsOf(8)
      BY <3>1, <3>3, MigratedParts
    <3> QED
      BY <3>2, <3>4 DEF FileKnown, Readable, SchemaVersion
  <2> QED
    BY <2>1, <2>2
<1>2. CASE CopiesAttempts(file.version)
  <2>1. meetings' = [m \in Ids |-> [meetings[m] EXCEPT
                            !.tried = {k \in DOMAIN meetings[m].finals : meetings[m].translated[k] # NoRow}]]
    BY <1>2 DEF Migrate
  <2>2. ASSUME NEW m \in Ids
        PROVE  LET o == meetings[m]  r == meetings'[m] IN
               /\ r.finals = o.finals /\ r.translated = o.translated /\ r.speakers = o.speakers /\ r.summaries = o.summaries
               /\ r.state = o.state /\ AttemptsOf(r)
    <3>1. PICK o, r, tried : o = meetings[m] /\ r = meetings'[m] /\ tried = {k \in DOMAIN o.finals : o.translated[k] # NoRow}
      OBVIOUS
    <3>2. r = [o EXCEPT !.tried = tried] /\ o \in MeetingRow
      BY <2>1, <3>1 DEF DatabaseInv, MeetingsTyped
    <3>3. r.finals = o.finals /\ r.translated = o.translated /\ r.speakers = o.speakers /\ r.summaries = o.summaries
          /\ r.state = o.state /\ r.tried = tried
      BY <3>2 DEF MeetingRow
    <3> QED
      BY <3>1, <3>3 DEF AttemptsOf
  <2>3. AllRows(meetings') = AllRows(meetings)
    <3>1. meetings' = [m \in Ids |-> meetings'[m]]
      BY <2>1
    <3> QED
      BY <2>2, <3>1, AlikeRows DEF DatabaseInv
  <2>4. AttemptsKept' /\ RecordingsUnlabelled'
    BY <2>2 DEF AttemptsKept, RecordingsUnlabelled, Unlabelled, DatabaseInv
  <2>5. IndexKept'
    BY <2>2, <2>3 DEF IndexKept, DatabaseInv, Migrate
  <2> QED
    BY <1>1, <2>4, <2>5
<1>3. CASE ~CopiesAttempts(file.version)
  <2>1. UNCHANGED <<meetings, index>> /\ phase' = "migrated" /\ phase = "closed"
    BY <1>3 DEF Migrate
  <2> QED
    BY <1>1, <1>3, <2>1 DEF DatabaseInv, AttemptsKept, RecordingsUnlabelled, IndexKept
<1> QED
  BY <1>2, <1>3

\* The rows of every meeting are its labels and the plain ones.
LEMMA AllRowsSplit ==
    ASSUME NEW F
    PROVE  /\ AllRows(F) = Plain(AllRows(F)) \cup UNION {SpeakerRows(m, F[m]) : m \in DOMAIN F}
           /\ \A x \in UNION {SpeakerRows(m, F[m]) : m \in DOMAIN F} : x.scope = "speaker"
<1>1. \A x : x \in AllRows(F) <=> \E m \in DOMAIN F : x \in MeetingRows(m, F[m])
  BY DEF AllRows
<1>2. \A m, q : \A x \in MeetingRows(m, q) : x.scope = "speaker" <=> x \in SpeakerRows(m, q)
  BY RowsFacts DEF MeetingRows
<1>3. \A m, q : SpeakerRows(m, q) \subseteq MeetingRows(m, q)
  BY DEF MeetingRows
<1>4. \A m : \A x \in SpeakerRows(m, F[m]) : x.scope = "speaker"
  BY RowsFacts
<1> QED
  BY <1>1, <1>2, <1>3, <1>4 DEF Plain

\* The labels are renewed, and a search table that is empty is filled.
LEMMA EnsureWhole ==
    ASSUME DatabaseInv, EnsureSearchIndex
    PROVE  FileKnown' /\ AttemptsKept' /\ RecordingsUnlabelled' /\ IndexKept'
<1>1. FileKnown' /\ AttemptsKept' /\ RecordingsUnlabelled'
  BY DEF DatabaseInv, EnsureSearchIndex, FileKnown, AttemptsKept, RecordingsUnlabelled
<1>2. PICK F, W, L, words, trigrams :
        /\ F = meetings /\ W = AllRows(F) /\ L = UNION {SpeakerRows(m, F[m]) : m \in DOMAIN F}
        /\ words = Plain(index.words) \cup L /\ trigrams = Plain(index.trigrams) \cup L
  OBVIOUS
<1>3. W = Plain(W) \cup L
  BY <1>2, AllRowsSplit
<1>4. index' = [words |-> IF words = {} THEN W ELSE words,
                trigrams |-> IF trigrams = {} THEN (IF words = {} THEN W ELSE words) ELSE trigrams]
  BY <1>2 DEF EnsureSearchIndex, Ensured, Plain
<1>5. CASE index = NoIndex /\ \A m \in Ids : meetings[m].speakers = <<>>
  <2>1. L = {}
    <3>1. DOMAIN F = Ids /\ \A m \in Ids : F[m].speakers = <<>>
      BY <1>2, <1>5 DEF DatabaseInv, MeetingsTyped
    <3>2. \A m \in Ids : SpeakerRows(m, F[m]) = {}
      BY <3>1 DEF SpeakerRows
    <3> QED
      BY <1>2, <3>1, <3>2
  <2>2. words = {} /\ trigrams = {}
    BY <1>2, <1>5, <2>1 DEF NoIndex, Plain
  <2>3. index' = Both(W)
    BY <1>4, <2>2 DEF Both
  <2> QED
    BY <1>1, <1>2, <2>3 DEF IndexKept, EnsureSearchIndex
<1>6. CASE Plain(index.words) = Plain(W) /\ Plain(index.trigrams) = Plain(W)
  <2>1. words = W /\ trigrams = W
    BY <1>2, <1>3, <1>6
  <2>2. index' = Both(W)
    BY <1>4, <2>1 DEF Both
  <2> QED
    BY <1>1, <1>2, <2>2 DEF IndexKept, EnsureSearchIndex
<1> QED
  BY <1>2, <1>5, <1>6 DEF DatabaseInv, IndexKept, EnsureSearchIndex

\* The recovery leaves the rows of the index.
LEMMA RecoverWhole ==
    ASSUME DatabaseInv, RecoverInterrupted
    PROVE  FileKnown' /\ AttemptsKept' /\ RecordingsUnlabelled' /\ IndexKept'
<1>1. FileKnown'
  BY DEF DatabaseInv, RecoverInterrupted, FileKnown
<1>2. meetings' = [m \in Ids |-> IF meetings[m].state = "recording"
                                 THEN [meetings[m] EXCEPT !.state = "interrupted"] ELSE meetings[m]]
  BY DEF RecoverInterrupted
<1>3. ASSUME NEW m \in Ids
      PROVE  LET o == meetings[m]  r == meetings'[m] IN
             /\ r.finals = o.finals /\ r.translated = o.translated /\ r.speakers = o.speakers /\ r.summaries = o.summaries
             /\ r.tried = o.tried /\ r.state # "recording"
  <2>1. PICK o : o = meetings[m]
    OBVIOUS
  <2>2. meetings'[m] = (IF o.state = "recording" THEN [o EXCEPT !.state = "interrupted"] ELSE o) /\ o \in MeetingRow
    BY <1>2, <2>1 DEF DatabaseInv, MeetingsTyped
  <2>3. CASE o.state = "recording"
    <3>1. PICK r : r = [o EXCEPT !.state = "interrupted"]
      OBVIOUS
    <3>2. r.finals = o.finals /\ r.translated = o.translated /\ r.speakers = o.speakers /\ r.summaries = o.summaries
          /\ r.tried = o.tried /\ r.state = "interrupted"
      BY <2>2, <3>1 DEF MeetingRow
    <3> QED
      BY <2>1, <2>2, <2>3, <3>1, <3>2
  <2> QED
    BY <2>1, <2>2, <2>3
<1>4. AllRows(meetings') = AllRows(meetings)
  <2>1. meetings' = [m \in Ids |-> meetings'[m]]
    BY <1>2
  <2> QED
    BY <1>3, <2>1, AlikeRows DEF DatabaseInv
<1>5. AttemptsKept' /\ RecordingsUnlabelled'
  BY <1>3 DEF AttemptsKept, RecordingsUnlabelled, Unlabelled, AttemptsOf, DatabaseInv, RecoverInterrupted
<1>6. IndexKept'
  BY <1>4 DEF IndexKept, DatabaseInv, RecoverInterrupted
<1> QED
  BY <1>1, <1>5, <1>6

\* Tags are not in the index.
LEMMA DeleteTagWhole ==
    ASSUME DatabaseInv, NEW tag \in Tags, DeleteTag(tag)
    PROVE  FileKnown' /\ AttemptsKept' /\ RecordingsUnlabelled' /\ IndexKept'
<1>1. meetings' = [m \in Ids |-> [meetings[m] EXCEPT !.tags = @ \ {tag}]] /\ UNCHANGED <<index, phase, file>> /\ phase = "open"
  BY DEF DeleteTag, Change
<1>2. ASSUME NEW m \in Ids
      PROVE  LET o == meetings[m]  r == meetings'[m] IN
             /\ r.finals = o.finals /\ r.translated = o.translated /\ r.speakers = o.speakers /\ r.summaries = o.summaries
             /\ r.tried = o.tried /\ r.state = o.state
  <2>1. PICK o, r, tags : o = meetings[m] /\ r = meetings'[m] /\ tags = o.tags \ {tag}
    OBVIOUS
  <2>2. r = [o EXCEPT !.tags = tags] /\ o \in MeetingRow
    BY <1>1, <2>1 DEF DatabaseInv, MeetingsTyped
  <2>3. r.finals = o.finals /\ r.translated = o.translated /\ r.speakers = o.speakers /\ r.summaries = o.summaries
        /\ r.tried = o.tried /\ r.state = o.state
    BY <2>2 DEF MeetingRow
  <2> QED
    BY <2>1, <2>3
<1>3. AllRows(meetings') = AllRows(meetings)
  <2>1. meetings' = [m \in Ids |-> meetings'[m]]
    BY <1>1
  <2> QED
    BY <1>2, <2>1, AlikeRows DEF DatabaseInv
<1>4. FileKnown' /\ AttemptsKept' /\ RecordingsUnlabelled'
  BY <1>1, <1>2 DEF FileKnown, AttemptsKept, RecordingsUnlabelled, Unlabelled, AttemptsOf, DatabaseInv
<1>5. IndexKept'
  BY <1>1, <1>3 DEF IndexKept, DatabaseInv
<1> QED
  BY <1>4, <1>5

\* A change of one meeting keeps the database whole.
LEMMA WritesKeepWhole ==
    ASSUME DatabaseInv, Writes
    PROVE  FileKnown' /\ AttemptsKept' /\ RecordingsUnlabelled' /\ IndexKept'
<1>1. phase = "open" /\ UNCHANGED <<phase, file>>
  BY WritesCount
<1>2. Ready
  BY <1>1 DEF DatabaseInv, IndexKept, Ready
<1>9. PICK m \in Ids : \E r : Whole1(m, r)
  BY <1>2, WritesWhole
<1>3. PICK r : Whole1(m, r)
  BY <1>9
<1>4. FileKnown'
  BY <1>1 DEF DatabaseInv, FileKnown
<1>5. DOMAIN meetings = Ids /\ meetings' = [meetings EXCEPT ![m] = r]
  BY <1>3 DEF Whole1, DatabaseInv, MeetingsTyped
<1>6. AttemptsKept' /\ RecordingsUnlabelled'
  BY <1>1, <1>3, <1>5 DEF DatabaseInv, AttemptsKept, RecordingsUnlabelled, Whole1
<1>7. index' = Both(AllRows(meetings'))
  <2>1. PICK F, G : F = meetings /\ G = meetings'
    OBVIOUS
  <2>2. Replaced(F, G, m, r)
    BY <1>5, <2>1 DEF Replaced
  <2>3. /\ AllRows(G) = {x \in AllRows(F) : x.meeting # m} \cup MeetingRows(m, r)
        /\ AllRows(F) = {x \in AllRows(F) : x.meeting # m} \cup MeetingRows(m, F[m])
        /\ \A x \in MeetingRows(m, r) \cup MeetingRows(m, F[m]) : x.meeting = m
    BY ONLY <2>2, OneMeetingRows, Zenon
  <2> QED
    BY <1>3, <2>1, <2>3 DEF Whole1
<1> QED
  BY <1>1, <1>4, <1>6, <1>7 DEF IndexKept

\* A database that does not change stays whole.
LEMMA DatabaseStays ==
    ASSUME DatabaseInv, UNCHANGED <<file, meetings, index>>, phase' = phase \/ phase' = "closed"
    PROVE  FileKnown' /\ AttemptsKept' /\ RecordingsUnlabelled' /\ IndexKept'
<1>1. FileKnown' /\ AttemptsKept' /\ RecordingsUnlabelled'
  BY DEF DatabaseInv, FileKnown, AttemptsKept, RecordingsUnlabelled
<1>2. phase \in {"indexed", "open"} => index.words = AllRows(meetings) /\ index.trigrams = AllRows(meetings)
  BY BothFacts DEF DatabaseInv, IndexKept
<1>3. IndexKept'
  BY <1>2 DEF IndexKept, DatabaseInv, FileKnown
<1> QED
  BY <1>1, <1>3

\* A step of the library, and the end of the process.
LEMMA LibraryStaysWhole ==
    ASSUME DatabaseInv, LibrarySteps \/ Crash
    PROVE  DatabaseInv'
<1>1. MeetingsGoOn /\ LeftGoesOn
  BY LibraryGoesOn DEF DatabaseInv
<1>2. FileKnown' /\ AttemptsKept' /\ RecordingsUnlabelled' /\ IndexKept'
  <2>1. CASE Starts
    BY <2>1, MigrateWhole, EnsureWhole, RecoverWhole DEF Starts
  <2>2. CASE Writes
    BY <2>2, WritesKeepWhole
  <2>3. CASE \E tag \in Tags : DeleteTag(tag)
    BY <2>3, DeleteTagWhole
  <2>4. CASE Browse
    BY <2>4, BrowseGoesOn, DatabaseStays DEF database, DatabaseInv
  <2>5. CASE Crash
    BY <2>5, DatabaseStays DEF Crash
  <2> QED
    BY <2>1, <2>2, <2>3, <2>4, <2>5 DEF LibrarySteps
<1> QED
  BY <1>1, <1>2 DEF DatabaseInv, MeetingsGoOn, LeftGoesOn

\* The file as it is found.
LEMMA FoundAttempts ==
    ASSUME NEW version \in 0..9, ~CopiesAttempts(version), NEW m \in Ids
    PROVE  AttemptsOf(OldMeeting(version, m))
<1>1. version \notin {2, 3}
  BY DEF CopiesAttempts
<1>2. CASE version = 0 \/ m = 4
  <2>1. OldMeeting(version, m).finals = <<>>
    BY <1>2, OldMeetings DEF NoMeeting
  <2> QED
    BY <2>1 DEF AttemptsOf
<1>3. CASE version # 0 /\ m = 1
  <2>1. PICK r : r = FoundFirst(version)
    OBVIOUS
  <2>2. r.finals = <<"term">> /\ r.translated = Since(version, 2, <<"inner">>, <<NoRow>>) /\ r.tried = Since(version, 4, {1}, {})
    BY <2>1, Zenon DEF FoundFirst, FoundRow
  <2>3. DOMAIN r.finals = {1}
    BY <2>2
  <2>4. r.translated[1] # NoRow => 1 \in r.tried
    BY <1>1, <1>3, <2>2 DEF Since
  <2> QED
    BY <1>3, <2>1, <2>3, <2>4, OldMeetings DEF AttemptsOf
<1>4. CASE version # 0 /\ m = 2
  <2>1. PICK r : r = FoundSecond(version)
    OBVIOUS
  <2>2. r.finals = <<"inner", "other">> /\ r.translated = Since(version, 2, <<NoText, NoRow>>, <<NoRow, NoRow>>)
        /\ r.tried = Since(version, 4, {1}, {})
    BY <2>1, Zenon DEF FoundSecond, FoundRow
  <2>3. DOMAIN r.finals = {1, 2}
    BY <2>2
  <2>4. r.translated[2] = NoRow /\ (r.translated[1] # NoRow => 1 \in r.tried)
    BY <1>1, <1>4, <2>2 DEF Since
  <2> QED
    BY <1>4, <2>1, <2>3, <2>4, OldMeetings DEF AttemptsOf
<1>5. CASE version # 0 /\ m = 3
  <2>1. PICK r : r = FoundThird(version)
    OBVIOUS
  <2>2. r.finals = <<"other">> /\ r.translated = <<NoRow>>
    BY <2>1, Zenon DEF FoundThird, FoundRow
  <2>3. DOMAIN r.finals = {1} /\ r.translated[1] = NoRow
    BY <2>2
  <2> QED
    BY <1>5, <2>1, <2>3, OldMeetings DEF AttemptsOf
<1> QED
  BY <1>2, <1>3, <1>4, <1>5 DEF Ids

\* A recording of the file that is found has no speakers, nor has an old file.
LEMMA FoundLabels ==
    ASSUME NEW version \in 0..9, NEW m \in Ids
    PROVE  /\ Unlabelled(OldMeeting(version, m))
           /\ version <= 5 => OldMeeting(version, m).speakers = <<>>
<1>1. NoMeeting.speakers = <<>> /\ FoundSecond(version).speakers = <<>> /\ FoundThird(version).speakers = <<>>
  BY Zenon DEF NoMeeting, FoundSecond, FoundThird, FoundRow
<1>2. FoundFirst(version).state = "completed" /\ FoundFirst(version).speakers = Since(version, 6, <<"term", "inner">>, <<>>)
  BY Zenon DEF FoundFirst, FoundRow
<1>3. version <= 5 => Since(version, 6, <<"term", "inner">>, <<>>) = <<>>
  BY DEF Since
<1> QED
  BY <1>1, <1>2, <1>3, OldMeetings DEF Unlabelled, Ids

\* The file that is found is as whole as its release left it.
LEMMA LibraryStartsWhole ==
    ASSUME LibraryInit
    PROVE  DatabaseInv
<1>1. PICK version \in OldVersions, known \in BOOLEAN :
         /\ file = [version |-> version, known |-> known, parts |-> PartsOf(version)]
         /\ meetings = [m \in Ids |-> OldMeeting(version, m)]
         /\ index = OldIndex(version, meetings)
  BY DEF LibraryInit
<1>2. version \in 0..9 /\ phase = "closed"
  <2>1. phase = "closed"
    BY Zenon DEF LibraryInit
  <2> QED
    BY <2>1, LibraryBounds DEF SchemaVersion
<1>3. MeetingsTyped /\ LeftTyped
  BY LibraryStarts
<1>4. FileKnown
  BY <1>1, <1>2 DEF FileKnown
<1>5. \A m \in Ids : meetings[m] = OldMeeting(version, m)
  BY <1>1
<1>6. AttemptsKept
  BY <1>1, <1>2, <1>5, FoundAttempts DEF AttemptsKept
<1>7. RecordingsUnlabelled
  BY <1>2, <1>5, FoundLabels DEF RecordingsUnlabelled
<1>8. CASE version <= 5
  <2>1. index = NoIndex /\ \A m \in Ids : meetings[m].speakers = <<>>
    BY <1>1, <1>2, <1>5, <1>8, FoundLabels DEF OldIndex
  <2> QED
    BY <1>2, <1>3, <1>4, <1>6, <1>7, <2>1 DEF DatabaseInv, IndexKept
<1>9. CASE version > 5
  <2>1. PICK W, T : W = AllRows(meetings) /\ T = StaleRows(meetings)
    OBVIOUS
  <2>2. index = Put(NoIndex, W \cup T)
    BY <1>1, <1>2, <1>9, <2>1 DEF OldIndex
  <2>3. index.words = W \cup T /\ index.trigrams = W \cup T
    BY <2>2 DEF Put, NoIndex
  <2>4. \A x \in T : x.scope = "speaker"
    BY <2>1 DEF StaleRows, Row
  <2>5. Plain(W \cup T) = Plain(W)
    BY <2>4 DEF Plain
  <2> QED
    BY <1>2, <1>3, <1>4, <1>6, <1>7, <2>1, <2>3, <2>5 DEF DatabaseInv, IndexKept
<1> QED
  BY <1>2, <1>8, <1>9

\* The invariant tells what the property asks.
LEMMA WholeIsWhole == ASSUME DatabaseInv PROVE OpenedDatabaseIsWhole
<1> SUFFICES ASSUME phase \in {"indexed", "open"} PROVE OpenedDatabaseIsWhole
  BY DEF OpenedDatabaseIsWhole
<1>1. Readable(file) /\ file.parts = PartsOf(8) /\ PartsOf(8) = Parts
  BY MigratedParts DEF DatabaseInv, FileKnown, Readable, SchemaVersion
<1>2. ~CopiesAttempts(file.version)
  BY <1>1 DEF Readable, CopiesAttempts, SchemaVersion
<1>3. index.words = AllRows(meetings) /\ index.trigrams = AllRows(meetings)
  BY BothFacts DEF DatabaseInv, IndexKept
<1> QED
  BY <1>1, <1>2, <1>3 DEF OpenedDatabaseIsWhole, DatabaseInv, AttemptsKept, AttemptsOf

\* An export asks for one of the exports that are left, a fault for one of the faults; neither changes the database.
LEMMA ExportsLeaveDatabase ==
    ASSUME LeftTyped, Exports \/ (\E f \in folder, removed \in BOOLEAN : Meddle(f, removed))
    PROVE  /\ UNCHANGED <<phase, file, meetings, index>> /\ LeftTyped'
           /\ left'.exports = left.exports \/ \E c \in Clients : \E m, options : Ask(c, m, options)
<1>1. ASSUME left.faults > 0, left' = [left EXCEPT !.faults = @ - 1]
      PROVE  LeftTyped' /\ left'.exports = left.exports
  BY <1>1, LeftFacts DEF LeftGoesOn
<1>2. ASSUME left.exports > 0, left' = [left EXCEPT !.exports = @ - 1]
      PROVE  LeftTyped'
  BY <1>2 DEF LeftTyped, Lefts
<1>3. ASSUME NEW c \in Clients, NEW m, NEW options, Ask(c, m, options)
      PROVE  UNCHANGED <<phase, file, meetings, index>> /\ LeftTyped'
  BY <1>2, <1>3 DEF Ask, database
<1>4. ASSUME NEW c \in Clients, NEW created,
             \/ ChooseSummary(c, created) \/ ReadSnapshot(c) \/ StageFile(c) \/ StagedAll(c) \/ CheckTarget(c) \/ Rename(c)
             \/ ReadBack(c) \/ Record(c) \/ Close(c) \/ Cleanup(c) \/ CleanupEnds(c)
      PROVE  UNCHANGED <<phase, file, meetings, index, left>>
  BY <1>4 DEF ChooseSummary, ReadSnapshot, StageFile, StagedAll, CheckTarget, Rename, ReadBack, Record, Close, Cleanup,
     CleanupEnds, libraryVars
<1>5. ASSUME NEW c \in Clients, NEW created, StageFails(c, created) \/ RenameFails(c) \/ RecordFails(c) \/ GivesUp(c) \/ CloseFails(c)
      PROVE  UNCHANGED <<phase, file, meetings, index>> /\ LeftTyped' /\ left'.exports = left.exports
  BY <1>1, <1>5 DEF StageFails, RenameFails, RecordFails, GivesUp, CloseFails, database
<1>6. ASSUME NEW f, NEW removed, Meddle(f, removed)
      PROVE  UNCHANGED <<phase, file, meetings, index>> /\ LeftTyped' /\ left'.exports = left.exports
  BY <1>1, <1>6 DEF Meddle, database
<1>7. UNCHANGED left => LeftTyped' /\ left'.exports = left.exports
  BY DEF LeftTyped
<1> QED
  BY <1>3, <1>4, <1>5, <1>6, <1>7, Zenon DEF Exports

\* Every step keeps the database whole.
LEMMA StepsKeepDatabase ==
    ASSUME DatabaseInv, [Next]_vars
    PROVE  DatabaseInv'
<1>1. ASSUME UNCHANGED <<phase, file, meetings, index>>, LeftTyped' PROVE DatabaseInv'
  <2>1. MeetingsTyped'
    BY <1>1, MeetingsStay DEF DatabaseInv, MeetingsGoOn
  <2> QED
    BY <1>1, <2>1, DatabaseStays DEF DatabaseInv
<1>2. CASE LibraryStep
  BY <1>2, LibraryStaysWhole DEF LibraryStep
<1>3. CASE CrashAll
  BY <1>3, LibraryStaysWhole DEF CrashAll
<1>4. CASE Exports \/ (\E f \in folder, removed \in BOOLEAN : Meddle(f, removed))
  BY <1>1, <1>4, ExportsLeaveDatabase DEF DatabaseInv
<1>5. CASE UNCHANGED vars
  <2>1. UNCHANGED <<phase, file, meetings, index, left>>
    BY <1>5 DEF vars, libraryVars
  <2> QED
    BY <1>1, <2>1 DEF DatabaseInv, LeftTyped
<1> QED
  BY <1>2, <1>3, <1>4, <1>5 DEF Next

\* Once the writer has started, whatever release wrote the file, the tables, the attempts of the
\* translations and both search tables are whole: through every change, every export and every crash.
THEOREM DatabaseIsWhole == Spec => []OpenedDatabaseIsWhole
<1>1. Init => DatabaseInv
  BY LibraryStartsWhole DEF Init
<1>2. DatabaseInv /\ [Next]_vars => DatabaseInv'
  BY StepsKeepDatabase
<1>3. DatabaseInv => OpenedDatabaseIsWhole
  BY WholeIsWhole
<1> QED
  BY <1>1, <1>2, <1>3, PTL DEF Spec

-----------------------------------------------------------------------------
(* What the files of a bundle say.                                          *)

Told == {"original", "translation", "summary", "citation", "unlinked", "summary missing"}
Said(facts, kinds) == {f \in facts : f.what \in kinds}

\* The lines are the same in every format; what else a format holds is of other kinds.
LEMMA LinesFacts ==
    ASSUME NEW options, NEW s
    PROVE  /\ \A f \in Originals(s) : f.what = "original" /\ f.at \in DOMAIN s.finals
           /\ \A f \in Translations(s) : f.what = "translation" /\ f.at \in DOMAIN s.finals
           /\ \A f \in Lines(options, s) : f.what \in {"original", "translation"} /\ f.at \in DOMAIN s.finals
           /\ LineSegments(options, s) \subseteq DOMAIN s.finals
<1>1. \A f \in Originals(s) : f.what = "original" /\ f.at \in DOMAIN s.finals
  BY DEF Originals, Fact
<1>2. \A f \in Translations(s) : f.what = "translation" /\ f.at \in DOMAIN s.finals
  BY DEF Translations, Fact
<1>3. \A f \in Lines(options, s) : f.what \in {"original", "translation"} /\ f.at \in DOMAIN s.finals
  BY <1>1, <1>2 DEF Lines
<1> QED
  BY <1>1, <1>2, <1>3 DEF LineSegments

\* The heads of fewer segments are fewer heads.
LEMMA HeadsFacts ==
    ASSUME NEW options, NEW s, NEW T, NEW S \in SUBSET T
    PROVE  /\ SegmentHeads(options, s, S) \subseteq SegmentHeads(options, s, T)
           /\ \A f \in SegmentHeads(options, s, T) : f.what \in {"time", "speaker"}
<1>1. PICK timed, spoken : timed = options.timestamp /\ spoken = options.speaker
  OBVIOUS
<1>2. \A k \in S : k \in T
  OBVIOUS
<1>3. \A R : SegmentHeads(options, s, R) = (IF timed THEN {Fact("time", k, "") : k \in R} ELSE {}) \cup
                                          (IF spoken THEN {Fact("speaker", k, s.label) : k \in R} ELSE {})
  BY <1>1, Zenon DEF SegmentHeads
<1>4. {Fact("time", k, "") : k \in S} \subseteq {Fact("time", k, "") : k \in T}
      /\ {Fact("speaker", k, s.label) : k \in S} \subseteq {Fact("speaker", k, s.label) : k \in T}
  BY <1>2, Zenon
<1>5. \A what, at, text : Fact(what, at, text).what = what
  BY DEF Fact
<1>6. \A what, text : \A f \in {Fact(what, k, text) : k \in T} : f.what = what
  <2> SUFFICES ASSUME NEW what, NEW text, NEW f \in {Fact(what, k, text) : k \in T}
               PROVE  f.what = what
    OBVIOUS
  <2>1. PICK k \in T : f = Fact(what, k, text)
    OBVIOUS
  <2> QED
    BY <1>5, <2>1
<1>7. (\A f \in {Fact("time", k, "") : k \in T} : f.what = "time")
      /\ (\A f \in {Fact("speaker", k, s.label) : k \in T} : f.what = "speaker")
  BY <1>6, Zenon
<1> QED
  BY <1>3, <1>4, <1>7

\* The facts of each format, by their kinds.
LEMMA MarkdownSays ==
    ASSUME NEW options, NEW s, NEW summary
    PROVE  LET m == MarkdownFacts(options, s, summary)
               j == JsonFacts(options, s, summary)
           IN Said(m, Told) = Said(j, Told) /\ Said(m, {"time", "speaker"}) \subseteq Said(j, {"time", "speaker"})
<1>1. PICK lines, heads, allHeads, sections, count : /\ lines = Lines(options, s)
                                       /\ heads = SegmentHeads(options, s, LineSegments(options, s))
                                       /\ allHeads = SegmentHeads(options, s, DOMAIN s.finals)
                                       /\ sections = SummaryFacts(summary)
                                       /\ count = Fact("count", Len(s.finals), "")
  OBVIOUS
<1>2. PICK digest, version, identity, chosen :
                  digest = Fact("digest", 0, "") /\ version = Fact("speaker version", s.version, "") /\ identity = Fact("identity", 0, s.label)
                  /\ chosen = Fact("summary version", summary.version, "")
  OBVIOUS
<1>3. MarkdownFacts(options, s, summary) =
        {count} \cup (IF options.summary THEN sections ELSE {}) \cup
        (IF options.speaker THEN {version, identity} ELSE {}) \cup lines \cup heads
  BY <1>1, <1>2, Zenon DEF MarkdownFacts, SpeakerSection
<1>4. JsonFacts(options, s, summary) =
        {count, digest} \cup lines \cup allHeads \cup (IF options.speaker THEN {version} ELSE {}) \cup
        (IF options.summary THEN sections \cup {chosen} ELSE {})
  BY <1>1, <1>2, Zenon DEF JsonFacts
<1>5. \A f \in lines : f.what \in {"original", "translation"}
  BY <1>1, LinesFacts
<1>6. heads \subseteq allHeads /\ \A f \in allHeads : f.what \in {"time", "speaker"}
  <2>1. LineSegments(options, s) \in SUBSET DOMAIN s.finals
    BY LinesFacts
  <2> QED
    BY <1>1, <2>1, HeadsFacts
<1>7. /\ count.what \notin Told \cup {"time", "speaker"} /\ digest.what \notin Told \cup {"time", "speaker"}
      /\ version.what \notin Told \cup {"time", "speaker"} /\ identity.what \notin Told \cup {"time", "speaker"}
      /\ chosen.what \notin Told \cup {"time", "speaker"}
  BY <1>1, <1>2 DEF Fact, Told
<1>8. ASSUME NEW f
      PROVE  /\ f \in Said(MarkdownFacts(options, s, summary), Told) <=> f \in Said(JsonFacts(options, s, summary), Told)
             /\ f \in Said(MarkdownFacts(options, s, summary), {"time", "speaker"}) =>
                  f \in Said(JsonFacts(options, s, summary), {"time", "speaker"})
  BY <1>3, <1>4, <1>5, <1>6, <1>7 DEF Said, Told
<1> QED
  BY <1>8

\* The document has what Markdown has, but for the count.
LEMMA DocumentSays ==
    ASSUME NEW options, NEW s, NEW summary
    PROVE  \A kinds \in {Told, {"time", "speaker"}} :
             Said(DocumentFacts(options, s, summary), kinds) = Said(MarkdownFacts(options, s, summary), kinds)
<1>1. PICK count : count = Fact("count", Len(s.finals), "")
  OBVIOUS
<1>2. count.what \notin Told /\ count.what \notin {"time", "speaker"}
  BY <1>1 DEF Fact, Told
<1>3. DocumentFacts(options, s, summary) = MarkdownFacts(options, s, summary) \ {count}
  BY <1>1 DEF DocumentFacts
<1>4. ASSUME NEW kinds \in {Told, {"time", "speaker"}}, NEW f
      PROVE  f \in Said(DocumentFacts(options, s, summary), kinds) <=> f \in Said(MarkdownFacts(options, s, summary), kinds)
  <2>1. count.what \notin kinds
    BY <1>2
  <2> QED
    BY <1>3, <2>1 DEF Said
<1> QED
  BY <1>4

\* The formats of the first release.
LEMMA LegacySays ==
    ASSUME NEW s
    PROVE  \A kinds \in {Told, {"time", "speaker"}} : Said(LegacyMarkdownFacts(s), kinds) = Said(LegacyJsonFacts(s), kinds)
<1>1. PICK digest, rest : digest = Fact("digest", 0, "") /\ rest = LegacyMarkdownFacts(s)
  OBVIOUS
<1>2. digest.what \notin Told /\ digest.what \notin {"time", "speaker"}
  BY <1>1 DEF Fact, Told
<1>3. \A f : f \in LegacyJsonFacts(s) <=> f = digest \/ f \in rest
  BY <1>1, Zenon DEF LegacyMarkdownFacts, LegacyJsonFacts
<1>4. ASSUME NEW kinds \in {Told, {"time", "speaker"}}, NEW f
      PROVE  f \in Said(rest, kinds) <=> f \in Said(LegacyJsonFacts(s), kinds)
  <2>1. digest.what \notin kinds
    BY <1>2
  <2> QED
    BY <1>3, <2>1 DEF Said
<1> QED
  BY <1>1, <1>4

\* Every format of every choice of options.
LEMMA FormatSays ==
    ASSUME NEW options, NEW s, NEW summary,
           NEW format \in IF options = Legacy THEN ToSet(Legacy.formats) ELSE FormatNames
    PROVE  /\ Said(Facts(format, options, s, summary), Told) = Said(Facts("json", options, s, summary), Told)
           /\ Said(Facts(format, options, s, summary), {"time", "speaker"}) \subseteq
                Said(Facts("json", options, s, summary), {"time", "speaker"})
<1>1. CASE options = Legacy
  <2>1. ToSet(Legacy.formats) = {"json", "markdown", "txt"}
    BY DEF ToSet, Legacy
  <2>2. format \in {"json", "markdown", "txt"}
    BY <1>1, <2>1
  <2>3. Facts(format, options, s, summary) \in {LegacyJsonFacts(s), LegacyMarkdownFacts(s)}
        /\ Facts("json", options, s, summary) = LegacyJsonFacts(s)
    BY <1>1, <2>2 DEF Facts, IsLegacy, LegacyTxtFacts
  <2> QED
    BY <2>3, LegacySays
<1>2. CASE options # Legacy
  <2>1. format \in FormatNames
    BY <1>2
  <2>2. Facts("json", options, s, summary) = JsonFacts(options, s, summary)
    BY <1>2 DEF Facts, IsLegacy
  <2>3. format = "json" => Facts(format, options, s, summary) = JsonFacts(options, s, summary)
    BY <1>2 DEF Facts, IsLegacy
  <2>4. format \in {"markdown", "txt"} => Facts(format, options, s, summary) = MarkdownFacts(options, s, summary)
    BY <1>2 DEF Facts, IsLegacy, TxtFacts
  <2>5. format \in {"docx", "pdf"} => Facts(format, options, s, summary) = DocumentFacts(options, s, summary)
    BY <1>2 DEF Facts, IsLegacy
  <2>6. format = "json" \/ format \in {"markdown", "txt"} \/ format \in {"docx", "pdf"}
    BY <2>1 DEF FormatNames
  <2> QED
    BY <2>2, <2>3, <2>4, <2>5, <2>6, MarkdownSays, DocumentSays
<1> QED
  BY <1>1, <1>2

\* All formats of a bundle tell the same of the meeting.
THEOREM FormatsTellTheSame == Spec => []FormatsAgree
<1>1. FormatsAgree
  BY FormatSays, Zenon DEF FormatsAgree, Said, Told
<1> QED
  BY <1>1, PTL

-----------------------------------------------------------------------------
(* The folder: what each export has put there, and what the rows tell.      *)

ExporterFields == {"step", "run", "meeting", "options", "summary", "snapshot", "todo", "staged", "done", "dirt", "result"}
Steps == {"idle", "asked", "chosen", "staging", "publishing", "checked", "renamed", "recording", "closing", "cleaning", "answered"}
Working(x) == x.step \in {"staging", "publishing", "checked", "renamed", "recording"}
Dirt == [place : {"folder", "staging"}, format : FormatNames]
Cut == raced \cup touched \cup orphaned

\* The formats of a bundle go from todo to staged to done, each of them once.
Line(x) ==
    /\ x.todo \in Seq(FormatNames) /\ x.staged \in Seq(FormatNames) /\ x.done \in Seq(FormatNames)
    /\ IsInjective(x.todo) /\ IsInjective(x.staged)
    /\ ToSet(x.todo) \cap ToSet(x.staged) = {} /\ ToSet(x.todo) \cap ToSet(x.done) = {} /\ ToSet(x.staged) \cap ToSet(x.done) = {}

ExporterOK(x) ==
    /\ DOMAIN x = ExporterFields /\ x.step \in Steps /\ x.run \in Nat /\ x.options \in AskedOptions \cup {Legacy}
    /\ x.step # "idle" => x.meeting \in Ids
    /\ Publishing(x) => x.snapshot.meeting \in Ids
    /\ Working(x) => Line(x)
    /\ x.step \in {"asked", "chosen", "staging"} => x.done = <<>>
    /\ x.step \in {"asked", "chosen"} => x.staged = <<>> /\ x.result = ""
    /\ x.step \in {"checked", "renamed"} => x.staged # <<>>
    /\ x.step = "recording" => x.done # <<>>
    /\ x.step = "cleaning" => x.dirt \in Seq(Dirt)

ExportersTyped == DOMAIN exporters = Clients /\ \A c \in Clients : ExporterOK(exporters[c])

FileOK(f) ==
    /\ DOMAIN f = {"name", "bytes", "edited", "run"} /\ f.run \in Nat
    /\ DOMAIN f.name = {"id", "format"} /\ f.name = [id |-> f.name.id, format |-> f.name.format] /\ f.name.id.meeting \in Ids

FolderTyped == (\A f \in folder : FileOK(f)) /\ (\A f \in staging : f.run \in Nat) /\ dirs \subseteq Nat

\* Every run has its own number, smaller than the ones before.
RunsApart ==
    /\ \A c \in Clients : exporters[c].step # "idle" => exporters[c].run > left.exports
    /\ \A c, d \in Clients : c # d /\ exporters[c].step # "idle" /\ exporters[d].step # "idle" => exporters[c].run # exporters[d].run
    /\ (\A f \in folder \cup staging : f.run > left.exports) /\ (\A d \in dirs : d > left.exports)

\* Two exports of one snapshot that run at the same time are known as such.
RacesKnown ==
    \A c, d \in Clients :
        c # d /\ Publishing(exporters[c]) /\ Publishing(exporters[d]) /\ exporters[c].snapshot = exporters[d].snapshot =>
            exporters[c].snapshot \in raced

GenerationsBounded ==
    \E n \in Nat : /\ \A r \in rows : r.name.id.generation \in 0..n
                   /\ \A c \in Clients : exporters[c].snapshot.generation \in 0..n

\* The formats of published files among what is to be removed.
FolderFormats(dirt) == {i.format : i \in {i \in ToSet(dirt) : i.place = "folder"}}

\* The formats of an export that are in the folder by its doing.
Placed(x) ==
    CASE x.step = "renamed" -> ToSet(x.done) \cup {Head(x.staged)}
      [] x.step = "cleaning" -> FolderFormats(x.dirt)
      [] OTHER -> ToSet(x.done)

Unseen(run) == run \notin dirs /\ \A f \in folder \cup staging : f.run # run

\* What an export finds of itself, and what it has left.
Mine(x) ==
    /\ x.step \in {"asked", "chosen"} => Unseen(x.run)
    /\ Publishing(x) => \A f \in folder : f.run = x.run => f.name.id = x.snapshot /\ f.name.format \in Placed(x)
    /\ x.step = "answered" /\ x.result \notin {"ok"} \cup Uncleaned /\ Undisturbed(x.snapshot) => Unseen(x.run)

\* What an export that nobody disturbs finds under its names.
Ours(x) ==
    /\ x.step = "checked" /\ x.snapshot \notin raced => Named(Name(x, Head(x.staged))) = {}
    /\ Publishing(x) /\ x.snapshot \notin Cut => \A f \in folder : f.name.id = x.snapshot => f.name.format \in Placed(x)
    /\ Publishing(x) /\ Undisturbed(x.snapshot) => \A r \in rows : r.name.id # x.snapshot
    /\ Working(x) /\ Undisturbed(x.snapshot) => \A format \in Placed(x) : FileOf(x, format) \in folder
    /\ x.result = "MVP_EXPORT_TARGET_EXISTS" => x.snapshot \in Cut

\* A file has a row, or the export that wrote it goes on, or its meeting is purged, or its export was disturbed.
FilesKnown ==
    \A f \in folder : f.name.id \in Cut
        \/ (\E r \in rows : r.name.id = f.name.id) \/ meetings[f.name.id.meeting].state = Purged
        \/ \E c \in Clients : Publishing(exporters[c]) /\ exporters[c].snapshot = f.name.id

FolderInv ==
    /\ ExportersTyped /\ FolderTyped /\ RunsApart /\ RacesKnown /\ GenerationsBounded
    /\ \A c \in Clients : Mine(exporters[c]) /\ Ours(exporters[c])
    /\ RowsTellFiles /\ FilesKnown

-----------------------------------------------------------------------------
(* Sequences of formats.                                                    *)

\* The first format is taken.
LEMMA TakeHead ==
    ASSUME NEW S, NEW q \in Seq(S), q # <<>>, IsInjective(q)
    PROVE  /\ Head(q) \in S /\ Tail(q) \in Seq(S) /\ IsInjective(Tail(q))
           /\ ToSet(q) = {Head(q)} \cup ToSet(Tail(q)) /\ Head(q) \notin ToSet(Tail(q))
<1>1. PICK n \in Nat : n = Len(q) /\ n > 0
  OBVIOUS
<1>2. PICK t : t = Tail(q)
  OBVIOUS
<1>3. Head(q) = q[1] /\ q[1] \in S /\ t \in Seq(S) /\ Len(t) = n - 1 /\ \A i \in 1..n - 1 : t[i] = q[i + 1]
  BY <1>1, <1>2
<1>4. DOMAIN q = 1..n /\ DOMAIN t = 1..n - 1
  BY <1>1, <1>3
<1>5. \A i, j \in 1..n : q[i] = q[j] => i = j
  BY <1>4 DEF IsInjective
<1>6. IsInjective(t)
  <2> SUFFICES ASSUME NEW i \in 1..n - 1, NEW j \in 1..n - 1, t[i] = t[j] PROVE i = j
    BY <1>4 DEF IsInjective
  <2>1. i + 1 \in 1..n /\ j + 1 \in 1..n /\ q[i + 1] = q[j + 1]
    BY <1>1, <1>3
  <2> QED
    BY <1>5, <2>1
<1>7. ToSet(q) = {q[i] : i \in 1..n} /\ ToSet(t) = {t[i] : i \in 1..n - 1}
  BY <1>4 DEF ToSet
<1>8. ASSUME NEW e \in ToSet(t) PROVE e \in ToSet(q) /\ e # q[1]
  <2>1. PICK i \in 1..n - 1 : e = t[i]
    BY <1>7, <1>8
  <2>2. i + 1 \in 1..n /\ e = q[i + 1] /\ 1 \in 1..n /\ i + 1 # 1
    BY <1>1, <1>3, <2>1
  <2> QED
    BY <1>5, <1>7, <2>2
<1>9. ASSUME NEW e \in ToSet(q), e # q[1] PROVE e \in ToSet(t)
  <2>1. PICK i \in 1..n : e = q[i]
    BY <1>7, <1>9
  <2>2. i - 1 \in 1..n - 1 /\ t[i - 1] = e
    BY <1>1, <1>3, <1>9, <2>1
  <2> QED
    BY <1>7, <2>2
<1>10. q[1] \in ToSet(q)
  BY <1>1, <1>7
<1> QED
  BY <1>2, <1>3, <1>6, <1>8, <1>9, <1>10

\* A format is put last.
LEMMA PutLast ==
    ASSUME NEW S, NEW q \in Seq(S), NEW e \in S
    PROVE  /\ Append(q, e) \in Seq(S) /\ Append(q, e) # <<>> /\ ToSet(Append(q, e)) = ToSet(q) \cup {e}
           /\ IsInjective(q) /\ e \notin ToSet(q) => IsInjective(Append(q, e))
<1>1. PICK n, w : n = Len(q) /\ w = Append(q, e)
  OBVIOUS
<1>0. n \in Nat
  BY <1>1
<1>2. w \in Seq(S) /\ Len(w) = n + 1 /\ w[n + 1] = e /\ \A i \in 1..n : w[i] = q[i]
  BY <1>0, <1>1
<1>3. DOMAIN q = 1..n /\ DOMAIN w = 1..n + 1
  BY <1>0, <1>1, <1>2
<1>4. w # <<>>
  <2>1. Len(<<>>) = 0
    OBVIOUS
  <2>2. Len(w) # 0
    BY <1>0, <1>2
  <2> QED
    BY <2>1, <2>2, Zenon
<1>5. \A i : i \in 1..n + 1 <=> i \in 1..n \/ i = n + 1
  BY <1>0
<1>6. ToSet(q) = {q[i] : i \in 1..n} /\ ToSet(w) = {w[i] : i \in 1..n + 1}
  BY <1>3 DEF ToSet
<1>7. ToSet(w) = ToSet(q) \cup {e}
  BY <1>2, <1>5, <1>6
<1>8. ASSUME IsInjective(q), e \notin ToSet(q) PROVE IsInjective(w)
  <2> SUFFICES ASSUME NEW i \in 1..n + 1, NEW j \in 1..n + 1, w[i] = w[j] PROVE i = j
    BY <1>3 DEF IsInjective
  <2>1. \A k \in 1..n : q[k] # e
    BY <1>6, <1>8
  <2>2. \A k, l \in 1..n : q[k] = q[l] => k = l
    BY <1>3, <1>8 DEF IsInjective
  <2> QED
    BY <1>2, <1>5, <2>1, <2>2
<1> QED
  BY <1>1, <1>2, <1>4, <1>7, <1>8

\* The first item of what is to be removed.
LEMMA TakeDirt ==
    ASSUME NEW q \in Seq(Dirt), q # <<>>
    PROVE  /\ Head(q) \in Dirt /\ Tail(q) \in Seq(Dirt)
           /\ FolderFormats(q) = FolderFormats(Tail(q)) \cup (IF Head(q).place = "folder" THEN {Head(q).format} ELSE {})
<1>1. PICK n \in Nat : n = Len(q) /\ n > 0
  OBVIOUS
<1>2. PICK t, h : t = Tail(q) /\ h = Head(q)
  OBVIOUS
<1>3. h = q[1] /\ h \in Dirt /\ t \in Seq(Dirt) /\ Len(t) = n - 1 /\ \A i \in 1..n - 1 : t[i] = q[i + 1]
  BY <1>1, <1>2
<1>4. ToSet(q) = {q[i] : i \in 1..n} /\ ToSet(t) = {t[i] : i \in 1..n - 1}
  BY <1>1, <1>3 DEF ToSet
<1>5. ASSUME NEW e \in ToSet(t) PROVE e \in ToSet(q)
  <2>1. PICK i \in 1..n - 1 : e = t[i]
    BY <1>4, <1>5
  <2>2. i + 1 \in 1..n /\ e = q[i + 1]
    BY <1>1, <1>3, <2>1
  <2> QED
    BY <1>4, <2>2
<1>6. ASSUME NEW e \in ToSet(q), e # h PROVE e \in ToSet(t)
  <2>1. PICK i \in 1..n : e = q[i]
    BY <1>4, <1>6
  <2>2. i - 1 \in 1..n - 1 /\ t[i - 1] = e
    BY <1>1, <1>3, <1>6, <2>1
  <2> QED
    BY <1>4, <2>2
<1>7. h \in ToSet(q)
  BY <1>1, <1>3, <1>4
<1>8. ToSet(q) = ToSet(t) \cup {h}
  BY <1>5, <1>6, <1>7
<1> QED
  BY <1>2, <1>3, <1>8 DEF FolderFormats

\* Two sequences, one after the other.
LEMMA JoinFacts ==
    ASSUME NEW S, NEW a \in Seq(S), NEW b \in Seq(S)
    PROVE  /\ a \o b \in Seq(S) /\ Len(a \o b) = Len(a) + Len(b)
           /\ \A i \in 1..Len(a) : (a \o b)[i] = a[i]
           /\ \A i \in Len(a) + 1..Len(a) + Len(b) : (a \o b)[i] = b[i - Len(a)]
  OBVIOUS

\* What an error has to remove: the formats that are in the folder, and those that are staged.
LEMMA DirtFacts ==
    ASSUME NEW x, NEW p \in Seq(FormatNames), NEW q \in Seq(FormatNames)
    PROVE  /\ Published(x, p) \o Staged(q) \in Seq(Dirt) /\ FolderFormats(Published(x, p) \o Staged(q)) = ToSet(p)
           /\ Published(x, p) \in Seq(Dirt) /\ FolderFormats(Published(x, p)) = ToSet(p)
           /\ Staged(q) \in Seq(Dirt) /\ FolderFormats(Staged(q)) = {}
<1>1. PICK a, b, w, m, n : a = Published(x, p) /\ b = Staged(q) /\ w = a \o b /\ m = Len(p) /\ n = Len(q)
  OBVIOUS
<1>2. m \in Nat /\ n \in Nat /\ DOMAIN p = 1..m /\ DOMAIN q = 1..n /\ (\A i \in 1..m : p[i] \in FormatNames) /\ (\A i \in 1..n : q[i] \in FormatNames)
  BY <1>1
<1>3. a = [i \in 1..m |-> [place |-> "folder", format |-> p[i]]] /\ b = [i \in 1..n |-> [place |-> "staging", format |-> q[i]]]
  BY <1>1, <1>2 DEF Published, Staged
<1>4. a \in Seq(Dirt) /\ b \in Seq(Dirt) /\ Len(a) = m /\ Len(b) = n
  BY <1>2, <1>3 DEF Dirt
<1>5. w \in Seq(Dirt) /\ Len(w) = m + n /\ (\A i \in 1..m : w[i] = a[i]) /\ (\A i \in m + 1..m + n : w[i] = b[i - m])
  <2>1. /\ a \o b \in Seq(Dirt) /\ Len(a \o b) = Len(a) + Len(b)
        /\ \A i \in 1..Len(a) : (a \o b)[i] = a[i]
        /\ \A i \in Len(a) + 1..Len(a) + Len(b) : (a \o b)[i] = b[i - Len(a)]
    BY ONLY <1>4, JoinFacts
  <2>2. w = a \o b /\ Len(a) = m /\ Len(b) = n
    BY <1>1, <1>4
  <2> QED
    BY ONLY <2>1, <2>2
<1>6. ToSet(a) = {a[i] : i \in 1..m} /\ ToSet(b) = {b[i] : i \in 1..n} /\ ToSet(w) = {w[i] : i \in 1..m + n} /\ ToSet(p) = {p[i] : i \in 1..m}
  <2>1. DOMAIN a = 1..m /\ DOMAIN b = 1..n
    BY <1>3
  <2>2. DOMAIN w = 1..m + n
    BY ONLY <1>2, <1>5
  <2> QED
    BY <1>2, <2>1, <2>2, Zenon DEF ToSet
<1>7. ToSet(w) = ToSet(a) \cup ToSet(b)
  <2>1. \A i : i \in 1..m + n <=> i \in 1..m \/ i \in m + 1..m + n
    BY <1>2
  <2>2. \A i \in 1..n : i + m \in m + 1..m + n /\ w[i + m] = b[i]
    BY <1>2, <1>5
  <2>3. \A i \in m + 1..m + n : i - m \in 1..n
    BY <1>2
  <2> QED
    BY <1>5, <1>6, <2>1, <2>2, <2>3
<1>8. FolderFormats(a) = ToSet(p) /\ (\A e \in ToSet(b) : e.place # "folder") /\ (\A e \in ToSet(a) : e.place = "folder")
  <2>1. (\A i \in 1..m : a[i].place = "folder" /\ a[i].format = p[i]) /\ (\A i \in 1..n : b[i].place = "staging")
    BY <1>3
  <2> QED
    BY ONLY <1>6, <2>1 DEF FolderFormats
<1>9. FolderFormats(b) = {} /\ FolderFormats(w) = FolderFormats(a)
  BY <1>7, <1>8 DEF FolderFormats
<1> QED
  BY <1>1, <1>4, <1>5, <1>8, <1>9

-----------------------------------------------------------------------------
(* A step of one export, and the others.                                    *)

\* What a step of the export x may change that others see.
Gentle(x) ==
    /\ \A f \in folder' : f \in folder \/ (Publishing(x) /\ f.run = x.run /\ f.name.id = x.snapshot)
    /\ \A f \in folder : f \in folder' \/ (Publishing(x) /\ f.name.id = x.snapshot)
    /\ \A f \in staging' : f \in staging \/ (Publishing(x) /\ f.run = x.run)
    /\ \A d \in dirs' : d \in dirs \/ (x.step = "chosen" /\ d = x.run)
    /\ \A r \in rows' : r \in rows \/ (Publishing(x) /\ r.name.id = x.snapshot)
    /\ rows \subseteq rows' /\ raced \subseteq raced' /\ touched' = touched /\ orphaned \subseteq orphaned'

\* Another export keeps what it has.
LEMMA OthersKeepMine ==
    ASSUME NEW x, NEW z, Gentle(x), Mine(z), z.step # "idle" /\ x.step # "idle" => x.run # z.run
    PROVE  Mine(z)'
<1>1. z.step # "idle" /\ Unseen(z.run) => Unseen(z.run)'
  BY DEF Gentle, Unseen, Publishing
<1>2. Publishing(z) => z.step # "idle"
  BY DEF Publishing
<1>3. Undisturbed(z.snapshot)' => Undisturbed(z.snapshot)
  BY DEF Gentle, Undisturbed
<1>4. ASSUME Publishing(z), NEW f \in folder', f.run = z.run PROVE f \in folder
  BY <1>2, <1>4 DEF Gentle, Publishing
<1> QED
  BY <1>1, <1>3, <1>4 DEF Mine

\* Another export that nobody disturbs keeps what is its own.
LEMMA OthersKeepOurs ==
    ASSUME NEW x, NEW z, Gentle(x), Ours(z),
           Publishing(x) /\ Publishing(z) /\ x.snapshot = z.snapshot => z.snapshot \in raced
    PROVE  Ours(z)'
<1>1. /\ z.snapshot \notin raced' => z.snapshot \notin raced
      /\ z.snapshot \notin Cut' => z.snapshot \notin Cut /\ z.snapshot \notin raced
      /\ Undisturbed(z.snapshot)' => Undisturbed(z.snapshot) /\ z.snapshot \notin raced
  BY DEF Gentle, Cut, Undisturbed
<1>2. z.step = "checked" \/ Working(z) => Publishing(z)
  BY DEF Working, Publishing
<1>3. ASSUME Publishing(z), z.snapshot \notin raced, NEW f, f.name.id = z.snapshot PROVE f \in folder' <=> f \in folder
  BY <1>3 DEF Gentle
<1>4. ASSUME Publishing(z), z.snapshot \notin raced, NEW r \in rows', r.name.id = z.snapshot PROVE r \in rows
  BY <1>4 DEF Gentle
<1>5. \A format : Name(z, format).id = z.snapshot /\ FileOf(z, format).name.id = z.snapshot
  BY DEF Name, FileOf
<1>6. z.step = "checked" /\ z.snapshot \notin raced' => (Named(Name(z, Head(z.staged))) = {})'
  BY <1>1, <1>2, <1>3, <1>5 DEF Ours, Named
<1>7. Publishing(z) /\ z.snapshot \notin Cut' => \A f \in folder' : f.name.id = z.snapshot => f.name.format \in Placed(z)
  BY <1>1, <1>3 DEF Ours
<1>8. Publishing(z) /\ Undisturbed(z.snapshot)' => \A r \in rows' : r.name.id # z.snapshot
  BY <1>1, <1>4 DEF Ours
<1>9. Working(z) /\ Undisturbed(z.snapshot)' => \A format \in Placed(z) : FileOf(z, format) \in folder'
  BY <1>1, <1>2, <1>3, <1>5 DEF Ours
<1>10. z.result = "MVP_EXPORT_TARGET_EXISTS" => z.snapshot \in Cut'
  BY <1>1 DEF Ours
<1> QED
  BY <1>6, <1>7, <1>8, <1>9, <1>10 DEF Ours

\* The step of the export at c from x to y, and what it leaves true.
NewSnapshot(c, y) ==
    \A d \in Clients \ {c} : Publishing(exporters[d]) /\ exporters[d].snapshot = y.snapshot => y.snapshot \in raced'

Kept(c, x, y) ==
    /\ exporters' = [exporters EXCEPT ![c] = y] /\ ExporterOK(y) /\ Gentle(x)
    /\ \/ x.step # "idle" /\ y.step # "idle" /\ y.run = x.run /\ left'.exports = left.exports
       \/ left.exports > 0 /\ y.run = left.exports /\ left'.exports = left.exports - 1 /\ UNCHANGED <<folder, staging, dirs>>
    /\ Publishing(y) => (Publishing(x) /\ y.snapshot = x.snapshot) \/ NewSnapshot(c, y)
    /\ Mine(y)' /\ Ours(y)'
    /\ FolderTyped' /\ GenerationsBounded' /\ RowsTellFiles' /\ FilesKnown'

\* Runs stay apart.
LEMMA KeptRuns ==
    ASSUME FolderInv, LeftTyped, NEW c \in Clients, NEW x, x = exporters[c], NEW y, Kept(c, x, y)
    PROVE  RunsApart'
<1>1. left.exports \in Nat /\ x.run \in Nat /\ DOMAIN exporters = Clients /\ \A d \in Clients : exporters[d].run \in Nat
  BY DEF LeftTyped, Lefts, FolderInv, ExportersTyped, ExporterOK
<1>2. exporters'[c] = y /\ \A d \in Clients : d # c => exporters'[d] = exporters[d]
  BY <1>1 DEF Kept
<1>3. (\A f \in folder \cup staging : f.run \in Nat) /\ (\A d \in dirs : d \in Nat)
  BY DEF FolderInv, FolderTyped, FileOK
<1>4. CASE x.step # "idle" /\ y.step # "idle" /\ y.run = x.run /\ left'.exports = left.exports
  <2>1. \A f \in folder' \cup staging' : f \in folder \cup staging \/ f.run = x.run
    BY DEF Kept, Gentle
  <2>2. \A d \in dirs' : d \in dirs \/ d = x.run
    BY DEF Kept, Gentle
  <2>3. x.run > left.exports
    BY <1>4 DEF FolderInv, RunsApart
  <2>4. \A d \in Clients : d # c /\ exporters[d].step # "idle" => exporters[d].run # x.run
    BY <1>4 DEF FolderInv, RunsApart
  <2>5. (\A f \in folder' \cup staging' : f.run > left'.exports) /\ (\A d \in dirs' : d > left'.exports)
    BY <1>4, <2>1, <2>2, <2>3 DEF FolderInv, RunsApart
  <2>6. \A d \in Clients : exporters'[d].step # "idle" => exporters'[d].run > left'.exports
    BY <1>2, <1>4, <2>3 DEF FolderInv, RunsApart
  <2>7. \A d, e \in Clients : d # e /\ exporters'[d].step # "idle" /\ exporters'[e].step # "idle" => exporters'[d].run # exporters'[e].run
    BY <1>2, <1>4, <2>4 DEF FolderInv, RunsApart
  <2> QED
    BY <2>5, <2>6, <2>7 DEF RunsApart
<1>5. CASE left.exports > 0 /\ y.run = left.exports /\ left'.exports = left.exports - 1 /\ UNCHANGED <<folder, staging, dirs>>
  <2>1. (\A f \in folder' \cup staging' : f.run > left'.exports) /\ (\A d \in dirs' : d > left'.exports)
    BY <1>1, <1>3, <1>5 DEF FolderInv, RunsApart
  <2>2. \A d \in Clients : d # c /\ exporters[d].step # "idle" => exporters[d].run > left.exports
    BY DEF FolderInv, RunsApart
  <2>3. \A d \in Clients : exporters'[d].step # "idle" => exporters'[d].run > left'.exports
    BY <1>1, <1>2, <1>5, <2>2
  <2>4. \A d \in Clients : d # c /\ exporters[d].step # "idle" => exporters[d].run # left.exports
    BY <1>1, <2>2
  <2>5. \A d, e \in Clients : d # e /\ exporters'[d].step # "idle" /\ exporters'[e].step # "idle" => exporters'[d].run # exporters'[e].run
    BY <1>2, <1>5, <2>4 DEF FolderInv, RunsApart
  <2> QED
    BY <2>1, <2>3, <2>5 DEF RunsApart
<1> QED
  BY <1>4, <1>5 DEF Kept

\* Races stay known.
LEMMA KeptRaces ==
    ASSUME FolderInv, NEW c \in Clients, NEW x, x = exporters[c], NEW y, Kept(c, x, y)
    PROVE  RacesKnown'
<1>1. DOMAIN exporters = Clients /\ raced \subseteq raced'
  BY DEF FolderInv, ExportersTyped, Kept, Gentle
<1>2. exporters'[c] = y /\ \A d \in Clients : d # c => exporters'[d] = exporters[d]
  BY <1>1 DEF Kept
<1>3. ASSUME NEW d \in Clients, d # c, Publishing(exporters[d]), Publishing(y), exporters[d].snapshot = y.snapshot
      PROVE  y.snapshot \in raced'
  BY <1>1, <1>3 DEF Kept, NewSnapshot, FolderInv, RacesKnown
<1>4. ASSUME NEW d \in Clients, NEW e \in Clients, d # e, Publishing(exporters'[d]), Publishing(exporters'[e]),
             exporters'[d].snapshot = exporters'[e].snapshot
      PROVE  exporters'[d].snapshot \in raced'
  <2>1. CASE d = c
    BY <1>2, <1>3, <1>4, <2>1
  <2>2. CASE e = c
    BY <1>2, <1>3, <1>4, <2>2
  <2>3. CASE d # c /\ e # c
    BY <1>1, <1>2, <1>4, <2>3 DEF FolderInv, RacesKnown
  <2> QED
    BY <2>1, <2>2, <2>3
<1> QED
  BY <1>4 DEF RacesKnown, Publishing

\* A step of one export keeps the invariant.
LEMMA OneStep ==
    ASSUME FolderInv, LeftTyped, NEW c \in Clients, NEW x, x = exporters[c], NEW y, Kept(c, x, y)
    PROVE  FolderInv'
<1>1. RunsApart' /\ RacesKnown'
  BY KeptRuns, KeptRaces
<1>2. DOMAIN exporters = Clients
  BY DEF FolderInv, ExportersTyped
<1>3. exporters'[c] = y /\ DOMAIN exporters' = Clients /\ \A d \in Clients : d # c => exporters'[d] = exporters[d]
  BY <1>2 DEF Kept
<1>4. ExportersTyped'
  <2>1. ExporterOK(y) /\ \A d \in Clients : ExporterOK(exporters[d])
    BY DEF FolderInv, ExportersTyped, Kept
  <2>2. \A d \in Clients : ExporterOK(exporters'[d])
    BY ONLY <1>3, <2>1
  <2> QED
    BY <1>3, <2>2 DEF ExportersTyped
<1>5. ASSUME NEW d \in Clients PROVE Mine(exporters[d])' /\ Ours(exporters[d])'
  <2>1. CASE d = c
    BY <1>3, <2>1 DEF Kept
  <2>2. CASE d # c
    <3>1. PICK z : z = exporters[d]
      OBVIOUS
    <3>2. Gentle(x) /\ Mine(z) /\ Ours(z)
      BY <3>1 DEF Kept, FolderInv
    <3>3. z.step # "idle" /\ x.step # "idle" => x.run # z.run
      BY <2>2, <3>1 DEF FolderInv, RunsApart
    <3>4. Publishing(x) /\ Publishing(z) /\ x.snapshot = z.snapshot => z.snapshot \in raced
      BY <2>2, <3>1 DEF FolderInv, RacesKnown
    <3>5. Mine(z)' /\ Ours(z)'
      BY <3>2, <3>3, <3>4, OthersKeepMine, OthersKeepOurs
    <3> QED
      BY <1>3, <2>2, <3>1, <3>5
  <2> QED
    BY <2>1, <2>2
<1> QED
  BY <1>1, <1>4, <1>5 DEF FolderInv, Kept

\* The files that were known stay known.
LEMMA KeptFiles ==
    ASSUME FolderInv, NEW c \in Clients, NEW x, x = exporters[c], NEW y, exporters' = [exporters EXCEPT ![c] = y],
           Gentle(x), meetings' = meetings,
           Publishing(x) => \/ Publishing(y) /\ y.snapshot = x.snapshot
                            \/ x.snapshot \in Cut'
                            \/ \E r \in rows' : r.name.id = x.snapshot
                            \/ \A f \in folder' : f.name.id # x.snapshot
    PROVE  FilesKnown'
<1>1. DOMAIN exporters = Clients
  BY DEF FolderInv, ExportersTyped
<1>2. exporters'[c] = y /\ \A d \in Clients : d # c => exporters'[d] = exporters[d]
  BY <1>1
<1>3. Cut \subseteq Cut' /\ rows \subseteq rows'
  BY DEF Gentle, Cut
<1>4. SUFFICES ASSUME NEW f \in folder', f.name.id \notin Cut', \A r \in rows' : r.name.id # f.name.id,
                      meetings[f.name.id.meeting].state # Purged
               PROVE  \E d \in Clients : Publishing(exporters'[d]) /\ exporters'[d].snapshot = f.name.id
  BY DEF FilesKnown, Publishing
<1>5. CASE Publishing(x) /\ x.snapshot = f.name.id
  BY <1>2, <1>4, <1>5
<1>6. CASE ~(Publishing(x) /\ x.snapshot = f.name.id)
  <2>1. f \in folder
    BY <1>6 DEF Gentle
  <2>2. PICK d \in Clients : Publishing(exporters[d]) /\ exporters[d].snapshot = f.name.id
    BY <1>3, <1>4, <2>1 DEF FolderInv, FilesKnown
  <2> QED
    BY <1>2, <1>6, <2>2
<1> QED
  BY <1>5, <1>6

\* The rows tell the files as long as nothing is recorded.
LEMMA KeptRows ==
    ASSUME FolderInv, NEW x, Ours(x), Gentle(x), rows' = rows
    PROVE  RowsTellFiles'
<1> SUFFICES ASSUME NEW r \in rows, Undisturbed(r.name.id)'
             PROVE  \E f \in folder' : f.name = r.name /\ f.bytes = r.bytes /\ ~f.edited
  BY DEF RowsTellFiles
<1>1. Undisturbed(r.name.id)
  BY DEF Gentle, Undisturbed
<1>2. PICK f \in folder : f.name = r.name /\ f.bytes = r.bytes /\ ~f.edited
  BY <1>1 DEF FolderInv, RowsTellFiles
<1>3. f \in folder' \/ (Publishing(x) /\ f.name.id = x.snapshot)
  BY <1>2 DEF Gentle
<1>4. ~(Publishing(x) /\ r.name.id = x.snapshot)
  BY <1>1 DEF Ours
<1> QED
  BY <1>2, <1>3, <1>4

\* Generations stay bounded.
LEMMA KeptGenerations ==
    ASSUME FolderInv, NEW c \in Clients, NEW x, x = exporters[c], NEW y, exporters' = [exporters EXCEPT ![c] = y],
           Gentle(x), y.snapshot = x.snapshot \/ y.snapshot.generation = 0
    PROVE  GenerationsBounded'
<1>1. DOMAIN exporters = Clients
  BY DEF FolderInv, ExportersTyped
<1>2. exporters'[c] = y /\ \A d \in Clients : d # c => exporters'[d] = exporters[d]
  BY <1>1
<1>3. PICK n \in Nat : /\ \A r \in rows : r.name.id.generation \in 0..n
                       /\ \A d \in Clients : exporters[d].snapshot.generation \in 0..n
  BY DEF FolderInv, GenerationsBounded
<1>4. \A r \in rows' : r.name.id.generation \in 0..n
  BY <1>3 DEF Gentle
<1>5. \A d \in Clients : exporters'[d].snapshot.generation \in 0..n
  BY <1>2, <1>3
<1> QED
  BY <1>4, <1>5 DEF GenerationsBounded

\* A step that leaves the folder, the staging files and the rows alone.
QuietVars == <<folder, staging, dirs, rows, raced, touched, orphaned>>

\* A step that changes only the export itself.
LEMMA QuietStep ==
    ASSUME FolderInv, NEW c \in Clients, NEW x, x = exporters[c], NEW y, exporters' = [exporters EXCEPT ![c] = y],
           UNCHANGED QuietVars, meetings' = meetings, left'.exports = left.exports,
           ExporterOK(y), Mine(y), Ours(y), x.step # "idle", y.step # "idle", y.run = x.run, y.snapshot = x.snapshot,
           Publishing(y) <=> Publishing(x)
    PROVE  Kept(c, x, y)
<1>1. Gentle(x)
  BY DEF QuietVars, Gentle
<1>2. Mine(y)'
  BY DEF Mine, QuietVars, Unseen, Undisturbed
<1>3. Ours(y)'
  BY DEF Ours, QuietVars, Undisturbed, Cut, Named
<1>4. FolderTyped'
  BY DEF FolderTyped, QuietVars, FolderInv, FileOK
<1>5. Ours(x) /\ rows' = rows
  BY DEF FolderInv, QuietVars
<1> QED
  BY <1>1, <1>2, <1>3, <1>4, <1>5, KeptFiles, KeptRows, KeptGenerations DEF Kept

-----------------------------------------------------------------------------
(* The steps that change only the export itself.                            *)

\* An export that goes on with the same files.
Alike(x, y) ==
    /\ Publishing(x) /\ Publishing(y) /\ (Working(y) => Working(x)) /\ Placed(y) = Placed(x)
    /\ y.run = x.run /\ y.snapshot = x.snapshot /\ y.options = x.options /\ y.summary = x.summary

\* An export that goes on with the same files keeps what it has.
LEMMA AlikeKept ==
    ASSUME NEW x, NEW y, Mine(x), Ours(x), Alike(x, y),
           y.step = "checked" /\ y.snapshot \notin raced => Named(Name(y, Head(y.staged))) = {},
           y.result = "MVP_EXPORT_TARGET_EXISTS" => y.snapshot \in Cut
    PROVE  Mine(y) /\ Ours(y)
<1>1. \A format : FileOf(y, format) = FileOf(x, format)
  BY DEF Alike, FileOf, Name, Bytes
<1>2. Mine(y)
  BY DEF Alike, Mine, Publishing
<1>3. Ours(y)
  BY <1>1 DEF Alike, Ours
<1> QED
  BY <1>2, <1>3

\* What the invariant says of one export.
LEMMA ExporterFacts ==
    ASSUME FolderInv, NEW c \in Clients, NEW x, x = exporters[c]
    PROVE  /\ ExporterOK(x) /\ Mine(x) /\ Ours(x) /\ DOMAIN x = ExporterFields /\ DOMAIN exporters = Clients
  BY DEF FolderInv, ExportersTyped, ExporterOK

\* An error: the formats that are in the folder stay what they are.
MayFail(x, result, dirt) ==
    /\ ExporterOK(x) /\ Mine(x) /\ Ours(x) /\ x.step \in {"staging", "publishing", "checked", "recording"}
    /\ dirt \in Seq(Dirt) /\ FolderFormats(dirt) = ToSet(x.done)
    /\ result = "MVP_EXPORT_TARGET_EXISTS" => x.snapshot \in Cut

\* An export that fails keeps what it has, until its cleanup.
LEMMA FailingKept ==
    ASSUME NEW x, NEW result, NEW dirt, MayFail(x, result, dirt), NEW y, y = Failing(x, result, dirt)
    PROVE  /\ ExporterOK(y) /\ Mine(y) /\ Ours(y) /\ y.step = "cleaning" /\ y.run = x.run /\ y.snapshot = x.snapshot
           /\ Publishing(x) /\ Publishing(y)
<1> USE DEF MayFail
<1>1. DOMAIN x = ExporterFields
  BY DEF ExporterOK
<1>2. /\ DOMAIN y = ExporterFields /\ y.step = "cleaning" /\ y.run = x.run /\ y.snapshot = x.snapshot /\ y.options = x.options
      /\ y.summary = x.summary /\ y.meeting = x.meeting /\ y.dirt = dirt /\ y.result = result
  BY <1>1 DEF Failing, ExporterFields
<1>3. Publishing(x) /\ Publishing(y) /\ ~Working(y)
  BY <1>2 DEF Publishing, Working
<1>4. Placed(x) = ToSet(x.done) /\ Placed(y) = ToSet(x.done)
  BY <1>2 DEF Placed
<1>5. ExporterOK(y)
  BY <1>2, <1>3 DEF ExporterOK, Steps
<1>6. Alike(x, y)
  BY <1>2, <1>3, <1>4 DEF Alike
<1>7. Mine(y) /\ Ours(y)
  BY <1>2, <1>6, AlikeKept
<1> QED
  BY <1>2, <1>3, <1>5, <1>7

\* The steps of an export and the bounds.
LEMMA UsualLeft ==
    ASSUME LeftTyped, UNCHANGED libraryVars \/ (database' = database /\ left.faults > 0 /\ left' = [left EXCEPT !.faults = @ - 1])
    PROVE  meetings' = meetings /\ left'.exports = left.exports
  BY LeftFacts DEF libraryVars, database, LeftGoesOn

\* Everything is staged.
LEMMA StagedAllKept ==
    ASSUME FolderInv, LeftTyped, NEW c \in Clients, StagedAll(c), NEW x, x = exporters[c]
    PROVE  \E y : Kept(c, x, y)
<1>1. PICK y : y = [x EXCEPT !.step = "publishing"]
  OBVIOUS
<1>2. ExporterOK(x) /\ Mine(x) /\ Ours(x) /\ DOMAIN x = ExporterFields /\ x.step = "staging"
  BY ExporterFacts DEF StagedAll
<1>3. /\ DOMAIN y = ExporterFields /\ y.step = "publishing" /\ y.run = x.run /\ y.snapshot = x.snapshot /\ y.options = x.options
      /\ y.summary = x.summary /\ y.meeting = x.meeting /\ y.result = x.result /\ y.todo = x.todo /\ y.staged = x.staged /\ y.done = x.done
  BY <1>1, <1>2 DEF ExporterFields
<1>4. Publishing(x) /\ Publishing(y) /\ Working(x)
  BY <1>2, <1>3 DEF Publishing, Working
<1>5. ExporterOK(y)
  BY <1>2, <1>3, <1>4 DEF ExporterOK, Steps, Line
<1>6. Alike(x, y)
  BY <1>2, <1>3, <1>4 DEF Alike, Placed
<1>7. Mine(y) /\ Ours(y)
  BY <1>2, <1>3, <1>6, AlikeKept DEF Ours
<1>8. exporters' = [exporters EXCEPT ![c] = y] /\ UNCHANGED QuietVars /\ UNCHANGED libraryVars
  BY <1>1 DEF StagedAll, Put1, QuietVars
<1>9. Kept(c, x, y)
  BY <1>2, <1>3, <1>4, <1>5, <1>7, <1>8, UsualLeft, QuietStep
<1> QED
  BY <1>9

\* A name is looked at: it is taken only when the snapshot is known for it.
LEMMA CheckTargetKept ==
    ASSUME FolderInv, LeftTyped, NEW c \in Clients, CheckTarget(c), NEW x, x = exporters[c]
    PROVE  \E y : Kept(c, x, y)
<1>1. PICK there : there = Named(Name(x, Head(x.staged)))
  OBVIOUS
<1>2. /\ ExporterOK(x) /\ Mine(x) /\ Ours(x) /\ DOMAIN x = ExporterFields /\ x.step = "publishing" /\ x.staged # <<>>
      /\ Publishing(x) /\ Working(x) /\ Line(x)
  BY ExporterFacts DEF CheckTarget, Publishing, Working, ExporterOK
<1>3. UNCHANGED QuietVars /\ UNCHANGED libraryVars
  BY DEF CheckTarget, QuietVars
<1>4. CASE there = {}
  <2>1. PICK y : y = [x EXCEPT !.step = "checked"]
    OBVIOUS
  <2>2. exporters' = [exporters EXCEPT ![c] = y]
    BY <1>1, <1>4, <2>1 DEF CheckTarget, Put1
  <2>3. /\ DOMAIN y = ExporterFields /\ y.step = "checked" /\ y.run = x.run /\ y.snapshot = x.snapshot /\ y.options = x.options
        /\ y.summary = x.summary /\ y.meeting = x.meeting /\ y.result = x.result /\ y.todo = x.todo /\ y.staged = x.staged /\ y.done = x.done
    BY <1>2, <2>1 DEF ExporterFields
  <2>4. Publishing(y)
    BY <2>3 DEF Publishing
  <2>5. ExporterOK(y)
    BY <1>2, <2>3, <2>4 DEF ExporterOK, Steps, Line
  <2>6. Alike(x, y)
    BY <1>2, <2>3, <2>4 DEF Alike, Placed
  <2>7. Named(Name(y, Head(y.staged))) = {}
    BY <1>1, <1>4, <2>3 DEF Name
  <2>8. Mine(y) /\ Ours(y)
    BY <1>2, <2>3, <2>6, <2>7, AlikeKept DEF Ours
  <2>9. Kept(c, x, y)
    BY <1>2, <1>3, <2>2, <2>3, <2>4, <2>5, <2>8, UsualLeft, QuietStep
  <2> QED
    BY <2>9
<1>5. CASE there # {}
  <2>1. PICK dirt, y : dirt = Published(x, x.done) \o Staged(x.staged) /\ y = Failing(x, "MVP_EXPORT_TARGET_EXISTS", dirt)
    OBVIOUS
  <2>2. exporters' = [exporters EXCEPT ![c] = y]
    BY <1>1, <1>5, <2>1 DEF CheckTarget, Put1
  <2>3. dirt \in Seq(Dirt) /\ FolderFormats(dirt) = ToSet(x.done)
    BY <1>2, <2>1, DirtFacts DEF Line
  <2>4. x.snapshot \in Cut
    <3>1. PICK f \in folder : f.name = Name(x, Head(x.staged))
      BY <1>1, <1>5 DEF Named
    <3>2. f.name.id = x.snapshot /\ f.name.format = Head(x.staged)
      BY <3>1 DEF Name
    <3>3. Head(x.staged) \in ToSet(x.staged)
      BY <1>2, TakeHead DEF Line
    <3>4. Head(x.staged) \notin Placed(x)
      BY <1>2, <3>3 DEF Placed, Line
    <3> QED
      BY <1>2, <3>2, <3>4 DEF Ours
  <2>5. /\ ExporterOK(y) /\ Mine(y) /\ Ours(y) /\ y.step = "cleaning" /\ y.run = x.run /\ y.snapshot = x.snapshot
        /\ Publishing(x) /\ Publishing(y)
    <3>1. MayFail(x, "MVP_EXPORT_TARGET_EXISTS", dirt)
      BY <1>2, <2>3, <2>4 DEF MayFail
    <3> QED
      BY ONLY <2>1, <3>1, FailingKept
  <2>6. Kept(c, x, y)
    BY <1>2, <1>3, <2>2, <2>5, UsualLeft, QuietStep
  <2> QED
    BY <2>6
<1> QED
  BY <1>4, <1>5

\* A rename fails, or the writer refuses the record.
LEMMA FailsKept ==
    ASSUME FolderInv, LeftTyped, NEW c \in Clients, RenameFails(c) \/ RecordFails(c), NEW x, x = exporters[c]
    PROVE  \E y : Kept(c, x, y)
<1>1. /\ ExporterOK(x) /\ Mine(x) /\ Ours(x) /\ DOMAIN x = ExporterFields /\ x.step \in {"checked", "recording"} /\ Working(x) /\ Line(x)
  BY ExporterFacts DEF RenameFails, RecordFails, ExporterOK, Working
<1>2. \E dirt, result : /\ exporters' = [exporters EXCEPT ![c] = Failing(x, result, dirt)]
                        /\ dirt = Published(x, x.done) \o Staged(x.staged) \/ dirt = Published(x, x.done)
                        /\ result # "MVP_EXPORT_TARGET_EXISTS"
  BY DEF RenameFails, RecordFails, Put1
<1>3. PICK dirt, result : /\ exporters' = [exporters EXCEPT ![c] = Failing(x, result, dirt)]
                          /\ dirt = Published(x, x.done) \o Staged(x.staged) \/ dirt = Published(x, x.done)
                          /\ result # "MVP_EXPORT_TARGET_EXISTS"
  BY <1>2
<1>4. PICK y : y = Failing(x, result, dirt)
  OBVIOUS
<1>5. dirt \in Seq(Dirt) /\ FolderFormats(dirt) = ToSet(x.done)
  <2>1. x.done \in Seq(FormatNames) /\ x.staged \in Seq(FormatNames)
    BY <1>1 DEF Line
  <2>2. /\ Published(x, x.done) \o Staged(x.staged) \in Seq(Dirt)
        /\ FolderFormats(Published(x, x.done) \o Staged(x.staged)) = ToSet(x.done)
        /\ Published(x, x.done) \in Seq(Dirt) /\ FolderFormats(Published(x, x.done)) = ToSet(x.done)
    BY ONLY <2>1, DirtFacts
  <2>3. CASE dirt = Published(x, x.done) \o Staged(x.staged)
    BY ONLY <2>2, <2>3
  <2>4. CASE dirt = Published(x, x.done)
    BY ONLY <2>2, <2>4
  <2> QED
    BY ONLY <1>3, <2>3, <2>4
<1>6. /\ ExporterOK(y) /\ Mine(y) /\ Ours(y) /\ y.step = "cleaning" /\ y.run = x.run /\ y.snapshot = x.snapshot
      /\ Publishing(x) /\ Publishing(y)
  <2>1. MayFail(x, result, dirt)
    BY <1>1, <1>3, <1>5 DEF MayFail
  <2> QED
    BY ONLY <1>4, <2>1, FailingKept
<1>7. UNCHANGED QuietVars /\ database' = database /\ left.faults > 0 /\ left' = [left EXCEPT !.faults = @ - 1]
  BY DEF RenameFails, RecordFails, QuietVars
<1>8. meetings' = meetings /\ left'.exports = left.exports
  BY <1>7, UsualLeft
<1>9. Kept(c, x, y)
  BY <1>1, <1>3, <1>4, <1>6, <1>7, <1>8, QuietStep
<1> QED
  BY <1>9

\* A bounded set of natural numbers has a largest one.
LEMMA LeastNatural ==
    ASSUME NEW T \in SUBSET Nat, T # {}
    PROVE  \E n \in T : \A k \in T : n <= k
<1>1. PICK R : R = OpToRel(<, Nat)
  OBVIOUS
<1>2. IsWellFoundedOn(R, Nat)
  BY <1>1, NatLessThanWellFounded
<1>3. PICK n \in T : \A k \in T : ~(<<k, n>> \in R)
  BY <1>2, WFMin, Zenon
<1>4. \A a, b \in Nat : a < b => <<a, b>> \in R
  BY <1>1 DEF OpToRel
<1>5. \A k \in T : ~(k < n)
  BY <1>3, <1>4
<1> QED
  BY <1>5

\* The largest of a bounded set of natural numbers.
LEMMA MaxIs ==
    ASSUME NEW S \in SUBSET Nat, S # {}, NEW N \in Nat, \A x \in S : x <= N
    PROVE  Max(S) \in S /\ \A x \in S : x <= Max(S)
<1>1. PICK T : T = {n \in Nat : \A x \in S : x <= n}
  OBVIOUS
<1>2. T \in SUBSET Nat /\ T # {}
  BY <1>1
<1>3. PICK n \in T : \A k \in T : n <= k
  BY <1>2, LeastNatural
<1>4. n \in Nat /\ \A x \in S : x <= n
  BY <1>1
<1>5. n \in S
  <2> SUFFICES ASSUME n \notin S PROVE FALSE
    OBVIOUS
  <2>1. \A x \in S : x <= n - 1
    BY <1>4
  <2>2. n - 1 \in Nat
    <3>1. PICK x \in S : x \in Nat
      OBVIOUS
    <3>2. x <= n /\ x # n
      BY <1>4, <3>1
    <3> QED
      BY <1>4, <3>1, <3>2
  <2>3. n - 1 \in T
    BY <1>1, <2>1, <2>2
  <2> QED
    BY <1>3, <1>4, <2>3
<1>6. \E x \in S : \A y \in S : x >= y
  BY <1>4, <1>5
<1> QED
  BY <1>6 DEF Max

-----------------------------------------------------------------------------
(* The steps of an export before its files.                                 *)

\* An export is asked for, with a run that no file has.
LEMMA AskKept ==
    ASSUME FolderInv, LeftTyped, NEW c \in Clients, NEW m \in ExportedMeetings, NEW options \in AskedOptions, Ask(c, m, options),
           NEW x, x = exporters[c]
    PROVE  \E y : Kept(c, x, y)
<1>1. PICK y : y = [Blank EXCEPT !.step = "asked", !.run = left.exports, !.meeting = m, !.options = options]
  OBVIOUS
<1>2. /\ DOMAIN y = ExporterFields /\ y.step = "asked" /\ y.run = left.exports /\ y.meeting = m /\ y.options = options
      /\ y.snapshot = NoSnapshot /\ y.done = <<>> /\ y.staged = <<>> /\ y.result = ""
  BY <1>1 DEF Blank, ExporterFields
<1>3. ~Publishing(y) /\ ~Working(y) /\ ~Publishing(x)
  BY <1>2 DEF Publishing, Working, Ask, Busy
<1>4. left.exports \in Nat /\ left.exports > 0 /\ left'.exports = left.exports - 1
  BY DEF Ask, LeftTyped, Lefts
<1>5. ExporterOK(y)
  BY <1>2, <1>3, <1>4, ExportBounds DEF ExporterOK, Steps
<1>6. exporters' = [exporters EXCEPT ![c] = y] /\ UNCHANGED QuietVars /\ meetings' = meetings
  BY <1>1 DEF Ask, Put1, QuietVars, database
<1>7. Gentle(x)
  BY <1>6 DEF Gentle, QuietVars
<1>8. Unseen(left.exports)
  BY <1>4 DEF Unseen, FolderInv, RunsApart, FolderTyped, FileOK
<1>9. Mine(y)'
  BY <1>2, <1>3, <1>6, <1>8 DEF Mine, QuietVars, Unseen, Publishing
<1>10. Ours(y)'
  BY <1>2, <1>3 DEF Ours, Publishing, Working
<1>11. y.snapshot.generation = 0
  <2>1. NoSnapshot.generation = 0
    BY Zenon DEF NoSnapshot
  <2> QED
    BY <1>2, <2>1
<1>12. FolderTyped'
  BY <1>6 DEF FolderTyped, QuietVars, FolderInv, FileOK
<1>13. GenerationsBounded'
  BY <1>6, <1>7, <1>11, KeptGenerations
<1>14. RowsTellFiles'
  BY <1>6, <1>7, ExporterFacts, KeptRows DEF QuietVars
<1>15. FilesKnown'
  BY <1>3, <1>6, <1>7, KeptFiles
<1>16. Kept(c, x, y)
  BY <1>2, <1>3, <1>4, <1>5, <1>6, <1>7, <1>9, <1>10, <1>12, <1>13, <1>14, <1>15 DEF Kept, QuietVars
<1> QED
  BY <1>16

\* A summary is chosen, or not found.
LEMMA ChooseSummaryKept ==
    ASSUME FolderInv, LeftTyped, NEW c \in Clients, NEW unfinished, ChooseSummary(c, unfinished), NEW x, x = exporters[c]
    PROVE  \E y : Kept(c, x, y)
<1> DEFINE Refused == {"SUMMARY_VERSION_NOT_FOUND", "SUMMARY_VERSION_NOT_COMPLETED"}
<1>1. /\ ExporterOK(x) /\ Mine(x) /\ Ours(x) /\ DOMAIN x = ExporterFields /\ x.step = "asked"
  BY ExporterFacts DEF ChooseSummary
<1>2. \E y : /\ exporters' = [exporters EXCEPT ![c] = y]
             /\ \/ y = [x EXCEPT !.step = "chosen"] \/ (\E s : y = [x EXCEPT !.step = "chosen", !.summary = s])
                \/ (\E result \in Refused : y = [x EXCEPT !.step = "answered", !.result = result])
  BY DEF ChooseSummary, Put1, Answered
<1>3. PICK y : /\ exporters' = [exporters EXCEPT ![c] = y]
               /\ \/ y = [x EXCEPT !.step = "chosen"] \/ (\E s : y = [x EXCEPT !.step = "chosen", !.summary = s])
                  \/ (\E result \in Refused : y = [x EXCEPT !.step = "answered", !.result = result])
  BY <1>2
<1>4. /\ DOMAIN y = ExporterFields /\ y.run = x.run /\ y.snapshot = x.snapshot /\ y.options = x.options /\ y.meeting = x.meeting
      /\ y.done = x.done /\ y.staged = x.staged
      /\ (y.step = "chosen" /\ y.result = x.result) \/ (y.step = "answered" /\ y.result \in Refused)
  <2>1. CASE y = [x EXCEPT !.step = "chosen"]
    BY <1>1, <2>1 DEF ExporterFields
  <2>2. CASE \E s : y = [x EXCEPT !.step = "chosen", !.summary = s]
    BY <1>1, <2>2 DEF ExporterFields
  <2>3. CASE \E result \in Refused : y = [x EXCEPT !.step = "answered", !.result = result]
    BY <1>1, <2>3 DEF ExporterFields
  <2> QED
    BY <1>3, <2>1, <2>2, <2>3
<1>5. ~Publishing(x) /\ ~Publishing(y) /\ ~Working(y)
  BY <1>1, <1>4 DEF Publishing, Working
<1>6. ExporterOK(y)
  BY <1>1, <1>4, <1>5 DEF ExporterOK, Steps
<1>7. Mine(y) /\ Ours(y)
  BY <1>1, <1>4, <1>5 DEF Mine, Ours
<1>8. UNCHANGED QuietVars /\ UNCHANGED libraryVars
  BY DEF ChooseSummary, QuietVars
<1>9. y.step # "idle" /\ x.step # "idle"
  BY <1>1, <1>4
<1>10. Kept(c, x, y)
  BY <1>3, <1>4, <1>5, <1>6, <1>7, <1>8, <1>9, UsualLeft, QuietStep
<1> QED
  BY <1>10

\* The generation of a new snapshot is one that no row of the meeting has.
LEMMA NewGeneration ==
    ASSUME GenerationsBounded, NEW m
    PROVE  /\ SnapshotGeneration(m) \in Nat
           /\ \A r \in rows : r.name.id.meeting = m => r.name.id.generation # SnapshotGeneration(m)
           /\ \E n \in Nat : /\ SnapshotGeneration(m) \in 0..n /\ (\A r \in rows : r.name.id.generation \in 0..n)
                             /\ \A c \in Clients : exporters[c].snapshot.generation \in 0..n
<1>1. PICK n \in Nat : /\ \A r \in rows : r.name.id.generation \in 0..n
                       /\ \A c \in Clients : exporters[c].snapshot.generation \in 0..n
  BY DEF GenerationsBounded
<1>2. PICK S : S = {0} \cup {r.name.id.generation : r \in {r \in rows : r.name.id.meeting = m}}
  OBVIOUS
<1>3. S \in SUBSET Nat /\ S # {} /\ \A k \in S : k <= n
  BY <1>1, <1>2
<1>4. Max(S) \in S /\ \A k \in S : k <= Max(S)
  BY <1>3, MaxIs
<1>5. PICK g : g = Max(S)
  OBVIOUS
<1>6. g \in Nat /\ g <= n /\ (\A k \in S : k <= g)
  BY <1>3, <1>4, <1>5
<1>7. SnapshotGeneration(m) = g + 1
  BY <1>2, <1>5 DEF SnapshotGeneration
<1>8. \A r \in rows : r.name.id.meeting = m => r.name.id.generation \in S
  BY <1>2
<1>9. \A r \in rows : r.name.id.meeting = m => r.name.id.generation <= g
  BY <1>6, <1>8
<1>10. \A r \in rows : r.name.id.meeting = m => r.name.id.generation # g + 1
  BY <1>1, <1>6, <1>9
<1>11. /\ g + 1 \in 0..n + 1 /\ (\A r \in rows : r.name.id.generation \in 0..n + 1)
       /\ \A c \in Clients : exporters[c].snapshot.generation \in 0..n + 1
  BY <1>1, <1>6
<1> QED
  BY <1>6, <1>7, <1>10, <1>11

\* The options of an export name its formats, each once.
LEMMA FormatsOf ==
    ASSUME NEW options \in AskedOptions \cup {Legacy}
    PROVE  options.formats \in Seq(FormatNames) /\ IsInjective(options.formats)
<1>1. Legacy.formats = <<"json", "markdown", "txt">>
  BY DEF Legacy
<1>2. Legacy.formats \in Seq(FormatNames) /\ IsInjective(Legacy.formats)
  BY <1>1 DEF FormatNames, IsInjective
<1> QED
  BY <1>2, ExportBounds DEF ValidOptions

\* A snapshot is read: nothing in the folder is of it yet, unless another export or a cut one put it there.
LEMMA ReadSnapshotKept ==
    ASSUME FolderInv, LeftTyped, NEW c \in Clients, ReadSnapshot(c), NEW x, x = exporters[c]
    PROVE  \E y : Kept(c, x, y)
<1>1. PICK refusal, s, m : refusal = Refusal(x.meeting, x.options) /\ s = SnapshotOf(x.meeting, x.options) /\ m = x.meeting
  OBVIOUS
<1>2. /\ ExporterOK(x) /\ Mine(x) /\ Ours(x) /\ DOMAIN x = ExporterFields /\ DOMAIN exporters = Clients /\ x.step = "chosen"
  BY ExporterFacts DEF ReadSnapshot
<1>3. m \in Ids /\ x.done = <<>> /\ x.staged = <<>> /\ x.result = "" /\ x.options \in AskedOptions \cup {Legacy} /\ x.run \in Nat
  BY <1>1, <1>2 DEF ExporterOK
<1>4. ~Publishing(x) /\ Unseen(x.run)
  BY <1>2 DEF Publishing, Mine
<1>5. UNCHANGED <<libraryVars, folder, staging, rows, touched, orphaned>>
  BY DEF ReadSnapshot
<1>6. meetings' = meetings /\ left'.exports = left.exports
  BY <1>5, UsualLeft
<1>7. CASE refusal # ""
  <2>1. PICK y : y = Answered(x, refusal)
    OBVIOUS
  <2>2. exporters' = [exporters EXCEPT ![c] = y] /\ dirs' = dirs /\ raced' = raced
    BY <1>1, <1>7, <2>1 DEF ReadSnapshot, Put1
  <2>3. /\ DOMAIN y = ExporterFields /\ y.step = "answered" /\ y.run = x.run /\ y.snapshot = x.snapshot /\ y.options = x.options
        /\ y.meeting = x.meeting /\ y.result = refusal /\ y.done = x.done
    BY <1>2, <2>1 DEF Answered, ExporterFields
  <2>4. refusal # "MVP_EXPORT_TARGET_EXISTS"
    BY <1>1 DEF Refusal
  <2>5. ~Publishing(y) /\ ~Working(y)
    BY <2>3 DEF Publishing, Working
  <2>6. ExporterOK(y)
    BY <1>1, <1>2, <1>3, <2>3, <2>5 DEF ExporterOK, Steps
  <2>7. Mine(y) /\ Ours(y)
    BY <1>4, <2>3, <2>4, <2>5 DEF Mine, Ours
  <2>8. UNCHANGED QuietVars
    BY <1>5, <2>2 DEF QuietVars
  <2>9. Kept(c, x, y)
    BY <1>2, <1>4, <1>6, <2>2, <2>3, <2>5, <2>6, <2>7, <2>8, QuietStep
  <2> QED
    BY <2>9
<1>8. CASE refusal = ""
  <2>1. PICK y : y = [x EXCEPT !.step = "staging", !.snapshot = s, !.todo = x.options.formats]
    OBVIOUS
  <2>2. PICK others : others = {d \in Clients \ {c} : Publishing(exporters[d]) /\ exporters[d].snapshot = s}
    OBVIOUS
  <2>3. exporters' = [exporters EXCEPT ![c] = y] /\ dirs' = dirs \cup {x.run} /\ raced' = (IF others # {} THEN raced \cup {s} ELSE raced)
    BY <1>1, <1>8, <2>1, <2>2 DEF ReadSnapshot, Put1
  <2>4. /\ DOMAIN y = ExporterFields /\ y.step = "staging" /\ y.run = x.run /\ y.snapshot = s /\ y.options = x.options
        /\ y.meeting = x.meeting /\ y.result = "" /\ y.done = <<>> /\ y.staged = <<>> /\ y.todo = x.options.formats
    BY <1>2, <1>3, <2>1 DEF ExporterFields
  <2>5. Publishing(y)
    BY <2>4 DEF Publishing
  <2>6. s.meeting = m /\ s.generation = SnapshotGeneration(m)
    BY <1>1 DEF SnapshotOf
  <2>7. y.todo \in Seq(FormatNames) /\ IsInjective(y.todo)
    BY <1>3, <2>4, FormatsOf
  <2>8. <<>> \in Seq(FormatNames) /\ IsInjective(<<>>) /\ ToSet(<<>>) = {}
    BY DEF IsInjective, ToSet
  <2>9. ExporterOK(y)
    BY <1>1, <1>2, <1>3, <2>4, <2>6, <2>7, <2>8 DEF ExporterOK, Steps, Line
  <2>10. Gentle(x)
    BY <1>2, <1>5, <2>3 DEF Gentle
  <2>11. NewSnapshot(c, y)
    BY <2>2, <2>3, <2>4 DEF NewSnapshot
  <2>12. Mine(y)'
    BY <1>4, <1>5, <2>4 DEF Mine, Unseen
  <2>13. \A r \in rows : r.name.id # s
    BY <2>6, NewGeneration DEF FolderInv
  <2>14. Placed(y) = {}
    BY <2>4, <2>8 DEF Placed
  <2>15. ASSUME s \notin Cut', NEW f \in folder, f.name.id = s PROVE FALSE
    <3>1. s \notin Cut /\ s \notin raced'
      BY <1>5, <2>3, <2>15 DEF Cut
    <3>2. meetings[m].state # Purged
      BY <1>1, <1>8 DEF Refusal, Live
    <3>3. PICK d \in Clients : Publishing(exporters[d]) /\ exporters[d].snapshot = s
      BY <2>6, <2>13, <2>15, <3>1, <3>2 DEF FolderInv, FilesKnown
    <3>4. d \in others
      BY <1>4, <2>2, <3>3
    <3> QED
      BY <2>3, <3>1, <3>4
  <2>16. Ours(y)'
    <3>1. Publishing(y) /\ y.snapshot \notin Cut' => \A f \in folder' : f.name.id = y.snapshot => f.name.format \in Placed(y)
      BY <1>5, <2>4, <2>15
    <3>2. \A r \in rows' : r.name.id # y.snapshot
      BY <1>5, <2>4, <2>13
    <3> QED
      BY <2>4, <2>14, <3>1, <3>2 DEF Ours
  <2>17. FolderTyped'
    BY <1>3, <1>5, <2>3 DEF FolderInv, FolderTyped, FileOK
  <2>18. GenerationsBounded'
    <3>1. GenerationsBounded
      BY DEF FolderInv
    <3>2. PICK n \in Nat : /\ SnapshotGeneration(m) \in 0..n /\ (\A r \in rows : r.name.id.generation \in 0..n)
                           /\ \A d \in Clients : exporters[d].snapshot.generation \in 0..n
      BY <3>1, NewGeneration
    <3>3. \A d \in Clients : exporters'[d].snapshot.generation \in 0..n
      BY <1>2, <2>3, <2>4, <2>6, <3>2
    <3> QED
      BY <1>5, <3>2, <3>3 DEF GenerationsBounded
  <2>19. RowsTellFiles'
    BY <1>2, <1>5, <2>10, KeptRows
  <2>20. FilesKnown'
    BY <1>4, <1>6, <2>3, <2>10, KeptFiles
  <2>21. Kept(c, x, y)
    BY <1>2, <1>6, <2>3, <2>4, <2>5, <2>9, <2>10, <2>11, <2>12, <2>16, <2>17, <2>18, <2>19, <2>20 DEF Kept
  <2> QED
    BY <2>21
<1> QED
  BY <1>7, <1>8

\* A step that changes staging files only.
LEMMA StagingStep ==
    ASSUME FolderInv, NEW c \in Clients, NEW x, x = exporters[c], NEW y, exporters' = [exporters EXCEPT ![c] = y],
           UNCHANGED <<folder, dirs, rows, raced, touched, orphaned>>, meetings' = meetings, left'.exports = left.exports,
           \A f \in staging' : f \in staging \/ f.run = x.run,
           ExporterOK(y), Mine(y), Ours(y), y.run = x.run, y.snapshot = x.snapshot, Publishing(y), Publishing(x)
    PROVE  Kept(c, x, y)
<1>1. Gentle(x)
  BY DEF Gentle
<1>2. Mine(y)'
  BY DEF Mine, Publishing
<1>3. Ours(y)'
  BY DEF Ours, Undisturbed, Cut, Named
<1>4. FolderTyped'
  <2>1. x.run \in Nat
    BY ExporterFacts DEF ExporterOK
  <2> QED
    BY <2>1 DEF FolderTyped, FolderInv, FileOK
<1>5. Ours(x) /\ rows' = rows
  BY DEF FolderInv
<1>6. x.step # "idle" /\ y.step # "idle"
  BY DEF Publishing
<1> QED
  BY <1>1, <1>2, <1>3, <1>4, <1>5, <1>6, KeptFiles, KeptRows, KeptGenerations DEF Kept

\* A file is staged.
LEMMA StageFileKept ==
    ASSUME FolderInv, LeftTyped, NEW c \in Clients, StageFile(c), NEW x, x = exporters[c]
    PROVE  \E y : Kept(c, x, y)
<1>1. /\ ExporterOK(x) /\ Mine(x) /\ Ours(x) /\ DOMAIN x = ExporterFields /\ x.step = "staging" /\ x.todo # <<>>
      /\ Publishing(x) /\ Working(x) /\ Line(x)
  BY ExporterFacts DEF StageFile, Publishing, Working, ExporterOK
<1>2. PICK y, h, t, q : y = [x EXCEPT !.todo = t, !.staged = q] /\ h = Head(x.todo) /\ t = Tail(x.todo) /\ q = Append(x.staged, h)
  OBVIOUS
<1>3. y = [x EXCEPT !.todo = Tail(@), !.staged = Append(@, Head(x.todo))]
  BY <1>1, <1>2 DEF ExporterFields
<1>4. exporters' = [exporters EXCEPT ![c] = y] /\ UNCHANGED <<folder, dirs, rows, raced, touched, orphaned>> /\ UNCHANGED libraryVars
  BY <1>3 DEF StageFile, Put1
<1>5. \A f \in staging' : f \in staging \/ f.run = x.run
  BY DEF StageFile, TempOf
<1>6. /\ DOMAIN y = ExporterFields /\ y.step = "staging" /\ y.run = x.run /\ y.snapshot = x.snapshot /\ y.options = x.options
      /\ y.summary = x.summary /\ y.meeting = x.meeting /\ y.result = x.result /\ y.todo = t /\ y.staged = q /\ y.done = x.done
  BY <1>1, <1>2 DEF ExporterFields
<1>7. /\ h \in FormatNames /\ t \in Seq(FormatNames) /\ IsInjective(t)
      /\ ToSet(x.todo) = {h} \cup ToSet(t) /\ h \notin ToSet(t)
  BY <1>1, <1>2, TakeHead DEF Line
<1>8. q \in Seq(FormatNames) /\ q # <<>> /\ ToSet(q) = ToSet(x.staged) \cup {h} /\ IsInjective(q)
  BY <1>1, <1>2, <1>7, PutLast DEF Line
<1>9. Line(y)
  BY <1>1, <1>6, <1>7, <1>8 DEF Line
<1>10. Publishing(y)
  BY <1>6 DEF Publishing
<1>11. ExporterOK(y)
  BY <1>1, <1>6, <1>9, <1>10 DEF ExporterOK, Steps
<1>12. Alike(x, y)
  BY <1>1, <1>6, <1>10 DEF Alike, Placed
<1>13. Mine(y) /\ Ours(y)
  BY <1>1, <1>6, <1>12, AlikeKept DEF Ours
<1>14. Kept(c, x, y)
  BY <1>1, <1>4, <1>5, <1>6, <1>10, <1>11, <1>13, UsualLeft, StagingStep
<1> QED
  BY <1>14

\* A file cannot be staged.
LEMMA StageFailsKept ==
    ASSUME FolderInv, LeftTyped, NEW c \in Clients, NEW created \in BOOLEAN, StageFails(c, created), NEW x, x = exporters[c]
    PROVE  \E y : Kept(c, x, y)
<1>1. /\ ExporterOK(x) /\ Mine(x) /\ Ours(x) /\ x.step = "staging" /\ x.done = <<>> /\ Line(x)
  BY ExporterFacts DEF StageFails, Working, ExporterOK
<1>2. PICK dirt, result, y : /\ y = Failing(x, result, dirt) /\ dirt = Staged(x.staged)
                             /\ result = IF created THEN "MVP_EXPORT_CLEANUP_FAILED" ELSE "MVP_EXPORT_TEMP_CREATE_FAILED"
  OBVIOUS
<1>3. /\ exporters' = [exporters EXCEPT ![c] = y] /\ UNCHANGED <<folder, dirs, rows, raced, touched, orphaned>>
      /\ database' = database /\ left.faults > 0 /\ left' = [left EXCEPT !.faults = @ - 1]
  BY <1>2 DEF StageFails, Put1
<1>4. \A f \in staging' : f \in staging \/ f.run = x.run
  BY DEF StageFails, TempOf
<1>5. dirt \in Seq(Dirt) /\ FolderFormats(dirt) = ToSet(x.done)
  <2>1. ToSet(<<>>) = {}
    BY DEF ToSet
  <2>2. Staged(x.staged) \in Seq(Dirt) /\ FolderFormats(Staged(x.staged)) = {}
    BY <1>1, DirtFacts DEF Line
  <2> QED
    BY <1>1, <1>2, <2>1, <2>2
<1>6. /\ ExporterOK(y) /\ Mine(y) /\ Ours(y) /\ y.step = "cleaning" /\ y.run = x.run /\ y.snapshot = x.snapshot
      /\ Publishing(x) /\ Publishing(y)
  <2>1. MayFail(x, result, dirt)
    BY <1>1, <1>2, <1>5 DEF MayFail
  <2> QED
    BY ONLY <1>2, <2>1, FailingKept
<1>7. meetings' = meetings /\ left'.exports = left.exports
  BY <1>3, UsualLeft
<1>8. Kept(c, x, y)
  BY <1>3, <1>4, <1>6, <1>7, StagingStep
<1> QED
  BY <1>8

\* A file is moved to its name.
LEMMA RenameKept ==
    ASSUME FolderInv, LeftTyped, NEW c \in Clients, Rename(c), NEW x, x = exporters[c]
    PROVE  \E y : Kept(c, x, y)
<1>1. PICK y, h, new : y = [x EXCEPT !.step = "renamed"] /\ h = Head(x.staged) /\ new = FileOf(x, h)
  OBVIOUS
<1>2. /\ ExporterOK(x) /\ Mine(x) /\ Ours(x) /\ DOMAIN x = ExporterFields /\ x.step = "checked" /\ x.staged # <<>>
      /\ Publishing(x) /\ Working(x) /\ Line(x) /\ x.run \in Nat /\ x.snapshot.meeting \in Ids
  BY ExporterFacts DEF Rename, Publishing, Working, ExporterOK
<1>3. /\ exporters' = [exporters EXCEPT ![c] = y] /\ UNCHANGED <<dirs, rows, raced, touched, orphaned>> /\ UNCHANGED libraryVars
      /\ folder' = (folder \ Named(Name(x, h))) \cup {new} /\ staging' \subseteq staging
  BY <1>1 DEF Rename, Put1
<1>4. /\ DOMAIN y = ExporterFields /\ y.step = "renamed" /\ y.run = x.run /\ y.snapshot = x.snapshot /\ y.options = x.options
      /\ y.summary = x.summary /\ y.meeting = x.meeting /\ y.result = x.result /\ y.todo = x.todo /\ y.staged = x.staged /\ y.done = x.done
  BY <1>1, <1>2 DEF ExporterFields
<1>5. Publishing(y) /\ x.step # "idle" /\ y.step # "idle"
  BY <1>2, <1>4 DEF Publishing
<1>6. ExporterOK(y)
  BY <1>2, <1>4, <1>5 DEF ExporterOK, Steps, Line
<1>7. Placed(x) = ToSet(x.done) /\ Placed(y) = ToSet(x.done) \cup {h}
  BY <1>1, <1>2, <1>4 DEF Placed
<1>8. /\ new.run = x.run /\ new.name = Name(x, h) /\ new.name.id = x.snapshot /\ new.name.format = h /\ FileOK(new)
      /\ \A f \in Named(Name(x, h)) : f.name.id = x.snapshot /\ f.name.format = h
  BY <1>1, <1>2 DEF FileOf, Name, FileOK, Named
<1>9. Gentle(x)
  BY <1>2, <1>3, <1>8 DEF Gentle
<1>10. Mine(y)'
  BY <1>2, <1>3, <1>4, <1>5, <1>7, <1>8 DEF Mine
<1>11. \A format : FileOf(y, format) = FileOf(x, format) /\ FileOf(x, format).name.format = format
  BY <1>4 DEF FileOf, Name, Bytes
<1>12. h \notin ToSet(x.done)
  BY <1>1, <1>2, TakeHead DEF Line
<1>13. Ours(y)'
  <2>1. Publishing(y) /\ y.snapshot \notin Cut' => \A f \in folder' : f.name.id = y.snapshot => f.name.format \in Placed(y)
    BY <1>2, <1>3, <1>4, <1>7, <1>8 DEF Ours, Cut
  <2>2. Publishing(y) /\ Undisturbed(y.snapshot)' => \A r \in rows' : r.name.id # y.snapshot
    BY <1>2, <1>3, <1>4 DEF Ours, Undisturbed
  <2>3. Undisturbed(y.snapshot)' => \A format \in Placed(y) : FileOf(y, format) \in folder'
    <3> SUFFICES ASSUME Undisturbed(x.snapshot), NEW format \in Placed(y) PROVE FileOf(x, format) \in folder'
      BY <1>3, <1>4, <1>11 DEF Undisturbed
    <3>1. CASE format = h
      BY <1>1, <1>3, <3>1
    <3>2. CASE format \in ToSet(x.done)
      <4>1. FileOf(x, format) \in folder
        BY <1>2, <1>7, <3>2 DEF Ours
      <4>2. FileOf(x, format) \notin Named(Name(x, h))
        BY <1>8, <1>11, <1>12, <3>2
      <4> QED
        BY <1>3, <4>1, <4>2
    <3> QED
      BY <1>7, <3>1, <3>2
  <2>4. y.result = "MVP_EXPORT_TARGET_EXISTS" => y.snapshot \in Cut'
    BY <1>2, <1>3, <1>4 DEF Ours, Cut
  <2> QED
    BY <1>4, <2>1, <2>2, <2>3, <2>4 DEF Ours
<1>14. FolderTyped'
  BY <1>3, <1>8 DEF FolderInv, FolderTyped, FileOK
<1>15. meetings' = meetings /\ left'.exports = left.exports
  BY <1>3, UsualLeft
<1>16. GenerationsBounded' /\ RowsTellFiles' /\ FilesKnown'
  BY <1>2, <1>3, <1>4, <1>5, <1>9, <1>15, KeptFiles, KeptRows, KeptGenerations
<1>17. Kept(c, x, y)
  BY <1>2, <1>3, <1>4, <1>5, <1>6, <1>9, <1>10, <1>13, <1>14, <1>15, <1>16 DEF Kept
<1> QED
  BY <1>17

\* An export is cut short: its snapshot is known for it.
LEMMA CutShortKept ==
    ASSUME FolderInv, NEW c \in Clients, NEW x, x = exporters[c], Publishing(x), NEW result, NEW y, y = Answered(x, result),
           exporters' = [exporters EXCEPT ![c] = y], UNCHANGED <<folder, staging, dirs, rows, raced, touched>>,
           orphaned' = orphaned \cup {x.snapshot}, meetings' = meetings, left'.exports = left.exports,
           result \in Uncleaned
    PROVE  Kept(c, x, y)
<1>1. ExporterOK(x) /\ Ours(x) /\ DOMAIN x = ExporterFields /\ x.step # "idle"
  BY ExporterFacts DEF Publishing
<1>2. /\ DOMAIN y = ExporterFields /\ y.step = "answered" /\ y.run = x.run /\ y.snapshot = x.snapshot /\ y.options = x.options
      /\ y.meeting = x.meeting /\ y.result = result
  BY <1>1 DEF Answered, ExporterFields
<1>3. ~Publishing(y) /\ ~Working(y) /\ y.step # "idle"
  BY <1>2 DEF Publishing, Working
<1>4. ExporterOK(y)
  BY <1>1, <1>2, <1>3 DEF ExporterOK, Steps
<1>5. Gentle(x)
  BY DEF Gentle
<1>6. Mine(y)'
  BY <1>2, <1>3 DEF Mine
<1>7. Ours(y)'
  BY <1>2, <1>3 DEF Ours, Uncleaned
<1>8. FolderTyped'
  BY DEF FolderInv, FolderTyped, FileOK
<1>9. x.snapshot \in Cut'
  BY DEF Cut
<1>10. GenerationsBounded' /\ RowsTellFiles' /\ FilesKnown'
  BY <1>1, <1>2, <1>5, <1>9, KeptFiles, KeptRows, KeptGenerations
<1> QED
  BY <1>1, <1>2, <1>3, <1>4, <1>5, <1>6, <1>7, <1>8, <1>10 DEF Kept

\* A file is read back.
LEMMA ReadBackKept ==
    ASSUME FolderInv, LeftTyped, NEW c \in Clients, ReadBack(c), NEW x, x = exporters[c]
    PROVE  \E y : Kept(c, x, y)
<1>1. PICK h, there, t, q, next : /\ h = Head(x.staged) /\ there = Named(Name(x, h)) /\ t = Tail(x.staged) /\ q = Append(x.done, h)
                                  /\ next = [x EXCEPT !.staged = t, !.done = q]
  OBVIOUS
<1>2. /\ ExporterOK(x) /\ Mine(x) /\ Ours(x) /\ DOMAIN x = ExporterFields /\ x.step = "renamed" /\ x.staged # <<>>
      /\ Publishing(x) /\ Working(x) /\ Line(x)
  BY ExporterFacts DEF ReadBack, Publishing, Working, ExporterOK
<1>3. next = [x EXCEPT !.staged = Tail(@), !.done = Append(@, h)]
  BY <1>1, <1>2 DEF ExporterFields
<1>4. /\ UNCHANGED <<folder, staging, dirs, rows, raced, touched>> /\ UNCHANGED libraryVars
      /\ orphaned' = IF there = {} THEN orphaned \cup {x.snapshot} ELSE orphaned
  BY <1>1 DEF ReadBack
<1>5. meetings' = meetings /\ left'.exports = left.exports
  BY <1>4, UsualLeft
<1>6. CASE there = {}
  <2>1. PICK y : y = AtOnce(x)
    OBVIOUS
  <2>2. exporters' = [exporters EXCEPT ![c] = y]
    BY <1>1, <1>6, <2>1 DEF ReadBack, Put1
  <2>3. "MVP_EXPORT_TARGET_UNAVAILABLE" \in Uncleaned /\ y = Answered(x, "MVP_EXPORT_TARGET_UNAVAILABLE")
    BY <2>1 DEF Uncleaned, AtOnce
  <2>4. Kept(c, x, y)
    BY <1>2, <1>4, <1>5, <1>6, <2>2, <2>3, CutShortKept
  <2> QED
    BY <2>4
<1>7. /\ DOMAIN next = ExporterFields /\ next.run = x.run /\ next.snapshot = x.snapshot /\ next.options = x.options
      /\ next.summary = x.summary /\ next.meeting = x.meeting /\ next.todo = x.todo /\ next.staged = t /\ next.done = q
      /\ next.result = x.result
  BY <1>1, <1>2 DEF ExporterFields
<1>8. /\ h \in FormatNames /\ t \in Seq(FormatNames) /\ IsInjective(t)
      /\ ToSet(x.staged) = {h} \cup ToSet(t) /\ h \notin ToSet(t)
  BY <1>1, <1>2, TakeHead DEF Line
<1>9. q \in Seq(FormatNames) /\ q # <<>> /\ ToSet(q) = ToSet(x.done) \cup {h}
  BY <1>1, <1>2, <1>8, PutLast DEF Line
<1>10. Placed(x) = ToSet(q)
  BY <1>1, <1>2, <1>9 DEF Placed
<1>11. CASE there # {} /\ \E f \in there : ~Same(f, x)
  <2>1. PICK dirt, y : dirt = Published(next, q) \o Staged(t) /\ y = Failing(next, "MVP_EXPORT_PUBLISHED_VALIDATE_FAILED", dirt)
    OBVIOUS
  <2>2. exporters' = [exporters EXCEPT ![c] = y]
    BY <1>1, <1>3, <1>7, <1>11, <2>1 DEF ReadBack, Put1
  <2>3. dirt \in Seq(Dirt) /\ FolderFormats(dirt) = ToSet(q)
    BY <1>8, <1>9, <2>1, DirtFacts
  <2>4. /\ DOMAIN y = ExporterFields /\ y.step = "cleaning" /\ y.run = x.run /\ y.snapshot = x.snapshot /\ y.options = x.options
        /\ y.summary = x.summary /\ y.meeting = x.meeting /\ y.dirt = dirt /\ y.result = "MVP_EXPORT_PUBLISHED_VALIDATE_FAILED"
    BY <1>7, <2>1 DEF Failing, ExporterFields
  <2>5. Publishing(y) /\ ~Working(y)
    BY <2>4 DEF Publishing, Working
  <2>6. ExporterOK(y)
    BY <1>2, <2>3, <2>4, <2>5 DEF ExporterOK, Steps
  <2>7. Placed(y) = ToSet(q)
    BY <2>3, <2>4 DEF Placed
  <2>8. Alike(x, y)
    BY <1>2, <1>10, <2>4, <2>5, <2>7 DEF Alike
  <2>9. Mine(y) /\ Ours(y)
    BY <1>2, <2>4, <2>8, AlikeKept
  <2>10. UNCHANGED QuietVars
    BY <1>4, <1>11 DEF QuietVars
  <2>11. Kept(c, x, y)
    BY <1>2, <1>5, <2>2, <2>4, <2>5, <2>6, <2>9, <2>10, QuietStep
  <2> QED
    BY <2>11
<1>12. CASE there # {} /\ \A f \in there : Same(f, x)
  <2>1. PICK step, y : step = (IF t = <<>> THEN "recording" ELSE "publishing") /\ y = [next EXCEPT !.step = step]
    OBVIOUS
  <2>2. exporters' = [exporters EXCEPT ![c] = y]
    BY <1>1, <1>3, <1>7, <1>12, <2>1 DEF ReadBack, Put1
  <2>3. /\ DOMAIN y = ExporterFields /\ y.step = step /\ y.run = x.run /\ y.snapshot = x.snapshot /\ y.options = x.options
        /\ y.summary = x.summary /\ y.meeting = x.meeting /\ y.todo = x.todo /\ y.staged = t /\ y.done = q /\ y.result = x.result
    BY <1>7, <2>1 DEF ExporterFields
  <2>4. Publishing(y) /\ Working(y) /\ step \in {"recording", "publishing"}
    BY <2>1, <2>3 DEF Publishing, Working
  <2>5. Line(y)
    BY <1>2, <1>8, <1>9, <2>3 DEF Line
  <2>6. ExporterOK(y)
    BY <1>2, <1>9, <2>3, <2>4, <2>5 DEF ExporterOK, Steps
  <2>7. Placed(y) = ToSet(q)
    BY <2>3, <2>4 DEF Placed
  <2>8. Alike(x, y)
    BY <1>2, <1>10, <2>3, <2>4, <2>7 DEF Alike
  <2>9. Mine(y) /\ Ours(y)
    BY <1>2, <2>3, <2>4, <2>8, AlikeKept DEF Ours
  <2>10. UNCHANGED QuietVars
    BY <1>4, <1>12 DEF QuietVars
  <2>11. Kept(c, x, y)
    BY <1>2, <1>5, <2>2, <2>3, <2>4, <2>6, <2>9, <2>10, QuietStep
  <2> QED
    BY <2>11
<1> QED
  BY <1>6, <1>11, <1>12

\* A check fails and nothing is cleaned, or the cleanup itself fails.
LEMMA GivesUpKept ==
    ASSUME FolderInv, LeftTyped, NEW c \in Clients, GivesUp(c), NEW x, x = exporters[c]
    PROVE  \E y : Kept(c, x, y)
<1>1. PICK result : /\ result = (IF x.step = "cleaning" THEN "MVP_EXPORT_CLEANUP_FAILED" ELSE "MVP_EXPORT_TARGET_UNAVAILABLE")
                    /\ result \in Uncleaned
  BY DEF Uncleaned
<1>2. PICK y : y = Answered(x, result)
  OBVIOUS
<1>3. exporters' = [exporters EXCEPT ![c] = y]
  BY <1>1, <1>2 DEF GivesUp, Put1, Stuck, AtOnce
<1>4. /\ Publishing(x) /\ UNCHANGED <<folder, staging, dirs, rows, raced, touched>> /\ orphaned' = orphaned \cup {x.snapshot}
      /\ database' = database /\ left.faults > 0 /\ left' = [left EXCEPT !.faults = @ - 1]
  BY DEF GivesUp, Publishing
<1>5. meetings' = meetings /\ left'.exports = left.exports
  BY <1>4, UsualLeft
<1>6. Kept(c, x, y)
  BY <1>1, <1>2, <1>3, <1>4, <1>5, CutShortKept
<1> QED
  BY <1>6

\* A bundle is recorded: its files are there, unless somebody disturbed the export.
LEMMA RecordKept ==
    ASSUME FolderInv, LeftTyped, NEW c \in Clients, Record(c), NEW x, x = exporters[c]
    PROVE  \E y : Kept(c, x, y)
<1>1. PICK mine, refused : /\ mine = {[name |-> Name(x, f), bytes |-> Bytes(x)] : f \in ToSet(x.done)}
                           /\ refused = (meetings[x.snapshot.meeting].state = Purged \/ mine \cap rows # {})
  OBVIOUS
<1>2. /\ ExporterOK(x) /\ Mine(x) /\ Ours(x) /\ DOMAIN x = ExporterFields /\ x.step = "recording" /\ x.done # <<>>
      /\ Publishing(x) /\ Working(x) /\ Line(x)
  BY ExporterFacts DEF Record, Publishing, Working, ExporterOK
<1>3. /\ UNCHANGED <<folder, staging, dirs, raced, touched, orphaned>> /\ UNCHANGED libraryVars
      /\ rows' = IF refused THEN rows ELSE rows \cup mine
  BY <1>1 DEF Record
<1>4. meetings' = meetings /\ left'.exports = left.exports
  BY <1>3, UsualLeft
<1>5. CASE refused
  <2>1. PICK dirt, result, y : dirt = Published(x, x.done) /\ result = "MVP_STORAGE_EXPORT_RECORD_FAILED" /\ y = Failing(x, result, dirt)
    OBVIOUS
  <2>2. exporters' = [exporters EXCEPT ![c] = y]
    BY <1>1, <1>5, <2>1 DEF Record, Put1
  <2>3. dirt \in Seq(Dirt) /\ FolderFormats(dirt) = ToSet(x.done)
    BY <1>2, <2>1, DirtFacts DEF Line
  <2>4. /\ ExporterOK(y) /\ Mine(y) /\ Ours(y) /\ y.step = "cleaning" /\ y.run = x.run /\ y.snapshot = x.snapshot
        /\ Publishing(x) /\ Publishing(y)
    <3>1. MayFail(x, result, dirt)
      BY <1>2, <2>1, <2>3 DEF MayFail
    <3> QED
      BY ONLY <2>1, <3>1, FailingKept
  <2>5. UNCHANGED QuietVars
    BY <1>3, <1>5 DEF QuietVars
  <2>6. Kept(c, x, y)
    BY <1>2, <1>4, <2>2, <2>4, <2>5, QuietStep
  <2> QED
    BY <2>6
<1>6. CASE ~refused
  <2>1. PICK y : y = [x EXCEPT !.step = "closing"]
    OBVIOUS
  <2>2. exporters' = [exporters EXCEPT ![c] = y] /\ rows' = rows \cup mine
    BY <1>1, <1>3, <1>6, <2>1 DEF Record, Put1
  <2>3. /\ DOMAIN y = ExporterFields /\ y.step = "closing" /\ y.run = x.run /\ y.snapshot = x.snapshot /\ y.options = x.options
        /\ y.meeting = x.meeting /\ y.result = x.result
    BY <1>2, <2>1 DEF ExporterFields
  <2>4. ~Publishing(y) /\ ~Working(y) /\ x.step # "idle" /\ y.step # "idle"
    BY <1>2, <2>3 DEF Publishing, Working
  <2>5. ExporterOK(y)
    BY <1>2, <2>3, <2>4 DEF ExporterOK, Steps
  <2>6. \A r \in mine : r.name.id = x.snapshot /\ \E f \in ToSet(x.done) : r.name = Name(x, f) /\ r.bytes = Bytes(x)
    BY <1>1 DEF Name
  <2>7. Gentle(x)
    BY <1>2, <1>3, <2>2, <2>6 DEF Gentle
  <2>8. Mine(y)' /\ Ours(y)'
    <3>1. Mine(y)'
      BY <2>3, <2>4 DEF Mine
    <3>2. Ours(y)'
      BY <1>2, <1>3, <2>3, <2>4 DEF Ours, Cut
    <3> QED
      BY <3>1, <3>2
  <2>9. FolderTyped'
    BY <1>3 DEF FolderInv, FolderTyped, FileOK
  <2>10. \E r \in rows' : r.name.id = x.snapshot
    <3>1. x.done[1] \in ToSet(x.done)
      BY <1>2 DEF ToSet, Line
    <3>2. [name |-> Name(x, x.done[1]), bytes |-> Bytes(x)] \in mine
      BY <1>1, <3>1
    <3> QED
      BY <2>2, <2>6, <3>2
  <2>11. GenerationsBounded' /\ FilesKnown'
    BY <1>2, <1>4, <2>2, <2>3, <2>7, <2>10, KeptFiles, KeptGenerations
  <2>12. RowsTellFiles'
    <3> SUFFICES ASSUME NEW r \in rows', Undisturbed(r.name.id)
                 PROVE  \E f \in folder : f.name = r.name /\ f.bytes = r.bytes /\ ~f.edited
      BY <1>3 DEF RowsTellFiles, Undisturbed
    <3>1. CASE r \in rows
      BY <3>1 DEF FolderInv, RowsTellFiles
    <3>2. CASE r \in mine
      <4>1. PICK k \in ToSet(x.done) : r.name = Name(x, k) /\ r.bytes = Bytes(x) /\ r.name.id = x.snapshot
        BY <2>6, <3>2
      <4>2. FileOf(x, k) \in folder
        BY <1>2, <4>1 DEF Ours, Placed
      <4>3. FileOf(x, k).name = r.name /\ FileOf(x, k).bytes = r.bytes /\ ~FileOf(x, k).edited
        BY <4>1 DEF FileOf
      <4> QED
        BY <4>2, <4>3
    <3> QED
      BY <2>2, <3>1, <3>2
  <2>13. Kept(c, x, y)
    BY <1>2, <1>4, <2>2, <2>3, <2>4, <2>5, <2>7, <2>8, <2>9, <2>11, <2>12 DEF Kept
  <2> QED
    BY <2>13
<1> QED
  BY <1>5, <1>6

\* The export answers that it is done, or that its directory stays.
LEMMA CloseKept ==
    ASSUME FolderInv, LeftTyped, NEW c \in Clients, Close(c) \/ CloseFails(c), NEW x, x = exporters[c]
    PROVE  \E y : Kept(c, x, y)
<1>1. PICK result, y : /\ result = (IF Close(c) THEN "ok" ELSE "MVP_EXPORT_TARGET_UNAVAILABLE") /\ result \in {"ok"} \cup Uncleaned
                       /\ y = Answered(x, result)
  BY DEF Uncleaned
<1>2. ExporterOK(x) /\ Mine(x) /\ Ours(x) /\ DOMAIN x = ExporterFields /\ x.step = "closing"
  BY ExporterFacts DEF Close, CloseFails
<1>3. /\ exporters' = [exporters EXCEPT ![c] = y] /\ UNCHANGED <<folder, staging, rows, raced, touched, orphaned>>
      /\ dirs' \subseteq dirs
      /\ UNCHANGED libraryVars \/ (database' = database /\ left.faults > 0 /\ left' = [left EXCEPT !.faults = @ - 1])
  <2>1. CASE Close(c)
    BY <1>1, <2>1 DEF Close, Put1
  <2>2. CASE ~Close(c)
    <3>1. CloseFails(c) /\ result = "MVP_EXPORT_TARGET_UNAVAILABLE"
      BY <1>1, <2>2
    <3> QED
      BY <1>1, <3>1 DEF CloseFails, Put1, AtOnce
  <2> QED
    BY <2>1, <2>2
<1>4. /\ DOMAIN y = ExporterFields /\ y.step = "answered" /\ y.run = x.run /\ y.snapshot = x.snapshot /\ y.options = x.options
      /\ y.meeting = x.meeting /\ y.result = result
  BY <1>1, <1>2 DEF Answered, ExporterFields
<1>5. ~Publishing(x) /\ ~Publishing(y) /\ ~Working(y)
  BY <1>2, <1>4 DEF Publishing, Working
<1>6. ExporterOK(y)
  BY <1>2, <1>4, <1>5 DEF ExporterOK, Steps
<1>7. Gentle(x)
  BY <1>3 DEF Gentle
<1>8. Mine(y)' /\ Ours(y)'
  BY <1>1, <1>4, <1>5 DEF Mine, Ours, Uncleaned
<1>9. FolderTyped'
  BY <1>3 DEF FolderInv, FolderTyped, FileOK
<1>10. meetings' = meetings /\ left'.exports = left.exports
  BY <1>3, UsualLeft
<1>11. GenerationsBounded' /\ RowsTellFiles' /\ FilesKnown'
  BY <1>2, <1>3, <1>4, <1>5, <1>7, <1>10, KeptFiles, KeptRows, KeptGenerations
<1>12. Kept(c, x, y)
  BY <1>2, <1>3, <1>4, <1>5, <1>6, <1>7, <1>8, <1>9, <1>10, <1>11 DEF Kept
<1> QED
  BY <1>12

\* The cleanup takes one file away, or stops.
LEMMA CleanupKept ==
    ASSUME FolderInv, LeftTyped, NEW c \in Clients, Cleanup(c), NEW x, x = exporters[c]
    PROVE  \E y : Kept(c, x, y)
<1>1. PICK item, target, foreign, t :
          /\ item = Head(x.dirt) /\ target = Named(Name(x, item.format)) /\ t = Tail(x.dirt)
          /\ foreign = (item.place = "folder" /\ \E f \in target : ~Same(f, x))
  OBVIOUS
<1>2. /\ ExporterOK(x) /\ Mine(x) /\ Ours(x) /\ DOMAIN x = ExporterFields /\ x.step = "cleaning" /\ x.dirt # <<>> /\ x.dirt \in Seq(Dirt)
      /\ Publishing(x)
  BY ExporterFacts DEF Cleanup, Publishing, ExporterOK
<1>3. /\ UNCHANGED <<dirs, rows, raced, touched>> /\ UNCHANGED libraryVars
      /\ folder' = (IF item.place = "folder" /\ ~foreign THEN folder \ target ELSE folder)
      /\ staging' = (IF item.place = "staging" THEN staging \ {TempOf(x, item.format, TRUE)} ELSE staging)
      /\ orphaned' = (IF foreign THEN orphaned \cup {x.snapshot} ELSE orphaned)
  BY <1>1 DEF Cleanup
<1>4. meetings' = meetings /\ left'.exports = left.exports
  BY <1>3, UsualLeft
<1>5. /\ item \in Dirt /\ t \in Seq(Dirt)
      /\ FolderFormats(x.dirt) = FolderFormats(t) \cup (IF item.place = "folder" THEN {item.format} ELSE {})
  BY <1>1, <1>2, TakeDirt
<1>6. CASE foreign
  <2>1. PICK y : y = Answered(x, "MVP_EXPORT_CLEANUP_FAILED")
    OBVIOUS
  <2>2. exporters' = [exporters EXCEPT ![c] = y]
    BY <1>1, <1>6, <2>1 DEF Cleanup, Put1, Stuck
  <2>3. UNCHANGED <<folder, staging, dirs, rows, raced, touched>> /\ orphaned' = orphaned \cup {x.snapshot}
    BY <1>1, <1>3, <1>6
  <2>4. Kept(c, x, y)
    BY <1>2, <1>4, <2>1, <2>2, <2>3, CutShortKept DEF Uncleaned
  <2> QED
    BY <2>4
<1>7. CASE ~foreign
  <2>1. PICK y : y = [x EXCEPT !.dirt = t]
    OBVIOUS
  <2>2. exporters' = [exporters EXCEPT ![c] = y]
    <3>1. y = [x EXCEPT !.dirt = Tail(@)]
      BY <1>1, <1>2, <2>1 DEF ExporterFields
    <3> QED
      BY <1>1, <1>7, <3>1 DEF Cleanup, Put1
  <2>3. /\ DOMAIN y = ExporterFields /\ y.step = "cleaning" /\ y.run = x.run /\ y.snapshot = x.snapshot /\ y.options = x.options
        /\ y.meeting = x.meeting /\ y.result = x.result /\ y.dirt = t
    BY <1>2, <2>1 DEF ExporterFields
  <2>4. Publishing(y) /\ ~Working(y) /\ x.step # "idle" /\ y.step # "idle"
    BY <1>2, <2>3 DEF Publishing, Working
  <2>5. ExporterOK(y)
    BY <1>2, <1>5, <2>3, <2>4 DEF ExporterOK, Steps
  <2>6. Placed(x) = Placed(y) \cup (IF item.place = "folder" THEN {item.format} ELSE {})
    BY <1>2, <1>5, <2>3 DEF Placed
  <2>7. folder' \subseteq folder /\ staging' \subseteq staging /\ orphaned' = orphaned
    BY <1>3, <1>7
  <2>8. \A f \in folder \ folder' : f.name.id = x.snapshot
    BY <1>1, <1>3 DEF Named, Name
  <2>9. ASSUME NEW f \in folder', f.name.id = x.snapshot, f.name.format \in Placed(x) PROVE f.name.format \in Placed(y)
    <3>1. f \in folder /\ f.name = [id |-> f.name.id, format |-> f.name.format]
      BY <2>7 DEF FolderInv, FolderTyped, FileOK
    <3>2. f.name.format = item.format => f \in target
      BY <1>1, <2>9, <3>1 DEF Named, Name
    <3>3. item.place = "folder" => f \notin target
      BY <1>3, <1>7
    <3> QED
      BY <2>6, <2>9, <3>2, <3>3
  <2>10. Gentle(x)
    BY <1>2, <1>3, <2>7, <2>8 DEF Gentle
  <2>11. Mine(y)'
    BY <1>2, <2>3, <2>4, <2>7, <2>9 DEF Mine
  <2>12. Ours(y)'
    <3>1. Publishing(y) /\ y.snapshot \notin Cut' => \A f \in folder' : f.name.id = y.snapshot => f.name.format \in Placed(y)
      BY <1>2, <1>3, <2>3, <2>7, <2>9 DEF Ours, Cut
    <3>2. Publishing(y) /\ Undisturbed(y.snapshot)' => \A r \in rows' : r.name.id # y.snapshot
      BY <1>2, <1>3, <2>3 DEF Ours, Undisturbed
    <3>3. y.result = "MVP_EXPORT_TARGET_EXISTS" => y.snapshot \in Cut'
      BY <1>2, <1>3, <2>3, <2>7 DEF Ours, Cut
    <3> QED
      BY <2>3, <2>4, <3>1, <3>2, <3>3 DEF Ours
  <2>13. FolderTyped'
    BY <1>3, <2>7 DEF FolderInv, FolderTyped, FileOK
  <2>14. GenerationsBounded' /\ RowsTellFiles' /\ FilesKnown'
    BY <1>2, <1>3, <1>4, <2>2, <2>3, <2>4, <2>10, KeptFiles, KeptRows, KeptGenerations
  <2>15. Kept(c, x, y)
    BY <1>2, <1>4, <2>2, <2>3, <2>4, <2>5, <2>10, <2>11, <2>12, <2>13, <2>14 DEF Kept
  <2> QED
    BY <2>15
<1> QED
  BY <1>6, <1>7

\* The cleanup is over: nothing of the export is left, or its directory is stuck.
LEMMA CleanupEndsKept ==
    ASSUME FolderInv, LeftTyped, NEW c \in Clients, CleanupEnds(c), NEW x, x = exporters[c]
    PROVE  \E y : Kept(c, x, y)
<1>1. PICK empty : empty = (\A f \in staging : f.run # x.run)
  OBVIOUS
<1>2. /\ ExporterOK(x) /\ Mine(x) /\ Ours(x) /\ DOMAIN x = ExporterFields /\ x.step = "cleaning" /\ x.dirt = <<>> /\ Publishing(x)
  BY ExporterFacts DEF CleanupEnds, Publishing
<1>3. /\ UNCHANGED <<folder, staging, rows, raced, touched>> /\ UNCHANGED libraryVars
      /\ dirs' = (IF empty THEN dirs \ {x.run} ELSE dirs) /\ orphaned' = (IF empty THEN orphaned ELSE orphaned \cup {x.snapshot})
  BY <1>1 DEF CleanupEnds
<1>4. meetings' = meetings /\ left'.exports = left.exports
  BY <1>3, UsualLeft
<1>5. Placed(x) = {}
  BY <1>2 DEF Placed, FolderFormats, ToSet
<1>6. CASE ~empty
  <2>1. PICK y : y = Answered(x, "MVP_EXPORT_CLEANUP_FAILED")
    OBVIOUS
  <2>2. exporters' = [exporters EXCEPT ![c] = y]
    BY <1>1, <1>6, <2>1 DEF CleanupEnds, Put1, Stuck
  <2>3. UNCHANGED <<folder, staging, dirs, rows, raced, touched>> /\ orphaned' = orphaned \cup {x.snapshot}
    BY <1>3, <1>6
  <2>4. Kept(c, x, y)
    BY <1>2, <1>4, <2>1, <2>2, <2>3, CutShortKept DEF Uncleaned
  <2> QED
    BY <2>4
<1>7. CASE empty
  <2>1. PICK y : y = Answered(x, x.result)
    OBVIOUS
  <2>2. exporters' = [exporters EXCEPT ![c] = y] /\ dirs' = dirs \ {x.run} /\ orphaned' = orphaned
    BY <1>1, <1>3, <1>7, <2>1 DEF CleanupEnds, Put1
  <2>3. /\ DOMAIN y = ExporterFields /\ y.step = "answered" /\ y.run = x.run /\ y.snapshot = x.snapshot /\ y.options = x.options
        /\ y.meeting = x.meeting /\ y.result = x.result
    BY <1>2, <2>1 DEF Answered, ExporterFields
  <2>4. ~Publishing(y) /\ ~Working(y) /\ x.step # "idle" /\ y.step # "idle"
    BY <1>2, <2>3 DEF Publishing, Working
  <2>5. ExporterOK(y)
    BY <1>2, <2>3, <2>4 DEF ExporterOK, Steps
  <2>6. Gentle(x)
    BY <1>3, <2>2 DEF Gentle
  <2>7. Unseen(x.run)'
    BY <1>1, <1>2, <1>3, <1>5, <1>7, <2>2 DEF Mine, Unseen
  <2>8. Mine(y)' /\ Ours(y)'
    <3>1. Mine(y)'
      BY <2>3, <2>4, <2>7 DEF Mine
    <3>2. Ours(y)'
      BY <1>2, <1>3, <2>2, <2>3, <2>4 DEF Ours, Cut
    <3> QED
      BY <3>1, <3>2
  <2>9. FolderTyped'
    BY <1>3, <2>2 DEF FolderInv, FolderTyped, FileOK
  <2>10. x.snapshot \in Cut' \/ \A f \in folder' : f.name.id # x.snapshot
    BY <1>2, <1>3, <1>5, <2>2 DEF Ours, Cut
  <2>11. GenerationsBounded' /\ RowsTellFiles' /\ FilesKnown'
    BY <1>2, <1>3, <1>4, <2>2, <2>3, <2>6, <2>10, KeptFiles, KeptRows, KeptGenerations
  <2>12. Kept(c, x, y)
    BY <1>2, <1>4, <2>2, <2>3, <2>4, <2>5, <2>6, <2>8, <2>9, <2>11 DEF Kept
  <2> QED
    BY <2>12
<1> QED
  BY <1>6, <1>7

-----------------------------------------------------------------------------
(* Every step.                                                              *)

\* An export takes a step.
LEMMA ExportsKeepFolder ==
    ASSUME FolderInv, LeftTyped, Exports
    PROVE  FolderInv'
<1>1. ASSUME NEW c \in Clients, \E y : Kept(c, exporters[c], y)
      PROVE  FolderInv'
  <2>1. PICK x, y : x = exporters[c] /\ Kept(c, x, y)
    BY <1>1
  <2> QED
    BY <2>1, OneStep
<1>2. ASSUME NEW c \in Clients, NEW m \in ExportedMeetings, NEW options \in AskedOptions, Ask(c, m, options)
      PROVE  FolderInv'
  BY <1>1, <1>2, AskKept
<1>3. ASSUME NEW c \in Clients, NEW unfinished \in BOOLEAN,
             ChooseSummary(c, unfinished) \/ ReadSnapshot(c) \/ StagedAll(c) \/ CheckTarget(c)
      PROVE  FolderInv'
  BY <1>1, <1>3, ChooseSummaryKept, ReadSnapshotKept, StagedAllKept, CheckTargetKept
<1>4. ASSUME NEW c \in Clients, StageFile(c) \/ Rename(c) \/ RenameFails(c) \/ RecordFails(c) \/ ReadBack(c) \/ GivesUp(c)
      PROVE  FolderInv'
  BY <1>1, <1>4, StageFileKept, RenameKept, FailsKept, ReadBackKept, GivesUpKept
<1>5. ASSUME NEW c \in Clients, NEW created \in BOOLEAN, StageFails(c, created)
      PROVE  FolderInv'
  BY <1>1, <1>5, StageFailsKept
<1>6. ASSUME NEW c \in Clients, Record(c) \/ Close(c) \/ CloseFails(c) \/ Cleanup(c) \/ CleanupEnds(c)
      PROVE  FolderInv'
  BY <1>1, <1>6, RecordKept, CloseKept, CleanupKept, CleanupEndsKept
<1> QED
  BY <1>2, <1>3, <1>4, <1>5, <1>6, Zenon DEF Exports

\* The user edits or removes a file: its snapshot is known for it.
LEMMA MeddleKeepsFolder ==
    ASSUME FolderInv, LeftTyped, NEW f \in folder, NEW removed \in BOOLEAN, Meddle(f, removed)
    PROVE  FolderInv'
<1>1. PICK new : new = [f EXCEPT !.edited = TRUE]
  OBVIOUS
<1>2. /\ FileOK(f) /\ FileOK(new) /\ new.name = f.name /\ new.run = f.run
  <2>1. FileOK(f)
    BY DEF FolderInv, FolderTyped
  <2> QED
    BY <1>1, <2>1 DEF FileOK
<1>3. /\ UNCHANGED <<exporters, staging, dirs, rows, raced, orphaned>> /\ meetings' = meetings
      /\ touched' = touched \cup {f.name.id} /\ folder' \subseteq (folder \ {f}) \cup {new} /\ folder \ {f} \subseteq folder'
  BY <1>1 DEF Meddle, database
<1>4. left'.exports = left.exports
  BY UsualLeft DEF Meddle
<1>5. Cut \subseteq Cut' /\ (\A s : Undisturbed(s)' => Undisturbed(s) /\ s # f.name.id)
  BY <1>3 DEF Cut, Undisturbed
<1>6. \A g \in folder' : \E old \in folder : old.name = g.name /\ old.run = g.run
  BY <1>2, <1>3
<1>7. FolderTyped'
  BY <1>2, <1>3 DEF FolderInv, FolderTyped, FileOK
<1>8. RunsApart'
  <2>1. \A g \in folder' : g.run > left.exports
    BY <1>6 DEF FolderInv, RunsApart
  <2> QED
    BY <1>3, <1>4, <2>1 DEF FolderInv, RunsApart
<1>9. ExportersTyped' /\ RacesKnown' /\ GenerationsBounded'
  BY <1>3 DEF FolderInv, ExportersTyped, ExporterOK, RacesKnown, GenerationsBounded
<1>10. ASSUME NEW c \in Clients, NEW z, z = exporters[c] PROVE Mine(z)' /\ Ours(z)'
  <2>1. Mine(z) /\ Ours(z)
    BY <1>10 DEF FolderInv
  <2>2. Unseen(z.run) => Unseen(z.run)'
    BY <1>3, <1>6 DEF Unseen
  <2>3. Mine(z)'
    <3>1. Publishing(z) => \A g \in folder' : g.run = z.run => g.name.id = z.snapshot /\ g.name.format \in Placed(z)
      BY <1>6, <2>1 DEF Mine
    <3> QED
      BY <1>5, <2>1, <2>2, <3>1 DEF Mine
  <2>4. z.step = "checked" /\ z.snapshot \notin raced' => (Named(Name(z, Head(z.staged))) = {})'
    BY <1>3, <1>6, <2>1 DEF Ours, Named
  <2>5. Publishing(z) /\ z.snapshot \notin Cut' => \A g \in folder' : g.name.id = z.snapshot => g.name.format \in Placed(z)
    BY <1>5, <1>6, <2>1 DEF Ours
  <2>6. Publishing(z) /\ Undisturbed(z.snapshot)' => \A r \in rows' : r.name.id # z.snapshot
    BY <1>3, <1>5, <2>1 DEF Ours
  <2>7. Working(z) /\ Undisturbed(z.snapshot)' => \A format \in Placed(z) : FileOf(z, format) \in folder'
    <3>1. \A format : FileOf(z, format).name.id = z.snapshot
      BY DEF FileOf, Name
    <3> QED
      BY <1>3, <1>5, <2>1, <3>1 DEF Ours
  <2>8. z.result = "MVP_EXPORT_TARGET_EXISTS" => z.snapshot \in Cut'
    BY <1>5, <2>1 DEF Ours
  <2> QED
    BY <2>3, <2>4, <2>5, <2>6, <2>7, <2>8 DEF Ours
<1>11. RowsTellFiles'
  <2> SUFFICES ASSUME NEW r \in rows, Undisturbed(r.name.id)'
               PROVE  \E g \in folder' : g.name = r.name /\ g.bytes = r.bytes /\ ~g.edited
    BY <1>3 DEF RowsTellFiles
  <2>1. PICK g \in folder : g.name = r.name /\ g.bytes = r.bytes /\ ~g.edited
    BY <1>5 DEF FolderInv, RowsTellFiles
  <2>2. g # f
    BY <1>5, <2>1
  <2> QED
    BY <1>3, <2>1, <2>2
<1>12. FilesKnown'
  BY <1>3, <1>5, <1>6 DEF FolderInv, FilesKnown, Publishing
<1>13. \A c \in Clients : Mine(exporters[c])' /\ Ours(exporters[c])'
  <2> SUFFICES ASSUME NEW c \in Clients PROVE Mine(exporters[c])' /\ Ours(exporters[c])'
    OBVIOUS
  <2>1. PICK z : z = exporters[c]
    OBVIOUS
  <2>2. Mine(z)' /\ Ours(z)' /\ exporters'[c] = z
    BY <1>3, <1>10, <2>1
  <2> QED
    BY <2>2
<1> QED
  BY <1>7, <1>8, <1>9, <1>11, <1>12, <1>13 DEF FolderInv

\* A thread that runs no export has nothing to keep.
LEMMA BlankFacts ==
    /\ ExporterOK(Blank) /\ Blank.step = "idle" /\ Blank.snapshot.generation = 0 /\ Mine(Blank) /\ Ours(Blank)
    /\ ~Publishing(Blank)
<1>1. /\ DOMAIN Blank = ExporterFields /\ Blank.step = "idle" /\ Blank.run = 0 /\ Blank.options = Legacy /\ Blank.snapshot = NoSnapshot
      /\ Blank.staged = <<>> /\ Blank.done = <<>> /\ Blank.result = ""
  BY Zenon DEF Blank, ExporterFields
<1>2. NoSnapshot.generation = 0
  BY Zenon DEF NoSnapshot
<1>3. ~Publishing(Blank) /\ ~Working(Blank)
  BY <1>1 DEF Publishing, Working
<1>4. PICK x : x = Blank
  OBVIOUS
<1>7. /\ DOMAIN x = ExporterFields /\ x.step = "idle" /\ x.run = 0 /\ x.options = Legacy
      /\ x.staged = <<>> /\ x.done = <<>> /\ x.result = "" /\ ~Publishing(x) /\ ~Working(x)
  BY <1>1, <1>3, <1>4, Zenon
<1>8. x.step \in Steps /\ x.run \in Nat /\ x.options \in AskedOptions \cup {Legacy}
  <2>1. x.step \in Steps
    BY ONLY <1>7 DEF Steps
  <2>2. x.run \in Nat
    <3>1. 0 \in Nat
      OBVIOUS
    <3> QED
      BY ONLY <1>7, <3>1, Zenon
  <2>3. x.options \in AskedOptions \cup {Legacy}
    BY ONLY <1>7
  <2> QED
    BY <2>1, <2>2, <2>3
<1>5. ExporterOK(x)
  BY ONLY <1>7, <1>8 DEF ExporterOK
<1>6. Mine(x) /\ Ours(x)
  BY <1>1, <1>3, <1>4 DEF Mine, Ours
<1> QED
  BY <1>1, <1>2, <1>3, <1>4, <1>5, <1>6

\* The process ends: every export that goes on is cut short.
LEMMA CrashKeepsFolder ==
    ASSUME FolderInv, LeftTyped, CrashAll
    PROVE  FolderInv'
<1>1. /\ UNCHANGED <<folder, staging, dirs, rows, raced, touched>> /\ meetings' = meetings
      /\ left'.exports = left.exports /\ exporters' = [c \in Clients |-> Blank] /\ orphaned \subseteq orphaned'
  BY LeftFacts DEF CrashAll, Crash, LeftGoesOn
<1>2. \A c \in Clients : Publishing(exporters[c]) => exporters[c].snapshot \in orphaned'
  BY DEF CrashAll
<1>3. \A c \in Clients : exporters'[c] = Blank
  BY <1>1
<1>4. ExportersTyped'
  BY <1>1, <1>3, BlankFacts DEF ExportersTyped
<1>5. FolderTyped' /\ RowsTellFiles'
  BY <1>1 DEF FolderInv, FolderTyped, FileOK, RowsTellFiles, Undisturbed
<1>6. RunsApart' /\ RacesKnown'
  BY <1>1, <1>3, BlankFacts DEF FolderInv, RunsApart, RacesKnown, Publishing
<1>7. GenerationsBounded'
  BY <1>1, <1>3, BlankFacts DEF FolderInv, GenerationsBounded
<1>8. Mine(Blank)' /\ Ours(Blank)'
  <2>1. /\ Blank.step = "idle" /\ Blank.result # "MVP_EXPORT_TARGET_EXISTS"
    BY Zenon DEF Blank
  <2> QED
    BY <2>1 DEF Mine, Ours, Publishing, Working
<1>9. \A c \in Clients : Mine(exporters[c])' /\ Ours(exporters[c])'
  BY <1>3, <1>8
<1>10. FilesKnown'
  BY <1>1, <1>2 DEF FolderInv, FilesKnown, Cut
<1> QED
  BY <1>4, <1>5, <1>6, <1>7, <1>9, <1>10 DEF FolderInv

\* The library changes: a purge takes the rows of its meeting, and leaves the files.
LEMMA LibraryKeepsFolder ==
    ASSUME FolderInv, LeftTyped, MeetingsTyped, LibraryStep
    PROVE  FolderInv'
<1>1. /\ UNCHANGED <<exporters, folder, staging, dirs, raced, touched, orphaned>>
      /\ rows' = {r \in rows : meetings'[r.name.id.meeting].state # Purged}
  BY DEF LibraryStep
<1>2. MeetingsGoOn /\ left'.exports = left.exports
  BY LibraryGoesOn DEF LibraryStep, LeftGoesOn
<1>3. ExportersTyped' /\ FolderTyped' /\ RacesKnown'
  BY <1>1 DEF FolderInv, ExportersTyped, ExporterOK, FolderTyped, FileOK, RacesKnown
<1>4. RunsApart' /\ GenerationsBounded' /\ RowsTellFiles'
  BY <1>1, <1>2 DEF FolderInv, RunsApart, GenerationsBounded, RowsTellFiles, Undisturbed
<1>5. ASSUME NEW z, Mine(z), Ours(z) PROVE Mine(z)' /\ Ours(z)'
  <2>1. Mine(z)'
    BY <1>1, <1>5 DEF Mine, Unseen, Undisturbed
  <2>2. Ours(z)'
    BY <1>1, <1>5 DEF Ours, Undisturbed, Cut, Named
  <2> QED
    BY <2>1, <2>2
<1>6. \A c \in Clients : Mine(exporters[c])' /\ Ours(exporters[c])'
  <2> SUFFICES ASSUME NEW c \in Clients PROVE Mine(exporters[c])' /\ Ours(exporters[c])'
    OBVIOUS
  <2>1. PICK z : z = exporters[c]
    OBVIOUS
  <2>2. Mine(z)' /\ Ours(z)' /\ exporters'[c] = z
    BY <1>1, <1>5, <2>1 DEF FolderInv
  <2> QED
    BY <2>2
<1>7. FilesKnown'
  <2> SUFFICES ASSUME NEW f \in folder, f.name.id \notin Cut, meetings'[f.name.id.meeting].state # Purged,
                      ~\E c \in Clients : Publishing(exporters[c]) /\ exporters[c].snapshot = f.name.id
               PROVE  \E r \in rows' : r.name.id = f.name.id
    BY <1>1 DEF FilesKnown, Cut, Publishing
  <2>1. f.name.id.meeting \in Ids
    BY DEF FolderInv, FolderTyped, FileOK
  <2>2. meetings[f.name.id.meeting].state # Purged
    BY <1>2, <2>1 DEF MeetingsGoOn
  <2>3. PICK r \in rows : r.name.id = f.name.id
    BY <2>2 DEF FolderInv, FilesKnown
  <2> QED
    BY <1>1, <2>3
<1> QED
  BY <1>3, <1>4, <1>6, <1>7 DEF FolderInv

\* At the start there is nothing in the folder.
LEMMA FolderStarts ==
    ASSUME Init
    PROVE  FolderInv
<1>1. exporters = [c \in Clients |-> Blank] /\ folder = {} /\ staging = {} /\ dirs = {} /\ rows = {}
  BY Zenon DEF Init
<1>2. \A c \in Clients : exporters[c] = Blank
  BY <1>1
<1>3. ExportersTyped /\ (\A c \in Clients : Mine(exporters[c]) /\ Ours(exporters[c]))
  BY <1>1, <1>2, BlankFacts DEF ExportersTyped
<1>4. FolderTyped /\ RowsTellFiles /\ FilesKnown
  BY <1>1 DEF FolderTyped, RowsTellFiles, FilesKnown
<1>5. RunsApart /\ RacesKnown
  BY <1>1, <1>2, BlankFacts DEF RunsApart, RacesKnown
<1>6. GenerationsBounded
  <2>1. 0 \in Nat /\ 0 \in 0..0
    OBVIOUS
  <2> QED
    BY <1>1, <1>2, <2>1, BlankFacts DEF GenerationsBounded
<1> QED
  BY <1>3, <1>4, <1>5, <1>6 DEF FolderInv

\* What an export has left, the rows and the files agree.
LEMMA FolderInvAgrees ==
    ASSUME FolderInv
    PROVE  FolderAgrees
<1>1. FailedExportLeavesNothing
  BY DEF FolderInv, Mine, Unseen, FailedExportLeavesNothing
<1>2. TakenOnlyByOrphans
  BY DEF FolderInv, Ours, Cut, TakenOnlyByOrphans
<1> QED
  BY <1>1, <1>2 DEF FolderInv, FolderAgrees

\* Nothing happens.
LEMMA StutterKeepsFolder ==
    ASSUME FolderInv, UNCHANGED vars
    PROVE  FolderInv'
<1>1. UNCHANGED <<exporters, folder, staging, dirs, rows, raced, touched, orphaned, meetings, left>>
  BY DEF vars, exportVars, libraryVars
<1>2. ExportersTyped' /\ FolderTyped' /\ RacesKnown'
  BY <1>1 DEF FolderInv, ExportersTyped, ExporterOK, FolderTyped, FileOK, RacesKnown
<1>3. RunsApart' /\ GenerationsBounded' /\ RowsTellFiles' /\ FilesKnown'
  BY <1>1 DEF FolderInv, RunsApart, GenerationsBounded, RowsTellFiles, Undisturbed, FilesKnown, Cut, Publishing
<1>4. ASSUME NEW z, Mine(z), Ours(z) PROVE Mine(z)' /\ Ours(z)'
  <2>1. Mine(z)'
    BY <1>1, <1>4 DEF Mine, Unseen, Undisturbed
  <2>2. Ours(z)'
    BY <1>1, <1>4 DEF Ours, Undisturbed, Cut, Named
  <2> QED
    BY <2>1, <2>2
<1>5. \A c \in Clients : Mine(exporters[c])' /\ Ours(exporters[c])'
  <2> SUFFICES ASSUME NEW c \in Clients PROVE Mine(exporters[c])' /\ Ours(exporters[c])'
    OBVIOUS
  <2>1. PICK z : z = exporters[c]
    OBVIOUS
  <2>2. Mine(z)' /\ Ours(z)' /\ exporters'[c] = z
    BY <1>1, <1>4, <2>1 DEF FolderInv
  <2> QED
    BY <2>2
<1> QED
  BY <1>2, <1>3, <1>5 DEF FolderInv

\* The bundle of a file that the user edited is never at work on it: a name is checked before it is
\* taken, and the cleanup compares the bytes.
LEMMA StepsKeepEdited ==
    ASSUME FolderInv, [Next]_vars, NEW f \in folder, f.edited, f.name.id \notin raced
    PROVE  f \in folder'
<1>1. ASSUME folder' = folder PROVE f \in folder'
  BY <1>1
<1>2. CASE LibraryStep \/ CrashAll \/ UNCHANGED vars
  BY <1>1, <1>2 DEF LibraryStep, CrashAll, vars, exportVars
<1>3. CASE \E g \in folder, removed \in BOOLEAN : Meddle(g, removed)
  BY <1>3 DEF Meddle
<1>4. ASSUME NEW c \in Clients, Rename(c) PROVE f \in folder'
  <2>1. PICK x : x = exporters[c]
    OBVIOUS
  <2>2. folder' = (folder \ Named(Name(x, Head(x.staged)))) \cup {FileOf(x, Head(x.staged))} /\ x.step = "checked"
    BY <1>4, <2>1 DEF Rename
  <2>3. x.snapshot \notin raced => Named(Name(x, Head(x.staged))) = {}
    BY <2>1, <2>2 DEF FolderInv, Ours
  <2>4. f \in Named(Name(x, Head(x.staged))) => f.name.id = x.snapshot
    BY DEF Named, Name
  <2> QED
    BY <2>2, <2>3, <2>4
<1>5. ASSUME NEW c \in Clients, Cleanup(c) PROVE f \in folder'
  <2>1. PICK x, item, target : x = exporters[c] /\ item = Head(x.dirt) /\ target = Named(Name(x, item.format))
    OBVIOUS
  <2>2. folder' = folder \/ (folder' = folder \ target /\ \A g \in target : Same(g, x))
    BY <1>5, <2>1 DEF Cleanup
  <2> QED
    BY <2>2 DEF Same
<1>6. ASSUME NEW c \in Clients, NEW m, NEW options, NEW created,
             \/ Ask(c, m, options) \/ ChooseSummary(c, created) \/ ReadSnapshot(c) \/ StageFile(c) \/ StageFails(c, created) \/ StagedAll(c)
             \/ CheckTarget(c) \/ RenameFails(c) \/ ReadBack(c) \/ Record(c) \/ RecordFails(c) \/ Close(c) \/ CleanupEnds(c)
             \/ GivesUp(c) \/ CloseFails(c)
      PROVE  f \in folder'
  BY <1>1, <1>6 DEF Ask, ChooseSummary, ReadSnapshot, StageFile, StageFails, StagedAll, CheckTarget, RenameFails, ReadBack, Record,
     RecordFails, Close, CleanupEnds, GivesUp, CloseFails
<1>7. CASE Exports
  BY <1>4, <1>5, <1>6, <1>7, Zenon DEF Exports
<1> QED
  BY <1>2, <1>3, <1>7 DEF Next

BundleInv == DatabaseInv /\ FolderInv

\* The database stays whole and the folder keeps its invariant, through every step.
LEMMA BundleInvHolds == Spec => []BundleInv
<1>1. Init => BundleInv
  BY LibraryStartsWhole, FolderStarts DEF Init, BundleInv
<1>2. BundleInv /\ [Next]_vars => BundleInv'
  <2> SUFFICES ASSUME DatabaseInv, FolderInv, [Next]_vars PROVE BundleInv'
    BY DEF BundleInv
  <2>1. DatabaseInv'
    BY StepsKeepDatabase
  <2>2. LeftTyped /\ MeetingsTyped
    BY DEF DatabaseInv
  <2>3. FolderInv'
    BY <2>2, LibraryKeepsFolder, CrashKeepsFolder, ExportsKeepFolder, MeddleKeepsFolder, StutterKeepsFolder DEF Next
  <2> QED
    BY <2>1, <2>3 DEF BundleInv
<1> QED
  BY <1>1, <1>2, PTL DEF Spec

\* The records of exports and the exports folder tell the same, after success, failure and crash: a
\* recorded bundle has its files, a failed one has cleaned up (unless the cleanup itself failed, or a check that
\* cleans nothing gave up), and a name is taken only when an export
\* of that snapshot was cut short or met another one (export.rs: publish, cleanup, record_export_snapshot).
THEOREM FolderTellsTheSame == Spec => []FolderAgrees
<1>1. BundleInv => FolderAgrees
  BY FolderInvAgrees DEF BundleInv
<1> QED
  BY <1>1, BundleInvHolds, PTL

\* A file the user has edited is neither removed nor replaced by an export, whatever fails and whenever
\* the process ends, unless two exports of its snapshot ran at the same time (export.rs: cleanup_file,
\* publish_staged_exports).
THEOREM EditsStay == Spec => EditedFilesKept
<1>1. BundleInv /\ [Next]_vars => [\A f \in folder : f.edited /\ f.name.id \notin raced => f \in folder']_vars
  BY StepsKeepEdited DEF BundleInv
<1> QED
  BY <1>1, BundleInvHolds, PTL DEF Spec, EditedFilesKept

==============================================================================
