--------------------------- MODULE ExportProjection ---------------------------
(***************************************************************************)
(* What the files of mvp/export.rs say.  A file is the set of facts a       *)
(* reader finds in it; layout, escapes and headings are left out.  Each     *)
(* renderer of the source is one operator of the snapshot of a meeting, the *)
(* options of the export and the summary chosen for it.                     *)
(***************************************************************************)
EXTENDS SearchIndex

FormatNames == {"json", "markdown", "txt", "docx", "pdf"}

(* version 0 is none *)
Legacy ==
    [formats |-> <<"json", "markdown", "txt">>, original |-> TRUE, translation |-> TRUE, bilingual |-> TRUE,
     speaker |-> FALSE, summary |-> FALSE, timestamp |-> TRUE, speakerVersion |-> 0, summaryVersion |-> 0]

IsLegacy(options) == options = Legacy

NoSummary == [version |-> 0, sections |-> {}]

Fact(what, at, text) == [what |-> what, at |-> at, text |-> text]

Originals(s) == {Fact("original", k, s.finals[k]) : k \in DOMAIN s.finals}
Translations(s) ==
    {Fact("translation", k, s.translated[k]) : k \in {k \in DOMAIN s.finals : s.translated[k] \in Texts}}

(* The lines of a transcript: a translation is shown if it, or both         *)
(* languages, are asked for.                                                *)
Lines(options, s) ==
    (IF options.original THEN Originals(s) ELSE {}) \cup
    (IF options.translation \/ options.bilingual THEN Translations(s) ELSE {})

(* The segments with a line; with nothing but speakers, all of them *)
LineSegments(options, s) ==
    IF options.speaker /\ ~options.original /\ ~options.translation /\ ~options.bilingual
    THEN DOMAIN s.finals ELSE {fact.at : fact \in Lines(options, s)}

(* Time and speaker precede what is said of a segment. *)
SegmentHeads(options, s, segments) ==
    (IF options.timestamp THEN {Fact("time", k, "") : k \in segments} ELSE {}) \cup
    (IF options.speaker THEN {Fact("speaker", k, s.label) : k \in segments} ELSE {})

(* Sections with their citations; what is asked for and not there is said.  A *)
(* completed summary has an overview at least (parse_and_validate_summary), so *)
(* that no section means no summary.                                          *)
SummaryFacts(summary) ==
    IF summary.sections = {} THEN {Fact("summary missing", 0, "")}
    ELSE UNION {{Fact("summary", x.kind, x.text),
                 IF x.at = 0 THEN Fact("unlinked", x.kind, x.text) ELSE Fact("citation", x.at, x.text)} : x \in summary.sections}

SpeakerSection(s) == {Fact("speaker version", s.version, ""), Fact("identity", 0, s.label)}

JsonFacts(options, s, summary) ==
    {Fact("count", Len(s.finals), ""), Fact("digest", 0, "")} \cup
    Lines(options, s) \cup SegmentHeads(options, s, DOMAIN s.finals) \cup
    (IF options.speaker THEN {Fact("speaker version", s.version, "")} ELSE {}) \cup
    (IF options.summary THEN SummaryFacts(summary) \cup {Fact("summary version", summary.version, "")} ELSE {})

MarkdownFacts(options, s, summary) ==
    {Fact("count", Len(s.finals), "")} \cup
    (IF options.summary THEN SummaryFacts(summary) ELSE {}) \cup
    (IF options.speaker THEN SpeakerSection(s) ELSE {}) \cup
    Lines(options, s) \cup SegmentHeads(options, s, LineSegments(options, s))

(* Fault: a bilingual text leaves out what only "bilingual" asks for. *)
TxtFactsOfTranslation(options, s, summary) ==
    MarkdownFacts([options EXCEPT !.bilingual = FALSE], s, summary)

(* The same as Markdown, in plain text *)
TxtFacts(options, s, summary) == MarkdownFacts(options, s, summary)

(* The document that docx and pdf are made of: without the count *)
DocumentFacts(options, s, summary) ==
    MarkdownFacts(options, s, summary) \ {Fact("count", Len(s.finals), "")}

(* The renderers of the three formats of the first release *)
LegacyJsonFacts(s) ==
    {Fact("count", Len(s.finals), ""), Fact("digest", 0, "")} \cup Originals(s) \cup Translations(s) \cup
    {Fact("time", k, "") : k \in DOMAIN s.finals}
LegacyMarkdownFacts(s) ==
    {Fact("count", Len(s.finals), "")} \cup Originals(s) \cup Translations(s) \cup {Fact("time", k, "") : k \in DOMAIN s.finals}
LegacyTxtFacts(s) == LegacyMarkdownFacts(s)

(* transcript_text: no times, for the clipboard *)
ClipboardFacts(s) == {Fact("count", Len(s.finals), "")} \cup Originals(s) \cup Translations(s)

(* render_exports *)
Facts(format, options, s, summary) ==
    IF IsLegacy(options)
    THEN CASE format = "json" -> LegacyJsonFacts(s)
           [] format = "markdown" -> LegacyMarkdownFacts(s)
           [] format = "txt" -> LegacyTxtFacts(s)
    ELSE CASE format = "json" -> JsonFacts(options, s, summary)
           [] format = "markdown" -> MarkdownFacts(options, s, summary)
           [] format = "txt" -> TxtFacts(options, s, summary)
           [] format \in {"docx", "pdf"} -> DocumentFacts(options, s, summary)

(* projection_id, written in every file *)
Projection(options) ==
    IF IsLegacy(options) THEN {"legacy"}
    ELSE {part \in {"original", "translation", "bilingual", "speaker", "summary", "timestamp"} : options[part]}

(* validate_export_options *)
ValidOptions(options) ==
    /\ options.formats \in Seq(FormatNames) /\ options.formats # <<>> /\ IsInjective(options.formats)
    /\ options.original \/ options.translation \/ options.summary \/ options.speaker

=============================================================================
