--------------------------- MODULE SummaryContent ---------------------------
(***************************************************************************)
(* What a summary is made from and what it is made into (mvp/summary.rs,   *)
(* the helpers of finish_summary_run in mvp/service.rs and the rows of     *)
(* mvp/storage.rs): how a transcript is cut into chunks, which answers of  *)
(* the provider are accepted, the rows an accepted answer is stored as,    *)
(* and the two ways a result is shown.                                     *)
(*                                                                         *)
(* A segment is [id, at, chars]: `at` stands for its sequence and its      *)
(* range of samples.  A citation is [unlinked, meeting, segment, at].  An  *)
(* answer gives each kind of item the citations of its items; the texts    *)
(* of the items are left out.                                              *)
(***************************************************************************)
EXTENDS Naturals, Sequences, FiniteSets, SequencesExt

CONSTANTS
    Meetings,
    Transcript,     \* of each meeting: its finals, in order
    Answers,        \* what a provider may answer
    MaxChunkChars,  \* config.max_chunk_chars
    MaxPerChunk,    \* MAX_SEGMENTS_PER_CHUNK
    MaxChunks       \* MAX_CHUNKS

Kinds == {"action", "decision", "open_question"}

Nothing == "none"
NoAnswer == [k \in Kinds |-> <<>>]

ASSUME ContentAssumption ==
    /\ \A m \in Meetings : Transcript[m] \in Seq([id : STRING, at : Nat, chars : Nat])
    /\ \A a \in Answers : \A k \in Kinds :
          a[k] \in Seq([unlinked : BOOLEAN, meeting : Meetings, segment : STRING, at : Nat])
    /\ MaxChunkChars \in Nat \ {0} /\ MaxPerChunk \in Nat \ {0} /\ MaxChunks \in Nat \ {0}

Segments(m) == ToSet(Transcript[m])
Ids(m) == {s.id : s \in Segments(m)}

-----------------------------------------------------------------------------
(* SummaryRunRequest::validate and validate_segment. *)
SegmentValid(s) == s.chars > 0

RequestValid(m) ==
    /\ Len(Transcript[m]) \in 1..(MaxChunks * MaxPerChunk)
    /\ \A s \in Segments(m) : SegmentValid(s)

(* chunk_transcript: a segment opens a chunk when the current one has no    *)
(* room for its characters or for one more segment.                         *)
Cut == [chunks |-> <<>>, current |-> <<>>, chars |-> 0]

AddSegment(cut, s) ==
    LET full == \/ cut.current # <<>> /\ cut.chars + s.chars > MaxChunkChars
                \/ Len(cut.current) >= MaxPerChunk
    IN IF full THEN [chunks |-> Append(cut.chunks, cut.current), current |-> <<s.id>>, chars |-> s.chars]
       ELSE [cut EXCEPT !.current = Append(@, s.id), !.chars = @ + s.chars]

ChunksOf(transcript) ==
    LET last == FoldLeft(AddSegment, Cut, transcript)
    IN IF last.current = <<>> THEN last.chunks ELSE Append(last.chunks, last.current)

Chunks == [m \in Meetings |-> ChunksOf(Transcript[m])]
ChunkCount(m) == Len(Chunks[m])

(* A transcript of more than MAX_CHUNKS chunks is not summarised. *)
Chunked(m) == ChunkCount(m) \in 1..MaxChunks

-----------------------------------------------------------------------------
(* parse_and_validate_summary: every citation that claims to be linked      *)
(* names a segment of the request, with its own sequence and range.         *)

CitationValid(m, c) ==
    c.unlinked \/ (c.meeting = m /\ \E s \in Segments(m) : s.id = c.segment /\ s.at = c.at)

AnswerValid(m, answer) == \A k \in Kinds : \A c \in ToSet(answer[k]) : CitationValid(m, c)

-----------------------------------------------------------------------------
(* The rows of a completed summary. *)

(* summary_citation_ids *)
CitedBy(c) == IF c.unlinked THEN {} ELSE {c.segment}

Items(answer) == UNION {{<<k, i>> : i \in 1..Len(answer[k])} : k \in Kinds}

(* build_summary_results: mvp_summary_results *)
ResultRows(answer) ==
    {[kind |-> "overview", index |-> 1, cites |-> {}]}
      \cup {[kind |-> e[1], index |-> e[2], cites |-> CitedBy(answer[e[1]][e[2]])] : e \in Items(answer)}

(* build_summary_chunks: mvp_summary_chunks.  The identities are spread     *)
(* evenly over the number of chunks, whatever the chunks of the requests    *)
(* were.                                                                    *)
PerRow(m) == (Len(Transcript[m]) + ChunkCount(m) - 1) \div ChunkCount(m)

ChunkRow(m, k) == {Transcript[m][i].id : i \in {n \in 1..Len(Transcript[m]) : (n - 1) \div PerRow(m) = k - 1}}

ChunkRows(m) == [k \in 1..ChunkCount(m) |-> ChunkRow(m, k)]

-----------------------------------------------------------------------------
(* What is shown: an item, the segment it leads to and whether it is called *)
(* unlinked.                                                                *)

(* summary_result_from_summary: as the run has just received it. *)
ShownFromAnswer(answer) ==
    {[kind |-> e[1], index |-> e[2], segment |-> answer[e[1]][e[2]].segment,
      unlinked |-> answer[e[1]][e[2]].unlinked] : e \in Items(answer)}

(* summary_result_from_records: as it is read again. *)
ShownFromRows(rows) ==
    UNION {IF row.cites = {}
           THEN {[kind |-> row.kind, index |-> row.index, segment |-> Nothing, unlinked |-> TRUE]}
           ELSE {[kind |-> row.kind, index |-> row.index, segment |-> s, unlinked |-> FALSE] : s \in row.cites}
           : row \in {r \in rows : r.kind # "overview"}}

(* An unlinked citation may still name a segment when it is first shown;    *)
(* that name is not stored.                                                 *)
WithoutLoose(shown) == {[e EXCEPT !.segment = IF e.unlinked THEN Nothing ELSE @] : e \in shown}

=============================================================================
