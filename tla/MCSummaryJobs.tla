--------------------------- MODULE MCSummaryJobs ---------------------------
(* SummaryJobs on a small instance. *)
EXTENDS SummaryJobs, TLC

(* Three segments that make two chunks, and three that make one too many.    *)
Segment(id, at, chars) == [id |-> id, at |-> at, chars |-> chars]
MCTranscript ==
    [m \in Meetings |-> IF m = "short" THEN <<Segment("s1", 1, 1), Segment("s2", 2, 1), Segment("s3", 3, 2)>>
                        ELSE <<Segment("s1", 1, 2), Segment("s2", 2, 2), Segment("s4", 3, 2)>>]

(* An answer that is accepted, with an unlinked item that names a segment,   *)
(* and one that cites a segment of the other meeting.                       *)
Cite(unlinked, segment, at) == [unlinked |-> unlinked, meeting |-> "short", segment |-> segment, at |-> at]
Accepted ==
    [action |-> <<Cite(FALSE, "s1", 1), Cite(TRUE, "s9", 9)>>, decision |-> <<Cite(FALSE, "s3", 3)>>,
     open_question |-> <<>>]
Foreign == [Accepted EXCEPT !["decision"] = <<Cite(FALSE, "s4", 3)>>]
MCAnswers == {Accepted, Foreign}

(* The cut of every short transcript keeps all segments in order, keeps the  *)
(* limits unless one segment alone is too long, and opens a chunk only when  *)
(* the segment had no room in the one before.                               *)
Transcripts == UNION {[1..n -> 1..3] : n \in 0..5}
CharsOf(t, chunk) == FoldLeft(LAMBDA sum, n : sum + n, 0, [i \in 1..Len(chunk) |-> t[chunk[i]]])

ASSUME CutIsGreedy ==
    \A t \in Transcripts :
        LET chunks == ChunksOf([i \in 1..Len(t) |-> [id |-> i, chars |-> t[i]]])
        IN /\ FlattenSeq(chunks) = [i \in 1..Len(t) |-> i]
           /\ \A k \in 1..Len(chunks) :
                 /\ Len(chunks[k]) \in 1..MaxPerChunk
                 /\ Len(chunks[k]) = 1 \/ CharsOf(t, chunks[k]) <= MaxChunkChars
                 /\ k > 1 => \/ Len(chunks[k - 1]) = MaxPerChunk
                             \/ CharsOf(t, chunks[k - 1]) + t[Head(chunks[k])] > MaxChunkChars

ClientSymmetry == Permutations(Clients)

=============================================================================
