--------------------------- MODULE RawAudioArchive ---------------------------
(***************************************************************************)
(* The WAV files of one meeting and their manifest: packets of two clocks  *)
(* are converted to 16 kHz meeting samples, appended with the gaps between *)
(* them, closed by a stop, an error or a crash, and rebuilt by a recovery. *)
(* A file is known by how many frames it holds and which captured frames   *)
(* they are; the samples themselves are left out.                          *)
(***************************************************************************)
EXTENDS Integers, Sequences, SequencesExt, FiniteSets

CONSTANTS
    Sources,      \* AudioSourceId
    Rate,         \* Rate[s]: sample_rate of the device
    PacketSizes,  \* frames of a packet
    MaxPackets, MaxFailures   \* bounds

VARIABLES
    captured,    \* captured_frames of each source
    heard,       \* history: frames of each source that reached the coordinator
    writer,      \* SourceWriter of each source
    file,        \* the WAV file of each source
    status,      \* "writing", "dropped" (raw_audio_writer = None), "closed", "down",
                 \*   "rebuilt" (the manifest is that of a recovery)
    manifest,    \* raw-audio-manifest.json: an entry for each source with a file
    incomplete,  \* RAW_AUDIO_WRITE_FAILED is on record
    packets, failures

archiveVars == <<captured, heard, writer, file, status, manifest, incomplete, packets, failures>>

-----------------------------------------------------------------------------
\* A definition introduced by "Fault:" is no part of the specification: it is
\* the definition below it with a mistake the code could make, which one of the
\* properties must detect.

ASSUME ArchiveAssumption ==
    /\ Rate \in [Sources -> Nat \ {0}]
    /\ PacketSizes \subseteq Nat \ {0}
    /\ {MaxPackets, MaxFailures} \subseteq Nat

Target == 16000   \* TARGET_SAMPLE_RATE_HZ

NoWriter == [open |-> FALSE, start |-> 0, end |-> 0, frames |-> 0, gaps |-> <<>>]
NoFile == [exists |-> FALSE, wav |-> FALSE, frames |-> 0, header |-> 0, ragged |-> FALSE, content |-> <<>>]
NoManifest == [s \in {} |-> NoWriter]

ArchiveInit ==
    /\ captured = [s \in Sources |-> 0] /\ heard = captured
    /\ writer = [s \in Sources |-> NoWriter] /\ file = [s \in Sources |-> NoFile]
    /\ status = "writing" /\ manifest = NoManifest /\ incomplete = FALSE
    /\ packets = 0 /\ failures = 0

\* source_frame_to_meeting_sample and its ceiling.
SampleOf(s, frame) == (frame * Target) \div Rate[s]
SampleCeil(s, frame) == (frame * Target + Rate[s] - 1) \div Rate[s]

\* Fault: the end of a packet is rounded down as well.
RangeFloored(s, n) ==
    LET start == SampleOf(s, captured[s])
        end == SampleOf(s, captured[s] + n)
    IN  [start |-> start, end |-> IF end <= start THEN start + 1 ELSE end]

\* The MeetingSampleRange of the next n frames.
RangeOf(s, n) ==
    LET start == SampleOf(s, captured[s])
        end == SampleCeil(s, captured[s] + n)
    IN  [start |-> start, end |-> IF end <= start THEN start + 1 ELSE end]

Overlaps(s, range) == writer[s].open /\ range.start < writer[s].end

-----------------------------------------------------------------------------
(* The writer.                                                             *)

\* Fault: a gap is measured from the start of the recording.
ExtendGapFromStart(s, range, n) ==
    [writer[s] EXCEPT !.open = TRUE, !.end = range.end, !.frames = @ + n,
        !.start = IF writer[s].open THEN @ ELSE range.start,
        !.gaps = IF writer[s].open /\ range.start > writer[s].end
                   THEN Append(@, [start |-> writer[s].start, end |-> range.start]) ELSE @]

\* SourceWriter::append: before the first packet there is no gap.
Extend(s, range, n) ==
    [writer[s] EXCEPT !.open = TRUE, !.end = range.end, !.frames = @ + n,
        !.start = IF writer[s].open THEN @ ELSE range.start,
        !.gaps = IF writer[s].open /\ range.start > writer[s].end
                   THEN Append(@, [start |-> writer[s].end, end |-> range.start]) ELSE @]

\* The bytes of k frames reach the file; ragged: and a part of the next one.
\* What is first written to a new file is its header, which makes it a WAV file.
Grow(s, k, ragged) ==
    [file[s] EXCEPT !.exists = TRUE, !.wav = TRUE, !.frames = @ + k, !.ragged = ragged,
        !.content = Append(@, [at |-> captured[s], from |-> file[s].frames])]

\* The new file of a first packet, before its header is whole.
Created == [NoFile EXCEPT !.exists = TRUE]

\* rewrite_header of the sources in done.
HeadersRewritten(files, done) ==
    [s \in Sources |-> IF s \in done /\ writer[s].open THEN [files[s] EXCEPT !.header = writer[s].frames]
                       ELSE files[s]]

\* Drop for RawAudioMeetingWriter: an error of rewrite_header is ignored, and
\* the header stays as it was.
Drop(files) ==
    /\ \E done \in SUBSET Sources : file' = HeadersRewritten(files, done)
    /\ status' = "dropped" /\ incomplete' = TRUE

Arrive(s, n) ==
    /\ packets < MaxPackets /\ packets' = packets + 1
    /\ captured' = [captured EXCEPT ![s] = @ + n]
    /\ heard' = [heard EXCEPT ![s] = @ + n]
    /\ UNCHANGED manifest

\* persist_raw_packet, as far as the packet is written.
Write(s) ==
    /\ status = "writing"
    /\ \E n \in PacketSizes :
          LET range == RangeOf(s, n)
          IN  /\ ~Overlaps(s, range)
              /\ Arrive(s, n)
              /\ writer' = [writer EXCEPT ![s] = Extend(s, range, n)]
              /\ file' = [file EXCEPT ![s] = Grow(s, n, FALSE)]
    /\ UNCHANGED <<status, incomplete, failures>>

\* append refuses a packet that begins before the last one ended.
Refuse(s) ==
    /\ status = "writing"
    /\ \E n \in PacketSizes :
          /\ Overlaps(s, RangeOf(s, n))
          /\ Arrive(s, n)
    /\ Drop(file)
    /\ UNCHANGED <<writer, failures>>

\* The quota or the disk refuses the packet, perhaps in the middle of it.
FailWrite(s) ==
    /\ status = "writing" /\ failures < MaxFailures
    /\ \E n \in PacketSizes :
          /\ Arrive(s, n)
          /\ \/ Drop(file)
             \/ ~file[s].exists /\ Drop([file EXCEPT ![s] = Created])
             \/ \E k \in 0..1, ragged \in BOOLEAN : Drop([file EXCEPT ![s] = Grow(s, k, ragged)])
    /\ failures' = failures + 1
    /\ UNCHANGED writer

\* A packet comes after the writer is gone.
Ignore(s) ==
    /\ status = "dropped"
    /\ \E n \in PacketSizes : Arrive(s, n)
    /\ UNCHANGED <<writer, file, status, incomplete, failures>>

\* A packet is lost on the way or falls into a pause; capture counts it.
Miss(s) ==
    /\ status \in {"writing", "dropped"} /\ packets < MaxPackets
    /\ packets' = packets + 1
    /\ \E n \in PacketSizes : captured' = [captured EXCEPT ![s] = @ + n]
    /\ UNCHANGED <<heard, writer, file, status, manifest, incomplete, failures>>

\* An entry of the manifest.
Entry(s, start, end, gaps) ==
    [frames |-> file[s].frames, start |-> start, end |-> end, gaps |-> gaps]

\* The coordinator ends: finalize, each source and the manifest, or as many of
\* the sources as it gets to; a finalized writer no longer rewrites on drop.
Finalize ==
    /\ status \in {"writing", "dropped"}
    /\ LET open == {s \in Sources : writer[s].open}
       IN  \/ /\ status = "writing"
              /\ file' = HeadersRewritten(file, open)
              /\ manifest' = [s \in open |->
                     Entry(s, writer[s].start, writer[s].end, writer[s].gaps)]
              /\ UNCHANGED <<incomplete, failures>>
           \/ /\ status = "writing" /\ failures < MaxFailures /\ failures' = failures + 1
              /\ \E done \in SUBSET open : file' = HeadersRewritten(file, done)
              /\ incomplete' = TRUE /\ manifest' = manifest
           \/ status = "dropped" /\ UNCHANGED <<file, manifest, incomplete, failures>>
    /\ status' = "closed"
    /\ UNCHANGED <<captured, heard, writer, packets>>

\* The process ends; a packet, a new file or the headers may be half written.
ProcessEnds ==
    /\ status \in {"writing", "dropped"}
    /\ status' = "down"
    /\ writer' = [s \in Sources |-> NoWriter]
    /\ \/ file' = file
       \/ /\ status = "writing"
          /\ \/ \E s \in Sources, k \in 0..1, ragged \in BOOLEAN : file' = [file EXCEPT ![s] = Grow(s, k, ragged)]
             \/ \E s \in Sources : ~file[s].exists /\ file' = [file EXCEPT ![s] = Created]
             \/ \E done \in SUBSET Sources : file' = HeadersRewritten(file, done)
    /\ UNCHANGED <<captured, heard, manifest, incomplete, packets, failures>>

-----------------------------------------------------------------------------
(* Recovery of a meeting, the whole and the recovered ones included.       *)

FilesThere == {s \in Sources : file[s].exists}

\* Fault: the part of a frame at the end stays in the file.
WholeWithoutCut(f) == [f EXCEPT !.header = f.frames]

\* recover_source_manifest: a file is cut to whole frames and gets its header.
Whole(f) == [f EXCEPT !.header = f.frames, !.ragged = FALSE]

\* recover_interrupted_meeting: each file gets its entry from its length alone.
Rebuild ==
    /\ status \in {"closed", "down", "rebuilt"}
    /\ \A s \in FilesThere : file[s].wav
    /\ file' = [s \in Sources |-> IF s \in FilesThere THEN Whole(file[s]) ELSE file[s]]
    /\ manifest' = [s \in FilesThere |-> Entry(s, 0, SampleCeil(s, file[s].frames), <<>>)]
    /\ status' = "rebuilt"
    /\ UNCHANGED <<captured, heard, writer, incomplete, packets, failures>>

\* A file that is no WAV file ends the recovery, also of the other source; so
\* does a failure, after some files and in the middle of one, or while the
\* manifest is written over the old one.
RebuildFails ==
    /\ status \in {"closed", "down", "rebuilt"}
    /\ \E done \in SUBSET FilesThere, cut \in SUBSET FilesThere :
          /\ \A s \in done \cup cut : file[s].wav
          /\ file' = [s \in Sources |-> IF s \in done THEN Whole(file[s])
                                        ELSE IF s \in cut THEN [file[s] EXCEPT !.ragged = FALSE] ELSE file[s]]
          /\ \/ /\ \E s \in FilesThere : ~file[s].wav
                /\ UNCHANGED <<manifest, failures>>
             \/ /\ failures < MaxFailures /\ failures' = failures + 1
                /\ manifest' \in {manifest, NoManifest}
    /\ UNCHANGED <<captured, heard, writer, status, incomplete, packets>>

ArchiveNext ==
    \/ \E s \in Sources : Write(s) \/ Refuse(s) \/ FailWrite(s) \/ Ignore(s) \/ Miss(s)
    \/ Finalize \/ ProcessEnds \/ Rebuild \/ RebuildFails

ArchiveSpec == ArchiveInit /\ [][ArchiveNext]_archiveVars

-----------------------------------------------------------------------------
(* Properties.                                                             *)

Gap == [start : Nat, end : Nat]
Writer == [open : BOOLEAN, start : Nat, end : Nat, frames : Nat, gaps : Seq(Gap)]
File == [exists : BOOLEAN, wav : BOOLEAN, frames : Nat, header : Nat, ragged : BOOLEAN,
         content : Seq([at : Nat, from : Nat])]
ManifestEntry == [frames : Nat, start : Nat, end : Nat, gaps : Seq(Gap)]

\* Every variable has its type, and a writer that is open holds the count of its
\* file.
ArchiveTypeOK ==
    /\ captured \in [Sources -> Nat] /\ heard \in [Sources -> Nat]
    /\ writer \in [Sources -> Writer] /\ file \in [Sources -> File]
    /\ \A s \in Sources : status = "writing" =>
          writer[s].frames = file[s].frames /\ writer[s].open = file[s].exists
    /\ status \in {"writing", "dropped", "closed", "down", "rebuilt"} /\ incomplete \in BOOLEAN
    /\ \E some \in SUBSET Sources : manifest \in [some -> ManifestEntry]
    /\ packets \in 0..MaxPackets /\ failures \in 0..MaxFailures

\* The gaps of w are inside it, apart from each other and in order:
\* present_samples_before adds their lengths up, and an overlap would count twice.
Orderly(w) ==
    /\ \A i \in DOMAIN w.gaps :
          w.start < w.gaps[i].start /\ w.gaps[i].start < w.gaps[i].end /\ w.gaps[i].end < w.end
    /\ \A i, j \in DOMAIN w.gaps : i < j => w.gaps[i].end < w.gaps[j].start

\* Whatever is lost or refused, the gaps kept and written are orderly.
GapsInOrder ==
    /\ \A s \in Sources : Orderly(writer[s])
    /\ \A s \in DOMAIN manifest : Orderly(manifest[s])

\* load_manifest compares length and checksum: once a manifest is written, its
\* file has its whole frames, says so in its header, and stays so, also when a
\* recovery goes over the files again and fails on the way.
ManifestTellsFile ==
    \A s \in DOMAIN manifest :
        /\ file[s].frames = manifest[s].frames /\ ~file[s].ragged /\ file[s].wav
        /\ file[s].header = manifest[s].frames

\* No header promises frames that its file does not have, whatever was cut off
\* in the middle; that of a file whose writer was dropped promises those of all
\* packets that were accepted or, when it could not be rewritten, none.
HeadersAreSafe ==
    \A s \in Sources :
        /\ file[s].header <= file[s].frames
        /\ status = "dropped" /\ writer[s].open =>
              file[s].wav /\ file[s].header \in {0, writer[s].frames}

\* What reached the coordinator is in the archive, or the meeting cannot be
\* completed as if it were.
ArchiveLossIsMarked ==
    status \in {"writing", "dropped", "closed"} => \A s \in Sources : heard[s] # file[s].frames => incomplete

\* present_samples_before.
Clipped(g, p) == IF p <= g.start THEN 0 ELSE IF p < g.end THEN p - g.start ELSE g.end - g.start
Missing(w, p) == FoldSeq(LAMBDA g, total : total + Clipped(g, p), 0, w.gaps)
PresentBefore(w, p) == (p - w.start) - Missing(w, p)

\* "The returned sample index remains a stable meeting sample identity"
\* (raw_audio.rs:97-99) for a manifest that a stop has written, up to rounding:
\* the frame read for the first sample of a packet is less than two samples for
\* each gap before it, and one more, away from the frame captured there.
AlignedWithinDrift ==
    status = "closed" /\ ~incomplete =>
        \A s \in DOMAIN manifest : \A i \in DOMAIN file[s].content :
            LET packet == file[s].content[i]
                p == SampleOf(s, packet.at)
                apart == PresentBefore(manifest[s], p) * Rate[s] - packet.from * Target
                gaps == Cardinality({k \in DOMAIN manifest[s].gaps : manifest[s].gaps[k].end <= p})
            IN  -Rate[s] <= apart /\ apart <= (2 * gaps + 1) * Rate[s]

\* Whatever was lost, refused or cut off, the archive tells what it holds: its
\* manifests and headers fit their files, and a loss marks the meeting.
ArchiveTells == ArchiveTypeOK /\ ManifestTellsFile /\ HeadersAreSafe /\ ArchiveLossIsMarked

=============================================================================
