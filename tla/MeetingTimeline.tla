--------------------------- MODULE MeetingTimeline ---------------------------
(***************************************************************************)
(* One meeting's sound, in three numberings that the code takes for one:   *)
(* capture positions (audio.rs counts every frame, also paused and lost    *)
(* ones), places in the WAV file (raw_audio.rs), and the positions of the  *)
(* finals (dsp.rs counts what the segmenter processed).  Recording, pause, *)
(* stop, crash, and the recovery that transcribes the unsaved tail of the  *)
(* file.  A frame stands for a stretch of sound and is named by its        *)
(* capture position; one source is recorded.                               *)
(***************************************************************************)
EXTENDS Naturals, Sequences, FiniteSets

CONSTANTS
    MaxFrames,   \* bound: frames captured
    MaxSegment,  \* max_segment_blocks, in frames
    Preroll,     \* preroll_blocks, in frames: with the frame that starts a segment
    MaxPauses, MaxDrops, MaxLosses, MaxCrashes, MaxAttempts
        \* bounds: pauses, frames lost, finals lost, crashes, recoveries begun

VARIABLES
    silent,      \* the frames below the speech threshold: the input
    phase,       \* where the meeting is
    frameStart,    \* captured_frame_start of the next packet
    file,        \* the frames in the WAV file
    writing,     \* raw_audio_writer is Some
    end,         \* SourceWriter.meeting_sample_end
    gaps,        \* SourceWriter.gaps: the positions they cover
    manifest,    \* raw-audio-manifest.json
    base,        \* timeline_offset of the segmenter's positions
    pos,         \* EnergyEndpointSegmenter.processed_samples
    preroll,       \* the last frames processed, kept to start a segment with
    active,        \* the frames of the active segment
    queued,      \* finals submitted and not yet committed
    finals,      \* mvp_final_segments
    noise,       \* frames of finals without meaningful text
    attempt,     \* 0 for the recording, then the recoveries, numbered
    incomplete,  \* RuntimeErrors.completion_error of the recording or recovery
    recovered,   \* a "recover" action is on record
    late,        \* history: a final was committed after its recovery was over
    pauses, drops, losses, crashes

raw == <<file, writing, end, gaps>>
segmenter == <<base, pos, preroll, active, attempt>>
ledger == <<finals, noise, incomplete, losses, late>>
counts == <<pauses, drops, crashes>>
timelineVars == <<silent, phase, frameStart, raw, manifest, segmenter, queued, ledger, recovered, counts>>

-----------------------------------------------------------------------------
\* A definition introduced by "Fault:" is no part of the specification: it is
\* the definition below it with a mistake the code could make, which one of the
\* properties must detect.

ASSUME TimelineAssumption ==
    /\ MaxFrames \in Nat /\ MaxSegment \in Nat \ {0}
    /\ Preroll \in 1..MaxSegment  \* EndpointConfig.validate
    /\ {MaxPauses, MaxDrops, MaxLosses, MaxCrashes, MaxAttempts} \subseteq Nat

Frames == 1..MaxFrames
NoManifest == [start |-> 0, end |-> 0, gaps |-> {}]

\* AudioSegment with its meeting positions: the frames start + 1 to end.
Segment == [start : Nat, end : Nat, audio : Seq(Frames), attempt : Nat]

TimelineInit ==
    /\ silent \in SUBSET Frames
    /\ phase = "recording" /\ frameStart = 0
    /\ file = <<>> /\ writing = TRUE /\ end = 0 /\ gaps = {} /\ manifest = NoManifest
    /\ base = 0 /\ pos = 0 /\ preroll = <<>> /\ active = <<>>
    /\ queued = <<>> /\ finals = <<>> /\ noise = {}
    /\ attempt = 0 /\ incomplete = FALSE /\ recovered = FALSE /\ late = FALSE
    /\ pauses = 0 /\ drops = 0 /\ losses = 0 /\ crashes = 0

-----------------------------------------------------------------------------
(* The segmenter.                                                          *)

\* Fault: submit_recovery_event forgets the offset.
SegmentUnshifted(audio, last) ==
    [start |-> last - Len(audio), end |-> last, audio |-> audio, attempt |-> attempt]

\* The final of the frames that end at processed position last.
SegmentOf(audio, last) ==
    [start |-> base + last - Len(audio), end |-> base + last, audio |-> audio, attempt |-> attempt]

\* remember_preroll: the last Preroll frames, whatever they hold.
Remembered(f) == IF Len(preroll) = Preroll THEN Append(Tail(preroll), f) ELSE Append(preroll, f)

\* push_block: speech outside a segment starts one, with the frames before it
\* that are still remembered, those of the segment just cut included; silence
\* inside one, or its greatest length, ends it.
Push(f) ==
    /\ pos' = pos + 1
    /\ preroll' = Remembered(f)
    /\ LET longer == Append(active, f)
       IN  IF active = <<>>
             THEN /\ active' = IF f \in silent THEN <<>> ELSE Remembered(f)
                  /\ queued' = queued
           ELSE IF f \in silent \/ Len(longer) >= MaxSegment
             THEN /\ active' = <<>>
                  /\ queued' = Append(queued, SegmentOf(longer, pos + 1))
             ELSE active' = longer /\ queued' = queued

\* flush_stop.
FlushStop ==
    /\ preroll' = <<>> /\ active' = <<>>
    /\ queued' = IF active = <<>> THEN queued ELSE Append(queued, SegmentOf(active, pos))

-----------------------------------------------------------------------------
(* Recording.                                                              *)

\* persist_raw_packet and append_packet: what lies between the last frame
\* written and this one is a gap; before the first frame there is none.
AppendFrame ==
    /\ file' = Append(file, frameStart + 1)
    /\ gaps' = IF file = <<>> THEN gaps ELSE gaps \cup (end + 1)..frameStart
    /\ end' = frameStart + 1
    /\ writing' = writing

\* A packet reaches the coordinator: written, if it can be, and segmented.
Hear ==
    /\ phase = "recording" /\ frameStart < MaxFrames
    /\ frameStart' = frameStart + 1
    /\ Push(frameStart + 1)
    /\ \/ writing /\ AppendFrame /\ UNCHANGED incomplete
       \/ writing /\ writing' = FALSE /\ incomplete' = TRUE /\ UNCHANGED <<file, end, gaps>>
       \/ ~writing /\ UNCHANGED <<raw, incomplete>>
    /\ UNCHANGED <<silent, phase, manifest, base, attempt, finals, noise, losses, late, recovered, counts>>

\* A packet is thrown away by a full capture queue, or by the coordinator
\* because the recording is paused; capture counts it.
Miss ==
    /\ frameStart < MaxFrames
    /\ frameStart' = frameStart + 1
    /\ \/ phase = "paused" /\ drops' = drops
       \/ phase = "recording" /\ drops < MaxDrops /\ drops' = drops + 1
    /\ UNCHANGED <<silent, phase, raw, manifest, segmenter, queued, ledger, recovered, pauses, crashes>>

\* finalize_pause_boundary.
Pause ==
    /\ phase = "recording" /\ pauses < MaxPauses
    /\ phase' = "paused" /\ pauses' = pauses + 1
    /\ FlushStop
    /\ UNCHANGED <<silent, frameStart, raw, manifest, base, pos, attempt, ledger, recovered, drops, crashes>>

\* reset_resume_boundary: the segmenter counts from zero again.
Resume ==
    /\ phase = "paused"
    /\ phase' = "recording"
    /\ pos' = 0 /\ preroll' = <<>> /\ active' = <<>>
    /\ UNCHANGED <<silent, frameStart, raw, manifest, base, attempt, queued, ledger, recovered, counts>>

\* The end of coordinator_loop: the open segment becomes a final unless the
\* recording is paused, and the manifest is written.
Stop ==
    /\ phase \in {"recording", "paused"}
    /\ phase' = "stopping"
    /\ FlushStop
    /\ manifest' = IF writing /\ file # <<>>
                     THEN [start |-> file[1] - 1, end |-> end, gaps |-> gaps] ELSE manifest
    /\ UNCHANGED <<silent, frameStart, raw, base, pos, attempt, ledger, recovered, counts>>

\* stop_windows_before, after the barrier.
StopWindows ==
    /\ phase = "stopping" /\ queued = <<>>
    /\ phase' = IF incomplete THEN "interrupted" ELSE "completed"
    /\ UNCHANGED <<silent, frameStart, raw, manifest, segmenter, queued, ledger, recovered, counts>>

-----------------------------------------------------------------------------
(* The worker.                                                             *)

\* commit_final refuses a segment id it has; a recovered one is named by its
\* positions.
Conflicts(s) ==
    s.attempt > 0 /\ \E i \in DOMAIN finals :
        finals[i].attempt > 0 /\ finals[i].start = s.start /\ finals[i].end = s.end

\* process_inference_task for the first submitted final: durable, refused or
\* lost, or without meaningful text.
Commit ==
    /\ queued # <<>> /\ phase # "down"
    /\ queued' = Tail(queued)
    /\ LET s == Head(queued)
           failed == incomplete \/ s.attempt = attempt
       IN  \/ /\ ~Conflicts(s)
              /\ finals' = Append(finals, s)
              /\ late' = (late \/ s.attempt # attempt)
              /\ UNCHANGED <<noise, incomplete, losses>>
           \/ /\ Conflicts(s)
              /\ incomplete' = failed
              /\ UNCHANGED <<finals, noise, losses, late>>
           \/ /\ losses < MaxLosses
              /\ losses' = losses + 1 /\ incomplete' = failed
              /\ UNCHANGED <<finals, noise, late>>
           \/ /\ noise' = noise \cup {s.audio[i] : i \in DOMAIN s.audio}
              /\ UNCHANGED <<finals, incomplete, losses, late>>
    /\ UNCHANGED <<silent, phase, frameStart, raw, manifest, segmenter, recovered, counts>>

-----------------------------------------------------------------------------
(* Crash and recovery.                                                     *)

\* The process ends; the database and the WAV file stay.
Crash ==
    /\ phase \in {"recording", "paused", "stopping", "recovering"} /\ crashes < MaxCrashes
    /\ phase' = "down" /\ crashes' = crashes + 1
    /\ preroll' = <<>> /\ active' = <<>> /\ queued' = <<>>
    /\ UNCHANGED <<silent, frameStart, raw, manifest, base, pos, attempt, ledger, recovered, pauses, drops>>

\* recover_interrupted at the next start.
Restart ==
    /\ phase = "down"
    /\ phase' = "interrupted"
    /\ UNCHANGED <<silent, frameStart, raw, manifest, segmenter, queued, ledger, recovered, counts>>

\* recover_source_manifest: from the length of the file alone.
Rebuilt == IF file = <<>> THEN manifest ELSE [start |-> 0, end |-> Len(file), gaps |-> {}]

\* Fault: the tail starts at the first final.
FirstSavedSample == IF finals = <<>> THEN 0 ELSE finals[1].end

\* meeting.finals.last().
LastSavedSample == IF finals = <<>> THEN 0 ELSE finals[Len(finals)].end

\* present_samples_before, and the frame at a meeting position: gaps are silent.
PresentUpTo(p) == (p - manifest.start) - Cardinality({g \in manifest.gaps : g <= p})
Present(p) == p \in (manifest.start + 1)..manifest.end /\ p \notin manifest.gaps
FrameAt(p) == file[PresentUpTo(p)]

\* Fault: recovery resumes after the first final.
BeginRecoverAtFirst ==
    /\ phase = "interrupted" /\ attempt < MaxAttempts
    /\ phase' = "recovering" /\ attempt' = attempt + 1
    /\ manifest' = Rebuilt
    /\ base' = FirstSavedSample /\ pos' = 0 /\ preroll' = <<>> /\ active' = <<>>
    /\ incomplete' = FALSE
    /\ UNCHANGED <<silent, frameStart, raw, queued, finals, noise, losses, late, recovered, counts>>

\* apply_recovery_action up to the windows of recover_raw_tail.
BeginRecover ==
    /\ phase = "interrupted" /\ attempt < MaxAttempts
    /\ phase' = "recovering" /\ attempt' = attempt + 1
    /\ manifest' = Rebuilt
    /\ base' = LastSavedSample /\ pos' = 0 /\ preroll' = <<>> /\ active' = <<>>
    /\ incomplete' = FALSE
    /\ UNCHANGED <<silent, frameStart, raw, queued, finals, noise, losses, late, recovered, counts>>

\* The barrier of submit_recovery_event: this recovery has no final under way.
OwnSettled == \A i \in DOMAIN queued : queued[i].attempt # attempt

\* The next frame of the tail; after a final the barrier waits for its commit.
RecoverFrame ==
    /\ phase = "recovering" /\ OwnSettled
    /\ base + pos < manifest.end
    /\ Push(FrameAt(base + pos + 1))
    /\ UNCHANGED <<silent, phase, frameStart, raw, manifest, base, attempt, ledger, recovered, counts>>

\* flush_stop at the end of the tail.
RecoverFlush ==
    /\ phase = "recovering" /\ OwnSettled
    /\ base + pos >= manifest.end /\ active # <<>>
    /\ FlushStop
    /\ UNCHANGED <<silent, phase, frameStart, raw, manifest, base, pos, attempt, ledger, recovered, counts>>

\* completion_error fails the recovery; else its action is recorded.
EndRecover ==
    /\ phase = "recovering" /\ OwnSettled
    /\ base + pos >= manifest.end /\ active = <<>>
    /\ phase' = "interrupted"
    /\ recovered' = (recovered \/ ~incomplete)
    /\ UNCHANGED <<silent, frameStart, raw, manifest, segmenter, queued, ledger, counts>>

\* The recovery fails half-way: a window cannot be read, a final cannot be
\* submitted, or the barrier times out while the worker still has the final.
AbortRecover ==
    /\ phase = "recovering"
    /\ phase' = "interrupted" /\ preroll' = <<>> /\ active' = <<>>
    /\ UNCHANGED <<silent, frameStart, raw, manifest, base, pos, attempt, queued, ledger, recovered, counts>>

\* finalize_interrupted.
Finalize ==
    /\ phase = "interrupted"
    /\ manifest' = Rebuilt
    /\ phase' = "completed"
    /\ UNCHANGED <<silent, frameStart, raw, segmenter, queued, ledger, recovered, counts>>

\* The meeting is over; nothing more happens to it here.
Done == phase = "completed" /\ queued = <<>> /\ UNCHANGED timelineVars

TimelineNext ==
    \/ Hear \/ Miss \/ Pause \/ Resume \/ Stop \/ StopWindows \/ Commit
    \/ Crash \/ Restart \/ Finalize
    \/ BeginRecover \/ RecoverFrame \/ RecoverFlush \/ EndRecover \/ AbortRecover
    \/ Done

TimelineSpec == TimelineInit /\ [][TimelineNext]_timelineVars

-----------------------------------------------------------------------------
(* Properties.                                                             *)

\* Every variable has its type; a segment is as long as its sound.
TimelineTypeOK ==
    /\ silent \subseteq Frames /\ frameStart \in 0..MaxFrames
    /\ phase \in {"recording", "paused", "stopping", "completed", "down", "interrupted", "recovering"}
    /\ file \in Seq(Frames) /\ writing \in BOOLEAN /\ end \in 0..frameStart /\ gaps \subseteq Frames
    /\ manifest \in [start : Nat, end : Nat, gaps : SUBSET Frames]
    /\ base \in Nat /\ pos \in Nat /\ active \in Seq(Frames) /\ Len(active) <= MaxSegment
    /\ preroll \in Seq(Frames) /\ Len(preroll) <= Preroll
    /\ attempt \in 0..MaxAttempts /\ queued \in Seq(Segment) /\ finals \in Seq(Segment)
    /\ \A i \in DOMAIN finals : finals[i].end = finals[i].start + Len(finals[i].audio)
    /\ noise \subseteq Frames /\ incomplete \in BOOLEAN /\ recovered \in BOOLEAN
    /\ late \in BOOLEAN

\* locate_segment_audio points the player at place start of the file: what it
\* plays there is what the final was transcribed from ("accurate segment
\* navigation", CHANGELOG.md:389).
FinalsLocateTheirAudio ==
    \A i \in DOMAIN finals : \A k \in DOMAIN finals[i].audio :
        finals[i].start + k \in DOMAIN file =>
            file[finals[i].start + k] = finals[i].audio[k]

\* So it is as long as the recording was never paused.
UnpausedFinalsLocateTheirAudio == pauses = 0 => FinalsLocateTheirAudio

\* Recovery transcribes only what no final held when it ran: no sound of an
\* earlier final, of the recording or of a recovery that failed half-way, comes
\* again in a recovered one.  Within one recovery only the pre-roll repeats, of
\* a segment that starts right behind the one before: fewer than Preroll frames,
\* its first.  A pause voids it as it voids the positions, and so does a final
\* committed after its recovery was given up, which the next does not know of.
RecoveryRepeatsNothing ==
    pauses = 0 /\ ~late => \A i, j \in DOMAIN finals :
        i < j /\ finals[j].attempt > 0 =>
            \A k \in DOMAIN finals[i].audio, l \in DOMAIN finals[j].audio :
                (finals[i].attempt = finals[j].attempt => l >= Preroll) =>
                    finals[i].audio[k] # finals[j].audio[l]

\* Once a recovery is on record, no speech on disk lies behind every final:
\* whatever failed, crashed or timed out on the way.  It may lie before one: when
\* a recovery loses a final and gives up on the next, which is committed late,
\* the following recovery starts behind that one (service.rs:2088-2091).
RecoveredTailIsSaved ==
    recovered => \A p \in DOMAIN file :
        (\A i \in DOMAIN finals : finals[i].end < p) => file[p] \in silent \cup noise

\* "Gap ranges become silence, so the returned sample index remains a stable
\* meeting sample identity" (raw_audio.rs:97-99): reading a position of the
\* manifest gives the sound captured there.
StableSampleIdentity ==
    \A p \in 1..manifest.end : Present(p) => FrameAt(p) = p

\* The manifest that a stop writes has that property: every pause and every lost
\* packet is a gap at its place.
WrittenManifestKeepsIdentity == phase = "stopping" => StableSampleIdentity

\* Positions and manifests tell where the audio is.
TimelineIsTrue == TimelineTypeOK /\ UnpausedFinalsLocateTheirAudio /\ WrittenManifestKeepsIdentity

\* A recovery transcribes the tail behind the finals: all of it, and nothing that
\* an earlier final held.
RecoveryIsExact == RecoveryRepeatsNothing /\ RecoveredTailIsSaved

=============================================================================
