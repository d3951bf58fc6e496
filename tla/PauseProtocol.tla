---------------------------- MODULE PauseProtocol ----------------------------
(***************************************************************************)
(* Pausing, resuming and stopping one recording: the commands of the       *)
(* service (pause_windows, resume_windows, stop_windows_before) talk to    *)
(* the audio coordinator (coordinator_loop) through the atomics of         *)
(* PauseGate.  Audio is a numbered stream of packets; recognition is       *)
(* abstracted to settling what was submitted, as InferenceQueue promises.  *)
(***************************************************************************)
EXTENDS Naturals, Sequences, FiniteSets

CONSTANTS
    Clients,      \* threads running pause, resume or stop, one call each at a time
    MaxEvents     \* bound: calls begun and packets captured, together

VARIABLES
    paused, pauseReq, pauseAck, resumeReq, resumeAck,  \* PauseGate
    stop,         \* RunningSession.stop
    open,         \* ServiceInner.session is some
    lifecycle,    \* snapshot.lifecycle
    at,           \* where a client is in its call
    ticket,       \* the epoch it waits for
    before,       \* the audio in the coordinator's hands when it asked to pause
    calls,        \* calls begun
    alone,        \* no call has yet overlapped another or run into its deadline
    capturing,    \* the streams run
    captured,     \* packets captured
    quiet,        \* those captured while a pause stood
    channel,      \* packets on their way to the coordinator
    cpc, epoch,   \* where the coordinator is, and the epoch it answers
    buffer,       \* packets in its pipelines and its open segment
    inflight,     \* packets in submitted segments
    settled,      \* packets in segments that have their outcome
    skipped       \* packets the coordinator threw away

gateVars   == <<paused, pauseReq, pauseAck, resumeReq, resumeAck>>
clientVars == <<at, ticket, before, calls, alone>>
audioVars  == <<capturing, captured, quiet, channel>>
loopVars   == <<cpc, epoch, buffer, skipped>>
vars == <<gateVars, stop, open, lifecycle, clientVars, audioVars, loopVars,
          inflight, settled>>

ASSUME PauseAssumption ==
    /\ IsFiniteSet(Clients)
    /\ MaxEvents \in Nat

\* A definition introduced by "Fault:" is no part of the specification: it is
\* the definition below it with a mistake the code could make, which one of the
\* properties must detect.

Packets == 1..MaxEvents
Carried == {channel[i] : i \in DOMAIN channel}

PausePcs  == {"setPaused", "requestPause", "waitPause", "pauseBarrier", "publishPause"}
ResumePcs == {"requestResume", "waitResume", "publishResume"}
StopPcs   == {"stopCapture", "setStop", "join", "stopBarrier"}
LoopPcs   == {"top", "pause?", "flush", "ackPause", "paused?", "resume?", "drop",
              "discard", "reset", "ackResume", "clear", "receive", "drain", "exit", "done"}

Init ==
    /\ paused = FALSE /\ pauseReq = 0 /\ pauseAck = 0 /\ resumeReq = 0 /\ resumeAck = 0
    /\ stop = FALSE /\ open = TRUE /\ lifecycle = "recording"
    /\ at = [c \in Clients |-> "idle"] /\ ticket = [c \in Clients |-> 0]
    /\ before = [c \in Clients |-> {}] /\ calls = 0 /\ alone = TRUE
    /\ capturing = TRUE /\ captured = 0 /\ quiet = {} /\ channel = <<>>
    /\ cpc = "top" /\ epoch = 0 /\ buffer = {} /\ skipped = {}
    /\ inflight = {} /\ settled = {}

\* The user was told that the recording is paused and has not asked to resume;
\* the flag of a pause that acknowledge_resume has overwritten stands for nothing.
PauseStands ==
    /\ lifecycle = "paused" /\ paused
    /\ \A c \in Clients : at[c] \notin ResumePcs

-----------------------------------------------------------------------------
(* The commands.                                                           *)

Go(c, pos) == at' = [at EXCEPT ![c] = pos]

\* The checks a command makes under the lock on ServiceInner; a command that
\* finds nothing to do returns at once.
Begin(c, pos) ==
    /\ at[c] = "idle" /\ open /\ calls + captured < MaxEvents
    /\ calls' = calls + 1
    /\ alone' = (alone /\ \A d \in Clients : at[d] = "idle")
    /\ Go(c, pos)
    /\ UNCHANGED <<gateVars, stop, ticket, before, audioVars, loopVars, inflight, settled>>

BeginPause(c) ==
    /\ lifecycle # "paused"
    /\ Begin(c, "setPaused")
    /\ UNCHANGED <<open, lifecycle>>

BeginResume(c) ==
    /\ lifecycle # "recording"
    /\ Begin(c, "requestResume")
    /\ UNCHANGED <<open, lifecycle>>

\* stop_windows_before takes the session out of ServiceInner.
BeginStop(c) ==
    /\ Begin(c, "stopCapture")
    /\ open' = FALSE /\ lifecycle' = "stopping"

\* request_pause: the flag first, the epoch second.
SetPaused(c) ==
    /\ at[c] = "setPaused"
    /\ paused' = TRUE
    /\ Go(c, "requestPause")
    /\ UNCHANGED <<pauseReq, pauseAck, resumeReq, resumeAck, stop, open, lifecycle,
                   ticket, before, calls, alone, audioVars, loopVars, inflight, settled>>

RequestPause(c) ==
    /\ at[c] = "requestPause"
    /\ pauseReq' = pauseReq + 1
    /\ ticket' = [ticket EXCEPT ![c] = pauseReq + 1]
    /\ before' = [before EXCEPT ![c] = buffer \cup inflight]
    /\ Go(c, "waitPause")
    /\ UNCHANGED <<paused, pauseAck, resumeReq, resumeAck, stop, open, lifecycle,
                   calls, alone, audioVars, loopVars, inflight, settled>>

RequestResume(c) ==
    /\ at[c] = "requestResume"
    /\ resumeReq' = resumeReq + 1
    /\ ticket' = [ticket EXCEPT ![c] = resumeReq + 1]
    /\ Go(c, "waitResume")
    /\ UNCHANGED <<paused, pauseReq, pauseAck, resumeAck, stop, open, lifecycle,
                   before, calls, alone, audioVars, loopVars, inflight, settled>>

\* A wait of a command ends: an acknowledgement, an empty queue, a joined thread.
Waited(c) ==
    \/ at[c] = "waitPause" /\ pauseAck >= ticket[c] /\ Go(c, "pauseBarrier")
    \/ at[c] = "pauseBarrier" /\ inflight = {} /\ Go(c, "publishPause")
    \/ at[c] = "waitResume" /\ resumeAck >= ticket[c] /\ Go(c, "publishResume")
    \/ at[c] = "join" /\ cpc = "done" /\ Go(c, "stopBarrier")

Await(c) ==
    /\ Waited(c)
    /\ UNCHANGED <<gateVars, stop, open, lifecycle, ticket, before, calls, alone, audioVars,
                   loopVars, inflight, settled>>

\* Fault: the session is not looked up again after the wait.
PublishBlindly(c) ==
    /\ \/ at[c] = "publishPause" /\ lifecycle' = "paused"
       \/ at[c] = "publishResume" /\ lifecycle' = "recording"
    /\ Go(c, "idle")
    /\ UNCHANGED <<gateVars, stop, open, ticket, before, calls, alone, audioVars, loopVars,
                   inflight, settled>>

\* After its wait a command looks the session up again before it publishes.
Publish(c) ==
    /\ \/ at[c] = "publishPause" /\ lifecycle' = IF open THEN "paused" ELSE lifecycle
       \/ at[c] = "publishResume" /\ lifecycle' = IF open THEN "recording" ELSE lifecycle
    /\ Go(c, "idle")
    /\ UNCHANGED <<gateVars, stop, open, ticket, before, calls, alone, audioVars, loopVars,
                   inflight, settled>>

\* MVP_PAUSE_TIMEOUT, MVP_RESUME_TIMEOUT, ASR_STOP_TIMEOUT, MVP_SHUTDOWN_TIMEOUT:
\* the call fails and its request stays where it is.
TimeOut(c) ==
    /\ at[c] \in {"waitPause", "pauseBarrier", "waitResume", "join", "stopBarrier"}
    /\ lifecycle' = IF at[c] = "pauseBarrier" /\ open THEN "paused"
                    ELSE IF at[c] \in StopPcs THEN "error" ELSE lifecycle
    /\ Go(c, "idle")
    /\ alone' = FALSE
    /\ UNCHANGED <<gateVars, stop, open, ticket, before, calls, audioVars, loopVars,
                   inflight, settled>>

StopCapture(c) ==
    /\ at[c] = "stopCapture"
    /\ capturing' = FALSE
    /\ Go(c, "setStop")
    /\ UNCHANGED <<gateVars, stop, open, lifecycle, ticket, before, calls, alone, captured,
                   quiet, channel, loopVars, inflight, settled>>

SetStop(c) ==
    /\ at[c] = "setStop"
    /\ stop' = TRUE
    /\ Go(c, "join")
    /\ UNCHANGED <<gateVars, open, lifecycle, ticket, before, calls, alone, audioVars,
                   loopVars, inflight, settled>>

\* Fault: also waits for audio that a paused coordinator never takes.
FinishWhenSilent(c) ==
    /\ at[c] = "stopBarrier" /\ inflight = {} /\ channel = <<>>
    /\ lifecycle' = "ready"
    /\ Go(c, "idle")
    /\ UNCHANGED <<gateVars, stop, open, ticket, before, calls, alone, audioVars, loopVars,
                   inflight, settled>>

\* barrier_before; the meeting is finished.
FinishStop(c) ==
    /\ at[c] = "stopBarrier" /\ inflight = {}
    /\ lifecycle' = "ready"
    /\ Go(c, "idle")
    /\ UNCHANGED <<gateVars, stop, open, ticket, before, calls, alone, audioVars, loopVars,
                   inflight, settled>>

-----------------------------------------------------------------------------
(* The devices and the recognition queue.                                  *)

Capture ==
    /\ capturing /\ calls + captured < MaxEvents
    /\ captured' = captured + 1
    /\ quiet' = IF PauseStands THEN quiet \cup {captured + 1} ELSE quiet
    /\ channel' = Append(channel, captured + 1)
    /\ UNCHANGED <<gateVars, stop, open, lifecycle, clientVars, capturing, loopVars,
                   inflight, settled>>

Settle ==
    /\ \E p \in inflight : inflight' = inflight \ {p} /\ settled' = settled \cup {p}
    /\ UNCHANGED <<gateVars, stop, open, lifecycle, clientVars, audioVars, loopVars>>

-----------------------------------------------------------------------------
(* coordinator_loop.                                                       *)

Branch(from, to) == cpc = from /\ cpc' = to

Idly == UNCHANGED <<stop, open, lifecycle, clientVars, capturing, captured, quiet, settled>>

\* Tests of the loop: stop, pending_pause_epoch, is_paused, pending_resume_epoch.
CheckStop ==
    /\ Branch("top", IF stop THEN "exit" ELSE "pause?")
    /\ UNCHANGED <<gateVars, epoch, channel, buffer, skipped, inflight>> /\ Idly

CheckPause ==
    /\ Branch("pause?", IF pauseReq > pauseAck THEN "flush" ELSE "paused?")
    /\ epoch' = IF pauseReq > pauseAck THEN pauseReq ELSE epoch
    /\ UNCHANGED <<gateVars, channel, buffer, skipped, inflight>> /\ Idly

CheckPaused ==
    /\ Branch("paused?", IF paused THEN "resume?" ELSE "receive")
    /\ UNCHANGED <<gateVars, epoch, channel, buffer, skipped, inflight>> /\ Idly

CheckResume ==
    /\ Branch("resume?", IF resumeReq > resumeAck THEN "discard" ELSE "drop")
    /\ epoch' = IF resumeReq > resumeAck THEN resumeReq ELSE epoch
    /\ UNCHANGED <<gateVars, channel, buffer, skipped, inflight>> /\ Idly

\* finalize_pause_boundary.
Flush ==
    /\ Branch("flush", "ackPause")
    /\ inflight' = inflight \cup buffer /\ buffer' = {}
    /\ UNCHANGED <<gateVars, epoch, channel, skipped>> /\ Idly

AckPause ==
    /\ Branch("ackPause", "paused?")
    /\ pauseAck' = IF epoch > pauseAck THEN epoch ELSE pauseAck
    /\ UNCHANGED <<paused, pauseReq, resumeReq, resumeAck, epoch, channel, buffer,
                   skipped, inflight>> /\ Idly

\* While paused a packet that arrives is dropped.
Drop ==
    /\ Branch("drop", IF channel = <<>> /\ ~capturing THEN "exit" ELSE "top")
    /\ IF channel = <<>>
         THEN UNCHANGED <<channel, skipped>>
         ELSE skipped' = skipped \cup {Head(channel)} /\ channel' = Tail(channel)
    /\ UNCHANGED <<gateVars, epoch, buffer, inflight>> /\ Idly

\* Fault: what arrived during the pause is kept.
KeepPausedPackets ==
    /\ Branch("discard", "reset")
    /\ UNCHANGED <<gateVars, epoch, channel, buffer, skipped, inflight>> /\ Idly

\* discard_paused_packets, then reset_resume_boundary.
Discard ==
    /\ Branch("discard", "reset")
    /\ skipped' = skipped \cup Carried /\ channel' = <<>>
    /\ UNCHANGED <<gateVars, epoch, buffer, inflight>> /\ Idly

Reset ==
    /\ Branch("reset", "ackResume")
    /\ skipped' = skipped \cup buffer /\ buffer' = {}
    /\ UNCHANGED <<gateVars, epoch, channel, inflight>> /\ Idly

\* acknowledge_resume: the acknowledgement first, the flag second.
AckResume ==
    /\ Branch("ackResume", "clear")
    /\ resumeAck' = IF epoch > resumeAck THEN epoch ELSE resumeAck
    /\ UNCHANGED <<paused, pauseReq, pauseAck, resumeReq, epoch, channel, buffer,
                   skipped, inflight>> /\ Idly

Clear ==
    /\ Branch("clear", "top")
    /\ paused' = FALSE
    /\ UNCHANGED <<pauseReq, pauseAck, resumeReq, resumeAck, epoch, channel, buffer,
                   skipped, inflight>> /\ Idly

\* recv_timeout and route_packet.
Receive ==
    /\ Branch("receive", IF channel = <<>> /\ ~capturing THEN "exit" ELSE "drain")
    /\ IF channel = <<>>
         THEN UNCHANGED <<channel, buffer>>
         ELSE buffer' = buffer \cup {Head(channel)} /\ channel' = Tail(channel)
    /\ UNCHANGED <<gateVars, epoch, skipped, inflight>> /\ Idly

\* drain_mixed: the segmenter may close the segment here, or not yet.
Drain ==
    /\ Branch("drain", "top")
    /\ \/ UNCHANGED <<buffer, inflight>>
       \/ inflight' = inflight \cup buffer /\ buffer' = {}
    /\ UNCHANGED <<gateVars, epoch, channel, skipped>> /\ Idly

\* Fault: the packets still in the channel are forgotten.
ExitAtOnce ==
    /\ Branch("exit", "done")
    /\ UNCHANGED <<gateVars, epoch, channel, buffer, skipped, inflight>> /\ Idly

\* After the loop: unless paused, everything left is submitted.
Exit ==
    /\ Branch("exit", "done")
    /\ IF paused
         THEN UNCHANGED <<channel, buffer, inflight>>
         ELSE /\ inflight' = inflight \cup buffer \cup Carried
              /\ buffer' = {} /\ channel' = <<>>
    /\ UNCHANGED <<gateVars, epoch, skipped>> /\ Idly

-----------------------------------------------------------------------------
Call(c) == BeginPause(c) \/ BeginResume(c) \/ BeginStop(c)

CallStep(c) ==
    \/ SetPaused(c) \/ RequestPause(c) \/ RequestResume(c) \/ Await(c) \/ Publish(c)
    \/ StopCapture(c) \/ SetStop(c) \/ FinishStop(c)

LoopStep ==
    \/ CheckStop \/ CheckPause \/ CheckPaused \/ CheckResume \/ Flush \/ AckPause
    \/ Drop \/ Discard \/ Reset \/ AckResume \/ Clear \/ Receive \/ Drain \/ Exit

Next ==
    \/ \E c \in Clients : Call(c) \/ CallStep(c) \/ TimeOut(c)
    \/ Capture \/ Settle \/ LoopStep

Spec == Init /\ [][Next]_vars

\* The coordinator's thread and the worker run, and a command in progress does;
\* nobody has to call, and the devices need not deliver.
Fairness ==
    /\ WF_vars(LoopStep) /\ WF_vars(Settle)
    /\ \A c \in Clients : WF_vars(CallStep(c))

FairSpec == Spec /\ Fairness

-----------------------------------------------------------------------------
\* Every variable has its type, and every captured packet is in exactly one place.
TypeOK ==
    /\ paused \in BOOLEAN /\ stop \in BOOLEAN /\ open \in BOOLEAN /\ capturing \in BOOLEAN
    /\ pauseReq \in Nat /\ pauseAck \in Nat /\ resumeReq \in Nat /\ resumeAck \in Nat
    /\ lifecycle \in {"recording", "paused", "stopping", "ready", "error"}
    /\ at \in [Clients -> {"idle"} \cup PausePcs \cup ResumePcs \cup StopPcs]
    /\ ticket \in [Clients -> Nat] /\ before \in [Clients -> SUBSET Packets]
    /\ calls \in 0..MaxEvents /\ alone \in BOOLEAN /\ captured \in 0..MaxEvents
    /\ channel \in Seq(Packets) /\ cpc \in LoopPcs /\ epoch \in Nat
    /\ quiet \subseteq 1..captured
    /\ Carried \cup buffer \cup inflight \cup settled \cup skipped = 1..captured
    /\ captured = Len(channel) + Cardinality(buffer) + Cardinality(inflight)
                     + Cardinality(settled) + Cardinality(skipped)

\* When pause reports success, everything the coordinator had received when the
\* pause was requested has been submitted and has its outcome: nothing spoken
\* before the pause waits behind it or was thrown away (service.rs 5404-5415,
\* 3120-3137).  A pause that overlaps a resume may find its audio thrown away by
\* the resume's reset: the property speaks of calls that did not overlap.
PauseSettlesEarlierAudio ==
    \A c \in Clients : alone /\ at[c] = "publishPause" => before[c] \subseteq settled

\* When stop reports success no audio is left on the way, neither received nor
\* submitted, except what arrived during a pause (service.rs 5449-5471).  A pause
\* that has raised its flag and not yet its epoch when the loop exits leaves the
\* buffer behind: the property speaks of calls that did not overlap.
StopSettlesAudio ==
    alone /\ lifecycle = "ready" => buffer \cup inflight = {} /\ (paused \/ channel = <<>>)

\* No packet is lost or counted twice on its way, and what a pause or a stop
\* reports as settled is.
AnswersSettleAudio == TypeOK /\ PauseSettlesEarlierAudio /\ StopSettlesAudio

\* Once stop took the session, no pause or resume that was waiting shows the
\* recording as running or paused again (service.rs 3139-3142, 3171-3174).
StoppedIsNotRevived == lifecycle \in {"recording", "paused"} => open

\* Audio captured while a pause stands is never transcribed, however late it is
\* taken from the channel and whatever ends the pause (main.ts 2224).  Again of
\* calls that did not overlap: a resume that overwrites a pause ends it unasked.
PausedAudioStaysOut == alone => quiet \cap (buffer \cup inflight \cup settled) = {}

\* A pause that was requested is answered, deadline or not, unless the recording
\* is stopped.
PauseReturns ==
    \A c \in Clients : at[c] = "waitPause" ~> at[c] # "waitPause" \/ ~open

\* A stop returns, whatever pauses and resumes are still waiting; no fairness
\* makes a deadline pass, so that it need not rely on its own.
StopReturns ==
    \A c \in Clients : at[c] = "stopCapture" ~> at[c] = "idle"

\* No call waits for ever on the coordinator or on another call.
CallsReturn == PauseReturns /\ StopReturns

=============================================================================
