--------------------------- MODULE RecordingProofs ---------------------------
(***************************************************************************)
(* Two proofs about a recording.  What PauseProtocol promises for any      *)
(* number of clients, calls and packets: where a property speaks of calls  *)
(* that did not overlap, the invariant behind it does too, and `alone' is  *)
(* its hypothesis throughout.  And what MeetingTimeline promises of the    *)
(* positions, of the file and of its recovery, for any number of frames,   *)
(* pauses, losses, crashes and recoveries.  The two share no variable.     *)
(***************************************************************************)
EXTENDS PauseProtocol, MeetingTimeline, FiniteSetTheorems, TLAPS

-----------------------------------------------------------------------------
(* The invariant.                                                          *)

\* Places and numbers; nothing here depends on calls that do not overlap.
Types ==
    /\ paused \in BOOLEAN /\ stop \in BOOLEAN /\ open \in BOOLEAN /\ capturing \in BOOLEAN
    /\ pauseReq \in Nat /\ pauseAck \in Nat /\ resumeReq \in Nat /\ resumeAck \in Nat
    /\ lifecycle \in {"recording", "paused", "stopping", "ready", "error"}
    /\ at \in [Clients -> {"idle"} \cup PausePcs \cup ResumePcs \cup StopPcs]
    /\ ticket \in [Clients -> Nat] /\ before \in [Clients -> SUBSET Packets]
    /\ calls \in Nat /\ alone \in BOOLEAN /\ captured \in Nat
    /\ calls + captured <= MaxEvents
    /\ channel \in Seq(Packets) /\ cpc \in LoopPcs /\ epoch \in Nat

\* A packet is in one place: where the loop has it, once in the channel.
OnePlace ==
    /\ Carried \cup buffer \cup inflight \cup settled \cup skipped = 1..captured
    /\ quiet \subseteq 1..captured
    /\ \A i, j \in DOMAIN channel : channel[i] = channel[j] => i = j
    /\ Carried \cap (buffer \cup inflight \cup settled \cup skipped) = {}
    /\ buffer \cap (inflight \cup settled \cup skipped) = {}
    /\ inflight \cap (settled \cup skipped) = {}
    /\ settled \cap skipped = {}

\* The coordinator answers what was asked, and closes its segment first.
Epochs ==
    /\ pauseAck <= pauseReq /\ resumeAck <= resumeReq
    /\ cpc \in {"flush", "ackPause"} => pauseAck < epoch /\ epoch <= pauseReq
    /\ cpc \in {"discard", "reset", "ackResume"} => resumeAck < epoch /\ epoch <= resumeReq
    /\ cpc = "ackPause" => buffer = {}

\* Stop takes the session, closes the streams, tells the loop and waits for it.
Ending ==
    /\ lifecycle \in {"recording", "paused"} => open
    /\ ~capturing => ~open
    /\ stop \/ cpc \in {"exit", "done"} => ~capturing
    /\ \A c \in Clients :
         /\ at[c] \in StopPcs => ~open
         /\ at[c] \in StopPcs \ {"stopCapture"} => ~capturing
         /\ at[c] = "stopBarrier" => cpc = "done"
    /\ lifecycle = "ready" => cpc = "done" /\ inflight = {} /\ ~open

\* Calls that do not overlap: one client is in a call, an unanswered request is
\* its own, and only a stop runs when the session is gone.
Single ==
    /\ \A c, d \in Clients : at[c] # "idle" /\ at[d] # "idle" => c = d
    /\ resumeAck < resumeReq => \E c \in Clients : at[c] = "waitResume" /\ ticket[c] = resumeReq
    /\ ~open => \A c \in Clients : at[c] \in {"idle"} \cup StopPcs
    /\ \A c \in Clients : at[c] = "setPaused" => lifecycle # "paused"

\* A pause that the coordinator has not answered.
Unanswered(c) == at[c] = "requestPause" \/ (at[c] = "waitPause" /\ pauseAck < ticket[c])

\* A pause that it has, on its way back to the user.
Answered(c) ==
    \/ at[c] = "waitPause" /\ pauseAck >= ticket[c]
    \/ at[c] \in {"pauseBarrier", "publishPause"}

Resuming == {"discard", "reset", "ackResume", "clear"}
Taking   == {"receive", "drain"}

\* Where the coordinator may be while a pause is in force.
PausePlace ==
    /\ \A c \in Clients : Answered(c) => cpc \notin Resuming /\ (paused => cpc \notin Taking)
    /\ cpc = "clear" =>
         lifecycle # "paused" \/ \E c \in Clients : at[c] \in {"waitResume", "publishResume"}
    /\ PauseStands => cpc \notin Resuming \cup Taking
    /\ paused /\ (\A c \in Clients : ~Unanswered(c)) => buffer = {} /\ cpc \notin Taking
    /\ cpc = "done" => buffer = {} /\ (paused \/ channel = <<>>)

\* The audio of a pause is in the channel or thrown away.
QuietAudio ==
    /\ quiet \cap (buffer \cup inflight \cup settled) = {}
    /\ quiet \cap Carried # {} =>
         paused /\ cpc \notin Taking \cup {"reset", "ackResume", "clear"}

\* The audio from before a pause is submitted, and settled when the pause is told.
EarlierAudio ==
    \A c \in Clients :
        /\ at[c] = "waitPause" => before[c] \subseteq buffer \cup inflight \cup settled
        /\ Answered(c) => before[c] \subseteq inflight \cup settled
        /\ at[c] = "publishPause" => before[c] \subseteq settled

PauseInv ==
    /\ Types /\ OnePlace /\ Epochs /\ Ending
    /\ alone => Single /\ PausePlace /\ QuietAudio /\ EarlierAudio

-----------------------------------------------------------------------------
(* The channel.                                                            *)

\* What a sequence carries, at its two ends.
LEMMA ChannelFacts ==
    ASSUME NEW q \in Seq(Packets), NEW p \in Packets
    PROVE  /\ Append(q, p) \in Seq(Packets)
           /\ {Append(q, p)[i] : i \in DOMAIN Append(q, p)} = {q[i] : i \in DOMAIN q} \cup {p}
           /\ p \notin {q[i] : i \in DOMAIN q} /\ (\A i, j \in DOMAIN q : q[i] = q[j] => i = j) =>
                \A i, j \in DOMAIN Append(q, p) : Append(q, p)[i] = Append(q, p)[j] => i = j
           /\ q # <<>> =>
                /\ Head(q) \in Packets /\ Tail(q) \in Seq(Packets)
                /\ {q[i] : i \in DOMAIN q} = {Tail(q)[i] : i \in DOMAIN Tail(q)} \cup {Head(q)}
                /\ (\A i, j \in DOMAIN q : q[i] = q[j] => i = j) =>
                     /\ Head(q) \notin {Tail(q)[i] : i \in DOMAIN Tail(q)}
                     /\ \A i, j \in DOMAIN Tail(q) : Tail(q)[i] = Tail(q)[j] => i = j
<1>1. /\ Append(q, p) \in Seq(Packets) /\ DOMAIN Append(q, p) = 1..(Len(q) + 1)
      /\ DOMAIN q = 1..Len(q) /\ Len(q) \in Nat
      /\ \A i \in DOMAIN q : Append(q, p)[i] = q[i]
      /\ Append(q, p)[Len(q) + 1] = p
  OBVIOUS
<1>2. {Append(q, p)[i] : i \in DOMAIN Append(q, p)} = {q[i] : i \in DOMAIN q} \cup {p}
  BY <1>1
<1>3. ASSUME p \notin {q[i] : i \in DOMAIN q}, \A i, j \in DOMAIN q : q[i] = q[j] => i = j
      PROVE  \A i, j \in DOMAIN Append(q, p) : Append(q, p)[i] = Append(q, p)[j] => i = j
  BY <1>1, <1>3
<1>4. ASSUME q # <<>>
      PROVE  /\ Head(q) \in Packets /\ Tail(q) \in Seq(Packets) /\ Head(q) = q[1]
             /\ Len(q) \in Nat /\ Len(q) > 0 /\ DOMAIN q = 1..Len(q)
             /\ DOMAIN Tail(q) = 1..(Len(q) - 1)
             /\ \A i \in DOMAIN Tail(q) : Tail(q)[i] = q[i + 1]
  BY <1>4
<1>5. ASSUME q # <<>>
      PROVE  {q[i] : i \in DOMAIN q} = {Tail(q)[i] : i \in DOMAIN Tail(q)} \cup {Head(q)}
  <2>1. ASSUME NEW i \in DOMAIN q
        PROVE  q[i] \in {Tail(q)[k] : k \in DOMAIN Tail(q)} \cup {Head(q)}
    <3>1. CASE i = 1
      BY <1>4, <1>5, <3>1
    <3>2. CASE i # 1
      <4>1. i - 1 \in DOMAIN Tail(q) /\ Tail(q)[i - 1] = q[i]
        BY <1>4, <1>5, <3>2
      <4> QED
        BY <4>1
    <3> QED
      BY <3>1, <3>2
  <2>2. ASSUME NEW i \in DOMAIN Tail(q) PROVE i + 1 \in DOMAIN q /\ Tail(q)[i] = q[i + 1]
    BY <1>4, <1>5
  <2>3. 1 \in DOMAIN q /\ Head(q) = q[1]
    BY <1>4, <1>5
  <2> QED
    BY <2>1, <2>2, <2>3
<1>6. ASSUME q # <<>>, \A i, j \in DOMAIN q : q[i] = q[j] => i = j
      PROVE  /\ Head(q) \notin {Tail(q)[i] : i \in DOMAIN Tail(q)}
             /\ \A i, j \in DOMAIN Tail(q) : Tail(q)[i] = Tail(q)[j] => i = j
  BY <1>4, <1>6
<1> QED
  BY <1>1, <1>2, <1>3, <1>4, <1>5, <1>6

\* The same of the channel and what it carries.
LEMMA CarriedFacts ==
    ASSUME Types
    PROVE  /\ channel = <<>> => Carried = {}
           /\ channel # <<>> => Head(channel) \in Carried /\ Head(channel) \in Packets
                                /\ Tail(channel) \in Seq(Packets)
           /\ Carried \subseteq Packets
<1>1. channel # <<>> => 1 \in DOMAIN channel /\ Head(channel) = channel[1]
  BY DEF Types
<1>2. channel # <<>> => Tail(channel) \in Seq(Packets)
  BY ChannelFacts DEF Types
<1> QED
  BY <1>1, <1>2 DEF Types, Carried

-----------------------------------------------------------------------------
(* Every step.                                                             *)

\* Every variable keeps its type.
LEMMA TypesStep ==
    ASSUME PauseInv, [Next]_vars
    PROVE  Types'
<1> USE PauseAssumption DEF PauseInv, Types, PausePcs, ResumePcs, StopPcs, LoopPcs, Packets, gateVars, clientVars, audioVars, loopVars
<1>1. ASSUME UNCHANGED vars PROVE Types'
  BY <1>1 DEF vars, Carried, Answered
<1>2. ASSUME NEW c \in Clients, BeginPause(c) PROVE Types'
  BY <1>2 DEF BeginPause, Begin, Go
<1>3. ASSUME NEW c \in Clients, BeginResume(c) PROVE Types'
  BY <1>3 DEF BeginResume, Begin, Go
<1>4. ASSUME NEW c \in Clients, BeginStop(c) PROVE Types'
  <2>1. at' = [at EXCEPT ![c] = "stopCapture"] /\ lifecycle' = "stopping" /\ open' = FALSE
    BY <1>4 DEF BeginStop, Begin, Go
  <2>2. calls' = calls + 1 /\ alone' \in BOOLEAN /\ calls' + captured <= MaxEvents
    BY <1>4 DEF BeginStop, Begin
  <2>3. UNCHANGED <<gateVars, stop, ticket, before, audioVars, loopVars>>
    BY <1>4 DEF BeginStop, Begin
  <2> QED
    <3>1. /\ at' \in [Clients -> {"idle"} \cup PausePcs \cup ResumePcs \cup StopPcs]
          /\ lifecycle' \in {"recording", "paused", "stopping", "ready", "error"}
          /\ open' \in BOOLEAN
      BY <2>1
    <3>2. calls' \in Nat /\ alone' \in BOOLEAN /\ captured' = captured /\ calls' + captured' <= MaxEvents
      BY <2>2, <2>3
    <3> QED
      BY <2>3, <3>1, <3>2
<1>5. ASSUME NEW c \in Clients, SetPaused(c) PROVE Types'
  BY <1>5 DEF SetPaused, Go
<1>6. ASSUME NEW c \in Clients, RequestPause(c) PROVE Types'
  <2>1. buffer \cup inflight \subseteq 1..MaxEvents
    BY DEF OnePlace
  <2> QED
    BY <1>6, <2>1 DEF RequestPause, Go
<1>7. ASSUME NEW c \in Clients, RequestResume(c) PROVE Types'
  BY <1>7 DEF RequestResume, Go
<1>8. ASSUME NEW c \in Clients, Await(c) PROVE Types'
  <2>1. PICK place \in {"pauseBarrier", "publishPause", "publishResume", "stopBarrier"} :
           at' = [at EXCEPT ![c] = place]
    BY <1>8 DEF Await, Waited, Go
  <2> QED
    BY <1>8, <2>1 DEF Await
<1>9. ASSUME NEW c \in Clients, Publish(c) PROVE Types'
  BY <1>9 DEF Publish, Go
<1>10. ASSUME NEW c \in Clients, StopCapture(c) PROVE Types'
  BY <1>10 DEF StopCapture, Go
<1>11. ASSUME NEW c \in Clients, SetStop(c) PROVE Types'
  BY <1>11 DEF SetStop, Go
<1>12. ASSUME NEW c \in Clients, FinishStop(c) PROVE Types'
  BY <1>12 DEF FinishStop, Go
<1>13. ASSUME NEW c \in Clients, TimeOut(c) PROVE Types'
  BY ZenonT(40), <1>13 DEF TimeOut, Go
<1>14. ASSUME Capture PROVE Types'
  <2>1. captured + 1 \in 1..MaxEvents /\ Append(channel, captured + 1) \in Seq(1..MaxEvents)
    BY <1>14 DEF Capture
  <2> QED
    BY <1>14, <2>1 DEF Capture
<1>15. ASSUME Settle PROVE Types'
  BY <1>15 DEF Settle
<1>16. ASSUME CheckStop PROVE Types'
  BY <1>16 DEF CheckStop, Branch, Idly
<1>17. ASSUME CheckPause PROVE Types'
  BY <1>17 DEF CheckPause, Branch, Idly
<1>18. ASSUME CheckPaused PROVE Types'
  BY <1>18 DEF CheckPaused, Branch, Idly
<1>19. ASSUME CheckResume PROVE Types'
  BY <1>19 DEF CheckResume, Branch, Idly
<1>20. ASSUME Flush PROVE Types'
  BY <1>20 DEF Flush, Branch, Idly
<1>21. ASSUME AckPause PROVE Types'
  BY <1>21 DEF AckPause, Branch, Idly
<1>22. ASSUME Drop PROVE Types'
  <2>1. channel # <<>> => Tail(channel) \in Seq(1..MaxEvents)
    OBVIOUS
  <2> QED
    BY <1>22, <2>1 DEF Drop, Branch, Idly
<1>23. ASSUME Discard PROVE Types'
  BY <1>23 DEF Discard, Branch, Idly
<1>24. ASSUME Reset PROVE Types'
  BY <1>24 DEF Reset, Branch, Idly
<1>25. ASSUME AckResume PROVE Types'
  BY <1>25 DEF AckResume, Branch, Idly
<1>26. ASSUME Clear PROVE Types'
  BY <1>26 DEF Clear, Branch, Idly
<1>27. ASSUME Receive PROVE Types'
  <2>1. channel # <<>> => Tail(channel) \in Seq(1..MaxEvents)
    OBVIOUS
  <2> QED
    BY <1>27, <2>1 DEF Receive, Branch, Idly
<1>28. ASSUME Drain PROVE Types'
  BY <1>28 DEF Drain, Branch, Idly
<1>29. ASSUME Exit PROVE Types'
  <2>1. cpc' = "done" /\ (channel' = channel \/ channel' = <<>>)
    BY <1>29 DEF Exit, Branch
  <2>2. channel' \in Seq(1..MaxEvents) /\ cpc' \in LoopPcs
    <3>1. <<>> \in Seq(1..MaxEvents) /\ channel \in Seq(1..MaxEvents)
      OBVIOUS
    <3> QED
      BY <2>1, <3>1
  <2>3. UNCHANGED <<gateVars, epoch, stop, open, lifecycle, clientVars, capturing, captured, quiet, settled>>
    BY <1>29 DEF Exit, Idly
  <2> QED
    BY <2>2, <2>3
<1> QED
  BY <1>1, <1>2, <1>3, <1>4, <1>5, <1>6, <1>7, <1>8, <1>9, <1>10, <1>11, <1>12, <1>13, <1>14,
     <1>15, <1>16, <1>17, <1>18, <1>19, <1>20, <1>21, <1>22, <1>23, <1>24, <1>25, <1>26, <1>27, <1>28, <1>29
     DEF Next, Call, CallStep, LoopStep

\* A packet is in one place.
LEMMA OnePlaceStep ==
    ASSUME PauseInv, Types', [Next]_vars
    PROVE  OnePlace'
<1> USE PauseAssumption DEF PauseInv, OnePlace, gateVars, clientVars, audioVars, loopVars
<1>1. ASSUME UNCHANGED vars PROVE OnePlace'
  BY <1>1 DEF vars, Carried, Answered
<1>2. ASSUME NEW c \in Clients, BeginPause(c) PROVE OnePlace'
  BY <1>2 DEF BeginPause, Begin, Go, Carried
<1>3. ASSUME NEW c \in Clients, BeginResume(c) PROVE OnePlace'
  BY <1>3 DEF BeginResume, Begin, Go, Carried
<1>4. ASSUME NEW c \in Clients, BeginStop(c) PROVE OnePlace'
  BY <1>4 DEF BeginStop, Begin, Go, Carried
<1>5. ASSUME NEW c \in Clients, SetPaused(c) PROVE OnePlace'
  BY <1>5 DEF SetPaused, Go, Carried
<1>6. ASSUME NEW c \in Clients, RequestPause(c) PROVE OnePlace'
  BY <1>6 DEF RequestPause, Go, Carried
<1>7. ASSUME NEW c \in Clients, RequestResume(c) PROVE OnePlace'
  BY <1>7 DEF RequestResume, Go, Carried
<1>8. ASSUME NEW c \in Clients, Await(c) PROVE OnePlace'
  BY <1>8 DEF Await, Waited, Go, Carried
<1>9. ASSUME NEW c \in Clients, Publish(c) PROVE OnePlace'
  BY <1>9 DEF Publish, Go, Carried
<1>10. ASSUME NEW c \in Clients, StopCapture(c) PROVE OnePlace'
  BY <1>10 DEF StopCapture, Go, Carried
<1>11. ASSUME NEW c \in Clients, SetStop(c) PROVE OnePlace'
  BY <1>11 DEF SetStop, Go, Carried
<1>12. ASSUME NEW c \in Clients, FinishStop(c) PROVE OnePlace'
  BY <1>12 DEF FinishStop, Go, Carried
<1>13. ASSUME NEW c \in Clients, TimeOut(c) PROVE OnePlace'
  BY <1>13 DEF TimeOut, Go, Carried
<1>14. ASSUME Capture PROVE OnePlace'
  <2> DEFINE p == captured + 1
  <2>1. p \in Packets /\ channel \in Seq(Packets) /\ captured \in Nat
    BY <1>14 DEF Capture, Types, Packets
  <2>2. 1..p = 1..captured \cup {p} /\ p \notin 1..captured
    BY <2>1
  <2>3. Carried' = Carried \cup {p} /\ p \notin Carried
    <3>1. channel' = Append(channel, p)
      BY <1>14 DEF Capture
    <3>2. {Append(channel, p)[i] : i \in DOMAIN Append(channel, p)} = {channel[i] : i \in DOMAIN channel} \cup {p}
      BY <2>1, ChannelFacts
    <3> QED
      BY <2>2, <3>1, <3>2 DEF Carried
  <2>4. \A i, j \in DOMAIN channel' : channel'[i] = channel'[j] => i = j
    BY <1>14, <2>1, <2>3, ChannelFacts DEF Capture, Carried
  <2>5. captured' = p /\ quiet' \subseteq quiet \cup {p} /\ UNCHANGED <<buffer, inflight, settled, skipped>>
    BY <1>14 DEF Capture
  <2> QED
    BY <2>2, <2>3, <2>4, <2>5
<1>15. ASSUME Settle PROVE OnePlace'
  BY <1>15 DEF Settle, Carried
<1>16. ASSUME CheckStop PROVE OnePlace'
  BY <1>16 DEF CheckStop, Branch, Idly, Carried
<1>17. ASSUME CheckPause PROVE OnePlace'
  BY <1>17 DEF CheckPause, Branch, Idly, Carried
<1>18. ASSUME CheckPaused PROVE OnePlace'
  BY <1>18 DEF CheckPaused, Branch, Idly, Carried
<1>19. ASSUME CheckResume PROVE OnePlace'
  BY <1>19 DEF CheckResume, Branch, Idly, Carried
<1>20. ASSUME Flush PROVE OnePlace'
  BY <1>20 DEF Flush, Branch, Idly, Carried
<1>21. ASSUME AckPause PROVE OnePlace'
  BY <1>21 DEF AckPause, Branch, Idly, Carried
<1>22. ASSUME Drop PROVE OnePlace'
  <2>1. CASE channel = <<>>
    BY <1>22, <2>1 DEF Drop, Branch, Idly, Carried
  <2>2. CASE channel # <<>>
    <3>1. channel' = Tail(channel) /\ skipped' = skipped \cup {Head(channel)}
          /\ UNCHANGED <<captured, quiet, buffer, inflight, settled>>
      BY <1>22, <2>2 DEF Drop, Branch, Idly
    <3>2. /\ Carried = Carried' \cup {Head(channel)} /\ Head(channel) \notin Carried'
          /\ \A i, j \in DOMAIN channel' : channel'[i] = channel'[j] => i = j
      <4>1. channel \in Seq(Packets) /\ \A i, j \in DOMAIN channel : channel[i] = channel[j] => i = j
        BY DEF Types
      <4>2. Head(channel) \in Packets
        BY <2>2, CarriedFacts
      <4>3. /\ {channel[i] : i \in DOMAIN channel} =
                 {Tail(channel)[i] : i \in DOMAIN Tail(channel)} \cup {Head(channel)}
            /\ Head(channel) \notin {Tail(channel)[i] : i \in DOMAIN Tail(channel)}
            /\ \A i, j \in DOMAIN Tail(channel) : Tail(channel)[i] = Tail(channel)[j] => i = j
        BY <2>2, <4>1, <4>2, ChannelFacts
      <4>4. Carried' = {Tail(channel)[i] : i \in DOMAIN Tail(channel)}
        BY <3>1 DEF Carried
      <4>5. Carried = Carried' \cup {Head(channel)} /\ Head(channel) \notin Carried'
        BY <4>3, <4>4 DEF Carried
      <4> QED
        BY <3>1, <4>3, <4>5
    <3> QED
      BY <3>1, <3>2
  <2> QED
    BY <2>1, <2>2
<1>23. ASSUME Discard PROVE OnePlace'
  <2>1. channel' = <<>> /\ skipped' = skipped \cup Carried
        /\ UNCHANGED <<captured, quiet, buffer, inflight, settled>>
    BY <1>23 DEF Discard, Idly
  <2>2. Carried' = {}
    BY <2>1 DEF Carried
  <2> QED
    BY <2>1, <2>2
<1>24. ASSUME Reset PROVE OnePlace'
  BY <1>24 DEF Reset, Branch, Idly, Carried
<1>25. ASSUME AckResume PROVE OnePlace'
  BY <1>25 DEF AckResume, Branch, Idly, Carried
<1>26. ASSUME Clear PROVE OnePlace'
  BY <1>26 DEF Clear, Branch, Idly, Carried
<1>27. ASSUME Receive PROVE OnePlace'
  <2>1. CASE channel = <<>>
    BY <1>27, <2>1 DEF Receive, Branch, Idly, Carried
  <2>2. CASE channel # <<>>
    <3>1. channel' = Tail(channel) /\ buffer' = buffer \cup {Head(channel)}
          /\ UNCHANGED <<captured, quiet, skipped, inflight, settled>>
      BY <1>27, <2>2 DEF Receive, Branch, Idly
    <3>2. /\ Carried = Carried' \cup {Head(channel)} /\ Head(channel) \notin Carried'
          /\ \A i, j \in DOMAIN channel' : channel'[i] = channel'[j] => i = j
      <4>1. channel \in Seq(Packets) /\ \A i, j \in DOMAIN channel : channel[i] = channel[j] => i = j
        BY DEF Types
      <4>2. Head(channel) \in Packets
        BY <2>2, CarriedFacts
      <4>3. /\ {channel[i] : i \in DOMAIN channel} =
                 {Tail(channel)[i] : i \in DOMAIN Tail(channel)} \cup {Head(channel)}
            /\ Head(channel) \notin {Tail(channel)[i] : i \in DOMAIN Tail(channel)}
            /\ \A i, j \in DOMAIN Tail(channel) : Tail(channel)[i] = Tail(channel)[j] => i = j
        BY <2>2, <4>1, <4>2, ChannelFacts
      <4>4. Carried' = {Tail(channel)[i] : i \in DOMAIN Tail(channel)}
        BY <3>1 DEF Carried
      <4>5. Carried = Carried' \cup {Head(channel)} /\ Head(channel) \notin Carried'
        BY <4>3, <4>4 DEF Carried
      <4> QED
        BY <3>1, <4>3, <4>5
    <3> QED
      BY <3>1, <3>2
  <2> QED
    BY <2>1, <2>2
<1>28. ASSUME Drain PROVE OnePlace'
  BY <1>28 DEF Drain, Branch, Idly, Carried
<1>29. ASSUME Exit PROVE OnePlace'
  <2>1. CASE paused
    BY <1>29, <2>1 DEF Exit, Branch, Idly, Carried
  <2>2. CASE ~paused
    <3>1. channel' = <<>> /\ buffer' = {} /\ inflight' = inflight \cup buffer \cup Carried
          /\ UNCHANGED <<captured, quiet, skipped, settled>>
      BY <1>29, <2>2 DEF Exit, Idly
    <3>2. Carried' = {}
      BY <3>1 DEF Carried
    <3> QED
      BY <3>1, <3>2
  <2> QED
    BY <2>1, <2>2
<1> QED
  BY <1>1, <1>2, <1>3, <1>4, <1>5, <1>6, <1>7, <1>8, <1>9, <1>10, <1>11, <1>12, <1>13, <1>14,
     <1>15, <1>16, <1>17, <1>18, <1>19, <1>20, <1>21, <1>22, <1>23, <1>24, <1>25, <1>26, <1>27, <1>28, <1>29
     DEF Next, Call, CallStep, LoopStep

\* The epochs stay in their order, and the segment is closed before a pause is answered.
LEMMA EpochsStep ==
    ASSUME PauseInv, Types', [Next]_vars
    PROVE  Epochs'
<1> USE DEF PauseInv, Types, Epochs, gateVars, clientVars, audioVars, loopVars
<1>1. ASSUME UNCHANGED vars PROVE Epochs'
  BY <1>1 DEF vars, Carried, Answered
<1>2. ASSUME NEW c \in Clients, BeginPause(c) PROVE Epochs'
  BY <1>2 DEF BeginPause, Begin, Go
<1>3. ASSUME NEW c \in Clients, BeginResume(c) PROVE Epochs'
  BY <1>3 DEF BeginResume, Begin, Go
<1>4. ASSUME NEW c \in Clients, BeginStop(c) PROVE Epochs'
  BY <1>4 DEF BeginStop, Begin, Go
<1>5. ASSUME NEW c \in Clients, SetPaused(c) PROVE Epochs'
  BY <1>5 DEF SetPaused, Go
<1>6. ASSUME NEW c \in Clients, RequestPause(c) PROVE Epochs'
  BY <1>6 DEF RequestPause, Go
<1>7. ASSUME NEW c \in Clients, RequestResume(c) PROVE Epochs'
  BY <1>7 DEF RequestResume, Go
<1>8. ASSUME NEW c \in Clients, Await(c) PROVE Epochs'
  BY <1>8 DEF Await, Waited, Go
<1>9. ASSUME NEW c \in Clients, Publish(c) PROVE Epochs'
  BY <1>9 DEF Publish, Go
<1>10. ASSUME NEW c \in Clients, StopCapture(c) PROVE Epochs'
  BY <1>10 DEF StopCapture, Go
<1>11. ASSUME NEW c \in Clients, SetStop(c) PROVE Epochs'
  BY <1>11 DEF SetStop, Go
<1>12. ASSUME NEW c \in Clients, FinishStop(c) PROVE Epochs'
  BY <1>12 DEF FinishStop, Go
<1>13. ASSUME NEW c \in Clients, TimeOut(c) PROVE Epochs'
  BY <1>13 DEF TimeOut, Go
<1>14. ASSUME Capture PROVE Epochs'
  BY <1>14 DEF Capture
<1>15. ASSUME Settle PROVE Epochs'
  BY <1>15 DEF Settle
<1>16. ASSUME CheckStop PROVE Epochs'
  BY <1>16 DEF CheckStop, Branch, Idly
<1>17. ASSUME CheckPause PROVE Epochs'
  BY <1>17 DEF CheckPause, Branch, Idly
<1>18. ASSUME CheckPaused PROVE Epochs'
  BY <1>18 DEF CheckPaused, Branch, Idly
<1>19. ASSUME CheckResume PROVE Epochs'
  BY <1>19 DEF CheckResume, Branch, Idly
<1>20. ASSUME Flush PROVE Epochs'
  BY <1>20 DEF Flush, Branch, Idly
<1>21. ASSUME AckPause PROVE Epochs'
  BY <1>21 DEF AckPause, Branch, Idly
<1>22. ASSUME Drop PROVE Epochs'
  BY <1>22 DEF Drop, Branch, Idly
<1>23. ASSUME Discard PROVE Epochs'
  BY <1>23 DEF Discard, Branch, Idly
<1>24. ASSUME Reset PROVE Epochs'
  BY <1>24 DEF Reset, Branch, Idly
<1>25. ASSUME AckResume PROVE Epochs'
  BY <1>25 DEF AckResume, Branch, Idly
<1>26. ASSUME Clear PROVE Epochs'
  BY <1>26 DEF Clear, Branch, Idly
<1>27. ASSUME Receive PROVE Epochs'
  BY <1>27 DEF Receive, Branch, Idly
<1>28. ASSUME Drain PROVE Epochs'
  BY <1>28 DEF Drain, Branch, Idly
<1>29. ASSUME Exit PROVE Epochs'
  BY <1>29 DEF Exit, Branch, Idly
<1> QED
  BY <1>1, <1>2, <1>3, <1>4, <1>5, <1>6, <1>7, <1>8, <1>9, <1>10, <1>11, <1>12, <1>13, <1>14,
     <1>15, <1>16, <1>17, <1>18, <1>19, <1>20, <1>21, <1>22, <1>23, <1>24, <1>25, <1>26, <1>27, <1>28, <1>29
     DEF Next, Call, CallStep, LoopStep

\* A stop stays on its way, and nothing revives the session.
LEMMA EndingStep ==
    ASSUME PauseInv, Types', [Next]_vars
    PROVE  Ending'
<1> USE DEF PauseInv, Types, Epochs, Ending, StopPcs, gateVars, clientVars, audioVars, loopVars
<1>1. ASSUME UNCHANGED vars PROVE Ending'
  BY <1>1 DEF vars, Carried, Answered
<1>2. ASSUME NEW c \in Clients, BeginPause(c) PROVE Ending'
  BY <1>2 DEF BeginPause, Begin, Go
<1>3. ASSUME NEW c \in Clients, BeginResume(c) PROVE Ending'
  BY <1>3 DEF BeginResume, Begin, Go
<1>4. ASSUME NEW c \in Clients, BeginStop(c) PROVE Ending'
  BY <1>4 DEF BeginStop, Begin, Go
<1>5. ASSUME NEW c \in Clients, SetPaused(c) PROVE Ending'
  BY <1>5 DEF SetPaused, Go
<1>6. ASSUME NEW c \in Clients, RequestPause(c) PROVE Ending'
  BY <1>6 DEF RequestPause, Go
<1>7. ASSUME NEW c \in Clients, RequestResume(c) PROVE Ending'
  BY <1>7 DEF RequestResume, Go
<1>8. ASSUME NEW c \in Clients, Await(c) PROVE Ending'
  BY <1>8 DEF Await, Waited, Go
<1>9. ASSUME NEW c \in Clients, Publish(c) PROVE Ending'
  BY <1>9 DEF Publish, Go
<1>10. ASSUME NEW c \in Clients, StopCapture(c) PROVE Ending'
  BY <1>10 DEF StopCapture, Go
<1>11. ASSUME NEW c \in Clients, SetStop(c) PROVE Ending'
  BY <1>11 DEF SetStop, Go
<1>12. ASSUME NEW c \in Clients, FinishStop(c) PROVE Ending'
  BY <1>12 DEF FinishStop, Go
<1>13. ASSUME NEW c \in Clients, TimeOut(c) PROVE Ending'
  BY <1>13 DEF TimeOut, Go
<1>14. ASSUME Capture PROVE Ending'
  BY <1>14 DEF Capture
<1>15. ASSUME Settle PROVE Ending'
  BY <1>15 DEF Settle
<1>16. ASSUME CheckStop PROVE Ending'
  BY <1>16 DEF CheckStop, Branch, Idly
<1>17. ASSUME CheckPause PROVE Ending'
  BY <1>17 DEF CheckPause, Branch, Idly
<1>18. ASSUME CheckPaused PROVE Ending'
  BY <1>18 DEF CheckPaused, Branch, Idly
<1>19. ASSUME CheckResume PROVE Ending'
  BY <1>19 DEF CheckResume, Branch, Idly
<1>20. ASSUME Flush PROVE Ending'
  BY <1>20 DEF Flush, Branch, Idly
<1>21. ASSUME AckPause PROVE Ending'
  BY <1>21 DEF AckPause, Branch, Idly
<1>22. ASSUME Drop PROVE Ending'
  BY <1>22 DEF Drop, Branch, Idly
<1>23. ASSUME Discard PROVE Ending'
  BY <1>23 DEF Discard, Branch, Idly
<1>24. ASSUME Reset PROVE Ending'
  BY <1>24 DEF Reset, Branch, Idly
<1>25. ASSUME AckResume PROVE Ending'
  BY <1>25 DEF AckResume, Branch, Idly
<1>26. ASSUME Clear PROVE Ending'
  BY <1>26 DEF Clear, Branch, Idly
<1>27. ASSUME Receive PROVE Ending'
  BY <1>27 DEF Receive, Branch, Idly
<1>28. ASSUME Drain PROVE Ending'
  BY <1>28 DEF Drain, Branch, Idly
<1>29. ASSUME Exit PROVE Ending'
  BY <1>29 DEF Exit, Branch, Idly
<1> QED
  BY <1>1, <1>2, <1>3, <1>4, <1>5, <1>6, <1>7, <1>8, <1>9, <1>10, <1>11, <1>12, <1>13, <1>14,
     <1>15, <1>16, <1>17, <1>18, <1>19, <1>20, <1>21, <1>22, <1>23, <1>24, <1>25, <1>26, <1>27, <1>28, <1>29
     DEF Next, Call, CallStep, LoopStep

\* Calls that do not overlap stay apart.
LEMMA SingleStep ==
    ASSUME PauseInv, Types', alone', [Next]_vars
    PROVE  Single'
<1> USE DEF PauseInv, Types, Epochs, Ending, Single, StopPcs, gateVars, clientVars, audioVars, loopVars
<1>1. ASSUME UNCHANGED vars PROVE Single'
  BY <1>1 DEF vars, Carried, Answered
<1>2. ASSUME NEW c \in Clients, BeginPause(c) PROVE Single'
  BY <1>2 DEF BeginPause, Begin, Go
<1>3. ASSUME NEW c \in Clients, BeginResume(c) PROVE Single'
  BY <1>3 DEF BeginResume, Begin, Go
<1>4. ASSUME NEW c \in Clients, BeginStop(c) PROVE Single'
  BY <1>4 DEF BeginStop, Begin, Go
<1>5. ASSUME NEW c \in Clients, SetPaused(c) PROVE Single'
  BY <1>5 DEF SetPaused, Go
<1>6. ASSUME NEW c \in Clients, RequestPause(c) PROVE Single'
  BY <1>6 DEF RequestPause, Go
<1>7. ASSUME NEW c \in Clients, RequestResume(c) PROVE Single'
  BY <1>7 DEF RequestResume, Go
<1>8. ASSUME NEW c \in Clients, Await(c) PROVE Single'
  <2>1. PICK place \in {"pauseBarrier", "publishPause", "publishResume", "stopBarrier"} :
           /\ at' = [at EXCEPT ![c] = place] /\ at[c] # "idle"
           /\ at[c] \in StopPcs <=> place \in StopPcs
           /\ at[c] = "waitResume" => resumeAck >= ticket[c]
    BY <1>8 DEF Await, Waited, Go
  <2> QED
    BY <1>8, <2>1 DEF Await
<1>9. ASSUME NEW c \in Clients, Publish(c) PROVE Single'
  BY <1>9 DEF Publish, Go
<1>10. ASSUME NEW c \in Clients, StopCapture(c) PROVE Single'
  BY <1>10 DEF StopCapture, Go
<1>11. ASSUME NEW c \in Clients, SetStop(c) PROVE Single'
  BY <1>11 DEF SetStop, Go
<1>12. ASSUME NEW c \in Clients, FinishStop(c) PROVE Single'
  BY <1>12 DEF FinishStop, Go
<1>13. ASSUME NEW c \in Clients, TimeOut(c) PROVE Single'
  BY <1>13 DEF TimeOut, Go
<1>14. ASSUME Capture PROVE Single'
  BY <1>14 DEF Capture
<1>15. ASSUME Settle PROVE Single'
  BY <1>15 DEF Settle
<1>16. ASSUME CheckStop PROVE Single'
  BY <1>16 DEF CheckStop, Branch, Idly
<1>17. ASSUME CheckPause PROVE Single'
  BY <1>17 DEF CheckPause, Branch, Idly
<1>18. ASSUME CheckPaused PROVE Single'
  BY <1>18 DEF CheckPaused, Branch, Idly
<1>19. ASSUME CheckResume PROVE Single'
  BY <1>19 DEF CheckResume, Branch, Idly
<1>20. ASSUME Flush PROVE Single'
  BY <1>20 DEF Flush, Branch, Idly
<1>21. ASSUME AckPause PROVE Single'
  BY <1>21 DEF AckPause, Branch, Idly
<1>22. ASSUME Drop PROVE Single'
  BY <1>22 DEF Drop, Branch, Idly
<1>23. ASSUME Discard PROVE Single'
  BY <1>23 DEF Discard, Branch, Idly
<1>24. ASSUME Reset PROVE Single'
  BY <1>24 DEF Reset, Branch, Idly
<1>25. ASSUME AckResume PROVE Single'
  BY <1>25 DEF AckResume, Branch, Idly
<1>26. ASSUME Clear PROVE Single'
  BY <1>26 DEF Clear, Branch, Idly
<1>27. ASSUME Receive PROVE Single'
  BY <1>27 DEF Receive, Branch, Idly
<1>28. ASSUME Drain PROVE Single'
  BY <1>28 DEF Drain, Branch, Idly
<1>29. ASSUME Exit PROVE Single'
  BY <1>29 DEF Exit, Branch, Idly
<1> QED
  BY <1>1, <1>2, <1>3, <1>4, <1>5, <1>6, <1>7, <1>8, <1>9, <1>10, <1>11, <1>12, <1>13, <1>14,
     <1>15, <1>16, <1>17, <1>18, <1>19, <1>20, <1>21, <1>22, <1>23, <1>24, <1>25, <1>26, <1>27, <1>28, <1>29
     DEF Next, Call, CallStep, LoopStep

\* While a pause is in force the loop neither takes packets nor resumes.
LEMMA PausePlaceStep ==
    ASSUME PauseInv, Types', alone', [Next]_vars
    PROVE  PausePlace'
<1> USE DEF PauseInv, Types, Epochs, Ending, Single, PausePlace, PauseStands, Answered, Unanswered, Resuming, Taking,
       PausePcs, ResumePcs, StopPcs, LoopPcs, gateVars, clientVars, audioVars, loopVars
<1>1. ASSUME UNCHANGED vars PROVE PausePlace'
  BY <1>1 DEF vars, Carried, Answered
<1>2. ASSUME NEW c \in Clients, BeginPause(c) PROVE PausePlace'
  BY <1>2 DEF BeginPause, Begin, Go
<1>3. ASSUME NEW c \in Clients, BeginResume(c) PROVE PausePlace'
  BY <1>3 DEF BeginResume, Begin, Go
<1>4. ASSUME NEW c \in Clients, BeginStop(c) PROVE PausePlace'
  BY <1>4 DEF BeginStop, Begin, Go
<1>5. ASSUME NEW c \in Clients, SetPaused(c) PROVE PausePlace'
  BY <1>5 DEF SetPaused, Go
<1>6. ASSUME NEW c \in Clients, RequestPause(c) PROVE PausePlace'
  BY <1>6 DEF RequestPause, Go
<1>7. ASSUME NEW c \in Clients, RequestResume(c) PROVE PausePlace'
  BY <1>7 DEF RequestResume, Go
<1>8. ASSUME NEW c \in Clients, Await(c) PROVE PausePlace'
  BY <1>8 DEF Await, Waited, Go
<1>9. ASSUME NEW c \in Clients, Publish(c) PROVE PausePlace'
  BY <1>9 DEF Publish, Go
<1>10. ASSUME NEW c \in Clients, StopCapture(c) PROVE PausePlace'
  BY <1>10 DEF StopCapture, Go
<1>11. ASSUME NEW c \in Clients, SetStop(c) PROVE PausePlace'
  BY <1>11 DEF SetStop, Go
<1>12. ASSUME NEW c \in Clients, FinishStop(c) PROVE PausePlace'
  BY <1>12 DEF FinishStop, Go
<1>13. ASSUME NEW c \in Clients, TimeOut(c) PROVE PausePlace'
  BY <1>13 DEF TimeOut, Go
<1>14. ASSUME Capture PROVE PausePlace'
  BY <1>14 DEF Capture
<1>15. ASSUME Settle PROVE PausePlace'
  BY <1>15 DEF Settle
<1>16. ASSUME CheckStop PROVE PausePlace'
  BY <1>16 DEF CheckStop, Branch, Idly
<1>17. ASSUME CheckPause PROVE PausePlace'
  BY <1>17 DEF CheckPause, Branch, Idly
<1>18. ASSUME CheckPaused PROVE PausePlace'
  BY <1>18 DEF CheckPaused, Branch, Idly
<1>19. ASSUME CheckResume PROVE PausePlace'
  BY <1>19 DEF CheckResume, Branch, Idly
<1>20. ASSUME Flush PROVE PausePlace'
  BY <1>20 DEF Flush, Branch, Idly
<1>21. ASSUME AckPause PROVE PausePlace'
  BY <1>21 DEF AckPause, Branch, Idly
<1>22. ASSUME Drop PROVE PausePlace'
  BY <1>22 DEF Drop, Branch, Idly
<1>23. ASSUME Discard PROVE PausePlace'
  BY <1>23 DEF Discard, Branch, Idly
<1>24. ASSUME Reset PROVE PausePlace'
  BY <1>24 DEF Reset, Branch, Idly
<1>25. ASSUME AckResume PROVE PausePlace'
  BY <1>25 DEF AckResume, Branch, Idly
<1>26. ASSUME Clear PROVE PausePlace'
  BY <1>26 DEF Clear, Branch, Idly
<1>27. ASSUME Receive PROVE PausePlace'
  BY <1>27 DEF Receive, Branch, Idly
<1>28. ASSUME Drain PROVE PausePlace'
  BY <1>28 DEF Drain, Branch, Idly
<1>29. ASSUME Exit PROVE PausePlace'
  BY <1>29 DEF Exit, Branch, Idly
<1> QED
  BY <1>1, <1>2, <1>3, <1>4, <1>5, <1>6, <1>7, <1>8, <1>9, <1>10, <1>11, <1>12, <1>13, <1>14,
     <1>15, <1>16, <1>17, <1>18, <1>19, <1>20, <1>21, <1>22, <1>23, <1>24, <1>25, <1>26, <1>27, <1>28, <1>29
     DEF Next, Call, CallStep, LoopStep

\* The audio of a pause stays in the channel until it is thrown away.
LEMMA QuietAudioStep ==
    ASSUME PauseInv, Types', alone', [Next]_vars
    PROVE  QuietAudio'
<1> USE DEF PauseInv, Types, QuietAudio, Taking, gateVars, clientVars, audioVars, loopVars
<1>1. ASSUME UNCHANGED vars PROVE QuietAudio'
  BY <1>1 DEF vars, Carried, Answered
<1>2. ASSUME NEW c \in Clients, BeginPause(c) PROVE QuietAudio'
  <2>1. Carried' = Carried /\ UNCHANGED <<quiet, buffer, inflight, settled>>
    BY <1>2 DEF BeginPause, Begin, Go, Carried
  <2> QED
    BY <1>2, <2>1 DEF BeginPause, Begin, Go
<1>3. ASSUME NEW c \in Clients, BeginResume(c) PROVE QuietAudio'
  <2>1. Carried' = Carried /\ UNCHANGED <<quiet, buffer, inflight, settled>>
    BY <1>3 DEF BeginResume, Begin, Go, Carried
  <2> QED
    BY <1>3, <2>1 DEF BeginResume, Begin, Go
<1>4. ASSUME NEW c \in Clients, BeginStop(c) PROVE QuietAudio'
  <2>1. Carried' = Carried /\ UNCHANGED <<quiet, buffer, inflight, settled>>
    BY <1>4 DEF BeginStop, Begin, Go, Carried
  <2> QED
    BY <1>4, <2>1 DEF BeginStop, Begin, Go
<1>5. ASSUME NEW c \in Clients, SetPaused(c) PROVE QuietAudio'
  <2>1. Carried' = Carried /\ UNCHANGED <<quiet, buffer, inflight, settled>>
    BY <1>5 DEF SetPaused, Go, Carried
  <2> QED
    BY <1>5, <2>1 DEF SetPaused, Go
<1>6. ASSUME NEW c \in Clients, RequestPause(c) PROVE QuietAudio'
  <2>1. Carried' = Carried /\ UNCHANGED <<quiet, buffer, inflight, settled>>
    BY <1>6 DEF RequestPause, Go, Carried
  <2> QED
    BY <1>6, <2>1 DEF RequestPause, Go
<1>7. ASSUME NEW c \in Clients, RequestResume(c) PROVE QuietAudio'
  <2>1. Carried' = Carried /\ UNCHANGED <<quiet, buffer, inflight, settled>>
    BY <1>7 DEF RequestResume, Go, Carried
  <2> QED
    BY <1>7, <2>1 DEF RequestResume, Go
<1>8. ASSUME NEW c \in Clients, Await(c) PROVE QuietAudio'
  <2>1. Carried' = Carried /\ UNCHANGED <<quiet, buffer, inflight, settled>>
    BY <1>8 DEF Await, Waited, Go, Carried
  <2> QED
    BY <1>8, <2>1 DEF Await, Waited, Go
<1>9. ASSUME NEW c \in Clients, Publish(c) PROVE QuietAudio'
  <2>1. Carried' = Carried /\ UNCHANGED <<quiet, buffer, inflight, settled>>
    BY <1>9 DEF Publish, Go, Carried
  <2> QED
    BY <1>9, <2>1 DEF Publish, Go
<1>10. ASSUME NEW c \in Clients, StopCapture(c) PROVE QuietAudio'
  <2>1. Carried' = Carried /\ UNCHANGED <<quiet, buffer, inflight, settled>>
    BY <1>10 DEF StopCapture, Go, Carried
  <2> QED
    BY <1>10, <2>1 DEF StopCapture, Go
<1>11. ASSUME NEW c \in Clients, SetStop(c) PROVE QuietAudio'
  <2>1. Carried' = Carried /\ UNCHANGED <<quiet, buffer, inflight, settled>>
    BY <1>11 DEF SetStop, Go, Carried
  <2> QED
    BY <1>11, <2>1 DEF SetStop, Go
<1>12. ASSUME NEW c \in Clients, FinishStop(c) PROVE QuietAudio'
  <2>1. Carried' = Carried /\ UNCHANGED <<quiet, buffer, inflight, settled>>
    BY <1>12 DEF FinishStop, Go, Carried
  <2> QED
    BY <1>12, <2>1 DEF FinishStop, Go
<1>13. ASSUME NEW c \in Clients, TimeOut(c) PROVE QuietAudio'
  <2>1. Carried' = Carried /\ UNCHANGED <<quiet, buffer, inflight, settled>>
    BY <1>13 DEF TimeOut, Go, Carried
  <2> QED
    BY <1>13, <2>1 DEF TimeOut, Go
<1>14. ASSUME Capture PROVE QuietAudio'
  <2>1. Carried' = Carried \cup {captured + 1}
    <3>1. captured + 1 \in Packets
      BY <1>14, PauseAssumption DEF Capture, Packets
    <3>2. {Append(channel, captured + 1)[i] : i \in DOMAIN Append(channel, captured + 1)} =
            {channel[i] : i \in DOMAIN channel} \cup {captured + 1}
      BY <3>1, ChannelFacts
    <3>3. channel' = Append(channel, captured + 1)
      BY <1>14 DEF Capture
    <3> QED
      BY <3>2, <3>3 DEF Carried
  <2>2. captured + 1 \notin 1..captured
    OBVIOUS
  <2>3. CASE PauseStands
    <3>1. alone /\ paused /\ cpc \notin Taking \cup Resuming /\ UNCHANGED <<paused, cpc, buffer, inflight, settled>>
      BY <1>14, <2>3 DEF Capture, PauseStands, PausePlace
    <3>2. quiet' = quiet \cup {captured + 1} /\ captured + 1 \notin buffer \cup inflight \cup settled
      BY <1>14, <2>2, <2>3 DEF Capture, OnePlace
    <3> QED
      BY <3>1, <3>2 DEF Resuming
  <2>4. CASE ~PauseStands
    BY <1>14, <2>1, <2>2, <2>4 DEF Capture, OnePlace
  <2> QED
    BY <2>3, <2>4
<1>15. ASSUME Settle PROVE QuietAudio'
  <2>1. Carried' = Carried /\ quiet' = quiet
        /\ buffer' \cup inflight' \cup settled' \subseteq buffer \cup inflight \cup settled
    BY <1>15 DEF Settle, Carried
  <2> QED
    BY <1>15, <2>1 DEF Settle
<1>16. ASSUME CheckStop PROVE QuietAudio'
  <2>1. Carried' = Carried /\ UNCHANGED <<quiet, buffer, inflight, settled>>
    BY <1>16 DEF CheckStop, Branch, Idly, Carried
  <2> QED
    BY <1>16, <2>1 DEF CheckStop, Branch, Idly
<1>17. ASSUME CheckPause PROVE QuietAudio'
  <2>1. Carried' = Carried /\ UNCHANGED <<quiet, buffer, inflight, settled>>
    BY <1>17 DEF CheckPause, Branch, Idly, Carried
  <2> QED
    BY <1>17, <2>1 DEF CheckPause, Branch, Idly
<1>18. ASSUME CheckPaused PROVE QuietAudio'
  <2>1. Carried' = Carried /\ UNCHANGED <<quiet, buffer, inflight, settled>>
    BY <1>18 DEF CheckPaused, Branch, Idly, Carried
  <2> QED
    BY <1>18, <2>1 DEF CheckPaused, Branch, Idly
<1>19. ASSUME CheckResume PROVE QuietAudio'
  <2>1. Carried' = Carried /\ UNCHANGED <<quiet, buffer, inflight, settled>>
    BY <1>19 DEF CheckResume, Branch, Idly, Carried
  <2> QED
    BY <1>19, <2>1 DEF CheckResume, Branch, Idly
<1>20. ASSUME Flush PROVE QuietAudio'
  <2>1. Carried' = Carried /\ quiet' = quiet
        /\ buffer' \cup inflight' \cup settled' \subseteq buffer \cup inflight \cup settled
    BY <1>20 DEF Flush, Branch, Idly, Carried
  <2> QED
    BY <1>20, <2>1 DEF Flush, Branch, Idly
<1>21. ASSUME AckPause PROVE QuietAudio'
  <2>1. Carried' = Carried /\ UNCHANGED <<quiet, buffer, inflight, settled>>
    BY <1>21 DEF AckPause, Branch, Idly, Carried
  <2> QED
    BY <1>21, <2>1 DEF AckPause, Branch, Idly
<1>22. ASSUME Drop PROVE QuietAudio'
  <2>1. Carried' \subseteq Carried /\ UNCHANGED <<alone, quiet, paused, buffer, inflight, settled>>
    <3>1. CASE channel = <<>>
      BY <1>22, <3>1 DEF Drop, Idly, Carried
    <3>2. CASE channel # <<>>
      <4>1. channel' = Tail(channel) /\ UNCHANGED <<alone, quiet, paused, buffer, inflight, settled>>
        BY <1>22, <3>2 DEF Drop, Idly
      <4>2. Head(channel) \in Packets
        BY <3>2, CarriedFacts
      <4>3. {channel[i] : i \in DOMAIN channel} =
              {Tail(channel)[i] : i \in DOMAIN Tail(channel)} \cup {Head(channel)}
        BY <3>2, <4>2, ChannelFacts
      <4> QED
        BY <4>1, <4>3 DEF Carried
    <3> QED
      BY <3>1, <3>2
  <2> QED
    BY <1>22, <2>1 DEF Drop, Branch
<1>23. ASSUME Discard PROVE QuietAudio'
  <2>1. Carried' = {} /\ UNCHANGED <<alone, quiet, buffer, inflight, settled>>
    <3>1. channel' = <<>> /\ UNCHANGED <<alone, quiet, buffer, inflight, settled>>
      BY <1>23 DEF Discard, Idly
    <3>2. Carried' = {}
      BY <3>1 DEF Carried
    <3> QED
      BY <3>1, <3>2
  <2> QED
    BY <2>1
<1>24. ASSUME Reset PROVE QuietAudio'
  <2>1. Carried' = Carried /\ quiet' = quiet
        /\ buffer' \cup inflight' \cup settled' \subseteq buffer \cup inflight \cup settled
    BY <1>24 DEF Reset, Branch, Idly, Carried
  <2> QED
    BY <1>24, <2>1 DEF Reset, Branch, Idly
<1>25. ASSUME AckResume PROVE QuietAudio'
  <2>1. Carried' = Carried /\ UNCHANGED <<quiet, buffer, inflight, settled>>
    BY <1>25 DEF AckResume, Branch, Idly, Carried
  <2> QED
    BY <1>25, <2>1 DEF AckResume, Branch, Idly
<1>26. ASSUME Clear PROVE QuietAudio'
  <2>1. quiet \cap Carried = {} /\ Carried' = Carried /\ UNCHANGED <<alone, quiet, buffer, inflight, settled>>
    BY <1>26 DEF Clear, Branch, Idly, Carried
  <2> QED
    BY <2>1
<1>27. ASSUME Receive PROVE QuietAudio'
  <2>1. quiet \cap Carried = {}
    BY <1>27 DEF Receive, Branch, Idly
  <2>2. CASE channel = <<>>
    BY <1>27, <2>1, <2>2 DEF Receive, Idly, Carried
  <2>3. CASE channel # <<>>
    <3>1. Carried' \subseteq Carried /\ Head(channel) \in Carried
      <4>1. channel' = Tail(channel) /\ Head(channel) \in Carried
        BY <1>27, <2>3, CarriedFacts DEF Receive
      <4>2. Head(channel) \in Packets
        BY <2>3, CarriedFacts
      <4>3. {channel[i] : i \in DOMAIN channel} =
              {Tail(channel)[i] : i \in DOMAIN Tail(channel)} \cup {Head(channel)}
        BY <2>3, <4>2, ChannelFacts
      <4> QED
        BY <4>1, <4>3 DEF Carried
    <3> QED
      BY <1>27, <2>1, <2>3, <3>1 DEF Receive, Idly
  <2> QED
    BY <2>2, <2>3
<1>28. ASSUME Drain PROVE QuietAudio'
  <2>1. Carried' = Carried /\ quiet' = quiet
        /\ buffer' \cup inflight' \cup settled' \subseteq buffer \cup inflight \cup settled
    BY <1>28 DEF Drain, Branch, Idly, Carried
  <2> QED
    BY <1>28, <2>1 DEF Drain, Branch, Idly
<1>29. ASSUME Exit PROVE QuietAudio'
  <2>1. CASE paused
    <3>1. Carried' = Carried /\ UNCHANGED <<alone, quiet, paused, buffer, inflight, settled>>
      BY <1>29, <2>1 DEF Exit, Idly, Carried
    <3> QED
      BY <1>29, <3>1 DEF Exit, Branch
  <2>2. CASE ~paused
    <3>1. quiet \cap Carried = {} /\ Carried' = {}
      BY <1>29, <2>2 DEF Exit, Idly, Carried
    <3> QED
      BY <1>29, <2>2, <3>1 DEF Exit, Idly
  <2> QED
    BY <2>1, <2>2
<1> QED
  BY <1>1, <1>2, <1>3, <1>4, <1>5, <1>6, <1>7, <1>8, <1>9, <1>10, <1>11, <1>12, <1>13, <1>14,
     <1>15, <1>16, <1>17, <1>18, <1>19, <1>20, <1>21, <1>22, <1>23, <1>24, <1>25, <1>26, <1>27, <1>28, <1>29
     DEF Next, Call, CallStep, LoopStep

\* The audio from before a pause is submitted and settled, never thrown away.
LEMMA EarlierAudioStep ==
    ASSUME PauseInv, Types', alone', [Next]_vars
    PROVE  EarlierAudio'
<1> USE DEF PauseInv, Types, Epochs, Single, EarlierAudio, Answered, gateVars, clientVars, audioVars, loopVars
<1>1. ASSUME UNCHANGED vars PROVE EarlierAudio'
  BY <1>1 DEF vars, Carried, Answered
<1>2. ASSUME NEW c \in Clients, BeginPause(c) PROVE EarlierAudio'
  BY <1>2 DEF BeginPause, Begin, Go
<1>3. ASSUME NEW c \in Clients, BeginResume(c) PROVE EarlierAudio'
  BY <1>3 DEF BeginResume, Begin, Go
<1>4. ASSUME NEW c \in Clients, BeginStop(c) PROVE EarlierAudio'
  BY <1>4 DEF BeginStop, Begin, Go
<1>5. ASSUME NEW c \in Clients, SetPaused(c) PROVE EarlierAudio'
  BY <1>5 DEF SetPaused, Go
<1>6. ASSUME NEW c \in Clients, RequestPause(c) PROVE EarlierAudio'
  BY <1>6 DEF RequestPause, Go
<1>7. ASSUME NEW c \in Clients, RequestResume(c) PROVE EarlierAudio'
  BY <1>7 DEF RequestResume, Go
<1>8. ASSUME NEW c \in Clients, Await(c) PROVE EarlierAudio'
  BY <1>8 DEF Await, Waited, Go
<1>9. ASSUME NEW c \in Clients, Publish(c) PROVE EarlierAudio'
  BY <1>9 DEF Publish, Go
<1>10. ASSUME NEW c \in Clients, StopCapture(c) PROVE EarlierAudio'
  BY <1>10 DEF StopCapture, Go
<1>11. ASSUME NEW c \in Clients, SetStop(c) PROVE EarlierAudio'
  BY <1>11 DEF SetStop, Go
<1>12. ASSUME NEW c \in Clients, FinishStop(c) PROVE EarlierAudio'
  BY <1>12 DEF FinishStop, Go
<1>13. ASSUME NEW c \in Clients, TimeOut(c) PROVE EarlierAudio'
  BY <1>13 DEF TimeOut, Go
<1>14. ASSUME Capture PROVE EarlierAudio'
  BY <1>14 DEF Capture
<1>15. ASSUME Settle PROVE EarlierAudio'
  BY <1>15 DEF Settle
<1>16. ASSUME CheckStop PROVE EarlierAudio'
  BY <1>16 DEF CheckStop, Branch, Idly
<1>17. ASSUME CheckPause PROVE EarlierAudio'
  BY <1>17 DEF CheckPause, Branch, Idly
<1>18. ASSUME CheckPaused PROVE EarlierAudio'
  BY <1>18 DEF CheckPaused, Branch, Idly
<1>19. ASSUME CheckResume PROVE EarlierAudio'
  BY <1>19 DEF CheckResume, Branch, Idly
<1>20. ASSUME Flush PROVE EarlierAudio'
  BY <1>20 DEF Flush, Branch, Idly
<1>21. ASSUME AckPause PROVE EarlierAudio'
  BY <1>21 DEF AckPause, Branch, Idly
<1>22. ASSUME Drop PROVE EarlierAudio'
  BY <1>22 DEF Drop, Branch, Idly
<1>23. ASSUME Discard PROVE EarlierAudio'
  BY <1>23 DEF Discard, Branch, Idly
<1>24. ASSUME Reset PROVE EarlierAudio'
  BY <1>24 DEF Reset, Branch, Idly
<1>25. ASSUME AckResume PROVE EarlierAudio'
  BY <1>25 DEF AckResume, Branch, Idly
<1>26. ASSUME Clear PROVE EarlierAudio'
  BY <1>26 DEF Clear, Branch, Idly
<1>27. ASSUME Receive PROVE EarlierAudio'
  BY <1>27 DEF Receive, Branch, Idly
<1>28. ASSUME Drain PROVE EarlierAudio'
  BY <1>28 DEF Drain, Branch, Idly
<1>29. ASSUME Exit PROVE EarlierAudio'
  BY <1>29 DEF Exit, Branch, Idly
<1> QED
  BY <1>1, <1>2, <1>3, <1>4, <1>5, <1>6, <1>7, <1>8, <1>9, <1>10, <1>11, <1>12, <1>13, <1>14,
     <1>15, <1>16, <1>17, <1>18, <1>19, <1>20, <1>21, <1>22, <1>23, <1>24, <1>25, <1>26, <1>27, <1>28, <1>29
     DEF Next, Call, CallStep, LoopStep

-----------------------------------------------------------------------------
(* The theorems.                                                           *)

\* A recording that begins satisfies the invariant.
LEMMA InitInv == Init => PauseInv
<1> SUFFICES ASSUME Init PROVE PauseInv
  OBVIOUS
<1> USE PauseAssumption DEF Init
<1>1. Carried = {}
  BY DEF Carried
<1>2. Types
  <2>1. channel \in Seq(Packets) /\ cpc \in LoopPcs
    BY DEF LoopPcs
  <2>2. /\ at \in [Clients -> {"idle"} \cup PausePcs \cup ResumePcs \cup StopPcs]
        /\ ticket \in [Clients -> Nat] /\ before \in [Clients -> SUBSET Packets]
    OBVIOUS
  <2>3. calls + captured <= MaxEvents /\ lifecycle \in {"recording", "paused", "stopping", "ready", "error"}
    OBVIOUS
  <2> QED
    BY <2>1, <2>2, <2>3 DEF Types
<1>3. OnePlace
  BY <1>1 DEF OnePlace
<1>4. Epochs /\ Ending
  BY DEF Epochs, Ending, StopPcs
<1>5. Single
  BY DEF Single
<1>6. PausePlace
  BY DEF PausePlace, PauseStands, Answered, Resuming, Taking
<1>7. QuietAudio /\ EarlierAudio
  BY DEF QuietAudio, EarlierAudio, Answered
<1> QED
  BY <1>2, <1>3, <1>4, <1>5, <1>6, <1>7 DEF PauseInv

\* A call that overlaps another is never forgotten.
LEMMA AloneIsNotRegained == ASSUME Types, [Next]_vars, alone' PROVE alone
<1> USE DEF Types, gateVars, clientVars, audioVars, loopVars
<1>1. ASSUME UNCHANGED vars PROVE alone
  BY <1>1 DEF vars
<1>2. ASSUME NEW c \in Clients, Call(c) PROVE alone
  BY <1>2 DEF Call, BeginPause, BeginResume, BeginStop, Begin
<1>3. ASSUME NEW c \in Clients, CallStep(c) PROVE alone
  BY <1>3 DEF CallStep, SetPaused, RequestPause, RequestResume, Await, Publish, StopCapture,
              SetStop, FinishStop
<1>4. ASSUME NEW c \in Clients, TimeOut(c) PROVE alone
  BY <1>4 DEF TimeOut
<1>5. ASSUME Capture \/ Settle PROVE alone
  BY <1>5 DEF Capture, Settle
<1>6. ASSUME LoopStep PROVE alone
  BY <1>6 DEF LoopStep, CheckStop, CheckPause, CheckPaused, CheckResume, Flush, AckPause, Drop,
              Discard, Reset, AckResume, Clear, Receive, Drain, Exit, Idly
<1> QED
  BY <1>1, <1>2, <1>3, <1>4, <1>5, <1>6 DEF Next

\* The inductive invariant of PauseProtocol: places and numbers, packets in one
\* place, epochs in order, a stop on its way; and for calls that do not overlap,
\* where the loop may be while a pause is in force and where its audio is.
THEOREM PauseInvariant == Spec => []PauseInv
<1>1. PauseInv /\ [Next]_vars => PauseInv'
  <2> SUFFICES ASSUME PauseInv, [Next]_vars PROVE PauseInv'
    OBVIOUS
  <2>1. Types'
    BY TypesStep
  <2>2. OnePlace' /\ Epochs' /\ Ending'
    BY <2>1, OnePlaceStep, EpochsStep, EndingStep
  <2>3. ASSUME alone' PROVE Single' /\ PausePlace' /\ QuietAudio' /\ EarlierAudio'
    BY <2>1, <2>3, SingleStep, PausePlaceStep, QuietAudioStep, EarlierAudioStep
  <2> QED
    BY <2>1, <2>2, <2>3 DEF PauseInv
<1> QED
  BY InitInv, <1>1, PTL DEF Spec

\* Packets of which each is in one place are as many as are in all places.
LEMMA PlacesAddUp ==
    ASSUME Types, OnePlace
    PROVE  captured = Len(channel) + Cardinality(buffer) + Cardinality(inflight)
                         + Cardinality(settled) + Cardinality(skipped)
<1> DEFINE All == 1..captured
<1>1. IsFiniteSet(All) /\ Cardinality(All) = captured
  BY FS_Interval DEF Types
<1>2. /\ IsFiniteSet(Carried) /\ IsFiniteSet(buffer) /\ IsFiniteSet(inflight)
      /\ IsFiniteSet(settled) /\ IsFiniteSet(skipped)
  <2>1. /\ Carried \subseteq All /\ buffer \subseteq All /\ inflight \subseteq All
        /\ settled \subseteq All /\ skipped \subseteq All
    BY DEF OnePlace
  <2> QED
    BY <1>1, <2>1, FS_Subset
<1>3. Cardinality(Carried) = Len(channel)
  <2> DEFINE f == [i \in 1..Len(channel) |-> channel[i]]
  <2>1. Len(channel) \in Nat /\ DOMAIN channel = 1..Len(channel)
    BY DEF Types
  <2>2. f \in [1..Len(channel) -> Carried]
    BY <2>1 DEF Carried
  <2>3. \A i, j \in 1..Len(channel) : f[i] = f[j] => i = j
    BY <2>1 DEF OnePlace
  <2>4. \A p \in Carried : \E i \in 1..Len(channel) : f[i] = p
    BY <2>1 DEF Carried
  <2>5. f \in Injection(1..Len(channel), Carried)
    BY <2>2, <2>3 DEF Injection, IsInjective
  <2>6. f \in Surjection(1..Len(channel), Carried)
    BY <2>2, <2>4 DEF Surjection
  <2>7. ExistsBijection(1..Len(channel), Carried)
    BY <2>5, <2>6 DEF ExistsBijection, Bijection
  <2> QED
    BY <2>1, <2>7, FS_CountingElements
<1>4. \A S, T : IsFiniteSet(S) /\ IsFiniteSet(T) /\ S \cap T = {} =>
         /\ IsFiniteSet(S \cup T)
         /\ Cardinality(S \cup T) = Cardinality(S) + Cardinality(T)
  <2> TAKE S, T
  <2> HAVE IsFiniteSet(S) /\ IsFiniteSet(T) /\ S \cap T = {}
  <2>1. Cardinality(S \cup T) = Cardinality(S) + Cardinality(T) - Cardinality({})
    BY FS_Union
  <2>2. Cardinality(S) \in Nat /\ Cardinality(T) \in Nat /\ Cardinality({}) = 0
    BY FS_CardinalityType, FS_EmptySet
  <2> QED
    BY <2>1, <2>2, FS_Union
<1>5. /\ IsFiniteSet(settled \cup skipped)
      /\ Cardinality(settled \cup skipped) = Cardinality(settled) + Cardinality(skipped)
  BY <1>2, <1>4 DEF OnePlace
<1>6. /\ IsFiniteSet(inflight \cup (settled \cup skipped))
      /\ Cardinality(inflight \cup (settled \cup skipped)) =
           Cardinality(inflight) + Cardinality(settled \cup skipped)
  <2>1. inflight \cap (settled \cup skipped) = {}
    BY DEF OnePlace
  <2> QED
    BY <1>2, <1>4, <1>5, <2>1
<1>7. /\ IsFiniteSet(buffer \cup (inflight \cup (settled \cup skipped)))
      /\ Cardinality(buffer \cup (inflight \cup (settled \cup skipped))) =
           Cardinality(buffer) + Cardinality(inflight \cup (settled \cup skipped))
  <2>1. buffer \cap (inflight \cup (settled \cup skipped)) = {}
    BY DEF OnePlace
  <2> QED
    BY <1>2, <1>4, <1>6, <2>1
<1>8. Cardinality(Carried \cup (buffer \cup (inflight \cup (settled \cup skipped)))) =
        Cardinality(Carried) + Cardinality(buffer \cup (inflight \cup (settled \cup skipped)))
  <2>1. Carried \cap (buffer \cup (inflight \cup (settled \cup skipped))) = {}
    BY DEF OnePlace
  <2> QED
    BY <1>2, <1>4, <1>7, <2>1
<1>9. Carried \cup (buffer \cup (inflight \cup (settled \cup skipped))) = All
  BY DEF OnePlace
<1>10. /\ Cardinality(buffer) \in Nat /\ Cardinality(inflight) \in Nat
       /\ Cardinality(settled) \in Nat /\ Cardinality(skipped) \in Nat
  BY <1>2, FS_CardinalityType
<1>11. captured = Cardinality(Carried) + Cardinality(buffer \cup (inflight \cup (settled \cup skipped)))
  BY <1>1, <1>8, <1>9
<1>12. Len(channel) \in Nat
  BY DEF Types
<1> QED
  BY SMTT(30), <1>3, <1>5, <1>6, <1>7, <1>10, <1>11, <1>12

\* For any number of clients, calls and packets: no packet is lost or counted
\* twice; what a client said before its pause is settled when the pause is told,
\* and a stop leaves no audio on the way (service.rs 3120-3137, 5404-5415,
\* 5449-5471), as long as no calls overlapped.
THEOREM AnswersAlwaysSettle == Spec => []AnswersSettleAudio
<1>1. PauseInv => AnswersSettleAudio
  <2> SUFFICES ASSUME PauseInv PROVE AnswersSettleAudio
    OBVIOUS
  <2> USE DEF PauseInv
  <2>1. TypeOK
    <3>1. captured \in 0..MaxEvents /\ calls \in 0..MaxEvents
      BY PauseAssumption DEF Types
    <3> QED
      BY <3>1, PlacesAddUp DEF TypeOK, Types, OnePlace
  <2>2. PauseSettlesEarlierAudio
    BY DEF PauseSettlesEarlierAudio, EarlierAudio
  <2>3. StopSettlesAudio
    BY DEF StopSettlesAudio, Ending, PausePlace
  <2> QED
    BY <2>1, <2>2, <2>3 DEF AnswersSettleAudio
<1> QED
  BY <1>1, PauseInvariant, PTL

\* Audio captured while a pause stands is never transcribed (main.ts 2224), as
\* long as no calls overlapped.
THEOREM PausedAudioAlwaysOut == Spec => []PausedAudioStaysOut
<1>1. PauseInv => PausedAudioStaysOut
  BY DEF PauseInv, QuietAudio, PausedAudioStaysOut
<1> QED
  BY <1>1, PauseInvariant, PTL

\* However calls overlap and run into their deadlines, a recording that was
\* stopped is not shown as running or paused again (service.rs 3139-3142,
\* 3171-3174).
THEOREM StoppedStaysStopped == Spec => []StoppedIsNotRevived
<1>1. PauseInv => StoppedIsNotRevived
  BY DEF PauseInv, Ending, StoppedIsNotRevived
<1> QED
  BY <1>1, PauseInvariant, PTL

-----------------------------------------------------------------------------
(* The invariant: the file.                                                *)

\* What was cut out so far, on its way or recorded.
Segments == {queued[i] : i \in DOMAIN queued} \cup {finals[i] : i \in DOMAIN finals}

\* Types, also of what is not yet committed; a segment ends where the segmenter is.
TimelineKinds ==
    /\ TimelineTypeOK
    /\ {pauses, drops, losses, crashes} \subseteq Nat
    /\ \A i \in DOMAIN queued : queued[i].end = queued[i].start + Len(queued[i].audio)
    /\ Len(active) <= pos /\ Len(preroll) <= pos
    /\ \A s \in Segments : s.attempt <= attempt

\* What a phase says of the variables that other phases use.
Recording == phase \in {"recording", "paused", "stopping"}

TimelinePhases ==
    /\ Recording => attempt = 0 /\ base = 0 /\ ~recovered
    /\ phase \in {"recording", "paused"} => manifest = NoManifest
    /\ phase = "paused" => pauses > 0
    /\ phase \notin {"recording", "recovering"} => active = <<>>
    /\ phase = "recovering" =>
         attempt > 0 /\ manifest = [start |-> 0, end |-> Len(file), gaps |-> {}]
    /\ ~Recording => \A i \in DOMAIN queued : queued[i].attempt > 0

\* The file holds frames as they were captured, the last of them at the end.
FileInOrder ==
    /\ file = <<>> => end = 0 /\ gaps = {} /\ manifest = NoManifest
    /\ file # <<>> => file[Len(file)] = end
    /\ \A i, j \in DOMAIN file : i < j => file[i] < file[j]

\* File and gaps share out the positions: so many are missing before a place.
GapsFillTheFile ==
    file # <<>> =>
      /\ gaps \subseteq file[1]..end
      /\ \A p \in file[1]..end : p \in gaps \/ \E i \in DOMAIN file : file[i] = p
      /\ \A i \in DOMAIN file :
           /\ file[i] \notin gaps
           /\ Cardinality({g \in gaps : g <= file[i]}) = file[i] - file[1] + 1 - i

\* The manifest of a stop is the writer's state.
ManifestOfStop ==
    phase = "stopping" =>
      \/ manifest = NoManifest
      \/ file # <<>> /\ manifest = [start |-> file[1] - 1, end |-> end, gaps |-> gaps]

\* The invariant of the file.
FileInv == TimelineKinds /\ TimelinePhases /\ FileInOrder /\ GapsFillTheFile /\ ManifestOfStop

-----------------------------------------------------------------------------
(* The invariant: positions.                                               *)

\* Sound that starts behind a position is a file's there, or not in that file.
Tells(sound, audio, from) ==
    \A k \in DOMAIN audio :
        IF from + k \in DOMAIN sound THEN sound[from + k] = audio[k]
                                     ELSE \A i \in DOMAIN sound : sound[i] # audio[k]

\* All of it is in that file, place by place.
Reads(sound, audio, from) ==
    \A k \in DOMAIN audio : from + k \in DOMAIN sound /\ sound[from + k] = audio[k]

\* Where the open segment starts, and what is remembered.
ActiveStart == base + pos - Len(active)
PrerollStart == base + pos - Len(preroll)

\* A recording that was never paused counts as its file does.
UnpausedSound ==
    pauses = 0 =>
      /\ phase = "recording" =>
           /\ Len(file) <= pos /\ (writing => pos = Len(file))
           /\ Tells(file, active, ActiveStart) /\ Tells(file, preroll, PrerollStart)
      /\ \A s \in Segments : Tells(file, s.audio, s.start)

\* A recovery reads from the file.
RecoveredSound ==
    /\ \A s \in Segments : s.attempt > 0 => Reads(file, s.audio, s.start)
    /\ phase = "recovering" => Reads(file, active, ActiveStart) /\ Reads(file, preroll, PrerollStart)

\* The finals of a recording come in the order of their positions.
RecordedInOrder ==
    pauses = 0 /\ Recording =>
      /\ \A i, j \in DOMAIN finals : i < j => finals[i].end <= finals[j].end
      /\ \A i \in DOMAIN finals : \A j \in DOMAIN queued : finals[i].end <= queued[j].end
      /\ \A i, j \in DOMAIN queued : i < j => queued[i].end <= queued[j].end
      /\ phase = "recording" => \A s \in Segments : s.end <= pos

\* The invariant of the sound.
SoundInv == UnpausedSound /\ RecoveredSound /\ RecordedInOrder

-----------------------------------------------------------------------------
(* The invariant: what a recovery leaves behind it.                        *)

\* Nothing is left to find at a place, or a final reaches it.
Saved(p) == file[p] \in silent \cup noise \/ \E i \in DOMAIN finals : p <= finals[i].end

\* The recovery has it in hand: in the open segment, or submitted.
InHand(p) ==
    \/ p > ActiveStart
    \/ \E i \in DOMAIN queued :
         queued[i].attempt = attempt /\ queued[i].start < p /\ p <= queued[i].end

\* A recovery that ended left nothing; one that runs and lost nothing has it in hand.
TailInv ==
    /\ recovered => \A p \in DOMAIN file : Saved(p)
    /\ phase = "recovering" /\ ~incomplete =>
         \A p \in DOMAIN file : p <= base + pos => Saved(p) \/ InHand(p)

-----------------------------------------------------------------------------
(* The invariant: what finals have in common.                              *)

\* A final shares no sound with a later one, or only the pre-roll of that.
Apart(s, t) == IF s.attempt = t.attempt THEN s.end < t.start + Preroll ELSE s.end <= t.start

\* The segmenter is behind every final, and its open segment apart from it.
FinalsBehind ==
    \A i \in DOMAIN finals :
        IF finals[i].attempt = attempt
          THEN /\ finals[i].end <= base + pos
               /\ active # <<>> => finals[i].end < ActiveStart + Preroll
          ELSE finals[i].end <= base

\* So is the one final of this recovery that is not yet committed.
QueuedBehind ==
    \A j \in DOMAIN queued : queued[j].attempt = attempt =>
        /\ base <= queued[j].start /\ queued[j].end <= base + pos
        /\ active # <<>> => queued[j].end < ActiveStart + Preroll
        /\ \A i \in DOMAIN finals :
             finals[i].end <= queued[j].end /\ Apart(finals[i], queued[j])
        /\ \A i \in DOMAIN queued : queued[i].attempt = attempt => i = j

\* Without late finals and pauses, the last final ends behind all others, and what
\* a recovery adds is apart from them.
OnceInv ==
    pauses = 0 /\ ~late =>
      /\ \A i, j \in DOMAIN finals : i < j => finals[i].end <= finals[j].end
      /\ \A i, j \in DOMAIN finals : i < j /\ finals[j].attempt > 0 => Apart(finals[i], finals[j])
      /\ attempt > 0 => FinalsBehind /\ QueuedBehind

-----------------------------------------------------------------------------
(* The sets that the invariant counts over.                                *)

\* A submitted segment is one more.
LEMMA SubmittedSegments ==
    ASSUME NEW s, queued \in Seq(Segment), s \in Segment, queued' = Append(queued, s), finals' = finals
    PROVE  Segments' = Segments \cup {s}
<1>1. DOMAIN queued' = DOMAIN queued \cup {Len(queued) + 1} /\ Len(queued) \in Nat /\ DOMAIN queued = 1..Len(queued)
  OBVIOUS
<1>2. \A i \in DOMAIN queued : queued'[i] = queued[i]
  OBVIOUS
<1>3. queued'[Len(queued) + 1] = s
  OBVIOUS
<1> QED
  BY <1>1, <1>2, <1>3 DEF Segments

\* Whatever leaves the queue alone, or empties it, adds none.
LEMMA KeptSegments ==
    ASSUME queued' = queued \/ queued' = <<>>, finals' = finals
    PROVE  Segments' \subseteq Segments
<1>1. DOMAIN <<>> = {}
  OBVIOUS
<1> QED
  BY <1>1 DEF Segments

\* A commit takes the first segment of the queue, and adds it to the finals or not.
LEMMA CommitTakesHead ==
    ASSUME queued \in Seq(Segment), finals \in Seq(Segment), Commit
    PROVE  /\ Len(queued) \in Nat \ {0} /\ Head(queued) = queued[1] /\ Head(queued) \in Segment
           /\ queued' = Tail(queued) /\ queued' \in Seq(Segment)
           /\ DOMAIN queued' = 1..(Len(queued) - 1) /\ DOMAIN queued = 1..Len(queued)
           /\ \A i \in DOMAIN queued' : i + 1 \in DOMAIN queued /\ queued'[i] = queued[i + 1]
           /\ Head(queued) \in Segments
<1>1. queued # <<>> /\ queued' = Tail(queued)
  BY DEF Commit
<1>2. Len(queued) \in Nat \ {0} /\ Head(queued) = queued[1] /\ Head(queued) \in Segment /\ DOMAIN queued = 1..Len(queued)
  BY <1>1
<1>3. queued' \in Seq(Segment) /\ Len(queued') = Len(queued) - 1
  BY <1>1
<1>4. DOMAIN queued' = 1..(Len(queued) - 1)
  BY <1>2, <1>3
<1>5. \A i \in DOMAIN queued' : i + 1 \in DOMAIN queued /\ queued'[i] = queued[i + 1]
  BY <1>1, <1>2, <1>4
<1>6. Head(queued) \in Segments
  BY <1>2 DEF Segments
<1> QED
  BY <1>1, <1>2, <1>3, <1>4, <1>5, <1>6

\* A commit records the oldest segment, or records nothing.
LEMMA CommittedFinals ==
    ASSUME queued \in Seq(Segment), finals \in Seq(Segment), Commit
    PROVE  \/ finals' = finals
           \/ /\ finals' = Append(finals, Head(queued)) /\ ~Conflicts(Head(queued))
              /\ noise' = noise /\ incomplete' = incomplete
              /\ finals' \in Seq(Segment)
              /\ Len(finals') = Len(finals) + 1 /\ Len(finals) \in Nat
              /\ DOMAIN finals' = DOMAIN finals \cup {Len(finals) + 1}
              /\ DOMAIN finals = 1..Len(finals)
              /\ finals'[Len(finals) + 1] = Head(queued)
              /\ \A i \in DOMAIN finals : finals'[i] = finals[i]
<1>1. Head(queued) \in Segment
  BY CommitTakesHead
<1>2. \/ finals' = finals
      \/ /\ finals' = Append(finals, Head(queued)) /\ ~Conflicts(Head(queued))
         /\ noise' = noise /\ incomplete' = incomplete
  BY DEF Commit
<1>3. CASE finals' = finals
  BY <1>3
<1>4. CASE /\ finals' = Append(finals, Head(queued)) /\ ~Conflicts(Head(queued))
           /\ noise' = noise /\ incomplete' = incomplete
  <2>1. finals' \in Seq(Segment) /\ Len(finals') = Len(finals) + 1 /\ Len(finals) \in Nat /\ DOMAIN finals = 1..Len(finals)
    BY <1>1, <1>4
  <2>2. DOMAIN finals' = 1..(Len(finals) + 1)
    BY <2>1
  <2>3. DOMAIN finals' = DOMAIN finals \cup {Len(finals) + 1}
    BY <2>1, <2>2
  <2>4. finals'[Len(finals) + 1] = Head(queued) /\ \A i \in DOMAIN finals : finals'[i] = finals[i]
    BY <1>4, <2>1, <1>1
  <2> QED
    BY <1>4, <2>1, <2>3, <2>4
<1> QED
  BY <1>2, <1>3, <1>4

\* A commit adds no segment.
LEMMA CommittedSegments ==
    ASSUME queued \in Seq(Segment), finals \in Seq(Segment), Commit
    PROVE  Segments' \subseteq Segments
<1>1. {queued'[i] : i \in DOMAIN queued'} \subseteq {queued[i] : i \in DOMAIN queued}
  BY CommitTakesHead
<1>2. {finals'[i] : i \in DOMAIN finals'} \subseteq Segments
  BY CommittedFinals, CommitTakesHead DEF Segments
<1> QED
  BY <1>1, <1>2 DEF Segments

-----------------------------------------------------------------------------
(* The segmenter.                                                          *)

\* The open segment with one block more.
Longer(f) == Append(active, f)

\* The four things that can become of a block.
PassedOver(f) == active = <<>> /\ f \in silent /\ active' = <<>> /\ queued' = queued

Began(f) == active = <<>> /\ f \notin silent /\ active' = Remembered(f) /\ queued' = queued

Grew(f) ==
    /\ active # <<>> /\ f \notin silent /\ Len(Longer(f)) < MaxSegment
    /\ active' = Longer(f) /\ queued' = queued

\* The segment of an audio that ends at a block.
SegmentIs(s, audio, last) ==
    /\ s \in Segment /\ s.attempt = attempt /\ s.audio = audio
    /\ s.end = base + last /\ s.start = base + last - Len(audio) /\ s.end = s.start + Len(audio)

Submitted(s) == queued' = Append(queued, s) /\ queued' \in Seq(Segment)

CutHere(f) ==
    /\ active # <<>> /\ active' = <<>>
    /\ \E s \in Segment : SegmentIs(s, Longer(f), pos + 1) /\ Submitted(s)

\* What is remembered: the block, and of those before it as many as fit.
LEMMA RememberedBlocks ==
    ASSUME TimelineKinds, NEW f \in Frames
    PROVE  /\ Remembered(f) \in Seq(Frames)
           /\ Len(Remembered(f)) \in Nat /\ Len(Remembered(f)) >= 1 /\ Len(Remembered(f)) <= Preroll
           /\ Len(Remembered(f)) <= Len(preroll) + 1
           /\ DOMAIN Remembered(f) = 1..Len(Remembered(f))
           /\ Remembered(f)[Len(Remembered(f))] = f
           /\ \A k \in 1..(Len(Remembered(f)) - 1) :
                LET o == Len(preroll) + 1 - Len(Remembered(f))
                IN  o + k \in DOMAIN preroll /\ Remembered(f)[k] = preroll[o + k]
<1>1. preroll \in Seq(Frames) /\ Len(preroll) \in Nat /\ Len(preroll) <= Preroll /\ Preroll \in Nat /\ Preroll >= 1
  BY TimelineAssumption DEF TimelineKinds, TimelineTypeOK
<1>2. CASE Len(preroll) = Preroll
  <2>1. Remembered(f) = Append(Tail(preroll), f)
    BY <1>2 DEF Remembered
  <2>2. /\ Tail(preroll) \in Seq(Frames) /\ Len(Tail(preroll)) = Len(preroll) - 1
        /\ \A k \in 1..(Len(preroll) - 1) : Tail(preroll)[k] = preroll[k + 1]
    BY <1>1, <1>2
  <2>3. /\ Remembered(f) \in Seq(Frames) /\ Len(Remembered(f)) = Len(preroll)
        /\ DOMAIN Remembered(f) = 1..Len(Remembered(f))
        /\ Remembered(f)[Len(preroll)] = f
        /\ \A k \in 1..(Len(preroll) - 1) : Remembered(f)[k] = Tail(preroll)[k]
    BY <2>1, <2>2, <1>1
  <2>4. \A k \in 1..(Len(preroll) - 1) : 1 + k \in DOMAIN preroll /\ Remembered(f)[k] = preroll[1 + k]
    BY <2>2, <2>3, <1>1
  <2> QED
    BY <2>3, <2>4, <1>1, <1>2
<1>3. CASE Len(preroll) # Preroll
  <2>1. Remembered(f) = Append(preroll, f)
    BY <1>3 DEF Remembered
  <2>2. /\ Remembered(f) \in Seq(Frames) /\ Len(Remembered(f)) = Len(preroll) + 1
        /\ DOMAIN Remembered(f) = 1..Len(Remembered(f))
        /\ Remembered(f)[Len(preroll) + 1] = f
        /\ \A k \in 1..Len(preroll) : k \in DOMAIN preroll /\ Remembered(f)[k] = preroll[k]
    BY <2>1, <1>1
  <2> QED
    BY <2>2, <1>1, <1>3
<1> QED
  BY <1>2, <1>3

\* A block is passed over, starts a segment, is kept, or is the last of one.
LEMMA PushCases ==
    ASSUME TimelineKinds, NEW f \in Frames, Push(f)
    PROVE  /\ pos' = pos + 1 /\ pos' \in Nat /\ preroll' = Remembered(f)
           /\ Longer(f) \in Seq(Frames) /\ Len(Longer(f)) = Len(active) + 1 /\ Len(active) \in Nat
           /\ DOMAIN Longer(f) = DOMAIN active \cup {Len(active) + 1}
           /\ Longer(f)[Len(active) + 1] = f
           /\ \A k \in DOMAIN active : Longer(f)[k] = active[k]
           /\ PassedOver(f) \/ Began(f) \/ Grew(f) \/ CutHere(f)
<1> USE TimelineAssumption
<1>1. /\ pos \in Nat /\ base \in Nat /\ active \in Seq(Frames) /\ queued \in Seq(Segment) /\ attempt \in Nat
      /\ Len(active) \in Nat /\ Len(active) <= MaxSegment /\ Len(active) <= pos
  BY DEF TimelineKinds, TimelineTypeOK
<1>2. pos' = pos + 1 /\ pos' \in Nat /\ preroll' = Remembered(f)
  BY <1>1 DEF Push
<1>3. Longer(f) \in Seq(Frames) /\ Len(Longer(f)) = Len(active) + 1
  BY <1>1 DEF Longer
<1>4. DOMAIN Longer(f) = DOMAIN active \cup {Len(active) + 1}
  <2>1. DOMAIN Longer(f) = 1..(Len(active) + 1) /\ DOMAIN active = 1..Len(active)
    BY <1>1, <1>3
  <2> QED
    BY <2>1, <1>1
<1>5. Longer(f)[Len(active) + 1] = f /\ \A k \in DOMAIN active : Longer(f)[k] = active[k]
  BY <1>1 DEF Longer
<1>6. CASE active = <<>>
  <2>1. PassedOver(f) \/ Began(f)
    BY <1>6 DEF Push, PassedOver, Began
  <2> QED
    BY <2>1, <1>1, <1>2, <1>3, <1>4, <1>5
<1>7. CASE active # <<>> /\ (f \in silent \/ Len(Longer(f)) >= MaxSegment)
  <2> DEFINE s == SegmentOf(Longer(f), pos + 1)
  <2>1. active' = <<>> /\ queued' = Append(queued, s)
    BY <1>7 DEF Push, Longer
  <2>2. SegmentIs(s, Longer(f), pos + 1)
    <3>1. base + (pos + 1) \in Nat /\ base + (pos + 1) - Len(Longer(f)) \in Nat
      BY <1>1, <1>3
    <3> QED
      BY <3>1, <1>1, <1>3 DEF SegmentOf, Segment, SegmentIs
  <2>3. Submitted(s)
    BY <2>1, <2>2, <1>1 DEF Submitted, SegmentIs
  <2>4. CutHere(f)
    BY <1>7, <2>1, <2>2, <2>3 DEF CutHere, SegmentIs
  <2> QED
    BY <2>4, <1>1, <1>2, <1>3, <1>4, <1>5
<1>8. CASE active # <<>> /\ ~(f \in silent \/ Len(Longer(f)) >= MaxSegment)
  <2>1. active' = Longer(f) /\ queued' = queued
    BY <1>8 DEF Push, Longer
  <2>2. Len(Longer(f)) < MaxSegment
    BY <1>1, <1>3, <1>8
  <2> QED
    BY <2>1, <2>2, <1>1, <1>2, <1>3, <1>4, <1>5, <1>8 DEF Grew
<1> QED
  BY <1>6, <1>7, <1>8

\* A flush submits what is open, and leaves nothing open.
LEMMA FlushCases ==
    ASSUME TimelineKinds, FlushStop
    PROVE  /\ active' = <<>> /\ preroll' = <<>>
           /\ \/ active = <<>> /\ queued' = queued
              \/ active # <<>> /\ \E s \in Segment : SegmentIs(s, active, pos) /\ Submitted(s)
<1>1. /\ pos \in Nat /\ base \in Nat /\ active \in Seq(Frames) /\ queued \in Seq(Segment) /\ attempt \in Nat
      /\ Len(active) \in Nat /\ Len(active) <= pos
  BY TimelineAssumption DEF TimelineKinds, TimelineTypeOK
<1>2. active' = <<>> /\ preroll' = <<>>
  BY DEF FlushStop
<1>3. CASE active = <<>>
  BY <1>2, <1>3 DEF FlushStop
<1>4. CASE active # <<>>
  <2> DEFINE s == SegmentOf(active, pos)
  <2>1. queued' = Append(queued, s)
    BY <1>4 DEF FlushStop
  <2>2. SegmentIs(s, active, pos)
    <3>1. base + pos \in Nat /\ base + pos - Len(active) \in Nat
      BY <1>1
    <3> QED
      BY <3>1, <1>1 DEF SegmentOf, Segment, SegmentIs
  <2>3. Submitted(s)
    BY <2>1, <2>2, <1>1 DEF Submitted, SegmentIs
  <2> QED
    BY <1>2, <1>4, <2>2, <2>3 DEF SegmentIs
<1> QED
  BY <1>3, <1>4


-----------------------------------------------------------------------------
(* The file part is kept.                                                  *)

\* Types that concern segments on their way.
QueueKinds ==
    /\ queued \in Seq(Segment) /\ active \in Seq(Frames) /\ Len(active) <= MaxSegment
    /\ preroll \in Seq(Frames) /\ Len(preroll) <= Preroll /\ Len(preroll) <= pos
    /\ pos \in Nat /\ base \in Nat /\ Len(active) <= pos /\ attempt \in 0..MaxAttempts
    /\ \A i \in DOMAIN queued : queued[i].end = queued[i].start + Len(queued[i].audio)

FinalKinds ==
    /\ finals \in Seq(Segment)
    /\ \A i \in DOMAIN finals : finals[i].end = finals[i].start + Len(finals[i].audio)
    /\ noise \subseteq Frames /\ incomplete \in BOOLEAN /\ recovered \in BOOLEAN /\ late \in BOOLEAN

FileKinds ==
    /\ silent \subseteq Frames /\ frameStart \in 0..MaxFrames
    /\ file \in Seq(Frames) /\ writing \in BOOLEAN /\ end \in 0..frameStart /\ gaps \subseteq Frames
    /\ manifest \in [start : Nat, end : Nat, gaps : SUBSET Frames]
    /\ phase \in {"recording", "paused", "stopping", "completed", "down", "interrupted", "recovering"}

CountKinds ==
    /\ {pauses, drops, losses, crashes} \subseteq Nat
    /\ \A s \in Segments : s.attempt <= attempt

\* The types are those four parts.
LEMMA KindsParts == TimelineKinds <=> QueueKinds /\ FinalKinds /\ FileKinds /\ CountKinds
  BY DEF TimelineKinds, TimelineTypeOK, QueueKinds, FinalKinds, FileKinds, CountKinds

\* And so they are in the next state.
LEMMA KindsPartsPrimed == TimelineKinds' <=> QueueKinds' /\ FinalKinds' /\ FileKinds' /\ CountKinds'
  BY DEF TimelineKinds, TimelineTypeOK, QueueKinds, FinalKinds, FileKinds, CountKinds

\* The queue is typed after a push, a flush, and when it loses its head.
LEMMA PushKinds ==
    ASSUME TimelineKinds, NEW f \in Frames, Push(f), finals' = finals, attempt' = attempt, base' = base
    PROVE  QueueKinds' /\ \A s \in Segments' : s.attempt <= attempt
<1>1. QueueKinds /\ CountKinds /\ queued \in Seq(Segment) /\ attempt \in Nat
  BY KindsParts, TimelineAssumption DEF QueueKinds
<1>2. /\ pos' = pos + 1 /\ pos' \in Nat /\ Longer(f) \in Seq(Frames) /\ Len(Longer(f)) = Len(active) + 1
      /\ PassedOver(f) \/ Began(f) \/ Grew(f) \/ CutHere(f)
  BY PushCases
<1>20. /\ preroll' \in Seq(Frames) /\ Len(preroll') \in Nat /\ Len(preroll') <= Preroll /\ Len(preroll') <= pos'
       /\ Preroll \in Nat /\ Preroll <= MaxSegment /\ MaxSegment \in Nat
  <2>1. preroll' = Remembered(f) /\ Len(preroll) <= pos /\ Len(preroll) \in Nat /\ pos \in Nat
    BY <1>1, PushCases DEF QueueKinds
  <2> QED
    BY <2>1, <1>2, RememberedBlocks, TimelineAssumption
<1>6. CASE Began(f)
  <2>1. Segments' \subseteq Segments
    BY <1>6, KeptSegments DEF Began
  <2>2. active' = preroll'
    BY <1>6, PushCases DEF Began
  <2> QED
    BY <1>1, <1>2, <1>20, <1>6, <2>1, <2>2 DEF Began, QueueKinds, CountKinds
<1>3. CASE PassedOver(f)
  <2>1. Segments' \subseteq Segments
    BY <1>3, KeptSegments DEF PassedOver
  <2> QED
    BY <1>1, <1>2, <1>20, <1>3, <2>1 DEF PassedOver, QueueKinds, CountKinds
<1>4. CASE Grew(f)
  <2>1. Segments' \subseteq Segments
    BY <1>4, KeptSegments DEF Grew
  <2> QED
    BY <1>1, <1>2, <1>20, <1>4, <2>1 DEF Grew, QueueKinds, CountKinds
<1>5. CASE CutHere(f)
  <2>1. PICK s \in Segment : SegmentIs(s, Longer(f), pos + 1) /\ Submitted(s)
    BY <1>5 DEF CutHere
  <2>2. Segments' = Segments \cup {s}
    BY <2>1, <1>1, SubmittedSegments DEF Submitted
  <2>3. \A t \in Segments' : t.attempt <= attempt
    BY <2>1, <2>2, <1>1 DEF SegmentIs, CountKinds
  <2>4. \A i \in DOMAIN queued' : queued'[i].end = queued'[i].start + Len(queued'[i].audio)
    BY <2>1, <1>1 DEF Submitted, SegmentIs, QueueKinds
  <2>5. active' = <<>> /\ Len(<<>>) = 0 /\ <<>> \in Seq(Frames)
    BY <1>5 DEF CutHere
  <2>6. /\ queued' \in Seq(Segment) /\ base' \in Nat /\ attempt' \in 0..MaxAttempts
        /\ 0 <= MaxSegment /\ 0 <= pos'
    BY <1>1, <1>2, <1>20, <2>1 DEF QueueKinds, Submitted
  <2> QED
    BY <1>2, <1>20, <2>3, <2>4, <2>5, <2>6 DEF QueueKinds
<1> QED
  BY <1>2, <1>3, <1>4, <1>5, <1>6

\* A flush keeps the types of the queue.
LEMMA FlushKinds ==
    ASSUME TimelineKinds, FlushStop, finals' = finals, attempt' = attempt, base' = base, pos' = pos
    PROVE  QueueKinds' /\ \A s \in Segments' : s.attempt <= attempt
<1>1. QueueKinds /\ CountKinds /\ queued \in Seq(Segment) /\ attempt \in Nat
  BY KindsParts, TimelineAssumption DEF QueueKinds
<1>2. active' = <<>> /\ preroll' = <<>> /\ Len(<<>>) = 0 /\ <<>> \in Seq(Frames)
  BY FlushCases
<1>3. CASE queued' = queued
  <2>1. Segments' \subseteq Segments
    BY <1>3, KeptSegments
  <2> QED
    BY <1>1, <1>2, <1>3, <2>1, TimelineAssumption DEF QueueKinds, CountKinds
<1>4. ASSUME NEW s \in Segment, SegmentIs(s, active, pos), Submitted(s)
      PROVE  QueueKinds' /\ \A t \in Segments' : t.attempt <= attempt
  <2>1. Segments' = Segments \cup {s}
    BY <1>4, <1>1, SubmittedSegments DEF Submitted
  <2>2. \A t \in Segments' : t.attempt <= attempt
    BY <1>4, <2>1, <1>1 DEF SegmentIs, CountKinds
  <2>3. \A i \in DOMAIN queued' : queued'[i].end = queued'[i].start + Len(queued'[i].audio)
    <3>1. /\ DOMAIN queued' = DOMAIN queued \cup {Len(queued) + 1} /\ queued'[Len(queued) + 1] = s
          /\ \A i \in DOMAIN queued : queued'[i] = queued[i]
      BY <1>4, <1>1 DEF Submitted
    <3>2. s.end = s.start + Len(s.audio)
      BY <1>4 DEF SegmentIs
    <3> QED
      BY <3>1, <3>2, <1>1 DEF QueueKinds
  <2> QED
    BY <1>1, <1>2, <1>4, <2>2, <2>3, TimelineAssumption DEF QueueKinds, Submitted
<1> QED
  BY <1>3, <1>4, FlushCases

\* A commit keeps the types.
LEMMA CommitKinds ==
    ASSUME TimelineKinds, Commit
    PROVE  TimelineKinds'
<1>1. QueueKinds /\ FinalKinds /\ FileKinds /\ CountKinds
  BY KindsParts
<1>2. queued \in Seq(Segment) /\ finals \in Seq(Segment)
  BY <1>1 DEF QueueKinds, FinalKinds
<1>3. UNCHANGED <<silent, phase, frameStart, raw, manifest, segmenter, recovered, counts>>
  BY DEF Commit
<1>4. QueueKinds'
  BY <1>1, <1>2, <1>3, CommitTakesHead DEF QueueKinds, segmenter
<1>5. FinalKinds'
  <2>1. finals' \in Seq(Segment)
    BY <1>2, CommittedFinals
  <2>2. \A i \in DOMAIN finals' : finals'[i].end = finals'[i].start + Len(finals'[i].audio)
    <3>1. Head(queued) = queued[1] /\ 1 \in DOMAIN queued
      BY <1>2, CommitTakesHead
    <3>2. Head(queued).end = Head(queued).start + Len(Head(queued).audio)
      BY <3>1, <1>1 DEF QueueKinds
    <3> QED
      BY <3>2, <1>1, <1>2, CommittedFinals DEF FinalKinds
  <2>3. noise' \subseteq Frames
    <3>1. Head(queued).audio \in Seq(Frames)
      BY <1>2, CommitTakesHead DEF Segment
    <3>2. {Head(queued).audio[i] : i \in DOMAIN Head(queued).audio} \subseteq Frames
      BY <3>1
    <3> QED
      BY <3>2, <1>1 DEF Commit, FinalKinds
  <2>4. incomplete' \in BOOLEAN /\ late' \in BOOLEAN
    BY <1>1 DEF Commit, FinalKinds
  <2> QED
    BY <2>1, <2>2, <2>3, <2>4, <1>1, <1>3 DEF FinalKinds
<1>6. FileKinds'
  BY <1>1, <1>3 DEF FileKinds, raw
<1>7. CountKinds'
  <2>1. losses' \in Nat
    BY <1>1 DEF Commit, CountKinds
  <2>2. Segments' \subseteq Segments
    BY <1>2, CommittedSegments
  <2> QED
    BY <2>1, <2>2, <1>1, <1>3 DEF CountKinds, counts, segmenter
<1> QED
  BY <1>4, <1>5, <1>6, <1>7, KindsPartsPrimed


\* A sequence with elements has a first and a last one.
LEMMA EndsOfSequence ==
    ASSUME NEW S, NEW q \in Seq(S), q # <<>>
    PROVE  /\ Len(q) \in Nat \ {0} /\ DOMAIN q = 1..Len(q)
           /\ 1 \in DOMAIN q /\ Len(q) \in DOMAIN q /\ q[1] \in S /\ q[Len(q)] \in S
<1>1. Len(q) \in Nat \ {0} /\ DOMAIN q = 1..Len(q)
  OBVIOUS
<1>2. 1 \in DOMAIN q /\ Len(q) \in DOMAIN q
  BY <1>1
<1> QED
  BY <1>1, <1>2

\* A segment is one, and its audio fills its positions.
LEMMA SegmentsTyped ==
    ASSUME TimelineKinds
    PROVE  /\ \A s \in Segments : s \in Segment /\ s.end = s.start + Len(s.audio)
           /\ \A s \in Segment : /\ s.start \in Nat /\ s.end \in Nat /\ s.attempt \in Nat
                                 /\ s.audio \in Seq(Frames) /\ Len(s.audio) \in Nat
                                 /\ DOMAIN s.audio = 1..Len(s.audio)
<1>1. queued \in Seq(Segment) /\ finals \in Seq(Segment)
  BY DEF TimelineKinds, TimelineTypeOK
<1>2. (\A i \in DOMAIN queued : queued[i] \in Segment) /\ (\A i \in DOMAIN finals : finals[i] \in Segment)
  BY <1>1
<1>3. \A s \in Segments : s \in Segment /\ s.end = s.start + Len(s.audio)
  BY <1>2 DEF Segments, TimelineKinds, TimelineTypeOK
<1>4. \A s \in Segment : s.start \in Nat /\ s.end \in Nat /\ s.attempt \in Nat /\ s.audio \in Seq(Frames)
  BY DEF Segment
<1>5. \A s \in Segment : Len(s.audio) \in Nat /\ DOMAIN s.audio = 1..Len(s.audio)
  BY <1>4
<1> QED
  BY <1>3, <1>4, <1>5

\* The next frame of the tail is the file's.
LEMMA RecoveryReadsFile ==
    ASSUME TimelineKinds, TimelinePhases, RecoverFrame
    PROVE  /\ base + pos + 1 \in DOMAIN file /\ file[base + pos + 1] \in Frames
           /\ FrameAt(base + pos + 1) = file[base + pos + 1]
           /\ Push(file[base + pos + 1])
<1>1. base \in Nat /\ pos \in Nat /\ file \in Seq(Frames)
  BY DEF TimelineKinds, TimelineTypeOK
<1>2. manifest = [start |-> 0, end |-> Len(file), gaps |-> {}]
  BY DEF TimelinePhases, RecoverFrame
<1>3. base + pos < Len(file) /\ Push(FrameAt(base + pos + 1))
  BY <1>2 DEF RecoverFrame
<1>4. base + pos + 1 \in DOMAIN file
  BY <1>1, <1>3
<1>5. {g \in manifest.gaps : g <= base + pos + 1} = {}
  BY <1>2
<1>6. PresentUpTo(base + pos + 1) = base + pos + 1
  BY <1>1, <1>2, <1>5, FS_EmptySet DEF PresentUpTo
<1> QED
  BY <1>1, <1>3, <1>4, <1>6 DEF FrameAt

\* Every step keeps the types.
LEMMA KindsNext ==
    ASSUME TimelineKinds, TimelinePhases, FileInOrder, TimelineNext
    PROVE  TimelineKinds'
<1>0. QueueKinds /\ FinalKinds /\ FileKinds /\ CountKinds
  BY KindsParts
<1>1. CASE Hear
  <2>1. frameStart < MaxFrames /\ frameStart \in Nat /\ frameStart + 1 \in Frames /\ MaxFrames \in Nat
    BY <1>1, <1>0, TimelineAssumption DEF Hear, FileKinds, Frames
  <2>2. QueueKinds' /\ \A s \in Segments' : s.attempt <= attempt
    BY <1>1, <2>1, PushKinds DEF Hear
  <2>3. FinalKinds'
    BY <1>1, <1>0 DEF Hear, FinalKinds
  <2>4. CountKinds'
    BY <2>2, <1>1, <1>0 DEF Hear, CountKinds, counts
  <2>5. FileKinds'
    <3>1. CASE writing /\ AppendFrame
      <4>1. file' \in Seq(Frames)
        BY <3>1, <2>1, <1>0 DEF AppendFrame, FileKinds
      <4>2. (end + 1)..frameStart \subseteq Frames
        BY <2>1, <1>0 DEF FileKinds, Frames
      <4>3. gaps' \subseteq Frames
        BY <4>2, <3>1, <1>0 DEF AppendFrame, FileKinds
      <4>4. end' \in 0..frameStart' /\ frameStart' \in 0..MaxFrames
        BY <2>1, <3>1, <1>1 DEF AppendFrame, Hear
      <4> QED
        BY <4>1, <4>3, <4>4, <3>1, <1>1, <1>0 DEF Hear, AppendFrame, FileKinds
    <3>2. CASE UNCHANGED <<file, end, gaps>> /\ writing' \in BOOLEAN
      <4>1. end' \in 0..frameStart' /\ frameStart' \in 0..MaxFrames
        BY <2>1, <3>2, <1>1, <1>0 DEF Hear, FileKinds
      <4> QED
        BY <4>1, <3>2, <1>1, <1>0 DEF Hear, FileKinds
    <3> QED
      BY <3>1, <3>2, <1>1, <1>0 DEF Hear, FileKinds, raw
  <2> QED
    BY <2>2, <2>3, <2>4, <2>5, KindsPartsPrimed
<1>2. CASE Miss
  <2>1. frameStart' \in 0..MaxFrames /\ end \in 0..frameStart' /\ drops' \in Nat
    BY <1>2, <1>0, TimelineAssumption DEF Miss, FileKinds, CountKinds
  <2>2. QueueKinds' /\ FinalKinds'
    BY <1>2, <1>0 DEF Miss, QueueKinds, FinalKinds, segmenter, ledger
  <2>3. FileKinds'
    BY <1>2, <2>1, <1>0 DEF Miss, FileKinds, raw
  <2>4. CountKinds'
    BY <1>2, <2>1, <1>0 DEF Miss, CountKinds, Segments, segmenter, ledger
  <2> QED
    BY <2>2, <2>3, <2>4, KindsPartsPrimed
<1>3. CASE Pause
  <2>1. QueueKinds' /\ \A s \in Segments' : s.attempt <= attempt
    BY <1>3, FlushKinds DEF Pause, ledger
  <2>2. FinalKinds' /\ FileKinds' /\ CountKinds'
    BY <1>3, <2>1, <1>0 DEF Pause, FinalKinds, FileKinds, CountKinds, ledger, raw
  <2> QED
    BY <2>1, <2>2, KindsPartsPrimed
<1>4. CASE Resume
  <2>1. QueueKinds'
    BY <1>4, <1>0, TimelineAssumption DEF Resume, QueueKinds
  <2>2. FinalKinds' /\ FileKinds' /\ CountKinds'
    BY <1>4, <1>0 DEF Resume, FinalKinds, FileKinds, CountKinds, ledger, raw, counts, Segments
  <2> QED
    BY <2>1, <2>2, KindsPartsPrimed
<1>5. CASE Stop
  <2>1. QueueKinds' /\ \A s \in Segments' : s.attempt <= attempt
    BY <1>5, FlushKinds DEF Stop, ledger
  <2>2. manifest' \in [start : Nat, end : Nat, gaps : SUBSET Frames]
    <3>1. file # <<>> => file[1] - 1 \in Nat
      <4>1. file # <<>> => file[1] \in Frames
        BY <1>0, EndsOfSequence DEF FileKinds
      <4> QED
        BY <4>1 DEF Frames
    <3>2. end \in Nat /\ gaps \in SUBSET Frames
      BY <1>0 DEF FileKinds
    <3> QED
      BY <3>1, <3>2, <1>5, <1>0 DEF Stop, FileKinds
  <2>3. FinalKinds' /\ FileKinds' /\ CountKinds'
    BY <1>5, <2>1, <2>2, <1>0 DEF Stop, FinalKinds, FileKinds, CountKinds, ledger, raw, counts
  <2> QED
    BY <2>1, <2>3, KindsPartsPrimed
<1>6. CASE StopWindows \/ Restart \/ EndRecover
  <2>1. QueueKinds' /\ FinalKinds' /\ FileKinds' /\ CountKinds'
    BY <1>6, <1>0 DEF StopWindows, Restart, EndRecover, QueueKinds, FinalKinds, FileKinds, CountKinds, ledger, raw, counts, segmenter, Segments
  <2> QED
    BY <2>1, KindsPartsPrimed
<1>7. CASE Commit
  BY <1>7, CommitKinds
<1>8. CASE Crash
  <2>1. Segments' \subseteq Segments
    BY <1>8, KeptSegments DEF Crash, ledger
  <2>2. crashes' \in Nat
    BY <1>8, <1>0 DEF Crash, CountKinds
  <2>3. QueueKinds'
    BY <1>8, <1>0, TimelineAssumption DEF Crash, QueueKinds
  <2>4. FinalKinds' /\ FileKinds' /\ CountKinds'
    BY <1>8, <2>1, <2>2, <1>0 DEF Crash, FinalKinds, FileKinds, CountKinds, ledger, raw
  <2> QED
    BY <2>3, <2>4, KindsPartsPrimed
<1>9. CASE Finalize
  <2>1. manifest' \in [start : Nat, end : Nat, gaps : SUBSET Frames]
    BY <1>9, <1>0 DEF Finalize, Rebuilt, FileKinds
  <2>2. QueueKinds' /\ FinalKinds' /\ FileKinds' /\ CountKinds'
    BY <1>9, <2>1, <1>0 DEF Finalize, QueueKinds, FinalKinds, FileKinds, CountKinds, ledger, raw, counts, segmenter, Segments
  <2> QED
    BY <2>2, KindsPartsPrimed
<1>10. CASE BeginRecover
  <2>1. manifest' \in [start : Nat, end : Nat, gaps : SUBSET Frames]
    BY <1>10, <1>0 DEF BeginRecover, Rebuilt, FileKinds
  <2>2. LastSavedSample \in Nat
    <3>1. finals # <<>> => finals[Len(finals)] \in Segment
      BY <1>0, EndsOfSequence DEF FinalKinds
    <3> QED
      BY <3>1 DEF LastSavedSample, Segment
  <2>3. attempt' \in 0..MaxAttempts
    BY <1>10, <1>0, TimelineAssumption DEF BeginRecover, QueueKinds
  <2>4. QueueKinds'
    BY <1>10, <2>2, <2>3, <1>0, TimelineAssumption DEF BeginRecover, QueueKinds
  <2>5. FinalKinds' /\ FileKinds'
    BY <1>10, <2>1, <1>0 DEF BeginRecover, FinalKinds, FileKinds, raw
  <2>6. CountKinds'
    <3>1. Segments' = Segments /\ attempt' = attempt + 1 /\ attempt \in Nat
      BY <1>10, <1>0, TimelineAssumption DEF BeginRecover, Segments, QueueKinds
    <3>2. \A s \in Segments : s.attempt \in Nat
      BY SegmentsTyped
    <3> QED
      BY <3>1, <3>2, <1>10, <1>0 DEF BeginRecover, CountKinds, counts
  <2> QED
    BY <2>4, <2>5, <2>6, KindsPartsPrimed
<1>11. CASE RecoverFrame
  <2>1. QueueKinds' /\ \A s \in Segments' : s.attempt <= attempt
    BY <1>11, RecoveryReadsFile, PushKinds DEF RecoverFrame, ledger
  <2>2. FinalKinds' /\ FileKinds' /\ CountKinds'
    BY <1>11, <2>1, <1>0 DEF RecoverFrame, FinalKinds, FileKinds, CountKinds, ledger, raw, counts
  <2> QED
    BY <2>1, <2>2, KindsPartsPrimed
<1>12. CASE RecoverFlush
  <2>1. QueueKinds' /\ \A s \in Segments' : s.attempt <= attempt
    BY <1>12, FlushKinds DEF RecoverFlush, ledger
  <2>2. FinalKinds' /\ FileKinds' /\ CountKinds'
    BY <1>12, <2>1, <1>0 DEF RecoverFlush, FinalKinds, FileKinds, CountKinds, ledger, raw, counts
  <2> QED
    BY <2>1, <2>2, KindsPartsPrimed
<1>13. CASE AbortRecover
  <2>1. QueueKinds'
    BY <1>13, <1>0, TimelineAssumption DEF AbortRecover, QueueKinds
  <2>2. FinalKinds' /\ FileKinds' /\ CountKinds'
    BY <1>13, <1>0 DEF AbortRecover, FinalKinds, FileKinds, CountKinds, ledger, raw, counts, Segments
  <2> QED
    BY <2>1, <2>2, KindsPartsPrimed
<1>14. CASE Done
  <2>1. QueueKinds' /\ FinalKinds' /\ FileKinds' /\ CountKinds'
    BY <1>14, <1>0 DEF Done, timelineVars, QueueKinds, FinalKinds, FileKinds, CountKinds, ledger, raw, counts, segmenter, Segments
  <2> QED
    BY <2>1, KindsPartsPrimed
<1> QED
  BY <1>1, <1>2, <1>3, <1>4, <1>5, <1>6, <1>7, <1>8, <1>9, <1>10, <1>11, <1>12, <1>13, <1>14 DEF TimelineNext


\* A queue of recovered segments stays one when a recovery submits a segment.
LEMMA RecoveredQueue ==
    ASSUME TimelineKinds, attempt > 0, \A i \in DOMAIN queued : queued[i].attempt > 0,
           NEW s \in Segment, s.attempt = attempt, Submitted(s)
    PROVE  \A i \in DOMAIN queued' : queued'[i].attempt > 0
<1>1. queued \in Seq(Segment)
  BY DEF TimelineKinds, TimelineTypeOK
<1> QED
  BY <1>1 DEF Submitted

\* Every step keeps what a phase says.
LEMMA PhasesNext ==
    ASSUME TimelineKinds, TimelinePhases, FileInOrder, TimelineNext
    PROVE  TimelinePhases'
<1>0. pauses \in Nat /\ attempt \in Nat /\ queued \in Seq(Segment) /\ finals \in Seq(Segment)
  BY TimelineAssumption DEF TimelineKinds, TimelineTypeOK
<1>1. CASE Hear
  BY <1>1 DEF Hear, TimelinePhases, Recording
<1>2. CASE Miss
  BY <1>2 DEF Miss, TimelinePhases, Recording, segmenter, raw, ledger
<1>3. CASE Pause
  BY <1>3, <1>0 DEF Pause, FlushStop, TimelinePhases, Recording, ledger
<1>4. CASE Resume
  BY <1>4 DEF Resume, TimelinePhases, Recording, ledger
<1>5. CASE Stop
  BY <1>5 DEF Stop, FlushStop, TimelinePhases, Recording, ledger
<1>6. CASE StopWindows
  BY <1>6 DEF StopWindows, TimelinePhases, Recording, ledger, segmenter, raw
<1>7. CASE Commit
  <2>1. ~Recording => \A i \in DOMAIN queued' : queued'[i].attempt > 0
    BY <1>7, <1>0, CommitTakesHead DEF TimelinePhases
  <2> QED
    BY <1>7, <2>1 DEF Commit, TimelinePhases, Recording, segmenter, raw, counts
<1>8. CASE Crash
  BY <1>8 DEF Crash, TimelinePhases, Recording, ledger, raw
<1>9. CASE Restart
  BY <1>9 DEF Restart, TimelinePhases, Recording, ledger, raw, segmenter
<1>10. CASE Finalize
  BY <1>10 DEF Finalize, TimelinePhases, Recording, ledger, raw, segmenter
<1>11. CASE BeginRecover
  <2>1. file = <<>> => manifest = NoManifest /\ Len(file) = 0
    BY DEF FileInOrder
  <2>2. manifest' = [start |-> 0, end |-> Len(file), gaps |-> {}]
    BY <2>1, <1>11 DEF BeginRecover, Rebuilt, NoManifest
  <2> QED
    BY <1>11, <1>0, <2>2 DEF BeginRecover, TimelinePhases, Recording, raw
<1>12. CASE RecoverFrame
  <2>1. phase = "recovering" /\ attempt > 0 /\ \A i \in DOMAIN queued : queued[i].attempt > 0
    BY <1>12 DEF RecoverFrame, TimelinePhases, Recording
  <2>2. \A i \in DOMAIN queued' : queued'[i].attempt > 0
    <3>1. CASE queued' = queued
      BY <2>1, <3>1
    <3>2. CASE CutHere(file[base + pos + 1])
      BY <2>1, <3>2, RecoveredQueue DEF CutHere, SegmentIs
    <3> QED
      BY <3>1, <3>2, <1>12, RecoveryReadsFile, PushCases DEF PassedOver, Began, Grew
  <2> QED
    BY <1>12, <2>1, <2>2 DEF RecoverFrame, TimelinePhases, Recording, ledger, raw, counts
<1>13. CASE RecoverFlush
  <2>1. phase = "recovering" /\ attempt > 0 /\ \A i \in DOMAIN queued : queued[i].attempt > 0
    BY <1>13 DEF RecoverFlush, TimelinePhases, Recording
  <2>2. \A i \in DOMAIN queued' : queued'[i].attempt > 0
    BY <2>1, <1>13, FlushCases, RecoveredQueue DEF RecoverFlush, SegmentIs
  <2> QED
    BY <1>13, <2>1, <2>2 DEF RecoverFlush, TimelinePhases, Recording, ledger, raw, counts
<1>14. CASE EndRecover
  BY <1>14 DEF EndRecover, TimelinePhases, Recording, ledger, raw, segmenter, counts
<1>15. CASE AbortRecover
  BY <1>15 DEF AbortRecover, TimelinePhases, Recording, ledger, raw, counts
<1>16. CASE Done
  BY <1>16 DEF Done, timelineVars, TimelinePhases, Recording, ledger, raw, counts, segmenter
<1> QED
  BY <1>1, <1>2, <1>3, <1>4, <1>5, <1>6, <1>7, <1>8, <1>9, <1>10, <1>11, <1>12, <1>13, <1>14, <1>15, <1>16
     DEF TimelineNext

\* Only Hear writes the file.
LEMMA OthersKeepFile ==
    ASSUME TimelineNext, ~Hear
    PROVE  UNCHANGED raw
  BY DEF TimelineNext, Miss, Pause, Resume, Stop, StopWindows, Commit, Crash, Restart, Finalize,
         BeginRecover, RecoverFrame, RecoverFlush, EndRecover, AbortRecover, Done, timelineVars

\* The next frame is one.
LEMMA NextFrame == TimelineKinds /\ frameStart < MaxFrames => frameStart + 1 \in Frames
<1>1. MaxFrames \in Nat
  BY TimelineAssumption
<1> QED
  BY <1>1 DEF TimelineKinds, TimelineTypeOK, Frames

\* What a frame that is written does to the file.
LEMMA AppendedFile ==
    ASSUME TimelineKinds, FileInOrder, frameStart < MaxFrames, AppendFrame
    PROVE  /\ Len(file) \in Nat /\ DOMAIN file = 1..Len(file) /\ Len(file') = Len(file) + 1
           /\ DOMAIN file' = DOMAIN file \cup {Len(file) + 1} /\ file' # <<>>
           /\ file'[Len(file) + 1] = frameStart + 1 /\ end' = frameStart + 1
           /\ frameStart \in Nat /\ end \in Nat /\ end <= frameStart
           /\ \A i \in DOMAIN file : file'[i] = file[i] /\ file[i] \in Nat /\ file[i] <= end
<1>1. file \in Seq(Frames) /\ frameStart \in Nat /\ end \in Nat /\ end <= frameStart /\ frameStart + 1 \in Frames
  BY NextFrame DEF TimelineKinds, TimelineTypeOK
<1>2. file' = Append(file, frameStart + 1) /\ end' = frameStart + 1
  BY DEF AppendFrame
<1>3. Len(file) \in Nat /\ DOMAIN file = 1..Len(file) /\ Len(file') = Len(file) + 1 /\ file' # <<>>
  BY <1>1, <1>2
<1>4. DOMAIN file' = DOMAIN file \cup {Len(file) + 1}
  <2>1. DOMAIN file' = 1..(Len(file) + 1)
    BY <1>1, <1>2
  <2> QED
    BY <2>1, <1>3
<1>5. file'[Len(file) + 1] = frameStart + 1 /\ \A i \in DOMAIN file : file'[i] = file[i]
  BY <1>1, <1>2
<1>6. \A i \in DOMAIN file : file[i] \in Nat /\ file[i] <= end
  <2> SUFFICES ASSUME NEW i \in DOMAIN file PROVE file[i] \in Nat /\ file[i] <= end
    OBVIOUS
  <2>0. file # <<>>
    BY <1>3
  <2>1. file[Len(file)] = end /\ file[i] \in Nat /\ Len(file) \in DOMAIN file
    <3>1. file[i] \in Frames /\ Len(file) \in DOMAIN file
      BY <1>1, <2>0, EndsOfSequence
    <3> QED
      BY <3>1, <2>0 DEF FileInOrder, Frames
  <2>2. i = Len(file) \/ i < Len(file)
    BY <1>3
  <2>3. i < Len(file) => file[i] < file[Len(file)]
    BY <2>1 DEF FileInOrder
  <2> QED
    BY <2>1, <2>2, <2>3, <1>1
<1> QED
  BY <1>1, <1>2, <1>3, <1>4, <1>5, <1>6


\* Every step keeps the order of the file, and what file and gaps share out.
LEMMA FileOrderNext ==
    ASSUME TimelineKinds, TimelinePhases, FileInOrder, TimelineNext
    PROVE  FileInOrder'
<1>1. CASE Hear
  <2>1. manifest' = manifest /\ frameStart < MaxFrames
    BY <1>1 DEF Hear
  <2>2. CASE AppendFrame
    <3>1. \A i, j \in DOMAIN file' : i < j => file'[i] < file'[j]
      <4> SUFFICES ASSUME NEW i \in DOMAIN file', NEW j \in DOMAIN file', i < j
                   PROVE  file'[i] < file'[j]
        OBVIOUS
      <4>1. i \in DOMAIN file
        BY <2>1, <2>2, AppendedFile
      <4>2. CASE j \in DOMAIN file
        BY <4>1, <4>2, <2>1, <2>2, AppendedFile DEF FileInOrder
      <4>3. CASE j = Len(file) + 1
        BY <4>1, <4>3, <2>1, <2>2, AppendedFile
      <4> QED
        BY <4>2, <4>3, <2>1, <2>2, AppendedFile
    <3>2. file' # <<>> /\ file'[Len(file')] = end'
      BY <2>1, <2>2, AppendedFile
    <3> QED
      BY <3>1, <3>2 DEF FileInOrder
  <2>3. CASE UNCHANGED <<file, end, gaps>>
    BY <2>1, <2>3 DEF FileInOrder
  <2> QED
    BY <2>2, <2>3, <1>1 DEF Hear, raw
<1>2. CASE ~Hear
  <2>1. UNCHANGED raw
    BY <1>2, OthersKeepFile
  <2>2. file = <<>> => manifest' = manifest
    BY <1>2 DEF TimelineNext, Miss, Pause, Resume, Stop, StopWindows, Commit, Crash, Restart, Finalize,
         BeginRecover, RecoverFrame, RecoverFlush, EndRecover, AbortRecover, Done, timelineVars, Rebuilt
  <2> QED
    BY <2>1, <2>2 DEF FileInOrder, raw
<1> QED
  BY <1>1, <1>2

\* A frame counts as many gaps before it as positions are missing there.
LEMMA GapsNext ==
    ASSUME TimelineKinds, FileInOrder, GapsFillTheFile, TimelineNext
    PROVE  GapsFillTheFile'
<1>1. CASE Hear /\ AppendFrame
  <2>1. frameStart < MaxFrames
    BY <1>1 DEF Hear
  <2>2. gaps' = IF file = <<>> THEN gaps ELSE gaps \cup (end + 1)..frameStart
    BY <1>1 DEF AppendFrame
  <2>3. CASE file = <<>>
    <3>1. gaps' = {} /\ DOMAIN file' = {1} /\ file'[1] = end' /\ end' \in Nat
      <4>1. Len(file) = 0 /\ DOMAIN file = {} /\ gaps = {}
        BY <2>3 DEF FileInOrder
      <4> QED
        BY <4>1, <2>1, <2>2, <2>3, <1>1, AppendedFile
    <3>2. {g \in gaps' : g <= file'[1]} = {} /\ Cardinality({}) = 0
      BY <3>1, FS_EmptySet
    <3>3. \A p \in file'[1]..end' : \E i \in DOMAIN file' : file'[i] = p
      BY <3>1
    <3>4. \A i \in DOMAIN file' : Cardinality({g \in gaps' : g <= file'[i]}) = file'[i] - file'[1] + 1 - i
      <4>1. \A x \in Nat : x - x + 1 - 1 = 0
        OBVIOUS
      <4>2. file'[1] \in Nat
        BY <3>1
      <4>3. file'[1] - file'[1] + 1 - 1 = 0
        BY <4>1, <4>2
      <4> QED
        BY <4>3, <3>1, <3>2
    <3> QED
      BY <3>1, <3>3, <3>4 DEF GapsFillTheFile
  <2>4. CASE file # <<>>
    <3> DEFINE new == (end + 1)..frameStart
               n == Len(file) + 1
    <3>0. /\ n - 1 \in Nat \ {0} /\ DOMAIN file = 1..(n - 1) /\ DOMAIN file' = DOMAIN file \cup {n}
          /\ file'[n] = frameStart + 1 /\ end' = frameStart + 1 /\ frameStart \in Nat /\ end \in Nat /\ end <= frameStart
          /\ \A i \in DOMAIN file : file'[i] = file[i] /\ file[i] \in Nat /\ file[i] <= end
          /\ 1 \in DOMAIN file /\ n - 1 \in DOMAIN file /\ file[n - 1] = end
          /\ gaps' = gaps \cup new
      <4>1. Len(file) \in Nat \ {0} /\ 1 \in DOMAIN file /\ Len(file) \in DOMAIN file /\ file[Len(file)] = end
        BY <2>4, EndsOfSequence DEF FileInOrder, TimelineKinds, TimelineTypeOK
      <4> QED
        BY <4>1, <2>1, <2>2, <2>4, <1>1, AppendedFile
    <3>1. gaps \subseteq file[1]..end /\ IsFiniteSet(gaps)
      <4>1. gaps \subseteq file[1]..end
        BY <2>4 DEF GapsFillTheFile
      <4>2. IsFiniteSet(file[1]..end)
        <5>1. file[1] \in Int /\ end \in Int
          BY <3>0
        <5> QED
          BY <5>1, FS_Interval
      <4> QED
        BY <4>1, <4>2, FS_Subset
    <3>2. IsFiniteSet(new) /\ Cardinality(new) = frameStart - end
      <4>1. end + 1 \in Int /\ frameStart \in Int /\ end <= frameStart
        BY <3>0
      <4>2. IsFiniteSet(new) /\ Cardinality(new) = IF end + 1 > frameStart THEN 0 ELSE frameStart - (end + 1) + 1
        BY <4>1, FS_Interval
      <4> QED
        BY <4>2, <3>0
    <3>3. gaps \cap new = {} /\ \A g \in gaps : g \in Int /\ g <= end
      BY <3>0, <3>1
    <3>30. \A g \in new : g \in Int /\ end < g /\ g <= frameStart
      BY <3>0
    <3>4. gaps' \subseteq file'[1]..end'
      BY <3>0, <3>1
    <3>5. \A p \in file'[1]..end' : p \in gaps' \/ \E i \in DOMAIN file' : file'[i] = p
      <4> SUFFICES ASSUME NEW p \in file'[1]..end'
                   PROVE  p \in gaps' \/ \E i \in DOMAIN file' : file'[i] = p
        OBVIOUS
      <4>1. CASE p <= end
        <5>1. p \in file[1]..end
          BY <4>1, <3>0
        <5> QED
          BY <5>1, <3>0, <2>4 DEF GapsFillTheFile
      <4>2. CASE p > end /\ p <= frameStart
        BY <4>2, <3>0
      <4>3. CASE p = frameStart + 1
        BY <4>3, <3>0
      <4> QED
        BY <4>1, <4>2, <4>3, <3>0
    <3>6. \A i \in DOMAIN file' :
            file'[i] \notin gaps' /\ Cardinality({g \in gaps' : g <= file'[i]}) = file'[i] - file'[1] + 1 - i
      <4> SUFFICES ASSUME NEW i \in DOMAIN file'
                   PROVE  file'[i] \notin gaps' /\ Cardinality({g \in gaps' : g <= file'[i]}) = file'[i] - file'[1] + 1 - i
        OBVIOUS
      <4>0. \A k \in DOMAIN file : file[k] \notin gaps /\ Cardinality({g \in gaps : g <= file[k]}) = file[k] - file[1] + 1 - k
        BY <2>4 DEF GapsFillTheFile
      <4>1. CASE i \in DOMAIN file
        <5>1. {g \in gaps' : g <= file'[i]} = {g \in gaps : g <= file[i]}
          BY <4>1, <3>0
        <5>2. file'[i] \notin gaps'
          <6>1. file'[i] = file[i] /\ file[i] \in Nat /\ file[i] <= end /\ file[i] \notin gaps /\ end \in Nat
            BY <4>0, <4>1, <3>0
          <6>2. file[i] \notin new
            BY <6>1, <3>30
          <6> QED
            BY <6>1, <6>2, <3>0
        <5> QED
          BY <5>1, <5>2, <4>0, <4>1, <3>0
      <4>2. CASE i = n
        <5>1. {g \in gaps' : g <= file'[i]} = gaps \cup new
          <6>1. file'[i] = frameStart + 1 /\ gaps' = gaps \cup new
            BY <4>2, <3>0
          <6>2. \A g \in gaps \cup new : g <= frameStart + 1
            BY <3>0, <3>3, <3>30
          <6> QED
            BY <6>1, <6>2
        <5>2. Cardinality(gaps \cup new) = Cardinality(gaps) + Cardinality(new)
          <6>1. Cardinality(gaps \cap new) = 0
            BY <3>3, FS_EmptySet
          <6>2. Cardinality(gaps) \in Nat /\ Cardinality(new) \in Nat
            BY <3>1, <3>2, FS_CardinalityType
          <6>3. Cardinality(gaps \cup new) = Cardinality(gaps) + Cardinality(new) - Cardinality(gaps \cap new)
            BY <3>1, <3>2, FS_Union
          <6> QED
            BY <6>1, <6>2, <6>3
        <5>3. Cardinality(gaps) = end - file[1] + 1 - (n - 1)
          <6>1. {g \in gaps : g <= file[n - 1]} = gaps
            BY <3>0, <3>3
          <6> QED
            BY <6>1, <4>0, <3>0
        <5>4. file'[i] \notin gaps'
          BY <4>2, <3>0, <3>1
        <5>5. file'[1] = file[1] /\ file[1] \in Nat
          BY <3>0
        <5>6. file'[i] = frameStart + 1
          BY <4>2, <3>0
        <5>7. Cardinality(gaps \cup new) = end - file[1] + 1 - (n - 1) + (frameStart - end)
          BY <5>2, <5>3, <3>2
        <5>8. end - file[1] + 1 - (n - 1) + (frameStart - end) = (frameStart + 1) - file[1] + 1 - n
          <6>1. \A a, b, c, d \in Int : a - b + 1 - (d - 1) + (c - a) = (c + 1) - b + 1 - d
            OBVIOUS
          <6>2. end \in Int /\ file[1] \in Int /\ frameStart \in Int /\ n \in Int
            BY <5>5, <3>0
          <6> QED
            BY <6>1, <6>2
        <5>9. Cardinality({g \in gaps' : g <= file'[i]}) = (frameStart + 1) - file[1] + 1 - n
          BY <5>1, <5>7, <5>8
        <5>10. file'[i] - file'[1] + 1 - i = (frameStart + 1) - file[1] + 1 - n
          BY <5>5, <5>6, <4>2, Zenon
        <5>11. Cardinality({g \in gaps' : g <= file'[i]}) = file'[i] - file'[1] + 1 - i
          BY <5>9, <5>10, Zenon
        <5> QED
          BY <5>4, <5>11, Zenon
      <4> QED
        BY <4>1, <4>2, <3>0
    <3> QED
      BY <3>4, <3>5, <3>6 DEF GapsFillTheFile
  <2> QED
    BY <2>3, <2>4
<1>2. CASE UNCHANGED <<file, end, gaps>>
  BY <1>2 DEF GapsFillTheFile
<1> QED
  BY <1>1, <1>2, OthersKeepFile DEF Hear, raw

\* Every step keeps the manifest of a stop.
LEMMA StopNext ==
    ASSUME TimelinePhases, ManifestOfStop, TimelineNext
    PROVE  ManifestOfStop'
<1>1. CASE Stop
  BY <1>1 DEF Stop, ManifestOfStop, TimelinePhases, raw
<1>2. CASE Commit
  BY <1>2 DEF Commit, ManifestOfStop, NoManifest, raw
<1>3. CASE ~Stop /\ ~Commit
  <2>1. phase' # "stopping" \/ (phase = "stopping" /\ UNCHANGED <<raw, manifest>>)
    BY <1>3 DEF TimelineNext, Hear, Miss, Pause, Resume, StopWindows, Crash, Restart, Finalize,
         BeginRecover, RecoverFrame, RecoverFlush, EndRecover, AbortRecover, Done, timelineVars
  <2> QED
    BY <2>1 DEF ManifestOfStop, NoManifest, raw
<1> QED
  BY <1>1, <1>2, <1>3


\* The file: initially.
LEMMA FileInit == TimelineInit => FileInv
<1> SUFFICES ASSUME TimelineInit PROVE FileInv
  OBVIOUS
<1>1. Segments = {}
  BY DEF TimelineInit, Segments
<1>2. TimelineKinds
  <2>1. <<>> \in Seq(Frames) /\ <<>> \in Seq(Segment) /\ Len(<<>>) = 0 /\ DOMAIN <<>> = {}
    OBVIOUS
  <2>2. NoManifest \in [start : Nat, end : Nat, gaps : SUBSET Frames]
    BY DEF NoManifest
  <2>3. 0 \in 0..MaxFrames /\ 0 \in 0..MaxAttempts /\ 0 <= MaxSegment /\ 0 <= Preroll
    BY TimelineAssumption
  <2>4. QueueKinds
    BY <2>1, <2>3 DEF TimelineInit, QueueKinds
  <2>5. FinalKinds
    BY <2>1 DEF TimelineInit, FinalKinds
  <2>6. FileKinds
    <3>1. 0 \in 0..0
      OBVIOUS
    <3> QED
      BY <3>1, <2>1, <2>2, <2>3 DEF TimelineInit, FileKinds
  <2>7. CountKinds
    BY <1>1 DEF TimelineInit, CountKinds
  <2> QED
    BY <2>4, <2>5, <2>6, <2>7, KindsParts
<1>3. TimelinePhases /\ FileInOrder /\ GapsFillTheFile /\ ManifestOfStop
  BY DEF TimelineInit, TimelinePhases, Recording, FileInOrder, GapsFillTheFile, ManifestOfStop
<1> QED
  BY <1>2, <1>3 DEF FileInv

\* The file: step by step.
LEMMA FileStep == FileInv /\ [TimelineNext]_timelineVars => FileInv'
<1>1. ASSUME FileInv, TimelineNext PROVE FileInv'
  BY <1>1, KindsNext, PhasesNext, FileOrderNext, GapsNext, StopNext DEF FileInv
<1>2. ASSUME FileInv, UNCHANGED timelineVars PROVE FileInv'
  <2>1. Segments' = Segments
    BY <1>2 DEF timelineVars, ledger, Segments
  <2>2. TimelineKinds'
    BY <1>2, <2>1 DEF FileInv, TimelineKinds, TimelineTypeOK, timelineVars, ledger, raw, segmenter, counts
  <2>3. TimelinePhases' /\ FileInOrder' /\ GapsFillTheFile' /\ ManifestOfStop'
    BY <1>2 DEF FileInv, TimelinePhases, Recording, FileInOrder, GapsFillTheFile, ManifestOfStop, NoManifest,
         timelineVars, ledger, raw, segmenter, counts
  <2> QED
    BY <2>2, <2>3 DEF FileInv
<1> QED
  BY <1>1, <1>2

\* The manifest that a stop has written sends a reader to the sound captured there.
LEMMA WrittenManifestIsTrue ==
    ASSUME FileInv
    PROVE  WrittenManifestKeepsIdentity
<1> SUFFICES ASSUME phase = "stopping", NEW p \in 1..manifest.end, Present(p)
             PROVE  FrameAt(p) = p
  BY DEF WrittenManifestKeepsIdentity, StableSampleIdentity
<1>1. p \in (manifest.start + 1)..manifest.end /\ p \notin manifest.gaps
  BY DEF Present
<1>2. manifest # NoManifest
  BY <1>1 DEF NoManifest
<1>3. file # <<>> /\ manifest = [start |-> file[1] - 1, end |-> end, gaps |-> gaps]
  BY <1>2 DEF FileInv, ManifestOfStop
<1>4. file \in Seq(Frames) /\ end \in Nat /\ file[1] \in Nat \ {0} /\ 1 \in DOMAIN file
  <2>1. file \in Seq(Frames) /\ end \in Nat
    BY TimelineAssumption DEF FileInv, TimelineKinds, TimelineTypeOK
  <2> QED
    <3>1. file[1] \in Frames /\ 1 \in DOMAIN file
      BY <2>1, <1>3, EndsOfSequence
    <3> QED
      BY <3>1, <2>1 DEF Frames
<1>5. p \in file[1]..end /\ p \notin gaps
  BY <1>1, <1>3, <1>4
<1>6. PICK i \in DOMAIN file : file[i] = p
  BY <1>3, <1>5 DEF FileInv, GapsFillTheFile
<1>7. Cardinality({g \in gaps : g <= p}) = p - file[1] + 1 - i
  BY <1>3, <1>6 DEF FileInv, GapsFillTheFile
<1>8. PresentUpTo(p) = i
  <2>1. i \in Int /\ p \in Int /\ file[1] \in Int
    BY <1>4, <1>5
  <2>2. PresentUpTo(p) = (p - (file[1] - 1)) - (p - file[1] + 1 - i)
    BY <1>3, <1>7 DEF PresentUpTo
  <2> QED
    BY <2>1, <2>2
<1> QED
  BY <1>6, <1>8 DEF FrameAt

-----------------------------------------------------------------------------
(* Positions are kept.                                                     *)

\* A segment that grows tells a file as it did before, and its last frame.
LEMMA LongerTells ==
    ASSUME TimelineKinds, NEW f \in Frames, NEW from \in Nat, NEW sound, Tells(sound, active, from),
           IF from + Len(active) + 1 \in DOMAIN sound THEN sound[from + Len(active) + 1] = f
                                                      ELSE \A i \in DOMAIN sound : sound[i] # f
    PROVE  Tells(sound, Longer(f), from)
<1>1. active \in Seq(Frames) /\ Len(active) \in Nat
  BY DEF TimelineKinds, TimelineTypeOK
<1>2. DOMAIN Longer(f) = DOMAIN active \cup {Len(active) + 1} /\ Longer(f)[Len(active) + 1] = f
  <2>1. DOMAIN Longer(f) = 1..(Len(active) + 1) /\ DOMAIN active = 1..Len(active)
    BY <1>1 DEF Longer
  <2> QED
    BY <1>1, <2>1 DEF Longer
<1>3. \A k \in DOMAIN active : Longer(f)[k] = active[k]
  BY <1>1 DEF Longer
<1>4. from + (Len(active) + 1) = from + Len(active) + 1
  BY <1>1
<1> QED
  BY <1>2, <1>3, <1>4 DEF Tells

\* What is remembered tells a file as it did before, and its last frame.
LEMMA RememberedTells ==
    ASSUME TimelineKinds, NEW f \in Frames, NEW sound, Tells(sound, preroll, PrerollStart),
           IF base + pos + 1 \in DOMAIN sound THEN sound[base + pos + 1] = f
                                              ELSE \A i \in DOMAIN sound : sound[i] # f
    PROVE  Tells(sound, Remembered(f), base + pos + 1 - Len(Remembered(f)))
<1> DEFINE n == Len(Remembered(f))
           o == Len(preroll) + 1 - n
           from == base + pos + 1 - n
<1>1. /\ n \in Nat /\ n >= 1 /\ n <= Len(preroll) + 1 /\ DOMAIN Remembered(f) = 1..n /\ Remembered(f)[n] = f
      /\ \A k \in 1..(n - 1) : o + k \in DOMAIN preroll /\ Remembered(f)[k] = preroll[o + k]
  BY RememberedBlocks
<1>2. base \in Nat /\ pos \in Nat /\ Len(preroll) \in Nat /\ Len(preroll) <= pos
  BY DEF TimelineKinds, TimelineTypeOK
<1> SUFFICES ASSUME NEW k \in DOMAIN Remembered(f)
             PROVE  IF from + k \in DOMAIN sound THEN sound[from + k] = Remembered(f)[k]
                                                ELSE \A i \in DOMAIN sound : sound[i] # Remembered(f)[k]
  BY DEF Tells
<1>3. k \in 1..n
  BY <1>1
<1> HIDE DEF n
<1>4. CASE k = n
  <2>1. from + k = base + pos + 1
    BY <1>1, <1>2, <1>4
  <2> QED
    BY <2>1, <1>1, <1>4
<1>5. CASE k # n
  <2>1. k \in 1..(n - 1)
    BY <1>1, <1>3, <1>5
  <2>2. from + k = PrerollStart + (o + k)
    BY <1>1, <1>2, <2>1 DEF PrerollStart
  <2>3. o + k \in DOMAIN preroll /\ Remembered(f)[k] = preroll[o + k]
    BY <1>1, <2>1
  <2> QED
    BY <2>2, <2>3 DEF Tells
<1> QED
  BY <1>4, <1>5

\* What is remembered of a file is in that file.
LEMMA RememberedReads ==
    ASSUME TimelineKinds, NEW f \in Frames, NEW sound, Reads(sound, preroll, PrerollStart),
           base + pos + 1 \in DOMAIN sound, sound[base + pos + 1] = f
    PROVE  Reads(sound, Remembered(f), base + pos + 1 - Len(Remembered(f)))
<1> DEFINE n == Len(Remembered(f))
           o == Len(preroll) + 1 - n
           from == base + pos + 1 - n
<1>1. /\ n \in Nat /\ n >= 1 /\ n <= Len(preroll) + 1 /\ DOMAIN Remembered(f) = 1..n /\ Remembered(f)[n] = f
      /\ \A k \in 1..(n - 1) : o + k \in DOMAIN preroll /\ Remembered(f)[k] = preroll[o + k]
  BY RememberedBlocks
<1>2. base \in Nat /\ pos \in Nat /\ Len(preroll) \in Nat /\ Len(preroll) <= pos
  BY DEF TimelineKinds, TimelineTypeOK
<1> SUFFICES ASSUME NEW k \in DOMAIN Remembered(f)
             PROVE  from + k \in DOMAIN sound /\ sound[from + k] = Remembered(f)[k]
  BY DEF Reads
<1>3. k \in 1..n
  BY <1>1
<1> HIDE DEF n
<1>4. CASE k = n
  <2>1. from + k = base + pos + 1
    BY <1>1, <1>2, <1>4
  <2> QED
    BY <2>1, <1>1, <1>4
<1>5. CASE k # n
  <2>1. k \in 1..(n - 1)
    BY <1>1, <1>3, <1>5
  <2>2. from + k = PrerollStart + (o + k)
    BY <1>1, <1>2, <2>1 DEF PrerollStart
  <2>3. o + k \in DOMAIN preroll /\ Remembered(f)[k] = preroll[o + k]
    BY <1>1, <2>1
  <2> QED
    BY <2>2, <2>3 DEF Reads
<1> QED
  BY <1>4, <1>5

\* The open segment with the next block of the file is still the file.
LEMMA LongerReads ==
    ASSUME TimelineKinds, NEW f \in Frames, NEW from \in Nat, NEW sound, Reads(sound, active, from),
           from + Len(active) + 1 \in DOMAIN sound, sound[from + Len(active) + 1] = f
    PROVE  Reads(sound, Longer(f), from)
<1>1. active \in Seq(Frames) /\ Len(active) \in Nat
  BY DEF TimelineKinds, TimelineTypeOK
<1>2. DOMAIN Longer(f) = DOMAIN active \cup {Len(active) + 1} /\ Longer(f)[Len(active) + 1] = f
  <2>1. DOMAIN Longer(f) = 1..(Len(active) + 1) /\ DOMAIN active = 1..Len(active)
    BY <1>1 DEF Longer
  <2> QED
    BY <1>1, <2>1 DEF Longer
<1>3. \A k \in DOMAIN active : Longer(f)[k] = active[k]
  BY <1>1 DEF Longer
<1>4. from + (Len(active) + 1) = from + Len(active) + 1
  BY <1>1
<1> QED
  BY <1>2, <1>3, <1>4 DEF Reads

\* After a push, what segments and the open segment tell of a file the pushed
\* frame is at the right place of.
LEMMA PushTells ==
    ASSUME TimelineKinds, NEW f \in Frames, Push(f), finals' = finals, base' = base, NEW sound,
           \A s \in Segments : Tells(sound, s.audio, s.start), Tells(sound, active, ActiveStart),
           Tells(sound, preroll, PrerollStart),
           IF base + pos + 1 \in DOMAIN sound THEN sound[base + pos + 1] = f
                                              ELSE \A i \in DOMAIN sound : sound[i] # f
    PROVE  /\ \A s \in Segments' : Tells(sound, s.audio, s.start)
           /\ Tells(sound, active', ActiveStart')
           /\ Tells(sound, preroll', PrerollStart')
<1>1. /\ base \in Nat /\ pos \in Nat /\ Len(active) \in Nat /\ Len(active) <= pos /\ queued \in Seq(Segment)
      /\ ActiveStart \in Nat /\ ActiveStart + Len(active) + 1 = base + pos + 1
      /\ base + (pos + 1) - (Len(active) + 1) = ActiveStart
  BY DEF TimelineKinds, TimelineTypeOK, ActiveStart
<1>2. Tells(sound, Longer(f), ActiveStart) /\ \A from : Tells(sound, <<>>, from)
  <2>1. Tells(sound, Longer(f), ActiveStart)
    BY <1>1, LongerTells
  <2>2. DOMAIN <<>> = {}
    OBVIOUS
  <2> QED
    BY <2>1, <2>2 DEF Tells
<1>3. pos' = pos + 1 /\ Len(Longer(f)) = Len(active) + 1 /\ (PassedOver(f) \/ Began(f) \/ Grew(f) \/ CutHere(f))
  BY PushCases
<1>20. /\ Tells(sound, Remembered(f), base + pos + 1 - Len(Remembered(f)))
       /\ preroll' = Remembered(f) /\ PrerollStart' = base + pos + 1 - Len(Remembered(f))
  <2>1. preroll' = Remembered(f)
    BY PushCases
  <2>2. PrerollStart' = base + (pos + 1) - Len(Remembered(f)) /\ Len(Remembered(f)) \in Nat
    BY <2>1, <1>3, RememberedBlocks DEF PrerollStart
  <2> QED
    BY <2>1, <2>2, <1>1, RememberedTells
<1>7. CASE Began(f)
  <2>1. Segments' \subseteq Segments
    BY <1>7, KeptSegments DEF Began
  <2>2. active' = preroll'
    BY <1>7, <1>20 DEF Began
  <2>3. ActiveStart' = PrerollStart'
    BY <2>2 DEF ActiveStart, PrerollStart
  <2> QED
    BY <1>20, <2>1, <2>2, <2>3
<1>4. CASE PassedOver(f)
  <2>1. Segments' \subseteq Segments
    BY <1>4, KeptSegments DEF PassedOver
  <2> QED
    BY <1>2, <1>20, <1>4, <2>1 DEF PassedOver
<1>5. CASE Grew(f)
  <2>1. Segments' \subseteq Segments
    BY <1>5, KeptSegments DEF Grew
  <2>2. ActiveStart' = ActiveStart
    BY <1>1, <1>3, <1>5 DEF Grew, ActiveStart
  <2> QED
    BY <1>2, <1>20, <1>5, <2>1, <2>2 DEF Grew
<1>6. CASE CutHere(f)
  <2>1. PICK s \in Segment : SegmentIs(s, Longer(f), pos + 1) /\ Submitted(s)
    BY <1>6 DEF CutHere
  <2>2. Segments' = Segments \cup {s}
    BY <2>1, <1>1, SubmittedSegments DEF Submitted
  <2>3. s.audio = Longer(f) /\ s.start = ActiveStart
    BY <2>1, <1>1, <1>3 DEF SegmentIs
  <2> QED
    BY <1>2, <1>20, <1>6, <2>2, <2>3 DEF CutHere
<1> QED
  BY <1>3, <1>4, <1>5, <1>6, <1>7

\* A flushed segment tells of the file what the open one told.
LEMMA FlushTells ==
    ASSUME TimelineKinds, FlushStop, finals' = finals, NEW sound,
           \A s \in Segments : Tells(sound, s.audio, s.start), Tells(sound, active, ActiveStart)
    PROVE  \A s \in Segments' : Tells(sound, s.audio, s.start)
<1>1. queued \in Seq(Segment)
  BY DEF TimelineKinds, TimelineTypeOK
<1>2. CASE queued' = queued
  BY <1>2, KeptSegments
<1>3. ASSUME NEW s \in Segment, SegmentIs(s, active, pos), Submitted(s)
      PROVE  \A t \in Segments' : Tells(sound, t.audio, t.start)
  <2>1. Segments' = Segments \cup {s}
    BY <1>1, <1>3, SubmittedSegments DEF Submitted
  <2> QED
    BY <1>3, <2>1 DEF SegmentIs, ActiveStart
<1> QED
  BY <1>2, <1>3, FlushCases

\* A frame that is heard comes after every frame of the file.
LEMMA NewFrame ==
    ASSUME TimelineKinds, FileInOrder, frameStart < MaxFrames
    PROVE  /\ frameStart + 1 \in Frames /\ frameStart \in Nat /\ Len(file) \in Nat /\ DOMAIN file = 1..Len(file)
           /\ \A i \in DOMAIN file : file[i] \in Nat /\ file[i] < frameStart + 1
<1>1. file \in Seq(Frames) /\ frameStart \in Nat /\ end \in Nat /\ end <= frameStart /\ frameStart + 1 \in Frames
  BY NextFrame DEF TimelineKinds, TimelineTypeOK
<1>2. Len(file) \in Nat /\ DOMAIN file = 1..Len(file)
  BY <1>1
<1>3. ASSUME NEW i \in DOMAIN file PROVE file[i] \in Nat /\ file[i] < frameStart + 1
  <2>0. file # <<>>
    BY <1>2, <1>3
  <2>1. file[Len(file)] = end /\ file[i] \in Nat /\ Len(file) \in DOMAIN file
    <3>1. file[i] \in Frames /\ Len(file) \in DOMAIN file
      BY <1>1, <1>3, <2>0, EndsOfSequence
    <3> QED
      BY <3>1, <2>0 DEF FileInOrder, Frames
  <2>2. i = Len(file) \/ i < Len(file)
    BY <1>2, <1>3
  <2>3. i < Len(file) => file[i] < file[Len(file)]
    BY <1>3, <2>1 DEF FileInOrder
  <2> QED
    BY <2>1, <2>2, <2>3, <1>1
<1> QED
  BY <1>1, <1>2, <1>3

\* Hearing a frame: what is in the file keeps its place, and the frame gets it.
LEMMA HearTells ==
    ASSUME TimelineKinds, TimelinePhases, FileInOrder, UnpausedSound, RecordedInOrder, pauses = 0, Hear
    PROVE  /\ \A s \in Segments' : Tells(file', s.audio, s.start)
           /\ Tells(file', active', ActiveStart') /\ Tells(file', preroll', PrerollStart')
           /\ Len(file') <= pos' /\ (writing' => pos' = Len(file'))
<1>1. phase = "recording" /\ base = 0 /\ frameStart < MaxFrames /\ Push(frameStart + 1) /\ finals' = finals /\ base' = base
  BY DEF Hear, TimelinePhases, Recording
<1>2. /\ pos \in Nat /\ Len(active) \in Nat /\ Len(active) <= pos /\ ActiveStart \in Nat
      /\ ActiveStart + Len(active) = pos /\ base + pos + 1 = pos + 1 /\ pos' = pos + 1 /\ DOMAIN active = 1..Len(active)
  <2>1. pos' = pos + 1
    BY <1>1 DEF Push
  <2>2. pos \in Nat /\ Len(active) \in Nat /\ Len(active) <= pos /\ DOMAIN active = 1..Len(active)
    BY DEF TimelineKinds, TimelineTypeOK
  <2> QED
    BY <1>1, <2>1, <2>2 DEF ActiveStart
<1>3. /\ Len(file) <= pos /\ (writing => pos = Len(file))
      /\ Tells(file, active, ActiveStart) /\ Tells(file, preroll, PrerollStart)
      /\ \A s \in Segments : Tells(file, s.audio, s.start) /\ s.end <= pos
  BY <1>1 DEF UnpausedSound, RecordedInOrder, Recording
<1>4. /\ frameStart + 1 \in Frames /\ frameStart \in Nat /\ Len(file) \in Nat /\ DOMAIN file = 1..Len(file)
      /\ \A i \in DOMAIN file : file[i] \in Nat /\ file[i] < frameStart + 1
  BY <1>1, NewFrame
<1>5. CASE writing /\ AppendFrame
  <2>1. /\ Len(file') = Len(file) + 1 /\ DOMAIN file' = DOMAIN file \cup {Len(file) + 1}
        /\ file'[Len(file) + 1] = frameStart + 1 /\ \A i \in DOMAIN file : file'[i] = file[i]
    BY <1>1, <1>5, AppendedFile
  <2>2. pos = Len(file)
    BY <1>3, <1>5
  <2>3. ASSUME NEW audio \in Seq(Frames), NEW from \in Nat, from + Len(audio) <= pos, Tells(file, audio, from)
        PROVE  Tells(file', audio, from)
    <3>1. Len(audio) \in Nat /\ DOMAIN audio = 1..Len(audio)
      OBVIOUS
    <3>2. \A k \in DOMAIN audio : from + k \in DOMAIN file
      BY <3>1, <2>2, <2>3, <1>2, <1>4
    <3> QED
      BY <3>2, <2>1, <2>3 DEF Tells
  <2>4. \A s \in Segments : Tells(file', s.audio, s.start)
    BY <1>3, <2>3, SegmentsTyped
  <2>5. Tells(file', active, ActiveStart)
    BY <1>2, <1>3, <2>3 DEF TimelineKinds, TimelineTypeOK
  <2>50. Tells(file', preroll, PrerollStart)
    <3>1. /\ preroll \in Seq(Frames) /\ Len(preroll) \in Nat /\ Len(preroll) <= pos
          /\ PrerollStart \in Nat /\ PrerollStart + Len(preroll) = pos
      BY <1>1, <1>2 DEF TimelineKinds, TimelineTypeOK, PrerollStart
    <3> QED
      BY <3>1, <1>3, <1>2, <2>3
  <2>6. base + pos + 1 \in DOMAIN file' /\ file'[base + pos + 1] = frameStart + 1
    BY <2>1, <2>2, <1>2
  <2>7. /\ \A s \in Segments' : Tells(file', s.audio, s.start)
        /\ Tells(file', active', ActiveStart') /\ Tells(file', preroll', PrerollStart')
    BY <1>1, <1>4, <2>4, <2>5, <2>50, <2>6, PushTells
  <2> QED
    BY <2>1, <2>2, <2>7, <1>2, <1>4
<1>6. CASE file' = file /\ ~writing'
  <2>0. Len(file) <= pos /\ Len(file) \in Nat /\ pos \in Nat /\ pos' = pos + 1
    BY <1>2, <1>3, <1>4
  <2>1. base + pos + 1 \notin DOMAIN file
    <3>1. pos + 1 \notin 1..Len(file)
      BY <2>0
    <3> QED
      BY <3>1, <1>2, <1>4
  <2>2. \A i \in DOMAIN file : file[i] # frameStart + 1
    BY <1>4
  <2>3. /\ \A s \in Segments' : Tells(file, s.audio, s.start)
        /\ Tells(file, active', ActiveStart') /\ Tells(file, preroll', PrerollStart')
    BY <1>1, <1>3, <1>4, <2>1, <2>2, PushTells
  <2>4. Len(file') <= pos'
    BY <2>0, <1>6
  <2> QED
    BY <2>4, <1>6, <2>3
<1>7. (writing /\ AppendFrame) \/ (file' = file /\ ~writing')
  BY DEF Hear, raw
<1> QED
  BY <1>5, <1>6, <1>7

\* The steps that push nothing and flush nothing add no segment.
LEMMA QuietSteps ==
    ASSUME TimelineKinds, TimelineNext,
           ~Hear, ~Pause, ~Stop, ~RecoverFrame, ~RecoverFlush
    PROVE  /\ Segments' \subseteq Segments
           /\ UNCHANGED raw
           /\ phase' = "recording" => phase = "paused" \/ (phase = "recording" /\ UNCHANGED <<pos, base, preroll, active>>)
           /\ pauses' = pauses
<1>1. CASE Commit
  <2>1. Segments' \subseteq Segments
    BY <1>1, CommittedSegments DEF TimelineKinds, TimelineTypeOK
  <2> QED
    BY <1>1, <2>1 DEF Commit, raw, counts, segmenter
<1>2. CASE ~Commit
  <2>1. finals' = finals /\ (queued' = queued \/ queued' = <<>>)
    BY <1>2 DEF TimelineNext, Miss, Resume, StopWindows, Crash, Restart, Finalize,
         BeginRecover, EndRecover, AbortRecover, Done, timelineVars, ledger
  <2>2. UNCHANGED raw /\ pauses' = pauses
    BY <1>2 DEF TimelineNext, Miss, Resume, StopWindows, Crash, Restart, Finalize,
         BeginRecover, EndRecover, AbortRecover, Done, timelineVars, counts
  <2>3. phase' = "recording" => phase = "paused" \/ (phase = "recording" /\ UNCHANGED <<pos, base, preroll, active>>)
    BY <1>2 DEF TimelineNext, Miss, Resume, StopWindows, Crash, Restart, Finalize,
         BeginRecover, EndRecover, AbortRecover, Done, timelineVars, segmenter
  <2> QED
    BY <2>1, <2>2, <2>3, KeptSegments
<1> QED
  BY <1>1, <1>2

\* Every step of a recording that was never paused keeps its positions.
LEMMA UnpausedNext ==
    ASSUME TimelineKinds, TimelinePhases, FileInOrder, UnpausedSound, RecoveredSound, RecordedInOrder, TimelineNext
    PROVE  UnpausedSound'
<1> SUFFICES ASSUME pauses' = 0
             PROVE  /\ phase' = "recording" =>
                         /\ Len(file') <= pos' /\ (writing' => pos' = Len(file'))
                         /\ Tells(file', active', ActiveStart') /\ Tells(file', preroll', PrerollStart')
                    /\ \A s \in Segments' : Tells(file', s.audio, s.start)
  BY DEF UnpausedSound
<1>0. pauses = 0 /\ pauses \in Nat
  BY DEF TimelineKinds, TimelineNext, Hear, Miss, Pause, Resume, Stop, StopWindows, Commit, Crash, Restart, Finalize,
         BeginRecover, RecoverFrame, RecoverFlush, EndRecover, AbortRecover, Done, timelineVars, counts
<1>1. CASE Hear
  BY <1>0, <1>1, HearTells
<1>2. CASE Pause
  BY <1>0, <1>2 DEF Pause
<1>3. CASE Stop
  <2>1. phase = "recording" /\ phase' = "stopping" /\ FlushStop /\ finals' = finals /\ file' = file
    BY <1>0, <1>3 DEF Stop, TimelinePhases, ledger, raw
  <2> QED
    BY <2>1, <1>0, FlushTells DEF UnpausedSound
<1>4. CASE RecoverFrame
  <2>1. phase' = phase /\ phase = "recovering" /\ finals' = finals /\ base' = base /\ file' = file
    BY <1>4 DEF RecoverFrame, ledger, raw
  <2>2. /\ base + pos + 1 \in DOMAIN file /\ file[base + pos + 1] \in Frames
        /\ Push(file[base + pos + 1])
    BY <1>4, RecoveryReadsFile
  <2>3. Tells(file, active, ActiveStart) /\ Tells(file, preroll, PrerollStart)
    BY <2>1 DEF RecoveredSound, Reads, Tells
  <2>4. \A s \in Segments : Tells(file, s.audio, s.start)
    BY <1>0 DEF UnpausedSound
  <2> QED
    BY <2>1, <2>2, <2>3, <2>4, PushTells
<1>5. CASE RecoverFlush
  <2>1. phase' = phase /\ phase = "recovering" /\ FlushStop /\ finals' = finals /\ base' = base /\ file' = file
    BY <1>5 DEF RecoverFlush, ledger, raw
  <2>2. Tells(file, active, ActiveStart)
    BY <2>1 DEF RecoveredSound, Reads, Tells
  <2>3. \A s \in Segments : Tells(file, s.audio, s.start)
    BY <1>0 DEF UnpausedSound
  <2> QED
    BY <2>1, <2>2, <2>3, FlushTells
<1>6. CASE ~Hear /\ ~Pause /\ ~Stop /\ ~RecoverFrame /\ ~RecoverFlush
  <2>1. /\ Segments' \subseteq Segments /\ UNCHANGED raw
        /\ phase' = "recording" => phase = "paused" \/ (phase = "recording" /\ UNCHANGED <<pos, base, preroll, active>>)
    BY <1>6, QuietSteps
  <2>2. phase # "paused"
    BY <1>0 DEF TimelinePhases
  <2>3. file' = file /\ writing' = writing
    BY <2>1 DEF raw
  <2> QED
    BY <2>1, <2>2, <2>3, <1>0 DEF UnpausedSound, ActiveStart, PrerollStart
<1> QED
  BY <1>1, <1>2, <1>3, <1>4, <1>5, <1>6


\* A block of a recovery is the next of the file, also in the segment it closes.
LEMMA PushReads ==
    ASSUME TimelineKinds, NEW f \in Frames, Push(f), finals' = finals, base' = base,
           \A s \in Segments : s.attempt > 0 => Reads(file, s.audio, s.start), Reads(file, active, ActiveStart),
           Reads(file, preroll, PrerollStart),
           base + pos + 1 \in DOMAIN file, file[base + pos + 1] = f
    PROVE  /\ \A s \in Segments' : s.attempt > 0 => Reads(file, s.audio, s.start)
           /\ Reads(file, active', ActiveStart') /\ Reads(file, preroll', PrerollStart')
<1>1. /\ base \in Nat /\ pos \in Nat /\ Len(active) \in Nat /\ Len(active) <= pos /\ queued \in Seq(Segment)
      /\ ActiveStart \in Nat /\ ActiveStart + Len(active) + 1 = base + pos + 1
      /\ base + (pos + 1) - (Len(active) + 1) = ActiveStart
  BY DEF TimelineKinds, TimelineTypeOK, ActiveStart
<1>2. Reads(file, Longer(f), ActiveStart) /\ \A from : Reads(file, <<>>, from)
  <2>1. Reads(file, Longer(f), ActiveStart)
    BY <1>1, LongerReads
  <2>2. DOMAIN <<>> = {}
    OBVIOUS
  <2> QED
    BY <2>1, <2>2 DEF Reads
<1>3. pos' = pos + 1 /\ Len(Longer(f)) = Len(active) + 1 /\ (PassedOver(f) \/ Began(f) \/ Grew(f) \/ CutHere(f))
  BY PushCases
<1>20. /\ Reads(file, Remembered(f), base + pos + 1 - Len(Remembered(f)))
       /\ preroll' = Remembered(f) /\ PrerollStart' = base + pos + 1 - Len(Remembered(f))
  <2>1. preroll' = Remembered(f)
    BY PushCases
  <2>2. PrerollStart' = base + (pos + 1) - Len(Remembered(f)) /\ Len(Remembered(f)) \in Nat
    BY <2>1, <1>3, RememberedBlocks DEF PrerollStart
  <2> QED
    BY <2>1, <2>2, <1>1, RememberedReads
<1>7. CASE Began(f)
  <2>1. Segments' \subseteq Segments
    BY <1>7, KeptSegments DEF Began
  <2>2. active' = preroll'
    BY <1>7, <1>20 DEF Began
  <2>3. ActiveStart' = PrerollStart'
    BY <2>2 DEF ActiveStart, PrerollStart
  <2> QED
    BY <1>20, <2>1, <2>2, <2>3
<1>4. CASE PassedOver(f)
  <2>1. Segments' \subseteq Segments
    BY <1>4, KeptSegments DEF PassedOver
  <2> QED
    BY <1>2, <1>20, <1>4, <2>1 DEF PassedOver
<1>5. CASE Grew(f)
  <2>1. Segments' \subseteq Segments
    BY <1>5, KeptSegments DEF Grew
  <2>2. ActiveStart' = ActiveStart
    BY <1>1, <1>3, <1>5 DEF Grew, ActiveStart
  <2> QED
    BY <1>2, <1>20, <1>5, <2>1, <2>2 DEF Grew
<1>6. CASE CutHere(f)
  <2>1. PICK s \in Segment : SegmentIs(s, Longer(f), pos + 1) /\ Submitted(s)
    BY <1>6 DEF CutHere
  <2>2. Segments' = Segments \cup {s}
    BY <2>1, <1>1, SubmittedSegments DEF Submitted
  <2>3. s.audio = Longer(f) /\ s.start = ActiveStart
    BY <2>1, <1>1, <1>3 DEF SegmentIs
  <2> QED
    BY <1>2, <1>20, <1>6, <2>2, <2>3 DEF CutHere
<1> QED
  BY <1>3, <1>4, <1>5, <1>6, <1>7

\* A flushed segment reads from the file as the open one did.
LEMMA FlushReads ==
    ASSUME TimelineKinds, FlushStop, finals' = finals,
           \A s \in Segments : s.attempt > 0 => Reads(file, s.audio, s.start), Reads(file, active, ActiveStart)
    PROVE  \A s \in Segments' : s.attempt > 0 => Reads(file, s.audio, s.start)
<1>1. queued \in Seq(Segment)
  BY DEF TimelineKinds, TimelineTypeOK
<1>2. CASE queued' = queued
  BY <1>2, KeptSegments
<1>3. ASSUME NEW s \in Segment, SegmentIs(s, active, pos), Submitted(s)
      PROVE  \A t \in Segments' : t.attempt > 0 => Reads(file, t.audio, t.start)
  <2>1. Segments' = Segments \cup {s}
    BY <1>1, <1>3, SubmittedSegments DEF Submitted
  <2> QED
    BY <1>3, <2>1 DEF SegmentIs, ActiveStart
<1> QED
  BY <1>2, <1>3, FlushCases

\* A recording has no recovered segments.
LEMMA RecordingHasNone ==
    ASSUME TimelineKinds, TimelinePhases, Recording
    PROVE  \A s \in Segments : s.attempt = 0
<1>1. attempt = 0
  BY DEF TimelinePhases
<1> QED
  BY <1>1, SegmentsTyped DEF TimelineKinds

\* Every step keeps what recoveries read.
LEMMA RecoveredSoundNext ==
    ASSUME TimelineKinds, TimelinePhases, FileInOrder, RecoveredSound, TimelineNext, TimelineKinds', TimelinePhases'
    PROVE  RecoveredSound'
<1>1. CASE Recording'
  <2>1. attempt' = 0 /\ phase' # "recovering"
    BY <1>1 DEF TimelinePhases, Recording
  <2>2. \A s \in Segments' : s.attempt <= 0 /\ s.attempt \in Nat
    <3>1. \A s \in Segments' : s.attempt <= 0
      BY <2>1 DEF TimelineKinds
    <3>2. queued' \in Seq(Segment) /\ finals' \in Seq(Segment)
      BY DEF TimelineKinds, TimelineTypeOK
    <3>3. (\A i \in DOMAIN queued' : queued'[i] \in Segment) /\ (\A i \in DOMAIN finals' : finals'[i] \in Segment)
      BY <3>2
    <3>4. \A s \in Segments' : s \in Segment
      BY <3>3 DEF Segments
    <3> QED
      BY <3>1, <3>4 DEF Segment
  <2> QED
    BY <2>1, <2>2 DEF RecoveredSound
<1>2. CASE RecoverFrame
  <2>1. phase' = phase /\ phase = "recovering" /\ finals' = finals /\ base' = base /\ file' = file
    BY <1>2 DEF RecoverFrame, ledger, raw
  <2>2. /\ base + pos + 1 \in DOMAIN file /\ file[base + pos + 1] \in Frames
        /\ Push(file[base + pos + 1])
    BY <1>2, RecoveryReadsFile
  <2>3. /\ Reads(file, active, ActiveStart) /\ Reads(file, preroll, PrerollStart)
        /\ \A s \in Segments : s.attempt > 0 => Reads(file, s.audio, s.start)
    BY <2>1 DEF RecoveredSound
  <2> QED
    BY <2>1, <2>2, <2>3, PushReads DEF RecoveredSound
<1>3. CASE RecoverFlush
  <2>1. phase' = phase /\ phase = "recovering" /\ FlushStop /\ finals' = finals /\ base' = base /\ file' = file
    BY <1>3 DEF RecoverFlush, ledger, raw
  <2>2. Reads(file, active, ActiveStart) /\ \A s \in Segments : s.attempt > 0 => Reads(file, s.audio, s.start)
    BY <2>1 DEF RecoveredSound
  <2>3. \A s \in Segments' : s.attempt > 0 => Reads(file, s.audio, s.start)
    BY <2>1, <2>2, FlushReads
  <2>4. Reads(file, active', ActiveStart') /\ Reads(file, preroll', PrerollStart')
    BY <2>1, FlushCases DEF Reads
  <2> QED
    BY <2>1, <2>3, <2>4 DEF RecoveredSound
<1>4. CASE ~Recording' /\ ~RecoverFrame /\ ~RecoverFlush
  <2>1. ~Hear /\ ~Pause /\ ~Stop
    BY <1>4 DEF Recording, Hear, Pause, Stop
  <2>2. Segments' \subseteq Segments /\ file' = file
    BY <1>4, <2>1, QuietSteps DEF raw
  <2>3. phase' = "recovering" => Reads(file', active', ActiveStart') /\ Reads(file', preroll', PrerollStart')
    <3>1. CASE BeginRecover
      BY <3>1 DEF BeginRecover, Reads
    <3>2. CASE Commit
      BY <3>2, <2>2 DEF Commit, RecoveredSound, segmenter, ActiveStart, PrerollStart
    <3>3. CASE ~BeginRecover /\ ~Commit
      BY <1>4, <2>1, <2>2, <3>3 DEF TimelineNext, Recording, Miss, Resume, StopWindows, Crash, Restart, Finalize,
         EndRecover, AbortRecover, Done, timelineVars, RecoveredSound, segmenter, ActiveStart, PrerollStart
    <3> QED
      BY <3>1, <3>2, <3>3
  <2> QED
    BY <2>2, <2>3 DEF RecoveredSound
<1> QED
  BY <1>1, <1>2, <1>3, <1>4

\* A segment that ends behind all others keeps the queue in order.
LEMMA SubmittedInOrder ==
    ASSUME TimelineKinds, NEW s \in Segment, Submitted(s), finals' = finals,
           \A t \in Segments : t.end <= s.end,
           \A i \in DOMAIN finals : \A j \in DOMAIN queued : finals[i].end <= queued[j].end,
           \A i, j \in DOMAIN queued : i < j => queued[i].end <= queued[j].end
    PROVE  /\ \A i \in DOMAIN finals' : \A j \in DOMAIN queued' : finals'[i].end <= queued'[j].end
           /\ \A i, j \in DOMAIN queued' : i < j => queued'[i].end <= queued'[j].end
<1>1. queued \in Seq(Segment) /\ queued' = Append(queued, s)
  BY DEF TimelineKinds, TimelineTypeOK, Submitted
<1>2. Len(queued) \in Nat /\ DOMAIN queued = 1..Len(queued) /\ DOMAIN queued' = 1..(Len(queued) + 1)
  BY <1>1
<1>3. queued'[Len(queued) + 1] = s /\ \A i \in DOMAIN queued : queued'[i] = queued[i]
  BY <1>1
<1>4. \A i \in DOMAIN queued' : i \in DOMAIN queued \/ i = Len(queued) + 1
  BY <1>2
<1>5. (\A i \in DOMAIN finals : finals[i] \in Segments) /\ (\A i \in DOMAIN queued : queued[i] \in Segments)
  BY DEF Segments
<1>6. \A i \in DOMAIN finals' : \A j \in DOMAIN queued' : finals'[i].end <= queued'[j].end
  BY <1>3, <1>4, <1>5
<1>7. ASSUME NEW i \in DOMAIN queued', NEW j \in DOMAIN queued', i < j
      PROVE  queued'[i].end <= queued'[j].end
  <2>1. i \in DOMAIN queued
    BY <1>2, <1>7
  <2> QED
    BY <2>1, <1>3, <1>4, <1>5, <1>7
<1> QED
  BY <1>6, <1>7

\* The queue is first in, first out: a commit keeps the order of the positions.
LEMMA CommitInOrder ==
    ASSUME TimelineKinds, Commit,
           \A i, j \in DOMAIN finals : i < j => finals[i].end <= finals[j].end,
           \A i \in DOMAIN finals : \A j \in DOMAIN queued : finals[i].end <= queued[j].end,
           \A i, j \in DOMAIN queued : i < j => queued[i].end <= queued[j].end
    PROVE  /\ \A i, j \in DOMAIN finals' : i < j => finals'[i].end <= finals'[j].end
           /\ \A i \in DOMAIN finals' : \A j \in DOMAIN queued' : finals'[i].end <= queued'[j].end
           /\ \A i, j \in DOMAIN queued' : i < j => queued'[i].end <= queued'[j].end
<1>1. queued \in Seq(Segment) /\ finals \in Seq(Segment)
  BY DEF TimelineKinds, TimelineTypeOK
<1>2. /\ Len(queued) \in Nat \ {0} /\ Head(queued) = queued[1] /\ DOMAIN queued' = 1..(Len(queued) - 1)
      /\ DOMAIN queued = 1..Len(queued) /\ 1 \in DOMAIN queued
      /\ \A i \in DOMAIN queued' : i + 1 \in DOMAIN queued /\ queued'[i] = queued[i + 1] /\ 1 < i + 1
  BY <1>1, CommitTakesHead
<1>20. (\A i \in DOMAIN finals : finals[i].end \in Nat) /\ (\A i \in DOMAIN queued : queued[i].end \in Nat)
  <2>1. (\A i \in DOMAIN finals : finals[i] \in Segments) /\ (\A i \in DOMAIN queued : queued[i] \in Segments)
    BY DEF Segments
  <2> QED
    BY <2>1, SegmentsTyped
<1>3. \A i, j \in DOMAIN queued' : i < j => queued'[i].end <= queued'[j].end
  <2> SUFFICES ASSUME NEW i \in DOMAIN queued', NEW j \in DOMAIN queued', i < j
               PROVE  queued'[i].end <= queued'[j].end
    OBVIOUS
  <2>1. i + 1 < j + 1
    BY <1>2
  <2> QED
    BY <1>2, <2>1
<1>4. \A j \in DOMAIN queued' : Head(queued).end <= queued'[j].end
  BY <1>2
<1>5. \A i \in DOMAIN finals : Head(queued).end >= finals[i].end
  <2>1. \A i \in DOMAIN finals : finals[i].end <= queued[1].end
    BY <1>2
  <2> QED
    BY <1>2, <1>20, <2>1
<1>6. CASE finals' = finals
  BY <1>2, <1>3, <1>6
<1>7. CASE finals' # finals
  <2>1. /\ Len(finals) \in Nat /\ DOMAIN finals' = DOMAIN finals \cup {Len(finals) + 1}
        /\ DOMAIN finals = 1..Len(finals) /\ finals'[Len(finals) + 1] = Head(queued)
        /\ \A i \in DOMAIN finals : finals'[i] = finals[i]
    BY <1>1, <1>7, CommittedFinals
  <2>2. ASSUME NEW i \in DOMAIN finals', NEW j \in DOMAIN finals', i < j
        PROVE  finals'[i].end <= finals'[j].end
    <3>1. i \in DOMAIN finals
      BY <2>1, <2>2
    <3>2. CASE j \in DOMAIN finals
      BY <3>1, <3>2, <2>1, <2>2
    <3>3. CASE j = Len(finals) + 1
      <4>1. finals[i].end \in Nat /\ Head(queued).end \in Nat
        BY <3>1, <1>2, <1>20
      <4> QED
        BY <3>1, <3>3, <4>1, <2>1, <1>5
    <3> QED
      BY <3>2, <3>3, <2>1
  <2>3. \A i \in DOMAIN finals' : \A j \in DOMAIN queued' : finals'[i].end <= queued'[j].end
    BY <1>2, <1>4, <2>1
  <2> QED
    BY <2>2, <2>3, <1>3
<1> QED
  BY <1>6, <1>7

\* Every step keeps that order.
LEMMA OrderNext ==
    ASSUME TimelineKinds, TimelinePhases, RecordedInOrder, TimelineNext
    PROVE  RecordedInOrder'
<1> SUFFICES ASSUME pauses' = 0, Recording'
             PROVE  /\ \A i, j \in DOMAIN finals' : i < j => finals'[i].end <= finals'[j].end
                    /\ \A i \in DOMAIN finals' : \A j \in DOMAIN queued' : finals'[i].end <= queued'[j].end
                    /\ \A i, j \in DOMAIN queued' : i < j => queued'[i].end <= queued'[j].end
                    /\ phase' = "recording" => \A s \in Segments' : s.end <= pos'
  BY DEF RecordedInOrder
<1>0. pauses = 0 /\ Recording /\ phase # "paused"
  <2>1. pauses = 0
    BY DEF TimelineKinds, TimelineNext, Hear, Miss, Pause, Resume, Stop, StopWindows, Commit, Crash, Restart, Finalize,
         BeginRecover, RecoverFrame, RecoverFlush, EndRecover, AbortRecover, Done, timelineVars, counts
  <2>2. Recording
    BY DEF Recording, TimelineNext, Hear, Miss, Pause, Resume, Stop, StopWindows, Commit, Crash, Restart, Finalize,
         BeginRecover, RecoverFrame, RecoverFlush, EndRecover, AbortRecover, Done, timelineVars
  <2> QED
    BY <2>1, <2>2 DEF TimelinePhases
<1>1. /\ \A i, j \in DOMAIN finals : i < j => finals[i].end <= finals[j].end
      /\ \A i \in DOMAIN finals : \A j \in DOMAIN queued : finals[i].end <= queued[j].end
      /\ \A i, j \in DOMAIN queued : i < j => queued[i].end <= queued[j].end
      /\ phase = "recording" => \A s \in Segments : s.end <= pos
      /\ base = 0 /\ pos \in Nat /\ queued \in Seq(Segment) /\ finals \in Seq(Segment)
  BY <1>0 DEF RecordedInOrder, TimelinePhases, TimelineKinds, TimelineTypeOK
<1>2. CASE Hear
  <2>1. Push(frameStart + 1) /\ phase = "recording" /\ phase' = phase /\ finals' = finals /\ frameStart + 1 \in Frames
    BY <1>2, NextFrame DEF Hear
  <2>2. /\ pos' = pos + 1
        /\ PassedOver(frameStart + 1) \/ Began(frameStart + 1) \/ Grew(frameStart + 1) \/ CutHere(frameStart + 1)
    BY <2>1, PushCases
  <2>3. CASE queued' = queued
    <3>1. Segments' \subseteq Segments
      BY <2>1, <2>3, KeptSegments
    <3>2. \A s \in Segments' : s.end <= pos + 1
      BY <3>1, <1>1, <2>1, SegmentsTyped
    <3> QED
      BY <2>1, <2>2, <2>3, <3>2, <1>1
  <2>4. ASSUME NEW s \in Segment, SegmentIs(s, Longer(frameStart + 1), pos + 1), Submitted(s)
        PROVE  /\ \A i \in DOMAIN finals' : \A j \in DOMAIN queued' : finals'[i].end <= queued'[j].end
               /\ \A i, j \in DOMAIN queued' : i < j => queued'[i].end <= queued'[j].end
               /\ \A t \in Segments' : t.end <= pos'
    <3>1. s.end = pos + 1
      BY <2>4, <1>1 DEF SegmentIs
    <3>2. \A t \in Segments : t.end <= s.end
      BY <3>1, <1>1, <2>1, SegmentsTyped
    <3>3. Segments' = Segments \cup {s}
      BY <2>1, <2>4, <1>1, SubmittedSegments DEF Submitted
    <3>4. \A t \in Segments' : t.end <= pos'
      BY <3>1, <3>2, <3>3, <2>2, <1>1
    <3> QED
      BY <2>1, <2>4, <3>2, <3>4, <1>1, SubmittedInOrder
  <2> QED
    BY <2>1, <2>2, <2>3, <2>4, <1>1 DEF PassedOver, Began, Grew, CutHere
<1>3. CASE Stop
  <2>1. FlushStop /\ phase = "recording" /\ phase' = "stopping" /\ finals' = finals
    BY <1>0, <1>3 DEF Stop, ledger
  <2>2. CASE queued' = queued
    BY <2>1, <2>2, <1>1
  <2>3. ASSUME NEW s \in Segment, SegmentIs(s, active, pos), Submitted(s)
        PROVE  /\ \A i \in DOMAIN finals' : \A j \in DOMAIN queued' : finals'[i].end <= queued'[j].end
               /\ \A i, j \in DOMAIN queued' : i < j => queued'[i].end <= queued'[j].end
    <3>1. s.end = pos
      BY <2>3, <1>1 DEF SegmentIs
    <3> QED
      BY <2>1, <2>3, <3>1, <1>1, SubmittedInOrder
  <2> QED
    BY <2>1, <2>2, <2>3, <1>1, FlushCases
<1>4. CASE Commit
  <2>1. phase' = phase /\ pos' = pos /\ Segments' \subseteq Segments
    BY <1>4, <1>1, CommittedSegments DEF Commit, segmenter
  <2> QED
    BY <1>1, <1>4, <2>1, CommitInOrder
<1>5. CASE Miss
  BY <1>1, <1>5 DEF Miss, segmenter, ledger, Segments
<1>6. CASE Pause
  BY <1>0, <1>6 DEF Pause
<1>7. CASE Done
  BY <1>0, <1>7 DEF Done, Recording
<1> QED
  BY <1>0, <1>2, <1>3, <1>4, <1>5, <1>6, <1>7 DEF TimelineNext, Recording, Resume, StopWindows, Crash, Restart, Finalize,
         BeginRecover, RecoverFrame, RecoverFlush, EndRecover, AbortRecover


\* The sound: initially.
LEMMA SoundInit == TimelineInit => SoundInv
<1> SUFFICES ASSUME TimelineInit PROVE SoundInv
  OBVIOUS
<1>1. Segments = {} /\ DOMAIN <<>> = {} /\ Len(<<>>) = 0
  BY DEF TimelineInit, Segments
<1> QED
  BY <1>1 DEF TimelineInit, SoundInv, UnpausedSound, RecoveredSound, RecordedInOrder, Tells, Reads, ActiveStart, PrerollStart

\* The sound: step by step.
LEMMA SoundStep == FileInv /\ SoundInv /\ [TimelineNext]_timelineVars => SoundInv'
<1>1. ASSUME FileInv, SoundInv, TimelineNext PROVE SoundInv'
  BY <1>1, KindsNext, PhasesNext, UnpausedNext, RecoveredSoundNext, OrderNext DEF FileInv, SoundInv
<1>2. ASSUME FileInv, SoundInv, UNCHANGED timelineVars PROVE SoundInv'
  <2>1. Segments' = Segments /\ ActiveStart' = ActiveStart /\ PrerollStart' = PrerollStart
    BY <1>2 DEF timelineVars, ledger, segmenter, Segments, ActiveStart, PrerollStart
  <2> QED
    BY <1>2, <2>1 DEF SoundInv, UnpausedSound, RecoveredSound, RecordedInOrder, Recording, Tells, Reads,
       timelineVars, ledger, raw, segmenter, counts
<1> QED
  BY <1>1, <1>2

-----------------------------------------------------------------------------
(* The tail is kept.                                                       *)

\* What is saved stays so.
LEMMA SavedStays ==
    ASSUME TimelineKinds, TimelineNext, file' = file, NEW p \in DOMAIN file, Saved(p)
    PROVE  Saved(p)'
<1>1. CASE Commit
  <2>1. silent' = silent /\ noise \subseteq noise'
    BY <1>1 DEF Commit
  <2>2. \A i \in DOMAIN finals : i \in DOMAIN finals' /\ finals'[i] = finals[i]
    BY <1>1, CommittedFinals DEF TimelineKinds, TimelineTypeOK
  <2> QED
    BY <2>1, <2>2 DEF Saved
<1>2. CASE ~Commit
  <2>1. silent' = silent /\ noise' = noise /\ finals' = finals
    BY <1>2 DEF TimelineNext, Hear, Miss, Pause, Resume, Stop, StopWindows, Crash, Restart, Finalize,
         BeginRecover, RecoverFrame, RecoverFlush, EndRecover, AbortRecover, Done, timelineVars, ledger
  <2> QED
    BY <2>1 DEF Saved
<1> QED
  BY <1>1, <1>2

\* Up to where a recovery is, it has everything in hand.
WalkCovers == \A p \in DOMAIN file : p <= base + pos => Saved(p) \/ InHand(p)

\* What stays in the queue stays in hand.
LEMMA FrameCovers ==
    ASSUME TimelineKinds, TimelinePhases, RecoveredSound, WalkCovers, RecoverFrame
    PROVE  WalkCovers'
<1>1. /\ finals' = finals /\ noise' = noise /\ silent' = silent /\ file' = file /\ base' = base /\ attempt' = attempt
  BY DEF RecoverFrame, ledger, raw
<1>2. /\ base + pos + 1 \in DOMAIN file /\ file[base + pos + 1] \in Frames
      /\ Push(file[base + pos + 1])
  BY RecoveryReadsFile
<1> DEFINE f == file[base + pos + 1]
<1>3. /\ pos' = pos + 1 /\ Len(Longer(f)) = Len(active) + 1 /\ (PassedOver(f) \/ Began(f) \/ Grew(f) \/ CutHere(f))
  BY <1>2, PushCases
<1>4. /\ base \in Nat /\ pos \in Nat /\ Len(active) \in Nat /\ Len(active) <= pos /\ queued \in Seq(Segment)
      /\ ActiveStart \in Nat /\ ActiveStart = base + pos - Len(active) /\ file \in Seq(Frames)
  BY DEF TimelineKinds, TimelineTypeOK, ActiveStart
<1> SUFFICES ASSUME NEW p \in DOMAIN file, p <= base + pos + 1
             PROVE  Saved(p)' \/ InHand(p)'
  BY <1>1, <1>3, <1>4 DEF WalkCovers
<1>5. p \in Nat /\ (p <= base + pos \/ p = base + pos + 1)
  BY <1>4
<1>6. Saved(p) => Saved(p)'
  BY <1>1 DEF Saved
<1>7. CASE PassedOver(f)
  <2>1. CASE p = base + pos + 1
    BY <2>1, <1>1, <1>7 DEF PassedOver, Saved
  <2>2. CASE p <= base + pos
    <3>1. Saved(p) \/ InHand(p)
      BY <2>2 DEF WalkCovers
    <3>2. ~(p > ActiveStart)
      BY <2>2, <1>4, <1>5, <1>7 DEF PassedOver
    <3> QED
      BY <3>1, <3>2, <1>1, <1>6, <1>7 DEF PassedOver, InHand
  <2> QED
    BY <2>1, <2>2, <1>5
<1>10. CASE Began(f)
  <2>1. CASE p = base + pos + 1
    <3>1. Len(active') \in Nat /\ Len(active') >= 1 /\ ActiveStart' = base + pos + 1 - Len(active')
      BY <1>1, <1>2, <1>3, <1>4, <1>10, RememberedBlocks DEF Began, ActiveStart
    <3> QED
      BY <3>1, <2>1, <1>4 DEF InHand
  <2>2. CASE p <= base + pos
    <3>1. Saved(p) \/ InHand(p)
      BY <2>2 DEF WalkCovers
    <3>2. ~(p > ActiveStart)
      BY <2>2, <1>4, <1>5, <1>10 DEF Began
    <3> QED
      BY <3>1, <3>2, <1>1, <1>6, <1>10 DEF Began, InHand
  <2> QED
    BY <2>1, <2>2, <1>5
<1>8. CASE Grew(f)
  <2>1. ActiveStart' = ActiveStart
    BY <1>1, <1>3, <1>4, <1>8 DEF Grew, ActiveStart
  <2>2. CASE p = base + pos + 1
    BY <2>1, <2>2, <1>4 DEF InHand
  <2>3. CASE p <= base + pos
    <3>1. Saved(p) \/ InHand(p)
      BY <2>3 DEF WalkCovers
    <3> QED
      BY <3>1, <2>1, <1>1, <1>6, <1>8 DEF Grew, InHand
  <2> QED
    BY <2>2, <2>3, <1>5
<1>9. CASE CutHere(f)
  <2>1. PICK s \in Segment : SegmentIs(s, Longer(f), pos + 1) /\ Submitted(s)
    BY <1>9 DEF CutHere
  <2>2. s.end = base + pos + 1 /\ s.start = ActiveStart /\ s.attempt = attempt
    BY <2>1, <1>3, <1>4 DEF SegmentIs
  <2>3. /\ Len(queued) + 1 \in DOMAIN queued' /\ queued'[Len(queued) + 1] = s
        /\ \A i \in DOMAIN queued : i \in DOMAIN queued' /\ queued'[i] = queued[i]
    BY <2>1, <1>4 DEF Submitted
  <2>4. CASE p > ActiveStart
    BY <2>2, <2>3, <2>4, <1>1, <1>4, <1>5 DEF InHand
  <2>5. CASE ~(p > ActiveStart)
    <3>1. p <= base + pos
      BY <2>5, <1>4, <1>5
    <3>2. Saved(p) \/ InHand(p)
      BY <3>1 DEF WalkCovers
    <3> QED
      BY <3>2, <2>3, <2>5, <1>1, <1>6 DEF InHand
  <2> QED
    BY <2>4, <2>5
<1> QED
  BY <1>3, <1>7, <1>8, <1>9, <1>10

\* So has a recovery that flushes.
LEMMA FlushCovers ==
    ASSUME TimelineKinds, WalkCovers, RecoverFlush
    PROVE  WalkCovers'
<1>1. /\ finals' = finals /\ noise' = noise /\ silent' = silent /\ file' = file /\ base' = base /\ pos' = pos
      /\ attempt' = attempt /\ FlushStop /\ active # <<>>
  BY DEF RecoverFlush, ledger, raw
<1>2. /\ base \in Nat /\ pos \in Nat /\ Len(active) \in Nat /\ Len(active) <= pos /\ queued \in Seq(Segment)
      /\ ActiveStart \in Nat /\ ActiveStart = base + pos - Len(active) /\ file \in Seq(Frames)
  BY DEF TimelineKinds, TimelineTypeOK, ActiveStart
<1>3. PICK s \in Segment : SegmentIs(s, active, pos) /\ Submitted(s)
  BY <1>1, FlushCases
<1>4. s.end = base + pos /\ s.start = ActiveStart /\ s.attempt = attempt
  BY <1>2, <1>3 DEF SegmentIs
<1>5. /\ Len(queued) + 1 \in DOMAIN queued' /\ queued'[Len(queued) + 1] = s
      /\ \A i \in DOMAIN queued : i \in DOMAIN queued' /\ queued'[i] = queued[i]
  BY <1>2, <1>3 DEF Submitted
<1> SUFFICES ASSUME NEW p \in DOMAIN file, p <= base + pos
             PROVE  Saved(p)' \/ InHand(p)'
  BY <1>1 DEF WalkCovers
<1>6. Saved(p) \/ InHand(p)
  BY DEF WalkCovers
<1>7. Saved(p) => Saved(p)'
  BY <1>1 DEF Saved
<1>8. CASE p > ActiveStart
  BY <1>8, <1>1, <1>4, <1>5 DEF InHand
<1>9. CASE ~(p > ActiveStart)
  BY <1>9, <1>1, <1>5, <1>6, <1>7 DEF InHand
<1> QED
  BY <1>8, <1>9

\* A commit saves what it takes from this recovery's queue, or is an error of it.
LEMMA CommitCovers ==
    ASSUME TimelineKinds, TimelinePhases, RecoveredSound, WalkCovers, Commit, phase = "recovering",
           ~incomplete, ~incomplete'
    PROVE  WalkCovers'
<1>1. UNCHANGED <<file, base, pos, active, attempt, silent>>
  BY DEF Commit, raw, segmenter
<1>2. ActiveStart' = ActiveStart
  BY <1>1 DEF ActiveStart
<1>3. /\ queued \in Seq(Segment) /\ finals \in Seq(Segment) /\ file \in Seq(Frames)
  BY DEF TimelineKinds, TimelineTypeOK
<1>4. /\ Len(queued) \in Nat \ {0} /\ Head(queued) = queued[1] /\ Head(queued) \in Segment
      /\ DOMAIN queued' = 1..(Len(queued) - 1) /\ DOMAIN queued = 1..Len(queued)
      /\ \A i \in DOMAIN queued' : queued'[i] = queued[i + 1]
      /\ Head(queued) \in Segments
  BY <1>3, CommitTakesHead
<1> SUFFICES ASSUME NEW p \in DOMAIN file, p <= base + pos
             PROVE  Saved(p)' \/ InHand(p)'
  BY <1>1 DEF WalkCovers
<1>5. Saved(p) => Saved(p)'
  BY <1>1, SavedStays DEF TimelineNext
<1>6. Saved(p) \/ p > ActiveStart \/ \E i \in DOMAIN queued :
         queued[i].attempt = attempt /\ queued[i].start < p /\ p <= queued[i].end
  BY DEF WalkCovers, InHand
<1>7. CASE p > ActiveStart
  BY <1>2, <1>7 DEF InHand
<1>8. ASSUME NEW i \in DOMAIN queued, queued[i].attempt = attempt, queued[i].start < p, p <= queued[i].end
      PROVE  Saved(p)' \/ InHand(p)'
  <2>1. CASE i # 1
    <3>1. i - 1 \in DOMAIN queued' /\ queued'[i - 1] = queued[i]
      <4>1. i - 1 \in DOMAIN queued' /\ (i - 1) + 1 = i
        BY <2>1, <1>4
      <4> QED
        BY <4>1, <1>4
    <3> QED
      BY <3>1, <1>1, <1>8 DEF InHand
  <2>2. CASE i = 1
    <3> DEFINE s == Head(queued)
    <3>1. s.attempt = attempt /\ s.start < p /\ p <= s.end
      BY <2>2, <1>4, <1>8
    <3>2. \/ finals' = Append(finals, s)
          \/ noise' = noise \cup {s.audio[k] : k \in DOMAIN s.audio}
      BY <3>1 DEF Commit
    <3>3. CASE finals' = Append(finals, s)
      <4>1. Len(finals) + 1 \in DOMAIN finals' /\ finals'[Len(finals) + 1] = s
        BY <3>3, <1>3, <1>4
      <4> QED
        BY <4>1, <3>1 DEF Saved
    <3>4. CASE noise' = noise \cup {s.audio[k] : k \in DOMAIN s.audio}
      <4>1. s.attempt > 0
        BY <3>1 DEF TimelinePhases
      <4>2. Reads(file, s.audio, s.start)
        BY <4>1, <1>4 DEF RecoveredSound
      <4>3. p - s.start \in DOMAIN s.audio /\ s.start + (p - s.start) = p
        <5>1. s.start \in Nat /\ s.end = s.start + Len(s.audio) /\ Len(s.audio) \in Nat /\ DOMAIN s.audio = 1..Len(s.audio)
          BY <1>4, SegmentsTyped
        <5>2. p \in Nat
          BY <1>3
        <5> QED
          BY <5>1, <5>2, <3>1
      <4>4. file[p] = s.audio[p - s.start]
        BY <4>2, <4>3 DEF Reads
      <4>5. file'[p] \in noise'
        BY <3>4, <4>3, <4>4, <1>1
      <4> QED
        BY <4>5 DEF Saved
    <3> QED
      BY <3>2, <3>3, <3>4
  <2> QED
    BY <2>1, <2>2
<1> QED
  BY <1>5, <1>6, <1>7, <1>8

\* Every step keeps what a recovery leaves behind it.
LEMMA TailNext ==
    ASSUME TimelineKinds, TimelinePhases, RecoveredSound, TailInv, TimelineNext
    PROVE  TailInv'
<1>1. recovered' => \A p \in DOMAIN file' : Saved(p)'
  <2>1. CASE recovered
    <3>1. ~Hear
      BY <2>1 DEF Hear, TimelinePhases, Recording
    <3>2. file' = file
      BY <3>1, OthersKeepFile DEF raw
    <3> QED
      BY <2>1, <3>2, SavedStays DEF TailInv
  <2>2. CASE ~recovered /\ EndRecover
    <3> SUFFICES ASSUME recovered', NEW p \in DOMAIN file PROVE Saved(p)'
      BY <2>2 DEF EndRecover, raw
    <3>1. /\ phase = "recovering" /\ ~incomplete /\ OwnSettled /\ active = <<>> /\ base + pos >= manifest.end
      BY <2>2 DEF EndRecover
    <3>2. p <= base + pos /\ ~(p > ActiveStart)
      <4>1. manifest.end = Len(file)
        BY <3>1 DEF TimelinePhases
      <4>2. base \in Nat /\ pos \in Nat /\ file \in Seq(Frames) /\ Len(active) = 0
        BY <3>1 DEF TimelineKinds, TimelineTypeOK
      <4> QED
        BY <3>1, <4>1, <4>2 DEF ActiveStart
    <3>3. Saved(p)
      BY <3>1, <3>2 DEF TailInv, InHand, OwnSettled
    <3> QED
      BY <2>2, <3>3, SavedStays DEF EndRecover, raw
  <2>3. CASE ~recovered /\ ~EndRecover
    BY <2>3 DEF TimelineNext, Hear, Miss, Pause, Resume, Stop, StopWindows, Commit, Crash, Restart, Finalize,
       BeginRecover, RecoverFrame, RecoverFlush, AbortRecover, Done, timelineVars
  <2> QED
    BY <2>1, <2>2, <2>3
<1>2. ASSUME phase' = "recovering", ~incomplete' PROVE WalkCovers'
  <2>1. CASE BeginRecover
    <3>1. base' = LastSavedSample /\ pos' = 0 /\ finals' = finals /\ file' = file
      BY <2>1 DEF BeginRecover, raw
    <3>2. finals \in Seq(Segment) /\ file \in Seq(Frames)
      BY DEF TimelineKinds, TimelineTypeOK
    <3>3. CASE finals = <<>>
      BY <3>1, <3>2, <3>3 DEF WalkCovers, LastSavedSample
    <3>4. CASE finals # <<>>
      <4>1. Len(finals) \in DOMAIN finals /\ finals[Len(finals)] \in Segment
        BY <3>2, <3>4, EndsOfSequence
      <4>2. base' + pos' = finals[Len(finals)].end
        BY <3>1, <3>4, <4>1 DEF LastSavedSample, Segment
      <4> QED
        BY <3>1, <4>1, <4>2 DEF WalkCovers, Saved
    <3> QED
      BY <3>3, <3>4
  <2>2. CASE RecoverFrame
    <3>1. phase = "recovering" /\ ~incomplete
      BY <1>2, <2>2 DEF RecoverFrame, ledger
    <3> QED
      BY <2>2, <3>1, FrameCovers DEF TailInv, WalkCovers
  <2>3. CASE RecoverFlush
    <3>1. phase = "recovering" /\ ~incomplete
      BY <1>2, <2>3 DEF RecoverFlush, ledger
    <3> QED
      BY <2>3, <3>1, FlushCovers DEF TailInv, WalkCovers
  <2>4. CASE Commit
    <3>1. phase = "recovering" /\ ~incomplete
      <4>1. phase = "recovering"
        BY <1>2, <2>4 DEF Commit
      <4>2. incomplete => incomplete'
        BY <2>4 DEF Commit
      <4> QED
        BY <4>1, <4>2, <1>2
    <3> QED
      BY <1>2, <2>4, <3>1, CommitCovers DEF TailInv, WalkCovers
  <2> QED
    BY <1>2, <2>1, <2>2, <2>3, <2>4 DEF TimelineNext, Hear, Miss, Pause, Resume, Stop, StopWindows, Crash, Restart,
       Finalize, EndRecover, AbortRecover, Done, timelineVars
<1> QED
  BY <1>1, <1>2 DEF TailInv, WalkCovers


-----------------------------------------------------------------------------
(* Finals stay apart.                                                      *)

\* What the invariant says of the finals, for a state in which they are unchanged
\* and the queue has lost some of its segments or none.
LEMMA OnceQuiet ==
    ASSUME OnceInv, UNCHANGED <<finals, base, attempt>>, queued' = queued \/ queued' = <<>>,
           UNCHANGED <<pos, active>> \/ (active' = <<>> /\ pos' = pos), pauses' = pauses, late' = late
    PROVE  OnceInv'
<1>1. \A j \in DOMAIN queued' : j \in DOMAIN queued /\ queued'[j] = queued[j]
  OBVIOUS
<1>2. active' # <<>> => ActiveStart' = ActiveStart /\ active # <<>>
  BY DEF ActiveStart
<1>3. pos' = pos
  OBVIOUS
<1>4. FinalsBehind => FinalsBehind'
  BY <1>2, <1>3 DEF FinalsBehind
<1>5. QueuedBehind => QueuedBehind'
  BY <1>1, <1>2, <1>3 DEF QueuedBehind, Apart
<1> QED
  BY <1>4, <1>5 DEF OnceInv, Apart

\* What is behind a recovery that takes the next block, or flushes.
LEMMA SegmentApart ==
    ASSUME TimelineKinds, FinalsBehind, OwnSettled, NEW s \in Segment, NEW last \in Nat,
           SegmentIs(s, s.audio, last), s.start = ActiveStart, active # <<>>, pos <= last,
           Submitted(s), active' = <<>>, UNCHANGED <<finals, base, attempt>>, pos' = last
    PROVE  FinalsBehind' /\ QueuedBehind'
<1>1. /\ base \in Nat /\ pos \in Nat /\ Len(active) \in Nat /\ Len(active) <= pos /\ queued \in Seq(Segment)
      /\ ActiveStart \in Nat /\ base <= ActiveStart /\ Preroll \in Nat
  <2>1. Preroll \in Nat
    BY TimelineAssumption
  <2> QED
    BY <2>1 DEF TimelineKinds, TimelineTypeOK, ActiveStart
<1>2. \A i \in DOMAIN finals : finals[i].end \in Nat /\ finals[i].attempt \in Nat
  BY SegmentsTyped DEF Segments
<1>3. s.end = base + last /\ s.attempt = attempt /\ s.end \in Nat
  BY <1>1 DEF SegmentIs
<1>4. /\ DOMAIN queued' = DOMAIN queued \cup {Len(queued) + 1} /\ queued'[Len(queued) + 1] = s
      /\ \A i \in DOMAIN queued : queued'[i] = queued[i]
  BY <1>1 DEF Submitted
<1>5. \A j \in DOMAIN queued' : queued'[j].attempt = attempt => j = Len(queued) + 1
  BY <1>4 DEF OwnSettled
<1>6. ASSUME NEW i \in DOMAIN finals
      PROVE  finals[i].end <= base + last /\ finals[i].end <= s.end /\ Apart(finals[i], s)
  <2>1. CASE finals[i].attempt = attempt
    <3>1. finals[i].end <= base + pos /\ finals[i].end < ActiveStart + Preroll
      BY <2>1 DEF FinalsBehind
    <3> QED
      BY <3>1, <2>1, <1>1, <1>2, <1>3 DEF Apart
  <2>2. CASE finals[i].attempt # attempt
    <3>1. finals[i].end <= base
      BY <2>2 DEF FinalsBehind
    <3> QED
      BY <3>1, <2>2, <1>1, <1>2, <1>3 DEF Apart
  <2> QED
    BY <2>1, <2>2
<1>7. FinalsBehind'
  BY <1>6 DEF FinalsBehind
<1>8. QueuedBehind'
  <2> SUFFICES ASSUME NEW j \in DOMAIN queued', queued'[j].attempt = attempt
               PROVE  /\ base <= queued'[j].start /\ queued'[j].end <= base + last
                      /\ \A i \in DOMAIN finals : finals[i].end <= queued'[j].end /\ Apart(finals[i], queued'[j])
                      /\ \A i \in DOMAIN queued' : queued'[i].attempt = attempt => i = j
    BY DEF QueuedBehind, Apart
  <2>1. j = Len(queued) + 1 /\ queued'[j] = s
    BY <1>4, <1>5
  <2> QED
    BY <2>1, <1>1, <1>3, <1>5, <1>6
<1> QED
  BY <1>7, <1>8

\* A block of a recovery.
LEMMA FrameApart ==
    ASSUME TimelineKinds, TimelinePhases, FinalsBehind, QueuedBehind, RecoverFrame
    PROVE  FinalsBehind' /\ QueuedBehind'
<1>1. UNCHANGED <<finals, base, attempt>> /\ OwnSettled
  BY DEF RecoverFrame, ledger
<1> DEFINE f == file[base + pos + 1]
<1>2. f \in Frames /\ Push(f)
  BY RecoveryReadsFile
<1>3. /\ pos' = pos + 1 /\ Longer(f) \in Seq(Frames) /\ Len(Longer(f)) = Len(active) + 1
      /\ (PassedOver(f) \/ Began(f) \/ Grew(f) \/ CutHere(f))
  BY <1>2, PushCases
<1>4. /\ base \in Nat /\ pos \in Nat /\ Len(active) \in Nat /\ Len(active) <= pos
      /\ ActiveStart = base + pos - Len(active) /\ Preroll \in Nat
  BY TimelineAssumption DEF TimelineKinds, TimelineTypeOK, ActiveStart
<1>5. \A i \in DOMAIN finals : finals[i].end \in Nat
  BY SegmentsTyped DEF Segments
<1> HIDE DEF f
<1>6. CASE CutHere(f)
  <2>1. PICK s \in Segment : SegmentIs(s, Longer(f), pos + 1) /\ Submitted(s)
    BY <1>6 DEF CutHere
  <2>2. SegmentIs(s, s.audio, pos + 1) /\ s.start = ActiveStart
    BY <2>1, <1>3, <1>4 DEF SegmentIs
  <2>3. pos + 1 \in Nat /\ pos <= pos + 1
    BY <1>4
  <2> QED
    BY <2>1, <2>2, <2>3, <1>1, <1>3, <1>6, SegmentApart DEF CutHere
<1>7. CASE queued' = queued
  <2>1. QueuedBehind'
    BY <1>1, <1>7 DEF OwnSettled, QueuedBehind
  <2>2. ASSUME NEW i \in DOMAIN finals, finals[i].attempt = attempt
        PROVE  finals[i].end <= base + (pos + 1) /\ (active' # <<>> => finals[i].end < ActiveStart' + Preroll)
    <3>1. finals[i].end <= base + pos /\ (active # <<>> => finals[i].end < ActiveStart + Preroll)
      BY <2>2 DEF FinalsBehind
    <3>2. CASE Began(f)
      <4>1. /\ Len(active') \in Nat /\ Len(active') <= Preroll
            /\ ActiveStart' = base + (pos + 1) - Len(active')
        BY <1>1, <1>2, <1>3, <3>2, RememberedBlocks DEF Began, ActiveStart
      <4> QED
        BY <4>1, <3>1, <1>4, <1>5
    <3>3. CASE Grew(f)
      <4>1. ActiveStart' = ActiveStart
        BY <1>1, <1>3, <1>4, <3>3 DEF Grew, ActiveStart
      <4> QED
        BY <4>1, <3>1, <3>3, <1>4, <1>5 DEF Grew
    <3>4. CASE PassedOver(f)
      BY <3>1, <3>4, <1>4, <1>5 DEF PassedOver
    <3>5. ~CutHere(f)
      BY <1>7, <1>4 DEF CutHere, Submitted, TimelineKinds, TimelineTypeOK
    <3> QED
      BY <3>2, <3>3, <3>4, <3>5, <1>3
  <2>3. FinalsBehind'
    BY <2>2, <1>1, <1>3 DEF FinalsBehind
  <2> QED
    BY <2>1, <2>3
<1> QED
  BY <1>3, <1>6, <1>7 DEF PassedOver, Began, Grew

\* A commit records the one final of this recovery, or none, or a late one.
LEMMA CommitApart ==
    ASSUME TimelineKinds, TimelinePhases, OnceInv, ~Recording, Commit
    PROVE  OnceInv'
<1> SUFFICES ASSUME pauses' = 0, ~late' PROVE OnceInv'
  BY DEF OnceInv
<1>1. UNCHANGED <<base, pos, active, attempt, pauses>>
  BY DEF Commit, segmenter, counts
<1>2. queued \in Seq(Segment) /\ finals \in Seq(Segment)
  BY DEF TimelineKinds, TimelineTypeOK
<1>3. /\ Len(queued) \in Nat \ {0} /\ Head(queued) = queued[1] /\ Head(queued) \in Segment
      /\ DOMAIN queued' = 1..(Len(queued) - 1) /\ DOMAIN queued = 1..Len(queued)
      /\ \A i \in DOMAIN queued' : i + 1 \in DOMAIN queued /\ queued'[i] = queued[i + 1]
      /\ Head(queued) \in Segments
  BY <1>2, CommitTakesHead
<1>4. ~late /\ (finals' # finals => Head(queued).attempt = attempt)
  <2> DEFINE s == Head(queued)
  <2>1. \/ late' = (late \/ s.attempt # attempt)
        \/ finals' = finals /\ late' = late
    BY DEF Commit
  <2> HIDE DEF s
  <2>2. late \in BOOLEAN
    BY DEF TimelineKinds, TimelineTypeOK
  <2>3. CASE late' = (late \/ s.attempt # attempt)
    <3>1. ~(late \/ s.attempt # attempt)
      BY <2>3
    <3> QED
      BY <3>1 DEF s
  <2>4. CASE finals' = finals /\ late' = late
    BY <2>4
  <2> QED
    BY <2>1, <2>3, <2>4
<1>5. attempt > 0
  <2>1. 1 \in DOMAIN queued /\ queued[1] = Head(queued)
    BY <1>3
  <2>2. Head(queued).attempt > 0 /\ Head(queued).attempt <= attempt
    BY <2>1, <1>3 DEF TimelinePhases, TimelineKinds
  <2>3. Head(queued).attempt \in Nat /\ attempt \in Nat
    <3>1. \A s \in Segment : s.attempt \in Nat
      BY DEF Segment
    <3>2. MaxAttempts \in Nat /\ attempt \in 0..MaxAttempts
      BY TimelineAssumption DEF TimelineKinds, TimelineTypeOK
    <3> QED
      BY <3>1, <3>2, <1>3
  <2> QED
    BY <2>2, <2>3
<1>6. /\ \A i, j \in DOMAIN finals : i < j => finals[i].end <= finals[j].end
      /\ \A i, j \in DOMAIN finals : i < j /\ finals[j].attempt > 0 => Apart(finals[i], finals[j])
      /\ FinalsBehind /\ QueuedBehind
  BY <1>1, <1>4, <1>5 DEF OnceInv
<1>7. ActiveStart' = ActiveStart
  BY <1>1 DEF ActiveStart
<1>8. CASE finals' = finals
  <2>1. QueuedBehind'
    <3> SUFFICES ASSUME NEW j \in DOMAIN queued', queued'[j].attempt = attempt
                 PROVE  /\ base <= queued'[j].start /\ queued'[j].end <= base + pos
                        /\ active # <<>> => queued'[j].end < ActiveStart + Preroll
                        /\ \A i \in DOMAIN finals : finals[i].end <= queued'[j].end /\ Apart(finals[i], queued'[j])
                        /\ \A i \in DOMAIN queued' : queued'[i].attempt = attempt => i = j
      BY <1>1, <1>7, <1>8 DEF QueuedBehind, Apart
    <3>1. j + 1 \in DOMAIN queued /\ queued'[j] = queued[j + 1]
      BY <1>3
    <3>2. ASSUME NEW i \in DOMAIN queued', queued'[i].attempt = attempt PROVE i = j
      <4>1. i + 1 \in DOMAIN queued /\ queued'[i] = queued[i + 1] /\ i \in Nat /\ j \in Nat
        BY <1>3
      <4>2. i + 1 = j + 1
        BY <3>1, <3>2, <4>1, <1>6 DEF QueuedBehind
      <4> QED
        BY <4>1, <4>2
    <3> QED
      BY <3>1, <3>2, <1>6 DEF QueuedBehind
  <2>2. FinalsBehind'
    BY <1>1, <1>6, <1>7, <1>8 DEF FinalsBehind
  <2> QED
    BY <2>1, <2>2, <1>6, <1>8 DEF OnceInv, Apart
<1>9. CASE finals' # finals
  <2> DEFINE s == Head(queued)
  <2>1. /\ Len(finals) \in Nat /\ DOMAIN finals' = DOMAIN finals \cup {Len(finals) + 1}
        /\ DOMAIN finals = 1..Len(finals) /\ finals'[Len(finals) + 1] = s
        /\ \A i \in DOMAIN finals : finals'[i] = finals[i]
    BY <1>2, <1>9, CommittedFinals
  <2>2. s.attempt = attempt /\ 1 \in DOMAIN queued /\ queued[1] = s
    BY <1>3, <1>4, <1>9
  <2>3. /\ s.end <= base + pos /\ (active # <<>> => s.end < ActiveStart + Preroll)
        /\ \A i \in DOMAIN finals : finals[i].end <= s.end /\ Apart(finals[i], s)
        /\ \A i \in DOMAIN queued : queued[i].attempt = attempt => i = 1
    BY <2>2, <1>6 DEF QueuedBehind
  <2> HIDE DEF s
  <2>4. FinalsBehind'
    BY <2>1, <2>2, <2>3, <1>1, <1>6, <1>7 DEF FinalsBehind
  <2>5. QueuedBehind'
    <3>1. ASSUME NEW j \in DOMAIN queued' PROVE queued'[j].attempt # attempt
      <4>1. j + 1 \in DOMAIN queued /\ queued'[j] = queued[j + 1] /\ j + 1 # 1
        BY <1>3
      <4> QED
        BY <4>1, <2>3
    <3> QED
      BY <3>1, <1>1 DEF QueuedBehind
  <2>6. ASSUME NEW i \in DOMAIN finals', NEW j \in DOMAIN finals', i < j
        PROVE  finals'[i].end <= finals'[j].end /\ (finals'[j].attempt > 0 => Apart(finals'[i], finals'[j]))
    <3>1. i \in DOMAIN finals
      BY <2>1, <2>6
    <3>2. CASE j \in DOMAIN finals
      BY <3>1, <3>2, <2>1, <2>6, <1>6
    <3>3. CASE j = Len(finals) + 1
      BY <3>1, <3>3, <2>1, <2>3
    <3> QED
      BY <3>2, <3>3, <2>1
  <2>7. \A i, j \in DOMAIN finals' : i < j /\ finals'[j].attempt > 0 => Apart(finals'[i], finals'[j])
    BY <2>6
  <2> QED
    BY <2>4, <2>5, <2>6, <2>7 DEF OnceInv, Apart
<1> QED
  BY <1>8, <1>9

\* A new recovery starts behind the last final, which is behind all others.
LEMMA BeginApart ==
    ASSUME TimelineKinds, OnceInv, BeginRecover
    PROVE  OnceInv'
<1> SUFFICES ASSUME pauses' = 0, ~late' PROVE OnceInv'
  BY DEF OnceInv
<1>1. /\ base' = LastSavedSample /\ pos' = 0 /\ active' = <<>> /\ attempt' = attempt + 1
      /\ UNCHANGED <<finals, queued, pauses, late>>
  BY DEF BeginRecover, counts
<1>2. /\ \A i, j \in DOMAIN finals : i < j => finals[i].end <= finals[j].end
      /\ \A i, j \in DOMAIN finals : i < j /\ finals[j].attempt > 0 => Apart(finals[i], finals[j])
  BY <1>1 DEF OnceInv
<1>3. finals \in Seq(Segment) /\ attempt \in Nat /\ Len(finals) \in Nat /\ DOMAIN finals = 1..Len(finals)
  BY TimelineAssumption DEF TimelineKinds, TimelineTypeOK
<1>4. \A s \in Segments : s.attempt \in Nat /\ s.attempt <= attempt /\ s.end \in Nat
  BY SegmentsTyped DEF TimelineKinds
<1>5. \A s \in Segments : s.attempt # attempt'
  BY <1>1, <1>3, <1>4
<1>6. ASSUME NEW i \in DOMAIN finals PROVE finals[i].end <= base'
  <2>1. finals # <<>> /\ i \in 1..Len(finals)
    BY <1>3
  <2>2. base' = finals[Len(finals)].end /\ Len(finals) \in DOMAIN finals
    BY <2>1, <1>1, <1>3 DEF LastSavedSample
  <2>3. finals[i].end \in Nat
    BY <1>4 DEF Segments
  <2>4. i = Len(finals) \/ i < Len(finals)
    BY <2>1, <1>3
  <2> QED
    BY <2>2, <2>3, <2>4, <1>2
<1>7. FinalsBehind'
  BY <1>1, <1>5, <1>6 DEF FinalsBehind, Segments
<1>8. QueuedBehind'
  BY <1>1, <1>5 DEF QueuedBehind, Segments
<1> QED
  BY <1>1, <1>2, <1>7, <1>8 DEF OnceInv, Apart

\* Every step keeps the finals apart.
LEMMA OnceNext ==
    ASSUME TimelineKinds, TimelinePhases, RecordedInOrder, OnceInv, TimelineNext,
           TimelineKinds', TimelinePhases', RecordedInOrder'
    PROVE  OnceInv'
<1>1. CASE Recording'
  <2> SUFFICES ASSUME pauses' = 0 PROVE OnceInv'
    BY DEF OnceInv
  <2>1. \A i, j \in DOMAIN finals' : i < j => finals'[i].end <= finals'[j].end
    BY <1>1 DEF RecordedInOrder, Recording
  <2>2. attempt' = 0 /\ \A s \in Segments' : s.attempt <= 0
    BY <1>1 DEF TimelinePhases, TimelineKinds, Recording
  <2>3. \A i \in DOMAIN finals' : ~(finals'[i].attempt > 0)
    <3>1. \A i \in DOMAIN finals' : finals'[i] \in Segments'
      BY DEF Segments
    <3>2. finals' \in Seq(Segment)
      BY DEF TimelineKinds, TimelineTypeOK
    <3>3. \A i \in DOMAIN finals' : finals'[i].attempt \in Nat
      <4>1. \A i \in DOMAIN finals' : finals'[i] \in Segment
        BY <3>2
      <4> QED
        BY <4>1 DEF Segment
    <3> QED
      BY <3>1, <3>3, <2>2
  <2>4. ~(attempt' > 0)
    BY <2>2
  <2> QED
    BY <2>1, <2>3, <2>4 DEF OnceInv
<1>2. CASE Recording /\ ~Recording'
  <2> SUFFICES ASSUME pauses' = 0 PROVE OnceInv'
    BY DEF OnceInv
  <2>1. pauses = 0 /\ finals' = finals /\ attempt' = attempt
    BY <1>2 DEF Recording, TimelineNext, Hear, Miss, Pause, Resume, Stop, StopWindows, Commit, Crash, Restart, Finalize,
       BeginRecover, RecoverFrame, RecoverFlush, EndRecover, AbortRecover, Done, timelineVars, ledger, counts, segmenter
  <2>2. \A i, j \in DOMAIN finals : i < j => finals[i].end <= finals[j].end
    BY <1>2, <2>1 DEF RecordedInOrder
  <2>3. attempt = 0 /\ \A i \in DOMAIN finals : finals[i].attempt = 0
    BY <1>2, RecordingHasNone DEF TimelinePhases, Segments
  <2>4. ~(attempt' > 0) /\ \A i \in DOMAIN finals' : ~(finals'[i].attempt > 0)
    BY <2>1, <2>3
  <2> QED
    BY <2>1, <2>2, <2>4 DEF OnceInv
<1>3. CASE ~Recording /\ ~Recording'
  <2>1. CASE Commit
    BY <1>3, <2>1, CommitApart
  <2>2. CASE BeginRecover
    BY <2>2, BeginApart
  <2>3. CASE RecoverFrame
    <3> SUFFICES ASSUME pauses' = 0, ~late' PROVE OnceInv'
      BY DEF OnceInv
    <3>1. pauses = 0 /\ ~late /\ attempt' = attempt /\ attempt > 0 /\ finals' = finals
      BY <2>3 DEF RecoverFrame, ledger, counts, TimelinePhases
    <3>2. FinalsBehind' /\ QueuedBehind'
      BY <2>3, <3>1, FrameApart DEF OnceInv
    <3> QED
      BY <3>1, <3>2 DEF OnceInv, Apart
  <2>4. CASE RecoverFlush
    <3> SUFFICES ASSUME pauses' = 0, ~late' PROVE OnceInv'
      BY DEF OnceInv
    <3>1. /\ pauses = 0 /\ ~late /\ attempt > 0 /\ active # <<>> /\ OwnSettled /\ FlushStop
          /\ UNCHANGED <<finals, base, attempt, pos>>
      BY <2>4 DEF RecoverFlush, ledger, counts, TimelinePhases
    <3>2. PICK s \in Segment : SegmentIs(s, active, pos) /\ Submitted(s)
      BY <3>1, FlushCases
    <3>3. SegmentIs(s, s.audio, pos) /\ s.start = ActiveStart /\ active' = <<>> /\ pos \in Nat /\ pos <= pos
      <4>1. SegmentIs(s, s.audio, pos) /\ s.start = ActiveStart
        BY <3>2 DEF SegmentIs, ActiveStart
      <4>2. pos \in Nat
        BY DEF TimelineKinds, TimelineTypeOK
      <4> QED
        BY <3>1, <4>1, <4>2, FlushCases
    <3>4. FinalsBehind
      BY <3>1 DEF OnceInv
    <3>5. FinalsBehind' /\ QueuedBehind'
      BY <3>1, <3>2, <3>3, <3>4, SegmentApart
    <3> QED
      BY <3>1, <3>5 DEF OnceInv, Apart
  <2>5. CASE ~Commit /\ ~BeginRecover /\ ~RecoverFrame /\ ~RecoverFlush
    <3>1. /\ UNCHANGED <<finals, base, attempt, pos, pauses, late>>
          /\ queued' = queued \/ queued' = <<>>
          /\ active' = active \/ active' = <<>>
      BY <1>3, <2>5 DEF Recording, TimelineNext, Hear, Miss, Pause, Resume, Stop, StopWindows, Crash, Restart, Finalize,
         EndRecover, AbortRecover, Done, timelineVars, ledger, counts, segmenter
    <3> QED
      BY <3>1, OnceQuiet
  <2> QED
    BY <2>1, <2>2, <2>3, <2>4, <2>5
<1> QED
  BY <1>1, <1>2, <1>3

-----------------------------------------------------------------------------
(* The theorems.                                                           *)

\* The whole invariant.
TimelineInv == FileInv /\ SoundInv /\ TailInv /\ OnceInv

\* Initially.
LEMMA TimelineInitInv == TimelineInit => TimelineInv
<1> SUFFICES ASSUME TimelineInit PROVE TimelineInv
  OBVIOUS
<1>1. TailInv /\ OnceInv
  BY DEF TimelineInit, TailInv, OnceInv
<1> QED
  BY <1>1, FileInit, SoundInit DEF TimelineInv

\* Step by step: each part is kept, and so it is when nothing changes.
LEMMA TimelineStepInv == TimelineInv /\ [TimelineNext]_timelineVars => TimelineInv'
<1>1. ASSUME TimelineInv, TimelineNext PROVE TimelineInv'
  BY <1>1, FileStep, SoundStep, TailNext, OnceNext DEF TimelineInv, FileInv, SoundInv
<1>2. ASSUME TimelineInv, UNCHANGED timelineVars PROVE TimelineInv'
  <2>1. FileInv' /\ SoundInv'
    BY <1>2, FileStep, SoundStep DEF TimelineInv
  <2>2. Segments' = Segments /\ ActiveStart' = ActiveStart /\ file' = file /\ silent' = silent
    BY <1>2 DEF timelineVars, ledger, segmenter, raw, Segments, ActiveStart
  <2>3. TailInv'
    BY <1>2, <2>2 DEF TimelineInv, TailInv, Saved, InHand, timelineVars, ledger, segmenter
  <2>4. OnceInv'
    BY <1>2, <2>2 DEF TimelineInv, OnceInv, FinalsBehind, QueuedBehind, Apart, timelineVars, ledger, segmenter, counts
  <2> QED
    BY <2>1, <2>3, <2>4 DEF TimelineInv
<1> QED
  BY <1>1, <1>2

\* The invariant holds for any number of frames, pauses, losses, crashes and
\* recoveries.
THEOREM TimelineInvariant == TimelineSpec => []TimelineInv
<1>1. TimelineInit => TimelineInv
  BY TimelineInitInv
<1>2. TimelineInv /\ [TimelineNext]_timelineVars => TimelineInv'
  BY TimelineStepInv
<1> QED
  BY <1>1, <1>2, PTL DEF TimelineSpec

\* What the positions of a final show of the file is what was transcribed.
LEMMA LocatedAudio ==
    ASSUME TimelineInv
    PROVE  UnpausedFinalsLocateTheirAudio
<1> SUFFICES ASSUME pauses = 0, NEW i \in DOMAIN finals, NEW k \in DOMAIN finals[i].audio,
                    finals[i].start + k \in DOMAIN file
             PROVE  file[finals[i].start + k] = finals[i].audio[k]
  BY DEF UnpausedFinalsLocateTheirAudio, FinalsLocateTheirAudio
<1>1. finals[i] \in Segments
  BY DEF Segments
<1>2. Tells(file, finals[i].audio, finals[i].start)
  BY <1>1 DEF TimelineInv, SoundInv, UnpausedSound
<1> QED
  BY <1>2 DEF Tells

\* For any number of frames, pauses, losses and crashes: a manifest that is written
\* tells of every position what the file holds there, and the positions of a final of
\* a recording that was never paused are those of its audio in the file
\* (raw_audio.rs 97-99, dsp.rs 363-374).
THEOREM TimelineHolds == TimelineSpec => []TimelineIsTrue
<1>1. TimelineInv => TimelineIsTrue
  BY LocatedAudio, WrittenManifestIsTrue DEF TimelineInv, FileInv, TimelineKinds, TimelineIsTrue
<1> QED
  BY <1>1, TimelineInvariant, PTL

\* The same frame has one place in the file, and two finals with a place in
\* common are not apart.
LEMMA RecoveredOnce ==
    ASSUME TimelineInv
    PROVE  RecoveryRepeatsNothing
<1> SUFFICES ASSUME pauses = 0, ~late, NEW i \in DOMAIN finals, NEW j \in DOMAIN finals, i < j, finals[j].attempt > 0,
                    NEW k \in DOMAIN finals[i].audio, NEW l \in DOMAIN finals[j].audio,
                    finals[i].attempt = finals[j].attempt => l >= Preroll,
                    finals[i].audio[k] = finals[j].audio[l]
             PROVE  FALSE
  BY DEF RecoveryRepeatsNothing
<1> DEFINE s == finals[i]
           t == finals[j]
           p == s.start + k
           q == t.start + l
<1>1. s \in Segments /\ t \in Segments
  BY DEF Segments
<1>2. /\ s.start \in Nat /\ s.end = s.start + Len(s.audio) /\ Len(s.audio) \in Nat /\ DOMAIN s.audio = 1..Len(s.audio)
      /\ t.start \in Nat /\ t.end = t.start + Len(t.audio) /\ Len(t.audio) \in Nat /\ DOMAIN t.audio = 1..Len(t.audio)
      /\ s.attempt \in Nat /\ s.end \in Nat /\ t.end \in Nat
  BY <1>1, SegmentsTyped DEF TimelineInv, FileInv
<1>3. k \in Nat /\ l \in Nat /\ s.start < p /\ p <= s.end /\ t.start < q /\ q <= t.end /\ p \in Nat /\ q \in Nat
  <2>1. k \in 1..Len(s.audio) /\ l \in 1..Len(t.audio)
    BY <1>2
  <2>2. ASSUME NEW n \in Nat, NEW m \in Nat, NEW h \in 1..n
        PROVE  h \in Nat /\ m < m + h /\ m + h <= m + n /\ m + h \in Nat
    OBVIOUS
  <2>3. k \in Nat /\ s.start < s.start + k /\ s.start + k <= s.start + Len(s.audio) /\ s.start + k \in Nat
    BY <2>1, <2>2, <1>2
  <2>4. l \in Nat /\ t.start < t.start + l /\ t.start + l <= t.start + Len(t.audio) /\ t.start + l \in Nat
    BY <2>1, <2>2, <1>2
  <2> QED
    BY <2>3, <2>4, <1>2
<1>4. q \in DOMAIN file /\ file[q] = t.audio[l]
  BY <1>1 DEF TimelineInv, SoundInv, RecoveredSound, Reads
<1>5. p \in DOMAIN file /\ file[p] = s.audio[k]
  <2>1. Tells(file, s.audio, s.start)
    BY <1>1 DEF TimelineInv, SoundInv, UnpausedSound
  <2> QED
    BY <2>1, <1>4 DEF Tells
<1>6. p = q
  <2>1. file[p] = file[q] /\ file \in Seq(Frames)
    BY <1>4, <1>5 DEF TimelineInv, FileInv, TimelineKinds, TimelineTypeOK
  <2>2. file[p] \in Nat /\ file[q] \in Nat
    <3>1. ASSUME NEW S, NEW f \in Seq(S), NEW n \in DOMAIN f PROVE f[n] \in S
      OBVIOUS
    <3>2. file[p] \in Frames /\ file[q] \in Frames
      BY <1>4, <1>5, <2>1, <3>1
    <3> QED
      BY <3>2 DEF Frames
  <2>3. ~(p < q) /\ ~(q < p)
    BY <1>4, <1>5, <2>1, <2>2 DEF TimelineInv, FileInv, FileInOrder
  <2> QED
    BY <2>3, <1>3
<1>7. Apart(s, t)
  BY DEF TimelineInv, OnceInv
<1>8. Preroll \in Nat
  BY TimelineAssumption
<1>9. CASE s.attempt = t.attempt
  <2>1. l >= Preroll /\ s.end < t.start + Preroll
    BY <1>7, <1>9 DEF Apart
  <2>2. ASSUME NEW x \in Nat, NEW y \in Nat, NEW z \in Nat, NEW h \in Nat, z <= h, x < y + z, y + h <= x PROVE FALSE
    BY <2>2
  <2>3. t.start + l <= s.end
    BY <1>3, <1>6
  <2> QED
    BY <2>1, <2>2, <2>3, <1>2, <1>3, <1>8
<1>10. CASE s.attempt # t.attempt
  <2>1. s.end <= t.start
    BY <1>7, <1>10 DEF Apart
  <2> QED
    BY <2>1, <1>2, <1>3, <1>6
<1> QED
  BY <1>9, <1>10

\* Behind the finals, an ended recovery left nothing unsaved.
LEMMA RecoveredTail ==
    ASSUME TimelineInv
    PROVE  RecoveredTailIsSaved
<1> SUFFICES ASSUME recovered, NEW p \in DOMAIN file, \A i \in DOMAIN finals : finals[i].end < p
             PROVE  file[p] \in silent \cup noise
  BY DEF RecoveredTailIsSaved
<1>1. Saved(p)
  BY DEF TimelineInv, TailInv
<1>2. \A i \in DOMAIN finals : ~(p <= finals[i].end)
  <2>1. p \in Nat /\ \A i \in DOMAIN finals : finals[i] \in Segments
    BY DEF TimelineInv, FileInv, TimelineKinds, TimelineTypeOK, Segments
  <2>2. \A i \in DOMAIN finals : finals[i].end \in Nat
    BY <2>1, SegmentsTyped DEF TimelineInv, FileInv
  <2> QED
    BY <2>1, <2>2
<1> QED
  BY <1>1, <1>2 DEF Saved

\* For any number of crashes and recoveries: a recovery that is recorded as ended
\* left no sound behind the finals; and without pauses and late finals no sound of
\* an earlier final comes again in a recovered one, but for the pre-roll of one
\* right behind another of the same recovery (service.rs 2088-2098, 5868-5893,
\* dsp.rs 521-545).
THEOREM RecoveryHolds == TimelineSpec => []RecoveryIsExact
<1>1. TimelineInv => RecoveryIsExact
  BY RecoveredOnce, RecoveredTail DEF RecoveryIsExact
<1> QED
  BY <1>1, TimelineInvariant, PTL

==============================================================================
