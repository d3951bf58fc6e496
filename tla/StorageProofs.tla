---------------------------- MODULE StorageProofs ----------------------------
(***************************************************************************)
(* What the program keeps.  For any meetings, segments, texts, clients and  *)
(* bounds, MeetingStore keeps its invariant and implements                  *)
(* DurableTranscript; for any sources, sampling rates, packet sizes,        *)
(* failures and crashes, RawAudioArchive keeps its types and the gaps of    *)
(* its writers and of its manifest apart and in order, and its manifest     *)
(* tells what its files hold.                                               *)
(***************************************************************************)
EXTENDS MeetingStore, RawAudioArchive, TLAPS

-----------------------------------------------------------------------------
\* What a request carries, by its op.
LEMMA RequestFacts ==
    /\ NoRequest \notin Request
    /\ \A r \in Request :
        /\ r.client \in Clients /\ r.op # "none"
        /\ r.op = "commit" => r.arg \in Candidate
        /\ r.op \in {"finish", "record", "delete", "restore", "purge"} => r.meeting \in Meetings
        /\ r.op = "finish" => r.end \in EndStates
        /\ r.op = "record" => r.action \in RecoveryActions
  BY DEF Request, NoRequest

\* The channel: one more at the end, one less at the front.
LEMMA ChannelFacts ==
    ASSUME NEW q \in Seq(Request), NEW r \in Request
    PROVE  /\ Len(q) \in Nat
           /\ Append(q, r) \in Seq(Request) /\ Len(Append(q, r)) = Len(q) + 1
           /\ q # <<>> => Head(q) \in Request /\ Tail(q) \in Seq(Request) /\ Len(Tail(q)) = Len(q) - 1
  OBVIOUS

\* A row put at the end of the finals leaves the others where they are.
LEMMA AppendRow ==
    ASSUME NEW q \in Seq(Row), NEW r \in Row
    PROVE  /\ Len(q) \in Nat /\ DOMAIN q = 1..Len(q)
           /\ Append(q, r) \in Seq(Row) /\ Len(Append(q, r)) = Len(q) + 1
           /\ DOMAIN Append(q, r) = 1..(Len(q) + 1)
           /\ Append(q, r)[Len(q) + 1] = r
           /\ \A i \in DOMAIN q : i \in DOMAIN Append(q, r) /\ Append(q, r)[i] = q[i]
  OBVIOUS

\* Append, as a function on its places.
LEMMA AppendAsFunction ==
    ASSUME NEW S, NEW q \in Seq(S), NEW x \in S
    PROVE  Append(q, x) = [i \in 1..(Len(q) + 1) |-> IF i = Len(q) + 1 THEN x ELSE q[i]]
<1> DEFINE p == Append(q, x)
<1>1. p \in Seq(S) /\ Len(p) = Len(q) + 1 /\ Len(q) \in Nat
  OBVIOUS
<1>2. \A i \in 1..(Len(q) + 1) : p[i] = IF i = Len(q) + 1 THEN x ELSE q[i]
  OBVIOUS
<1> HIDE DEF p
<1>3. p = [i \in 1..Len(p) |-> p[i]]
  BY <1>1
<1>4. p = [i \in 1..(Len(q) + 1) |-> p[i]]
  BY <1>1, <1>3, Zenon
<1>5. [i \in 1..(Len(q) + 1) |-> p[i]]
      = [i \in 1..(Len(q) + 1) |-> IF i = Len(q) + 1 THEN x ELSE q[i]]
  BY <1>2, Zenon
<1> QED
  BY <1>4, <1>5, Zenon DEF p

\* A function on 1..n is a sequence of length n.
LEMMA FunctionIsSequence ==
    ASSUME NEW S, NEW n \in Nat, NEW q \in [1..n -> S]
    PROVE  q \in Seq(S) /\ Len(q) = n
  OBVIOUS

\* The content of the finals with one more row at the end.
LEMMA ContentAppend ==
    ASSUME NEW q \in Seq(Row), NEW r \in Row
    PROVE  Content(Append(q, r)) = Append(Content(q), [segment |-> r.segment, text |-> r.text])
<1> DEFINE f == [segment |-> r.segment, text |-> r.text]
           p == Append(q, r)
           C == Content(q)
<1>1. f \in Durable!Final
  BY DEF Row, Durable!Final
<1>2. /\ Len(q) \in Nat /\ DOMAIN q = 1..Len(q) /\ DOMAIN p = 1..(Len(q) + 1)
      /\ p[Len(q) + 1] = r
      /\ \A i \in 1..Len(q) : p[i] = q[i] /\ q[i] \in Row
  BY AppendRow
<1>3. C = [i \in 1..Len(q) |-> [segment |-> q[i].segment, text |-> q[i].text]]
  BY <1>2 DEF Content
<1>4. ASSUME NEW i \in 1..Len(q)
      PROVE  [segment |-> q[i].segment, text |-> q[i].text] \in Durable!Final
  BY <1>2 DEF Row, Durable!Final
<1>5. C \in [1..Len(q) -> Durable!Final]
  BY <1>3, <1>4
<1>6. C \in Seq(Durable!Final) /\ Len(C) = Len(q)
  BY <1>2, <1>5, FunctionIsSequence, Zenon
<1>7. Content(p) = [i \in 1..(Len(q) + 1) |-> [segment |-> p[i].segment, text |-> p[i].text]]
  BY <1>2, Zenon DEF Content
<1>8. \A i \in 1..(Len(q) + 1) :
         [segment |-> p[i].segment, text |-> p[i].text] = IF i = Len(q) + 1 THEN f ELSE C[i]
  <2>1. \A i \in 1..(Len(q) + 1) : i = Len(q) + 1 \/ i \in 1..Len(q)
    BY <1>2
  <2>2. \A i \in 1..Len(q) :
           i # Len(q) + 1 /\ C[i] = [segment |-> q[i].segment, text |-> q[i].text]
    BY <1>2, <1>3
  <2> HIDE DEF p, C
  <2>3. \A i \in 1..Len(q) : [segment |-> p[i].segment, text |-> p[i].text] = C[i]
    BY <1>2, <2>2, Zenon
  <2>4. [segment |-> p[Len(q) + 1].segment, text |-> p[Len(q) + 1].text] = f
    BY <1>2, Zenon
  <2> HIDE DEF f
  <2> QED
    BY <2>1, <2>2, <2>3, <2>4, Zenon
<1> HIDE DEF f, C, p
<1>9. Append(C, f) = [i \in 1..(Len(C) + 1) |-> IF i = Len(C) + 1 THEN f ELSE C[i]]
  BY <1>1, <1>6, AppendAsFunction
<1>10. Content(p) = Append(C, f)
  BY <1>6, <1>7, <1>8, <1>9
<1> QED
  BY <1>10 DEF f, C, p

\* The saved finals, said of the rows.
LEMMA SavedRows ==
    ASSUME told \subseteq [meeting : Meetings, sequence : Nat,
                           final : [segment : Segments, text : Texts]]
    PROVE  SavedIsKept <=>
             \A t \in told :
                /\ t.sequence \in DOMAIN finals[t.meeting]
                /\ finals[t.meeting][t.sequence].segment = t.final.segment
                /\ finals[t.meeting][t.sequence].text = t.final.text
<1> SUFFICES ASSUME NEW t \in told
             PROVE  (/\ t.sequence \in DOMAIN Transcript[t.meeting]
                     /\ Transcript[t.meeting][t.sequence] = t.final)
                    <=> (/\ t.sequence \in DOMAIN finals[t.meeting]
                         /\ finals[t.meeting][t.sequence].segment = t.final.segment
                         /\ finals[t.meeting][t.sequence].text = t.final.text)
  BY DEF SavedIsKept, Durable!SavedIsKept
<1>1. t.meeting \in Meetings /\ t.final \in [segment : Segments, text : Texts]
  OBVIOUS
<1>2. /\ DOMAIN Transcript[t.meeting] = DOMAIN finals[t.meeting]
      /\ \A i \in DOMAIN finals[t.meeting] :
            Transcript[t.meeting][i] = [segment |-> finals[t.meeting][i].segment,
                                        text |-> finals[t.meeting][i].text]
  BY <1>1 DEF Transcript, Content
<1>3. t.final = [segment |-> t.final.segment, text |-> t.final.text]
  BY <1>1
<1>4. ASSUME NEW a, NEW b, t.final = [segment |-> a, text |-> b]
      PROVE  a = t.final.segment /\ b = t.final.text
  BY <1>4
<1>5. ASSUME t.sequence \in DOMAIN finals[t.meeting]
      PROVE  Transcript[t.meeting][t.sequence] = t.final
             <=> (/\ finals[t.meeting][t.sequence].segment = t.final.segment
                  /\ finals[t.meeting][t.sequence].text = t.final.text)
  <2> DEFINE a == finals[t.meeting][t.sequence].segment
             b == finals[t.meeting][t.sequence].text
  <2>1. Transcript[t.meeting][t.sequence] = [segment |-> a, text |-> b]
    BY <1>2, <1>5
  <2> HIDE DEF a, b
  <2>2. t.final = [segment |-> a, text |-> b] <=> a = t.final.segment /\ b = t.final.text
    BY <1>3, <1>4
  <2>3. Transcript[t.meeting][t.sequence] = t.final <=> a = t.final.segment /\ b = t.final.text
    BY <2>1, <2>2
  <2> QED
    BY <2>3 DEF a, b
<1> QED
  BY <1>2, <1>5

-----------------------------------------------------------------------------
\* An empty database satisfies the invariant.
LEMMA InitInv == Init => StoreInv
<1> SUFFICES ASSUME Init PROVE StoreInv
  OBVIOUS
<1> USE DEF Init
<1>1. TypeOK
  BY StoreAssumption DEF TypeOK, States, NoRequest
<1>2. SequenceDense /\ AnsweredIsThere
  BY DEF SequenceDense, AnsweredIsThere
<1>3. SavedIsKept
  BY SavedRows
<1> QED
  BY <1>1, <1>2, <1>3 DEF StoreInv

\* A step that leaves the finals and what was told, and answers no commit with
\* success, keeps all but the types.
LEMMA FinalsUntouched ==
    ASSUME StoreInv, UNCHANGED <<last, finals, told>>,
           serving'.op # "commit" \/ served' # "ok"
    PROVE  SequenceDense' /\ AnsweredIsThere' /\ SavedIsKept'
  BY DEF StoreInv, SequenceDense, AnsweredIsThere, SavedIsKept, Durable!SavedIsKept, Transcript, Content

\* Callers and channel.
LEMMA ChannelSteps ==
    ASSUME StoreInv, (\E r \in Request : Ask(r)) \/ Receive \/ Crash
    PROVE  StoreInv'
<1> USE RequestFacts, StoreAssumption DEF StoreInv, TypeOK, tables
<1>1. ASSUME NEW r \in Request, Ask(r) PROVE StoreInv'
  <2>1. TypeOK'
    BY <1>1, ChannelFacts DEF Ask
  <2>2. SequenceDense' /\ AnsweredIsThere' /\ SavedIsKept'
    BY <1>1 DEF Ask, SequenceDense, AnsweredIsThere, SavedIsKept, Durable!SavedIsKept, Transcript, Content
  <2> QED
    BY <2>1, <2>2
<1>2. CASE Receive
  <2>1. served = "none"
    BY <1>2 DEF Receive
  <2>2. TypeOK'
    BY <1>2, ChannelFacts DEF Receive
  <2> QED
    BY <1>2, <2>1, <2>2, FinalsUntouched DEF Receive
<1>3. CASE Crash
  <2>1. TypeOK'
    BY <1>3 DEF Crash
  <2> QED
    BY <1>3, <2>1, FinalsUntouched DEF Crash
<1> QED
  BY <1>1, <1>2, <1>3

\* The transactions that leave the finals alone.
LEMMA OtherTransactions ==
    ASSUME StoreInv,
           Fail \/ StartMeeting \/ FinishMeeting \/ RecoverInterrupted
             \/ RecordRecoveryAction \/ SoftDelete \/ Restore
    PROVE  StoreInv'
<1> USE RequestFacts DEF StoreInv, Answer, AnswerReadBack, Serve, tables
<1>1. UNCHANGED <<last, finals, told>> /\ UNCHANGED <<requests, calling, serving, crashes>>
  BY DEF Fail, StartMeeting, FinishMeeting, RecoverInterrupted, RecordRecoveryAction, SoftDelete, Restore
<1>2. served' \in {"ok", "error"} /\ serving # NoRequest
  BY DEF Fail, StartMeeting, FinishMeeting, RecoverInterrupted, RecordRecoveryAction, SoftDelete, Restore,
         NoRequest
<1>3. serving'.op # "commit" \/ served' # "ok"
  BY <1>1 DEF Fail, StartMeeting, FinishMeeting, RecoverInterrupted, RecordRecoveryAction, SoftDelete, Restore
<1>4. state' \in [Meetings -> States]
  <2>1. state \in [Meetings -> States] /\ {"recording", "interrupted", "completed"} \subseteq States
    BY DEF TypeOK, States, EndStates
  <2>2. CASE Fail \/ SoftDelete \/ Restore
    BY <2>1, <2>2 DEF Fail, SoftDelete, Restore
  <2>3. CASE StartMeeting
    BY <2>1, <2>3 DEF StartMeeting
  <2>4. CASE FinishMeeting
    <3>1. serving.end \in States
      BY <2>4, <1>2 DEF FinishMeeting, TypeOK, States
    <3> QED
      BY <2>1, <2>4, <3>1 DEF FinishMeeting
  <2>5. CASE RecoverInterrupted
    BY <2>1, <2>5 DEF RecoverInterrupted
  <2>6. CASE RecordRecoveryAction
    BY <2>1, <2>6 DEF RecordRecoveryAction
  <2> QED
    BY <2>2, <2>3, <2>4, <2>5, <2>6
<1>5. deleted' \in [Meetings -> BOOLEAN]
  BY DEF TypeOK, Fail, StartMeeting, FinishMeeting, RecoverInterrupted,
         RecordRecoveryAction, SoftDelete, Restore
<1>6. recovery' \in [Meetings -> SUBSET RecoveryActions]
  <2>1. CASE RecordRecoveryAction
    <3>1. serving.meeting \in Meetings /\ serving.action \in RecoveryActions
      BY <1>2, <2>1 DEF RecordRecoveryAction, TypeOK
    <3>2. recovery' = [recovery EXCEPT ![serving.meeting] = @ \cup {serving.action}]
      BY <2>1 DEF RecordRecoveryAction
    <3> QED
      BY <3>1, <3>2 DEF TypeOK
  <2>2. CASE ~RecordRecoveryAction
    BY <2>2 DEF TypeOK, Fail, StartMeeting, FinishMeeting, RecoverInterrupted, SoftDelete, Restore
  <2> QED
    BY <2>1, <2>2
<1>7. TypeOK'
  BY <1>1, <1>2, <1>4, <1>5, <1>6 DEF TypeOK
<1>8. SequenceDense' /\ AnsweredIsThere' /\ SavedIsKept'
  BY <1>1, <1>3, FinalsUntouched
<1> QED
  BY <1>7, <1>8

\* A new final takes the next place.
LEMMA CommitStep == ASSUME StoreInv, CommitFinal PROVE StoreInv'
<1> USE RequestFacts DEF StoreInv, Answer, Serve
<1> DEFINE c == serving.arg
           m == c.meeting
<1>1. /\ serving \in Request /\ serving.op = "commit" /\ c \in Candidate
      /\ m \in Meetings /\ c.sequence \in Nat /\ RowOf(c) \in Row
  BY DEF CommitFinal, TypeOK, Candidate, RowOf, Row, NoRequest
<1>2. /\ finals \in [Meetings -> Seq(Row)] /\ last \in [Meetings -> Nat]
      /\ c.sequence = Len(finals[m]) + 1
      /\ finals' = [finals EXCEPT ![m] = Append(@, RowOf(c))]
      /\ last' = [last EXCEPT ![m] = c.sequence]
      /\ UNCHANGED <<state, deleted, recovery, requests, calling, serving, told, crashes>>
      /\ served' = "ok"
  BY <1>1 DEF CommitFinal, TypeOK, SequenceDense
<1>3. finals[m] \in Seq(Row) /\ finals'[m] = Append(finals[m], RowOf(c))
  BY <1>1, <1>2
<1>4. /\ finals'[m] \in Seq(Row) /\ Len(finals'[m]) = c.sequence
      /\ DOMAIN finals'[m] = 1..c.sequence
      /\ finals'[m][c.sequence] = RowOf(c)
      /\ \A i \in DOMAIN finals[m] : i \in DOMAIN finals'[m] /\ finals'[m][i] = finals[m][i]
      /\ DOMAIN finals[m] = 1..Len(finals[m]) /\ Len(finals[m]) \in Nat
  BY <1>1, <1>2, <1>3, AppendRow
<1>5. \A n \in Meetings \ {m} : finals'[n] = finals[n] /\ last'[n] = last[n]
  BY <1>2
<1>6. TypeOK'
  <2>1. finals' \in [Meetings -> Seq(Row)] /\ last' \in [Meetings -> Nat]
    BY <1>1, <1>2, <1>4
  <2> QED
    BY <1>1, <1>2, <2>1 DEF TypeOK
<1>7. SequenceDense'
  <2> SUFFICES ASSUME NEW n \in Meetings
               PROVE  /\ last'[n] = Len(finals'[n])
                      /\ \A i \in DOMAIN finals'[n] : finals'[n][i].sequence = i
    BY DEF SequenceDense
  <2>1. CASE n # m
    BY <1>5, <2>1 DEF SequenceDense
  <2>2. CASE n = m
    <3>1. last'[m] = c.sequence
      BY <1>1, <1>2
    <3>2. \A i \in DOMAIN finals'[m] : i \in DOMAIN finals[m] \/ i = c.sequence
      BY <1>1, <1>2, <1>4
    <3>3. RowOf(c).sequence = c.sequence
      BY DEF RowOf
    <3> QED
      BY <1>1, <1>4, <2>2, <3>1, <3>2, <3>3 DEF SequenceDense
  <2> QED
    BY <2>1, <2>2
<1>8. AnsweredIsThere'
  BY <1>1, <1>2, <1>4 DEF AnsweredIsThere, RowOf
<1>9. SavedIsKept'
  <2>1. \A t \in told :
           /\ t.meeting \in Meetings /\ t.sequence \in DOMAIN finals[t.meeting]
           /\ finals[t.meeting][t.sequence].segment = t.final.segment
           /\ finals[t.meeting][t.sequence].text = t.final.text
    BY SavedRows DEF TypeOK
  <2>2. \A t \in told :
           /\ t.sequence \in DOMAIN finals'[t.meeting]
           /\ finals'[t.meeting][t.sequence] = finals[t.meeting][t.sequence]
    BY <1>4, <1>5, <2>1
  <2>3. told' = told /\ told \subseteq [meeting : Meetings, sequence : Nat,
                                        final : [segment : Segments, text : Texts]]
    BY <1>2 DEF TypeOK
  <2> QED
    BY <2>1, <2>2, <2>3 DEF SavedIsKept, Durable!SavedIsKept, Transcript, Content
<1> QED
  BY <1>6, <1>7, <1>8, <1>9

\* The row of a repeated final is where the request says it is.
LEMMA DuplicateStep == ASSUME StoreInv, AcknowledgeDuplicate PROVE StoreInv'
<1> USE RequestFacts DEF StoreInv, Answer, Serve, tables
<1> DEFINE c == serving.arg
<1>1. serving \in Request /\ c \in Candidate /\ c.meeting \in Meetings
  BY DEF AcknowledgeDuplicate, TypeOK, Candidate, NoRequest
<1>2. UNCHANGED <<tables, requests, calling, serving, told, crashes>> /\ served' = "ok"
  BY DEF AcknowledgeDuplicate
<1>3. PICK i \in DOMAIN finals[c.meeting] : finals[c.meeting][i] = RowOf(c)
  BY DEF AcknowledgeDuplicate, Existing
<1>4. i = c.sequence
  BY <1>1, <1>3 DEF SequenceDense, RowOf
<1>5. TypeOK'
  BY <1>1, <1>2 DEF TypeOK
<1>6. SequenceDense' /\ SavedIsKept'
  BY <1>2 DEF SequenceDense, SavedIsKept, Durable!SavedIsKept, Transcript, Content
<1>7. AnsweredIsThere'
  BY <1>2, <1>3, <1>4 DEF AnsweredIsThere
<1> QED
  BY <1>5, <1>6, <1>7

\* A purge takes the finals of one meeting and what was said of them.
LEMMA PurgeStep == ASSUME StoreInv, PurgeMeeting PROVE StoreInv'
<1> USE RequestFacts DEF StoreInv, Serve
<1> DEFINE m == serving.meeting
<1>1. /\ serving \in Request /\ m \in Meetings /\ serving.op # "commit"
  BY DEF PurgeMeeting, TypeOK, NoRequest
<1>2. TypeOK'
  BY <1>1 DEF PurgeMeeting, TypeOK, States
<1>3. SequenceDense'
  BY <1>1 DEF PurgeMeeting, SequenceDense, TypeOK
<1>4. AnsweredIsThere'
  BY <1>1 DEF PurgeMeeting, AnsweredIsThere
<1>5. SavedIsKept'
  <2>1. /\ told' = {t \in told : t.meeting # m}
        /\ \A t \in told' : t.meeting \in Meetings /\ finals'[t.meeting] = finals[t.meeting]
    BY <1>1 DEF PurgeMeeting, TypeOK
  <2>2. \A t \in told' : Transcript'[t.meeting] = Transcript[t.meeting]
    BY <2>1 DEF Transcript, Content
  <2> QED
    BY <2>1, <2>2 DEF SavedIsKept, Durable!SavedIsKept
<1> QED
  BY <1>2, <1>3, <1>4, <1>5

\* What a caller is told of is what it asked to be saved, at its place.
LEMMA ReplyStep == ASSUME StoreInv, Reply PROVE StoreInv'
<1> USE RequestFacts DEF StoreInv
<1> DEFINE c == serving.arg
<1>1. serving \in Request
  BY DEF Reply, TypeOK
<1>2. UNCHANGED <<tables, requests, crashes>> /\ serving' = NoRequest /\ served' = "none"
  BY DEF Reply
<1>3. CASE serving.op = "commit" /\ served = "ok"
  <2>1. told' = told \cup {Told(c)} /\ c \in Candidate /\ c.meeting \in Meetings
    BY <1>1, <1>3 DEF Reply, Candidate
  <2>2. Told(c) \in [meeting : Meetings, sequence : Nat, final : [segment : Segments, text : Texts]]
    BY <2>1 DEF Told, Candidate
  <2>3. TypeOK'
    BY <1>1, <1>2, <2>1, <2>2 DEF Reply, TypeOK, tables
  <2>4. /\ c.sequence \in DOMAIN Transcript[c.meeting]
        /\ Transcript[c.meeting][c.sequence] = [segment |-> c.segment, text |-> c.text]
    BY <1>3, <2>1 DEF AnsweredIsThere, RowOf, Transcript, Content
  <2>5. SavedIsKept'
    <3>1. Transcript' = Transcript
      BY <1>2 DEF Transcript, Content, tables
    <3>2. \A t \in told' :
             /\ t.sequence \in DOMAIN Transcript[t.meeting]
             /\ Transcript[t.meeting][t.sequence] = t.final
      BY <2>1, <2>4 DEF SavedIsKept, Durable!SavedIsKept, Told
    <3> QED
      BY <3>1, <3>2 DEF SavedIsKept, Durable!SavedIsKept
  <2>6. SequenceDense' /\ AnsweredIsThere'
    BY <1>2 DEF SequenceDense, AnsweredIsThere, tables
  <2> QED
    BY <2>3, <2>5, <2>6
<1>4. CASE ~(serving.op = "commit" /\ served = "ok")
  <2>1. told' = told
    BY <1>4 DEF Reply
  <2>2. TypeOK'
    BY <1>1, <1>2, <2>1 DEF Reply, TypeOK, tables
  <2> QED
    BY <1>2, <2>1, <2>2, FinalsUntouched DEF tables
<1> QED
  BY <1>3, <1>4

-----------------------------------------------------------------------------
\* Every step keeps the invariant.
LEMMA StepInv == StoreInv /\ [Next]_vars => StoreInv'
<1> SUFFICES ASSUME StoreInv, [Next]_vars PROVE StoreInv'
  OBVIOUS
<1>1. CASE UNCHANGED vars
  BY <1>1 DEF vars, tables, StoreInv, TypeOK, SequenceDense, AnsweredIsThere, SavedIsKept,
              Durable!SavedIsKept, Transcript, Content
<1>2. CASE (\E r \in Request : Ask(r)) \/ Receive \/ Crash
  BY <1>2, ChannelSteps
<1>3. CASE CommitFinal
  BY <1>3, CommitStep
<1>4. CASE AcknowledgeDuplicate
  BY <1>4, DuplicateStep
<1>5. CASE PurgeMeeting
  BY <1>5, PurgeStep
<1>6. CASE Reply
  BY <1>6, ReplyStep
<1>7. CASE Fail \/ StartMeeting \/ FinishMeeting \/ RecoverInterrupted
             \/ RecordRecoveryAction \/ SoftDelete \/ Restore
  BY <1>7, OtherTransactions
<1> QED
  BY <1>1, <1>2, <1>3, <1>4, <1>5, <1>6, <1>7 DEF Next, WriterStep, Transaction

\* The inductive invariant holds of every behaviour.
THEOREM StoreInvariant == Spec => []StoreInv
BY InitInv, StepInv, PTL DEF Spec

\* The variables keep their types and the channel its bound.
THEOREM StoreTypeCorrect == Spec => []TypeOK
<1>1. StoreInv => TypeOK
  BY DEF StoreInv
<1> QED
  BY <1>1, StoreInvariant, PTL

\* commit_final_on_writer never leaves a gap, a repetition or a number that
\* last_final_sequence does not know.
THEOREM SequencesAlwaysDense == Spec => []SequenceDense
<1>1. StoreInv => SequenceDense
  BY DEF StoreInv
<1> QED
  BY <1>1, StoreInvariant, PTL

\* What a caller was told is saved stays in the database as it was told.
THEOREM SavedAlwaysKept == Spec => []SavedIsKept
<1>1. StoreInv => SavedIsKept
  BY DEF StoreInv
<1> QED
  BY <1>1, StoreInvariant, PTL

-----------------------------------------------------------------------------
(* The refinement.                                                         *)

\* A step that leaves the finals and what was told is a stutter of the
\* transcript.
LEMMA StutterStep ==
    ASSUME UNCHANGED <<finals, told>>
    PROVE  UNCHANGED <<Transcript, told>>
  BY DEF Transcript, Content

\* A commit is an extension.
LEMMA CommitExtends ==
    ASSUME StoreInv, CommitFinal
    PROVE  \E m \in Meetings : Durable!Extend(m)
<1> USE RequestFacts DEF StoreInv, Answer, Serve
<1> DEFINE c == serving.arg
           m == c.meeting
           f == [segment |-> c.segment, text |-> c.text]
<1>1. /\ serving \in Request /\ c \in Candidate
      /\ m \in Meetings /\ RowOf(c) \in Row /\ f \in Durable!Final
  BY DEF CommitFinal, TypeOK, Candidate, RowOf, Row, NoRequest, Durable!Final
<1>2. /\ finals[m] \in Seq(Row) /\ finals \in [Meetings -> Seq(Row)]
      /\ finals' = [finals EXCEPT ![m] = Append(@, RowOf(c))] /\ told' = told
  BY <1>1 DEF CommitFinal, TypeOK
<1>3. Transcript[m] = Content(finals[m]) /\ Transcript'[m] = Content(finals'[m])
  BY <1>1 DEF Transcript
<1>4. \A i \in DOMAIN Transcript[m] : Transcript[m][i].segment # f.segment
  <2>1. \A i \in DOMAIN finals[m] : finals[m][i].segment # c.segment
    BY ZenonT(40) DEF CommitFinal, Existing
  <2>2. /\ DOMAIN Transcript[m] = DOMAIN finals[m]
        /\ \A i \in DOMAIN finals[m] : Transcript[m][i].segment = finals[m][i].segment
    <3> DEFINE rows == finals[m]
    <3>1. Transcript[m] = Content(rows)
      BY <1>3
    <3> HIDE DEF rows
    <3>2. /\ DOMAIN Content(rows) = DOMAIN rows
          /\ \A i \in DOMAIN rows : Content(rows)[i].segment = rows[i].segment
      BY ONLY DEF Content
    <3>3. DOMAIN Transcript[m] = DOMAIN rows /\ \A i \in DOMAIN rows : Transcript[m][i].segment = rows[i].segment
      BY <3>1, <3>2
    <3> QED
      BY <3>3 DEF rows
  <2> QED
    BY <2>1, <2>2
<1>5. Transcript'[m] = Append(Transcript[m], f)
  <2>1. finals'[m] = Append(finals[m], RowOf(c))
    BY <1>1, <1>2
  <2>2. f = [segment |-> RowOf(c).segment, text |-> RowOf(c).text]
    BY DEF RowOf
  <2> QED
    BY <1>1, <1>2, <1>3, <2>1, <2>2, ContentAppend, ZenonT(40)
<1>6. \A n \in Meetings \ {m} : Transcript'[n] = Transcript[n]
  BY ZenonT(40), <1>1, <1>2 DEF Transcript, Content
<1>7. Transcript' = [Transcript EXCEPT ![m] = Append(@, f)]
  BY <1>1, <1>5, <1>6 DEF Transcript, Content
<1> QED
  BY <1>1, <1>2, <1>4, <1>7 DEF Durable!Extend

\* A purge is a purge.
LEMMA PurgeForgets ==
    ASSUME StoreInv, PurgeMeeting
    PROVE  \E m \in Meetings : Durable!Purge(m)
<1> USE RequestFacts DEF StoreInv, Serve
<1> DEFINE m == serving.meeting
<1>1. serving \in Request /\ m \in Meetings
  BY DEF PurgeMeeting, TypeOK, NoRequest
<1>2. /\ finals' = [finals EXCEPT ![m] = <<>>] /\ finals \in [Meetings -> Seq(Row)]
      /\ told' = {t \in told : t.meeting # m}
  BY DEF PurgeMeeting, TypeOK
<1>3. Transcript'[m] = <<>>
  <2>1. finals'[m] = <<>>
    BY <1>1, <1>2
  <2> QED
    BY <1>1, <2>1 DEF Transcript, Content
<1>4. \A n \in Meetings \ {m} : Transcript'[n] = Transcript[n]
  BY <1>1, <1>2 DEF Transcript, Content
<1>5. Transcript' = [Transcript EXCEPT ![m] = <<>>]
  BY <1>1, <1>3, <1>4 DEF Transcript, Content
<1> QED
  BY <1>1, <1>2, <1>5 DEF Durable!Purge

\* The reply to a commit tells of a final that is there.
LEMMA ReplyTells ==
    ASSUME StoreInv, Reply
    PROVE  (\E m \in Meetings : Durable!Tell(m)) \/ UNCHANGED <<Transcript, told>>
<1> USE RequestFacts DEF StoreInv
<1> DEFINE c == serving.arg
<1>1. serving \in Request /\ Transcript' = Transcript
  BY DEF Reply, TypeOK, Transcript, Content, tables
<1>2. CASE serving.op = "commit" /\ served = "ok"
  <2>1. told' = told \cup {Told(c)} /\ c \in Candidate /\ c.meeting \in Meetings
    BY <1>1, <1>2 DEF Reply, Candidate
  <2>2. /\ c.sequence \in DOMAIN Transcript[c.meeting]
        /\ Transcript[c.meeting][c.sequence] = [segment |-> c.segment, text |-> c.text]
    BY <1>2, <2>1 DEF AnsweredIsThere, RowOf, Transcript, Content
  <2>3. Durable!Tell(c.meeting)
    BY <1>1, <2>1, <2>2 DEF Durable!Tell, Told
  <2> QED
    BY <2>1, <2>3
<1>3. CASE ~(serving.op = "commit" /\ served = "ok")
  BY <1>1, <1>3 DEF Reply
<1> QED
  BY <1>2, <1>3

\* Every step of the writer is a step of the transcript or a stutter.
LEMMA StepRefines ==
    StoreInv /\ [Next]_vars => [Durable!Next]_<<Transcript, told>>
<1> SUFFICES ASSUME StoreInv, [Next]_vars
             PROVE  Durable!Next \/ UNCHANGED <<Transcript, told>>
  OBVIOUS
<1>1. CASE CommitFinal
  BY <1>1, CommitExtends DEF Durable!Next
<1>2. CASE PurgeMeeting
  BY <1>2, PurgeForgets DEF Durable!Next
<1>3. CASE Reply
  BY <1>3, ReplyTells DEF Durable!Next
<1>4. CASE ~CommitFinal /\ ~PurgeMeeting /\ ~Reply
  <2>1. UNCHANGED <<finals, told>>
    BY <1>4 DEF Next, WriterStep, Transaction, vars, tables, Ask, Receive, Crash, Answer,
                AnswerReadBack, Fail, StartMeeting, FinishMeeting, RecoverInterrupted,
                RecordRecoveryAction, AcknowledgeDuplicate, SoftDelete, Restore
  <2> QED
    BY <2>1, StutterStep
<1> QED
  BY <1>1, <1>2, <1>3, <1>4

\* The storage writer implements the durable transcript: whatever its callers
\* ask, and wherever the process crashes, the transcript grows only at its end,
\* holds no segment twice, keeps what was reported and shrinks only by a purge.
THEOREM StoreImplementsTranscript == Spec => ImplementsDurableTranscript
<1>1. Init => Durable!Init
  BY DEF Init, Durable!Init, Transcript, Content
<1> QED
  BY <1>1, StepRefines, StoreInvariant, PTL DEF Spec, ImplementsDurableTranscript, Durable!Spec

-----------------------------------------------------------------------------
(* The raw audio archive.                                                   *)

\* What an append relies on: an open writer covers some samples, and one that is
\* not has no gaps.
WriterSound(w) == IF w.open THEN w.start < w.end ELSE w.gaps = <<>>

\* The inductive invariant.
ArchiveInv ==
    /\ ArchiveTypeOK
    /\ \A s \in Sources : WriterSound(writer[s])
    /\ GapsInOrder

-----------------------------------------------------------------------------
(* Lemmas on the parts.                                                    *)

FilesOK == file \in [Sources -> File]
WritersOK == writer \in [Sources -> Writer]
                 /\ \A s \in Sources : WriterSound(writer[s]) /\ Orderly(writer[s])
InStep == \A s \in Sources : status = "writing" =>
              writer[s].frames = file[s].frames /\ writer[s].open = file[s].exists
ManifestOK == /\ \E some \in SUBSET Sources : manifest \in [some -> ManifestEntry]
              /\ \A s \in DOMAIN manifest : Orderly(manifest[s])
CapturedOK == captured \in [Sources -> Nat] /\ heard \in [Sources -> Nat]
StatusOK == /\ status \in {"writing", "dropped", "closed", "down", "rebuilt"} /\ incomplete \in BOOLEAN
            /\ packets \in 0..MaxPackets /\ failures \in 0..MaxFailures

All == FilesOK /\ WritersOK /\ InStep /\ ManifestOK /\ CapturedOK /\ StatusOK

LEMMA Parts == ArchiveInv <=> All
  BY DEF ArchiveInv, ArchiveTypeOK, GapsInOrder, All, FilesOK, WritersOK, InStep, ManifestOK,
         CapturedOK, StatusOK

\* The range of a packet is not empty.
LEMMA RangeFacts ==
    ASSUME CapturedOK, NEW s \in Sources, NEW n \in PacketSizes
    PROVE  /\ RangeOf(s, n).start \in Nat /\ RangeOf(s, n).end \in Nat
           /\ RangeOf(s, n).start < RangeOf(s, n).end
<1> DEFINE a == captured[s] * Target
           b == (captured[s] + n) * Target + Rate[s] - 1
           r == Rate[s]
<1>1. a \in Nat /\ b \in Nat /\ r \in Nat \ {0}
  BY ArchiveAssumption DEF CapturedOK, Target
<1>2. \A x \in Nat, y \in Nat \ {0} : x \div y \in Nat
  BY Z3
<1>3. SampleOf(s, captured[s]) \in Nat /\ SampleCeil(s, captured[s] + n) \in Nat
  <2>1. SampleOf(s, captured[s]) = a \div r /\ SampleCeil(s, captured[s] + n) = b \div r
    BY DEF SampleOf, SampleCeil
  <2> HIDE DEF a, b, r
  <2> QED
    BY <1>1, <1>2, <2>1
<1> DEFINE from == SampleOf(s, captured[s])
           to == SampleCeil(s, captured[s] + n)
<1>4. RangeOf(s, n) = [start |-> from, end |-> IF to <= from THEN from + 1 ELSE to]
  BY DEF RangeOf
<1> HIDE DEF from, to
<1> QED
  BY <1>3, <1>4 DEF from, to

\* A gap behind all others keeps them orderly.
LEMMA AppendedGap ==
    ASSUME NEW w \in Writer, Orderly(w), w.start < w.end,
           NEW from \in Nat, NEW to \in Nat, w.end < from, from < to,
           NEW v \in Writer, v.start = w.start, v.end = to,
           v.gaps = Append(w.gaps, [start |-> w.end, end |-> from])
    PROVE  Orderly(v)
<1> DEFINE g == [start |-> w.end, end |-> from]
           n == Len(w.gaps)
<1>1. w.gaps \in Seq(Gap) /\ w.start \in Nat /\ w.end \in Nat /\ n \in Nat
  BY DEF Writer
<1>2. DOMAIN v.gaps = 1..(n + 1) /\ v.gaps[n + 1] = g
      /\ \A i \in 1..n : v.gaps[i] = w.gaps[i]
  BY <1>1
<1>3. \A i \in 1..n : w.gaps[i].start \in Nat /\ w.gaps[i].end \in Nat
  <2>1. \A i \in 1..n : w.gaps[i] \in Gap
    BY <1>1
  <2>2. \A g1 \in Gap : g1.start \in Nat /\ g1.end \in Nat
    BY DEF Gap
  <2> QED
    BY <2>1, <2>2
<1>4. \A i \in 1..n : /\ w.start < w.gaps[i].start /\ w.gaps[i].start < w.gaps[i].end
                      /\ w.gaps[i].end < w.end
  BY <1>1 DEF Orderly
<1>5. \A i, j \in 1..n : i < j => w.gaps[i].end < w.gaps[j].start
  BY <1>1 DEF Orderly
<1>6. g.start = w.end /\ g.end = from
  OBVIOUS
<1> HIDE DEF g
<1>7. ASSUME NEW i \in 1..(n + 1)
      PROVE  v.start < v.gaps[i].start /\ v.gaps[i].start < v.gaps[i].end /\ v.gaps[i].end < v.end
  <2>1. CASE i \in 1..n
    BY <1>1, <1>2, <1>3, <1>4, <2>1
  <2>2. CASE i = n + 1
    BY <1>1, <1>2, <1>6, <2>2
  <2> QED
    BY <1>1, <2>1, <2>2
<1>8. ASSUME NEW i \in 1..(n + 1), NEW j \in 1..(n + 1), i < j
      PROVE  v.gaps[i].end < v.gaps[j].start
  <2>1. i \in 1..n
    BY <1>1, <1>8
  <2>2. CASE j \in 1..n
    BY <1>2, <1>5, <1>8, <2>1, <2>2
  <2>3. CASE j = n + 1
    BY <1>1, <1>2, <1>3, <1>4, <1>6, <2>1, <2>3
  <2> QED
    BY <1>1, <2>2, <2>3
<1> HIDE DEF n
<1> QED
  BY <1>2, <1>7, <1>8 DEF Orderly

\* An append that does not overlap keeps its writer sound.
LEMMA ExtendKeeps ==
    ASSUME WritersOK, CapturedOK, NEW s \in Sources, NEW n \in PacketSizes,
           ~Overlaps(s, RangeOf(s, n))
    PROVE  /\ Extend(s, RangeOf(s, n), n) \in Writer
           /\ WriterSound(Extend(s, RangeOf(s, n), n))
           /\ Orderly(Extend(s, RangeOf(s, n), n))
           /\ Extend(s, RangeOf(s, n), n).open
           /\ Extend(s, RangeOf(s, n), n).frames = writer[s].frames + n
<1> DEFINE range == RangeOf(s, n)
           w == writer[s]
           v == Extend(s, range, n)
           gap == [start |-> w.end, end |-> range.start]
<1>1. range.start \in Nat /\ range.end \in Nat /\ range.start < range.end
  BY RangeFacts
<1>2. w \in Writer /\ WriterSound(w) /\ Orderly(w) /\ n \in Nat
  BY ArchiveAssumption DEF WritersOK
<1>3. w.open => w.end <= range.start
  BY <1>1, <1>2 DEF Overlaps, Writer
<1> HIDE DEF range
<1>4. CASE ~w.open
  <2>1. v = [w EXCEPT !.open = TRUE, !.end = range.end, !.frames = w.frames + n, !.start = range.start,
                      !.gaps = w.gaps]
    BY <1>4 DEF Extend
  <2>2. v \in Writer /\ v.open = TRUE /\ v.frames = w.frames + n /\ v.start = range.start
        /\ v.end = range.end /\ v.gaps = <<>>
    <3>1. w.gaps = <<>> /\ w.gaps \in Seq(Gap) /\ w.frames + n \in Nat
      BY <1>2, <1>4 DEF Writer, WriterSound
    <3> HIDE DEF w, v
    <3>2. v = [open |-> TRUE, start |-> range.start, end |-> range.end,
               frames |-> w.frames + n, gaps |-> w.gaps]
      BY <1>2, <2>1 DEF Writer
    <3> QED
      BY <1>1, <1>2, <3>1, <3>2 DEF Writer
  <2> QED
    BY <1>1, <2>2 DEF WriterSound, Orderly, range
<1>5. CASE w.open /\ w.end < range.start
  <2>1. gap \in Gap
    BY <1>1, <1>2 DEF Gap, Writer
  <2>2. v = [w EXCEPT !.open = TRUE, !.end = range.end, !.frames = w.frames + n, !.start = w.start,
                      !.gaps = Append(w.gaps, gap)]
    BY <1>1, <1>2, <1>5 DEF Extend, Writer
  <2>3. Append(w.gaps, gap) \in Seq(Gap)
    BY <1>2, <2>1 DEF Writer
  <2>4. v \in Writer /\ v.open = TRUE /\ v.frames = w.frames + n /\ v.start = w.start
        /\ v.end = range.end /\ v.gaps = Append(w.gaps, gap)
    <3>1. w.start \in Nat /\ w.frames + n \in Nat
      BY <1>2 DEF Writer
    <3> HIDE DEF w, v, gap
    <3>2. v = [open |-> TRUE, start |-> w.start, end |-> range.end,
               frames |-> w.frames + n, gaps |-> Append(w.gaps, gap)]
      BY <1>2, <2>2 DEF Writer
    <3> QED
      BY <1>1, <1>2, <2>3, <3>1, <3>2 DEF Writer
  <2>5. w.start < w.end /\ w.start \in Nat /\ w.end \in Nat
    BY <1>2, <1>5 DEF WriterSound, Writer
  <2>6. Orderly(v)
    BY <1>1, <1>2, <1>5, <2>4, <2>5, AppendedGap
  <2> QED
    BY <1>1, <1>5, <2>4, <2>5, <2>6 DEF WriterSound, range
<1>6. CASE w.open /\ w.end = range.start
  <2>1. v = [w EXCEPT !.open = TRUE, !.end = range.end, !.frames = w.frames + n, !.start = w.start,
                      !.gaps = w.gaps]
    <3>1. ~(range.start > w.end)
      BY <1>1, <1>2, <1>6 DEF Writer
    <3> QED
      BY <1>6, <3>1 DEF Extend
  <2>2. v \in Writer /\ v.open = TRUE /\ v.frames = w.frames + n /\ v.start = w.start
        /\ v.end = range.end /\ v.gaps = w.gaps
    <3>1. w.start \in Nat /\ w.frames + n \in Nat /\ w.gaps \in Seq(Gap)
      BY <1>2 DEF Writer
    <3> HIDE DEF w, v
    <3>2. v = [open |-> TRUE, start |-> w.start, end |-> range.end,
               frames |-> w.frames + n, gaps |-> w.gaps]
      BY <1>2, <2>1 DEF Writer
    <3> QED
      BY <1>1, <1>2, <3>1, <3>2 DEF Writer
  <2>3. w.start < w.end /\ w.start \in Nat /\ w.end \in Nat /\ w.gaps \in Seq(Gap)
    BY <1>2, <1>6 DEF WriterSound, Writer
  <2>4. \A i \in DOMAIN w.gaps : w.gaps[i].end \in Nat
    <3>1. \A i \in DOMAIN w.gaps : w.gaps[i] \in Gap
      BY <2>3
    <3>2. \A g \in Gap : g.end \in Nat
      BY DEF Gap
    <3> QED
      BY <3>1, <3>2
  <2>5. Orderly(v)
    BY <1>1, <1>2, <1>6, <2>2, <2>3, <2>4 DEF Orderly
  <2> QED
    BY <1>1, <1>6, <2>2, <2>3, <2>5 DEF WriterSound, range
<1> QED
  BY <1>1, <1>2, <1>3, <1>4, <1>5, <1>6 DEF Writer

\* What reaches a file keeps its type.
LEMMA GrowKeeps ==
    ASSUME FilesOK, CapturedOK, NEW s \in Sources, NEW k \in Nat, NEW ragged \in BOOLEAN
    PROVE  Grow(s, k, ragged) \in File /\ [file EXCEPT ![s] = Grow(s, k, ragged)] \in [Sources -> File]
<1>1. file[s] \in File /\ captured[s] \in Nat
  BY DEF FilesOK, CapturedOK
<1>2. [at |-> captured[s], from |-> file[s].frames] \in [at : Nat, from : Nat]
  BY <1>1 DEF File
<1>3. Append(file[s].content, [at |-> captured[s], from |-> file[s].frames])
        \in Seq([at : Nat, from : Nat])
  BY <1>1, <1>2 DEF File
<1>4. file[s].frames + k \in Nat
  BY <1>1 DEF File
<1>5. Grow(s, k, ragged) \in File
  BY <1>1, <1>3, <1>4 DEF Grow, File
<1> QED
  BY <1>5 DEF FilesOK

\* A new file.
LEMMA CreatedFacts ==
    /\ Created \in File /\ Created.frames = 0 /\ Created.header = 0 /\ Created.ragged = FALSE
    /\ FilesOK => \A s \in Sources : [file EXCEPT ![s] = Created] \in [Sources -> File]
<1>1. NoFile \in File /\ NoFile.frames = 0 /\ NoFile.header = 0 /\ NoFile.ragged = FALSE
  <2>1. <<>> \in Seq([at : Nat, from : Nat])
    OBVIOUS
  <2> QED
    BY <2>1 DEF NoFile, File
<1>2. Created \in File /\ Created.frames = 0 /\ Created.header = 0 /\ Created.ragged = FALSE
  BY <1>1 DEF Created, File
<1> QED
  BY <1>2 DEF FilesOK

\* Rewriting headers keeps the types of files.
LEMMA HeadersKeep ==
    ASSUME WritersOK, NEW files \in [Sources -> File]
    PROVE  \A done \in SUBSET Sources : HeadersRewritten(files, done) \in [Sources -> File]
<1>1. \A s \in Sources : files[s] \in File /\ writer[s].frames \in Nat
  BY DEF WritersOK, Writer
<1>2. \A s \in Sources : [files[s] EXCEPT !.header = writer[s].frames] \in File
  BY <1>1 DEF File
<1> QED
  BY <1>1, <1>2 DEF HeadersRewritten

\* A packet more.
LEMMA ArriveKeeps ==
    ASSUME CapturedOK, ManifestOK, packets \in 0..MaxPackets,
           NEW s \in Sources, NEW n \in PacketSizes, Arrive(s, n)
    PROVE  CapturedOK' /\ ManifestOK' /\ packets' \in 0..MaxPackets
<1>1. n \in Nat /\ captured[s] \in Nat /\ heard[s] \in Nat
  BY ArchiveAssumption DEF CapturedOK
<1>2. CapturedOK'
  BY <1>1 DEF CapturedOK, Arrive
<1>3. ManifestOK'
  BY DEF ManifestOK, Arrive
<1> QED
  BY <1>2, <1>3, ArchiveAssumption DEF Arrive

LEMMA WritersUntouched == ASSUME WritersOK, UNCHANGED writer PROVE WritersOK'
  BY DEF WritersOK
LEMMA ManifestUntouched == ASSUME ManifestOK, UNCHANGED manifest PROVE ManifestOK'
  BY DEF ManifestOK

-----------------------------------------------------------------------------
(* The actions.                                                            *)

LEMMA WriteKeeps == ASSUME All, NEW s \in Sources, Write(s) PROVE All'
<1>1. PICK n \in PacketSizes :
        /\ ~Overlaps(s, RangeOf(s, n)) /\ Arrive(s, n)
        /\ writer' = [writer EXCEPT ![s] = Extend(s, RangeOf(s, n), n)]
        /\ file' = [file EXCEPT ![s] = Grow(s, n, FALSE)]
  BY DEF Write
<1> DEFINE v == Extend(s, RangeOf(s, n), n)
<1>2. v \in Writer /\ WriterSound(v) /\ Orderly(v) /\ v.open = TRUE
      /\ v.frames = writer[s].frames + n
  BY <1>1, ExtendKeeps DEF All, Writer
<1> HIDE DEF v
<1>3. writer' = [writer EXCEPT ![s] = v] /\ writer \in [Sources -> Writer]
  BY <1>1 DEF v, All, WritersOK
<1>4. WritersOK'
  BY <1>2, <1>3 DEF All, WritersOK
<1>5. n \in Nat
  BY ArchiveAssumption
<1>6. FilesOK'
  BY <1>1, <1>5, GrowKeeps DEF All, FilesOK
<1>7. Grow(s, n, FALSE).exists = TRUE /\ Grow(s, n, FALSE).frames = file[s].frames + n
  BY DEF Grow, All, FilesOK, File
<1>8. InStep'
  <2>1. file' = [file EXCEPT ![s] = Grow(s, n, FALSE)] /\ file \in [Sources -> File]
    BY <1>1 DEF All, FilesOK
  <2>2. status = "writing" /\ InStep
    BY DEF Write, All
  <2>3. writer'[s] = v /\ file'[s] = Grow(s, n, FALSE)
    BY <1>3, <2>1
  <2>4. writer'[s].frames = file'[s].frames /\ writer'[s].open = file'[s].exists
    <3>1. writer[s].frames = file[s].frames
      BY <2>2 DEF InStep
    <3> QED
      BY <1>2, <1>7, <2>3, <3>1
  <2>5. \A x \in Sources : x # s => writer'[x] = writer[x] /\ file'[x] = file[x]
    BY <1>3, <2>1
  <2> QED
    BY <2>2, <2>4, <2>5 DEF InStep
<1>9. CapturedOK' /\ ManifestOK' /\ packets' \in 0..MaxPackets
  BY <1>1, ArriveKeeps DEF All, StatusOK
<1>10. StatusOK'
  BY <1>9 DEF Write, All, StatusOK
<1> QED
  BY <1>4, <1>6, <1>8, <1>9, <1>10 DEF All

LEMMA RefuseKeeps == ASSUME All, NEW s \in Sources, Refuse(s) PROVE All'
<1>1. PICK n \in PacketSizes : Arrive(s, n)
  BY DEF Refuse
<1>2. CapturedOK' /\ ManifestOK' /\ packets' \in 0..MaxPackets
  BY <1>1, ArriveKeeps DEF All, StatusOK
<1>3. FilesOK'
  BY HeadersKeep DEF Refuse, Drop, All, FilesOK
<1>4. WritersOK'
  BY WritersUntouched DEF Refuse, All
<1>5. InStep' /\ StatusOK'
  BY <1>2 DEF Refuse, Drop, All, InStep, StatusOK
<1> QED
  BY <1>2, <1>3, <1>4, <1>5 DEF All

LEMMA FailWriteKeeps == ASSUME All, NEW s \in Sources, FailWrite(s) PROVE All'
<1>1. PICK n \in PacketSizes :
        /\ Arrive(s, n)
        /\ \/ Drop(file)
           \/ Drop([file EXCEPT ![s] = Created])
           \/ \E k \in 0..1, ragged \in BOOLEAN : Drop([file EXCEPT ![s] = Grow(s, k, ragged)])
  BY DEF FailWrite
<1>2. CapturedOK' /\ ManifestOK' /\ packets' \in 0..MaxPackets
  BY <1>1, ArriveKeeps DEF All, StatusOK
<1>3. FilesOK'
  <2>1. CASE Drop(file)
    BY <2>1, HeadersKeep DEF Drop, All, FilesOK
  <2>2. CASE Drop([file EXCEPT ![s] = Created])
    <3>1. [file EXCEPT ![s] = Created] \in [Sources -> File]
      BY CreatedFacts DEF All
    <3> QED
      BY <2>2, <3>1, HeadersKeep DEF Drop, All, FilesOK
  <2>3. ASSUME NEW k \in 0..1, NEW ragged \in BOOLEAN, Drop([file EXCEPT ![s] = Grow(s, k, ragged)])
        PROVE  FilesOK'
    <3>1. [file EXCEPT ![s] = Grow(s, k, ragged)] \in [Sources -> File]
      BY GrowKeeps DEF All
    <3> QED
      BY <2>3, <3>1, HeadersKeep DEF Drop, All, FilesOK
  <2> QED
    BY <1>1, <2>1, <2>2, <2>3
<1>4. WritersOK'
  BY WritersUntouched DEF FailWrite, All
<1>5. InStep' /\ StatusOK'
  <2>1. status' = "dropped" /\ incomplete' = TRUE
    BY <1>1 DEF Drop
  <2> QED
    BY <1>2, <2>1, ArchiveAssumption DEF FailWrite, All, InStep, StatusOK
<1> QED
  BY <1>2, <1>3, <1>4, <1>5 DEF All

LEMMA IgnoreKeeps == ASSUME All, NEW s \in Sources, Ignore(s) PROVE All'
<1>1. PICK n \in PacketSizes : Arrive(s, n)
  BY DEF Ignore
<1>2. CapturedOK' /\ ManifestOK' /\ packets' \in 0..MaxPackets
  BY <1>1, ArriveKeeps DEF All, StatusOK
<1>3. WritersOK'
  BY WritersUntouched DEF Ignore, All
<1> QED
  BY <1>2, <1>3 DEF Ignore, All, FilesOK, InStep, StatusOK

LEMMA MissKeeps == ASSUME All, NEW s \in Sources, Miss(s) PROVE All'
<1>1. PICK n \in PacketSizes : captured' = [captured EXCEPT ![s] = @ + n]
  BY DEF Miss
<1>2. CapturedOK'
  BY <1>1, ArchiveAssumption DEF Miss, All, CapturedOK
<1>3. WritersOK' /\ ManifestOK'
  BY WritersUntouched, ManifestUntouched DEF Miss, All
<1>4. StatusOK'
  BY ArchiveAssumption DEF Miss, All, StatusOK
<1> QED
  BY <1>2, <1>3, <1>4 DEF Miss, All, FilesOK, InStep

\* An entry made from a file and orderly gaps.
LEMMA EntryFacts ==
    ASSUME FilesOK, NEW s \in Sources, NEW start \in Nat, NEW end \in Nat, NEW gaps \in Seq(Gap)
    PROVE  /\ Entry(s, start, end, gaps) \in ManifestEntry
           /\ Entry(s, start, end, gaps).start = start
           /\ Entry(s, start, end, gaps).end = end
           /\ Entry(s, start, end, gaps).gaps = gaps
  BY DEF Entry, ManifestEntry, FilesOK, File

LEMMA FinalizeKeeps == ASSUME All, Finalize PROVE All'
<1> DEFINE open == {s \in Sources : writer[s].open}
<1>1. WritersOK' /\ CapturedOK'
  BY WritersUntouched DEF Finalize, All, CapturedOK
<1>2. InStep' /\ status' = "closed" /\ UNCHANGED packets
  BY DEF Finalize, InStep
<1>3. \A done \in SUBSET Sources : HeadersRewritten(file, done) \in [Sources -> File]
  BY HeadersKeep DEF All, FilesOK
<1>4. CASE /\ file' = HeadersRewritten(file, open)
           /\ manifest' = [s \in open |-> Entry(s, writer[s].start, writer[s].end, writer[s].gaps)]
           /\ UNCHANGED <<incomplete, failures>>
  <2>1. ASSUME NEW s \in open
        PROVE  manifest'[s] \in ManifestEntry /\ Orderly(manifest'[s])
    <3>1. s \in Sources /\ writer[s] \in Writer /\ Orderly(writer[s])
      BY DEF All, WritersOK
    <3>2. writer[s].start \in Nat /\ writer[s].end \in Nat /\ writer[s].gaps \in Seq(Gap)
      BY <3>1 DEF Writer
    <3> DEFINE e == Entry(s, writer[s].start, writer[s].end, writer[s].gaps)
    <3>3. e \in ManifestEntry /\ e.start = writer[s].start /\ e.end = writer[s].end
          /\ e.gaps = writer[s].gaps
      BY <3>1, <3>2, EntryFacts DEF All
    <3>4. manifest'[s] = e
      BY <1>4
    <3> HIDE DEF e
    <3>5. Orderly(e)
      BY <3>1, <3>3 DEF Orderly
    <3> QED
      BY <3>3, <3>4, <3>5
  <2>2. DOMAIN manifest' = open /\ open \in SUBSET Sources
    BY <1>4
  <2>3. manifest' \in [open -> ManifestEntry]
    BY <1>4, <2>1
  <2>4. ManifestOK'
    BY <2>1, <2>2, <2>3 DEF ManifestOK
  <2> QED
    BY <1>1, <1>2, <1>3, <1>4, <2>4 DEF All, FilesOK, StatusOK
<1>5. CASE /\ failures < MaxFailures /\ failures' = failures + 1
           /\ \E done \in SUBSET open : file' = HeadersRewritten(file, done)
           /\ incomplete' = TRUE /\ manifest' = manifest
  <2>1. FilesOK'
    BY <1>3, <1>5 DEF All, FilesOK
  <2>2. ManifestOK'
    BY <1>5, ManifestUntouched DEF All
  <2>3. StatusOK'
    BY <1>2, <1>5, ArchiveAssumption DEF All, StatusOK
  <2> QED
    BY <1>1, <1>2, <2>1, <2>2, <2>3 DEF All
<1>6. CASE UNCHANGED <<file, manifest, incomplete, failures>>
  BY <1>1, <1>2, <1>6, ManifestUntouched DEF All, FilesOK, StatusOK
<1> QED
  BY <1>4, <1>5, <1>6 DEF Finalize

LEMMA CrashKeeps == ASSUME All, ProcessEnds PROVE All'
<1>1. FilesOK'
  <2>1. ASSUME NEW s \in Sources, NEW k \in 0..1, NEW ragged \in BOOLEAN, file' = [file EXCEPT ![s] = Grow(s, k, ragged)]
        PROVE  FilesOK'
    BY <2>1, GrowKeeps DEF All, FilesOK
  <2>2. ASSUME NEW s \in Sources, file' = [file EXCEPT ![s] = Created] PROVE FilesOK'
    BY <2>2, CreatedFacts DEF All, FilesOK
  <2>3. ASSUME NEW done \in SUBSET Sources, file' = HeadersRewritten(file, done) PROVE FilesOK'
    BY <2>3, HeadersKeep DEF All, FilesOK
  <2>4. CASE file' = file
    BY <2>4 DEF All, FilesOK
  <2> QED
    BY <2>1, <2>2, <2>3, <2>4 DEF ProcessEnds
<1>2. NoWriter \in Writer /\ WriterSound(NoWriter) /\ Orderly(NoWriter)
  BY DEF NoWriter, Writer, WriterSound, Orderly
<1>3. WritersOK'
  BY <1>2 DEF ProcessEnds, WritersOK
<1>4. ManifestOK'
  BY ManifestUntouched DEF ProcessEnds, All
<1> QED
  BY <1>1, <1>3, <1>4 DEF ProcessEnds, All, InStep, CapturedOK, StatusOK

\* What a recovery makes of a file.
LEMMA WholeFacts ==
    ASSUME FilesOK, NEW s \in Sources
    PROVE  /\ Whole(file[s]) \in File /\ [file[s] EXCEPT !.ragged = FALSE] \in File
           /\ Whole(file[s]).frames = file[s].frames /\ Whole(file[s]).header = file[s].frames
           /\ Whole(file[s]).ragged = FALSE /\ Whole(file[s]).wav = file[s].wav
           /\ [file[s] EXCEPT !.ragged = FALSE].frames = file[s].frames
           /\ [file[s] EXCEPT !.ragged = FALSE].header = file[s].header
           /\ [file[s] EXCEPT !.ragged = FALSE].wav = file[s].wav
           /\ [file[s] EXCEPT !.ragged = FALSE].ragged = FALSE
  BY DEF FilesOK, File, Whole

LEMMA RebuildFailsKeeps == ASSUME All, RebuildFails PROVE All'
<1>1. PICK done \in SUBSET FilesThere, cut \in SUBSET FilesThere :
        file' = [s \in Sources |-> IF s \in done THEN Whole(file[s])
                                  ELSE IF s \in cut THEN [file[s] EXCEPT !.ragged = FALSE] ELSE file[s]]
  BY DEF RebuildFails
<1>2. FilesOK'
  <2>1. \A s \in Sources : file'[s] \in File
    BY <1>1, WholeFacts DEF All, FilesOK
  <2> QED
    BY <1>1, <2>1 DEF FilesOK
<1>3. manifest' \in {manifest, NoManifest} /\ failures' \in 0..MaxFailures
  BY ArchiveAssumption DEF RebuildFails, All, StatusOK
<1>4. NoManifest \in [{} -> ManifestEntry] /\ DOMAIN NoManifest = {}
  BY DEF NoManifest
<1>5. ManifestOK'
  BY <1>3, <1>4, ManifestUntouched DEF All, ManifestOK
<1>6. WritersOK'
  BY WritersUntouched DEF RebuildFails, All
<1>7. InStep' /\ CapturedOK' /\ StatusOK'
  BY <1>3 DEF RebuildFails, All, InStep, CapturedOK, StatusOK
<1> QED
  BY <1>2, <1>5, <1>6, <1>7 DEF All

LEMMA RebuildKeeps == ASSUME All, Rebuild PROVE All'
<1> DEFINE some == FilesThere
<1>1. \A s \in Sources : file[s] \in File /\ file[s].frames \in Nat
  BY DEF All, FilesOK, File
<1>2. \A s \in Sources : Whole(file[s]) \in File
  BY WholeFacts DEF All
<1>3. FilesOK'
  BY <1>1, <1>2 DEF Rebuild, FilesOK
<1>4. ASSUME NEW s \in some
      PROVE  manifest'[s] \in ManifestEntry /\ Orderly(manifest'[s])
  <2> DEFINE b == file[s].frames * Target + Rate[s] - 1
             r == Rate[s]
  <2>1. b \in Nat /\ r \in Nat \ {0}
    <3>1. s \in Sources
      BY DEF FilesThere
    <3> QED
      BY <1>1, <3>1, ArchiveAssumption DEF Target
  <2>2. \A x \in Nat, y \in Nat \ {0} : x \div y \in Nat
    BY Z3
  <2>3. SampleCeil(s, file[s].frames) = b \div r
    BY DEF SampleCeil
  <2>4. SampleCeil(s, file[s].frames) \in Nat
    <3> HIDE DEF b, r
    <3> QED
      BY <2>1, <2>2, <2>3
  <2> DEFINE e == Entry(s, 0, SampleCeil(s, file[s].frames), <<>>)
  <2>5. e \in ManifestEntry /\ e.gaps = <<>>
    <3> DEFINE end == SampleCeil(s, file[s].frames)
               none == <<>>
    <3>1. 0 \in Nat /\ none \in Seq(Gap) /\ s \in Sources /\ end \in Nat /\ FilesOK
      BY <2>4 DEF All, FilesThere
    <3> HIDE DEF end, none
    <3>2. Entry(s, 0, end, none) \in ManifestEntry /\ Entry(s, 0, end, none).gaps = none
      BY <3>1, EntryFacts
    <3> QED
      BY <3>2 DEF end, none
  <2>6. manifest'[s] = e
    BY DEF Rebuild, FilesThere
  <2> HIDE DEF e
  <2> QED
    BY <2>5, <2>6 DEF Orderly
<1>5. DOMAIN manifest' = some /\ some \in SUBSET Sources
  BY DEF Rebuild, FilesThere
<1>6. manifest' \in [some -> ManifestEntry]
  BY <1>4, <1>5 DEF Rebuild
<1>7. ManifestOK'
  BY <1>4, <1>5, <1>6 DEF ManifestOK
<1>8. WritersOK'
  BY WritersUntouched DEF Rebuild, All
<1>9. InStep' /\ CapturedOK' /\ StatusOK'
  BY DEF Rebuild, All, InStep, CapturedOK, StatusOK
<1> QED
  BY <1>3, <1>7, <1>8, <1>9 DEF All

-----------------------------------------------------------------------------
(* The theorems.                                                           *)

LEMMA Initially == ASSUME ArchiveInit PROVE All
<1>1. CapturedOK /\ StatusOK
  <2>1. captured \in [Sources -> Nat] /\ heard = captured
    BY DEF ArchiveInit
  <2>2. 0 \in 0..MaxPackets /\ 0 \in 0..MaxFailures
    BY ArchiveAssumption
  <2> QED
    BY <2>1, <2>2 DEF ArchiveInit, CapturedOK, StatusOK
<1>2. NoFile \in File
  BY DEF NoFile, File
<1>3. FilesOK
  BY <1>2 DEF ArchiveInit, FilesOK
<1>4. NoWriter \in Writer /\ WriterSound(NoWriter) /\ Orderly(NoWriter)
  BY DEF NoWriter, Writer, WriterSound, Orderly
<1>5. WritersOK
  BY <1>4 DEF ArchiveInit, WritersOK
<1>6. InStep
  BY DEF ArchiveInit, InStep, NoWriter, NoFile
<1>7. manifest \in [{} -> ManifestEntry] /\ DOMAIN manifest = {}
  BY DEF ArchiveInit, NoManifest
<1>8. ManifestOK
  BY <1>7 DEF ManifestOK
<1> QED
  BY <1>1, <1>3, <1>5, <1>6, <1>8 DEF All

LEMMA Stepwise == ASSUME All, [ArchiveNext]_archiveVars PROVE All'
<1>1. CASE UNCHANGED archiveVars
  BY <1>1 DEF archiveVars, All, FilesOK, WritersOK, InStep, ManifestOK, CapturedOK, StatusOK
<1>2. ASSUME NEW s \in Sources, Write(s) \/ Refuse(s) \/ FailWrite(s) \/ Ignore(s) \/ Miss(s)
      PROVE  All'
  BY <1>2, WriteKeeps, RefuseKeeps, FailWriteKeeps, IgnoreKeeps, MissKeeps
<1> QED
  BY <1>1, <1>2, FinalizeKeeps, CrashKeeps, RebuildKeeps, RebuildFailsKeeps DEF ArchiveNext

\* The strengthening is an invariant for every rate, packet size and failure.
THEOREM ArchiveInvariant == ArchiveSpec => []ArchiveInv
<1>1. ArchiveInit => ArchiveInv
  BY Initially, Parts
<1>2. ArchiveInv /\ [ArchiveNext]_archiveVars => ArchiveInv'
  <2>1. ArchiveInv' <=> All'
    BY Parts, PTL
  <2> QED
    BY <2>1, Stepwise, Parts
<1> QED
  BY <1>1, <1>2, PTL DEF ArchiveSpec

\* Every variable keeps its type (raw_audio.rs: SourceWriter and its file agree
\* while a meeting is recorded).
THEOREM ArchiveTypeCorrect == ArchiveSpec => []ArchiveTypeOK
<1>1. ArchiveInv => ArchiveTypeOK
  BY DEF ArchiveInv
<1> QED
  BY <1>1, ArchiveInvariant, PTL

\* The gaps that SourceWriter::append records, and those of every manifest, lie
\* inside the recording, apart and in order, whatever the rates and the losses:
\* present_samples_before may add them up.
THEOREM GapsAlwaysInOrder == ArchiveSpec => []GapsInOrder
<1>1. ArchiveInv => GapsInOrder
  BY DEF ArchiveInv
<1> QED
  BY <1>1, ArchiveInvariant, PTL

-----------------------------------------------------------------------------
(* What the archive tells.                                                 *)

\* While packets are written there is no manifest, no half frame and no header
\* but the empty one of each file; a writer is dropped only with the mark of a
\* loss.
BeforeTheEnd ==
    /\ status \in {"writing", "dropped"} => DOMAIN manifest = {}
    /\ status = "writing" => \A s \in Sources : /\ ~file[s].ragged /\ file[s].header = 0
                                                /\ file[s].exists => file[s].wav
                                                /\ ~file[s].exists => file[s].frames = 0
    /\ status = "dropped" => incomplete

\* The inductive invariant behind ArchiveTells, next to ArchiveInv.
TellInv == BeforeTheEnd /\ ManifestTellsFile /\ HeadersAreSafe /\ ArchiveLossIsMarked

\* What a file holds after some headers were written again.
LEMMA HeadersFacts ==
    ASSUME NEW files \in [Sources -> File], NEW s \in Sources, NEW done \in SUBSET Sources
    PROVE  LET f == HeadersRewritten(files, done)[s]
           IN  /\ f.frames = files[s].frames /\ f.ragged = files[s].ragged /\ f.wav = files[s].wav
               /\ f.header = IF s \in done /\ writer[s].open THEN writer[s].frames ELSE files[s].header
<1>1. files[s] \in File
  OBVIOUS
<1>2. HeadersRewritten(files, done)[s] =
        IF s \in done /\ writer[s].open THEN [files[s] EXCEPT !.header = writer[s].frames] ELSE files[s]
  BY DEF HeadersRewritten
<1> QED
  BY <1>1, <1>2 DEF File

\* What an append adds to a file.
LEMMA GrowFacts ==
    ASSUME FilesOK, NEW s \in Sources, NEW k \in Nat, NEW ragged \in BOOLEAN
    PROVE  /\ Grow(s, k, ragged).frames = file[s].frames + k
           /\ Grow(s, k, ragged).ragged = ragged
           /\ Grow(s, k, ragged).header = file[s].header
           /\ Grow(s, k, ragged).wav = TRUE
           /\ Grow(s, k, ragged).exists = TRUE
  BY DEF Grow, FilesOK, File

LEMMA WriteTells == ASSUME All, TellInv, NEW s \in Sources, Write(s) PROVE TellInv'
<1>1. PICK n \in PacketSizes :
        Arrive(s, n) /\ file' = [file EXCEPT ![s] = Grow(s, n, FALSE)]
  BY DEF Write
<1>2. status = "writing" /\ status' = "writing" /\ UNCHANGED <<manifest, incomplete>>
  BY <1>1 DEF Write, Arrive
<1>3. /\ file'[s].frames = file[s].frames + n /\ file'[s].ragged = FALSE
      /\ file'[s].header = file[s].header /\ file'[s].wav = TRUE /\ file'[s].exists = TRUE
      /\ heard'[s] = heard[s] + n
      /\ \A x \in Sources \ {s} : file'[x] = file[x] /\ heard'[x] = heard[x]
  <2> DEFINE g == Grow(s, n, FALSE)
  <2>1. g.frames = file[s].frames + n /\ g.ragged = FALSE /\ g.header = file[s].header /\ g.wav = TRUE
        /\ g.exists = TRUE
    <3>1. FilesOK /\ n \in Nat
      BY ArchiveAssumption DEF All
    <3>2. Grow(s, n, FALSE).frames = file[s].frames + n
      BY <3>1, GrowFacts, Zenon
    <3>3. /\ Grow(s, n, FALSE).ragged = FALSE /\ Grow(s, n, FALSE).header = file[s].header
          /\ Grow(s, n, FALSE).wav = TRUE /\ Grow(s, n, FALSE).exists = TRUE
      BY <3>1, GrowFacts, Zenon
    <3> QED
      BY <3>2, <3>3
  <2>2. file' = [file EXCEPT ![s] = g] /\ heard' = [heard EXCEPT ![s] = heard[s] + n]
    BY <1>1 DEF Arrive
  <2> HIDE DEF g
  <2>3. file'[s] = g /\ \A x \in Sources \ {s} : file'[x] = file[x]
    BY <2>2 DEF All, FilesOK
  <2>4. heard'[s] = heard[s] + n /\ \A x \in Sources \ {s} : heard'[x] = heard[x]
    BY <2>2 DEF All, CapturedOK
  <2> QED
    BY <2>1, <2>3, <2>4
<1>4. heard[s] \in Nat /\ file[s].frames \in Nat /\ n \in Nat
  BY ArchiveAssumption DEF All, CapturedOK, FilesOK, File
<1>5. BeforeTheEnd'
  BY <1>2, <1>3 DEF TellInv, BeforeTheEnd
<1>6. ManifestTellsFile'
  BY <1>2, <1>5 DEF ManifestTellsFile, BeforeTheEnd
<1>7. ArchiveLossIsMarked'
  <2>1. \A x \in Sources : heard[x] # file[x].frames => incomplete
    BY <1>2 DEF TellInv, ArchiveLossIsMarked
  <2>2. heard'[s] # file'[s].frames => heard[s] # file[s].frames
    BY <1>3, <1>4
  <2> QED
    BY <1>2, <1>3, <2>1, <2>2 DEF ArchiveLossIsMarked
<1>8. HeadersAreSafe'
  <2>1. \A x \in Sources : file'[x].header = 0 /\ file'[x].frames \in Nat
    <3>1. file'[s].frames \in Nat
      BY <1>3, <1>4
    <3> QED
      BY <1>2, <1>3, <1>5, <3>1 DEF BeforeTheEnd, All, FilesOK, File
  <2>2. \A x \in Sources : file'[x].header <= file'[x].frames
    BY <2>1
  <2> QED
    BY <1>2, <2>2 DEF HeadersAreSafe
<1> QED
  BY <1>5, <1>6, <1>7, <1>8 DEF TellInv

\* While packets are written a file holds what its writer counts, and only that
\* of an open writer exists.
LEMMA WritingFacts ==
    ASSUME All, TellInv, status = "writing", NEW s \in Sources
    PROVE  /\ writer[s].frames = file[s].frames /\ writer[s].open = file[s].exists
           /\ file[s].frames \in Nat /\ file[s].header = 0 /\ ~file[s].ragged
           /\ writer[s].open => file[s].wav
           /\ ~file[s].exists => file[s].frames = 0
  BY DEF All, InStep, FilesOK, File, TellInv, BeforeTheEnd

\* A refused or failed packet ends the writing, and Drop writes the headers it
\* can; nothing is taken from a file that was there.
LEMMA DropTells ==
    ASSUME All, TellInv, status = "writing",
           NEW files \in [Sources -> File], Drop(files),
           \A s \in Sources : /\ file[s].frames <= files[s].frames /\ files[s].header = 0
                              /\ writer[s].open => files[s].wav,
           UNCHANGED <<writer, manifest>>
    PROVE  TellInv'
<1>1. PICK done \in SUBSET Sources : file' = HeadersRewritten(files, done)
  BY DEF Drop
<1>2. status' = "dropped" /\ incomplete' = TRUE
  BY DEF Drop
<1>3. BeforeTheEnd'
  BY <1>2 DEF TellInv, BeforeTheEnd
<1>4. ManifestTellsFile' /\ ArchiveLossIsMarked'
  BY <1>2, <1>3 DEF ManifestTellsFile, BeforeTheEnd, ArchiveLossIsMarked
<1>5. ASSUME NEW s \in Sources
      PROVE  /\ file'[s].header <= file'[s].frames
             /\ writer'[s].open => file'[s].wav /\ file'[s].header \in {0, writer'[s].frames}
  <2>1. /\ file'[s].frames = files[s].frames /\ file'[s].wav = files[s].wav
        /\ file'[s].header = IF s \in done /\ writer[s].open THEN writer[s].frames ELSE files[s].header
    BY <1>1, HeadersFacts
  <2>2. writer[s].frames = file[s].frames /\ file[s].frames \in Nat /\ files[s].frames \in Nat
    BY WritingFacts DEF File
  <2> QED
    BY <2>1, <2>2
<1>6. HeadersAreSafe'
  BY <1>2, <1>5 DEF HeadersAreSafe
<1> QED
  BY <1>3, <1>4, <1>6 DEF TellInv

LEMMA RefuseTells == ASSUME All, TellInv, NEW s \in Sources, Refuse(s) PROVE TellInv'
<1>1. status = "writing" /\ Drop(file) /\ UNCHANGED <<writer, manifest>>
  BY DEF Refuse, Arrive
<1>2. file \in [Sources -> File]
  BY DEF All, FilesOK
<1>3. \A x \in Sources : /\ file[x].frames <= file[x].frames /\ file[x].header = 0
                         /\ writer[x].open => file[x].wav
  BY <1>1, WritingFacts
<1> QED
  BY <1>1, <1>2, <1>3, DropTells

LEMMA FailWriteTells == ASSUME All, TellInv, NEW s \in Sources, FailWrite(s) PROVE TellInv'
<1>1. status = "writing" /\ UNCHANGED <<writer, manifest>>
  BY DEF FailWrite, Arrive
<1>2. file \in [Sources -> File]
  BY DEF All, FilesOK
<1>3. \A x \in Sources : /\ file[x].frames <= file[x].frames /\ file[x].header = 0 /\ file[x].frames \in Nat
                         /\ writer[x].open => file[x].wav
                         /\ writer[x].open = file[x].exists /\ writer[x].frames = file[x].frames
                         /\ ~file[x].exists => file[x].frames = 0
  BY <1>1, WritingFacts
<1>4. CASE Drop(file)
  BY <1>1, <1>2, <1>3, <1>4, DropTells
<1>5. CASE ~file[s].exists /\ Drop([file EXCEPT ![s] = Created])
  <2> DEFINE files == [file EXCEPT ![s] = Created]
  <2>1. files \in [Sources -> File] /\ files[s] = Created
    BY <1>2, CreatedFacts DEF All
  <2>2. \A x \in Sources \ {s} : files[x] = file[x]
    BY <1>2
  <2>3. file[s].frames = 0
    BY <1>3, <1>5
  <2>4. \A x \in Sources : /\ file[x].frames <= files[x].frames /\ files[x].header = 0
                           /\ writer[x].open => files[x].wav
    BY <1>3, <1>5, <2>1, <2>2, <2>3, CreatedFacts
  <2>5. Drop(files)
    BY <1>5
  <2> HIDE DEF files
  <2> QED
    BY <1>1, <2>1, <2>4, <2>5, DropTells
<1>6. ASSUME NEW k \in 0..1, NEW ragged \in BOOLEAN, Drop([file EXCEPT ![s] = Grow(s, k, ragged)])
      PROVE  TellInv'
  <2> DEFINE files == [file EXCEPT ![s] = Grow(s, k, ragged)]
  <2>1. files \in [Sources -> File]
    BY GrowKeeps DEF All
  <2>2. /\ files[s].frames = file[s].frames + k /\ files[s].header = file[s].header /\ files[s].wav = TRUE
        /\ \A x \in Sources \ {s} : files[x] = file[x]
    <3> DEFINE g == Grow(s, k, ragged)
    <3>1. FilesOK /\ k \in Nat
      BY DEF All
    <3>2. g.frames = file[s].frames + k /\ g.header = file[s].header /\ g.wav = TRUE
      BY <3>1, GrowFacts
    <3> HIDE DEF g
    <3>3. files = [file EXCEPT ![s] = g]
      BY DEF g
    <3> HIDE DEF files
    <3> QED
      BY <1>2, <3>2, <3>3
  <2>3. \A x \in Sources : /\ file[x].frames <= files[x].frames /\ files[x].header = 0
                           /\ writer[x].open => files[x].wav
    BY <1>3, <2>2
  <2>4. Drop(files)
    BY <1>6
  <2> HIDE DEF files
  <2> QED
    BY <1>1, <2>1, <2>3, <2>4, DropTells
<1> QED
  BY <1>4, <1>5, <1>6 DEF FailWrite

\* The writer is gone or the packet is: the files stay as they are.
LEMMA PassTells ==
    ASSUME All, TellInv, NEW s \in Sources, Ignore(s) \/ Miss(s) PROVE TellInv'
<1>1. UNCHANGED <<writer, file, status, manifest, incomplete>>
  BY DEF Ignore, Miss, Arrive
<1>2. heard' = heard \/ status = "dropped"
  BY DEF Ignore, Miss
<1>3. ArchiveLossIsMarked'
  BY <1>1, <1>2 DEF TellInv, BeforeTheEnd, ArchiveLossIsMarked
<1> QED
  BY <1>1, <1>3 DEF TellInv, BeforeTheEnd, ManifestTellsFile, HeadersAreSafe

LEMMA FinalizeTells == ASSUME All, TellInv, Finalize PROVE TellInv'
<1> DEFINE open == {s \in Sources : writer[s].open}
<1>1. status' = "closed" /\ heard' = heard /\ status \in {"writing", "dropped"}
      /\ DOMAIN manifest = {}
  BY DEF Finalize, TellInv, BeforeTheEnd
<1>2. BeforeTheEnd'
  BY <1>1 DEF BeforeTheEnd
<1>3. \A s \in Sources : heard[s] # file[s].frames => incomplete
  BY <1>1 DEF TellInv, ArchiveLossIsMarked
<1>4. file \in [Sources -> File]
  BY DEF All, FilesOK
<1>5. ASSUME status = "writing", NEW done \in SUBSET Sources, file' = HeadersRewritten(file, done)
      PROVE  HeadersAreSafe'
  <2>1. ASSUME NEW s \in Sources PROVE file'[s].header <= file'[s].frames
    BY <1>4, <1>5, HeadersFacts, WritingFacts
  <2> QED
    BY <1>1, <2>1 DEF HeadersAreSafe
<1>6. ASSUME file' = file PROVE HeadersAreSafe'
  <2>1. \A s \in Sources : file[s].header <= file[s].frames
    BY DEF TellInv, HeadersAreSafe
  <2> QED
    BY <1>1, <1>6, <2>1 DEF HeadersAreSafe
<1>7. CASE /\ status = "writing" /\ file' = HeadersRewritten(file, open)
           /\ manifest' = [s \in open |-> Entry(s, writer[s].start, writer[s].end, writer[s].gaps)]
           /\ UNCHANGED <<incomplete, failures>>
  <2>1. \A s \in Sources : /\ file'[s].frames = file[s].frames /\ file'[s].ragged = file[s].ragged
                           /\ file'[s].wav = file[s].wav
                           /\ writer[s].open => file'[s].header = writer[s].frames
    BY <1>4, <1>7, HeadersFacts
  <2>2. ASSUME NEW s \in open
        PROVE  /\ file'[s].frames = manifest'[s].frames /\ ~file'[s].ragged /\ file'[s].wav
               /\ file'[s].header = manifest'[s].frames
    <3>1. manifest'[s].frames = file[s].frames
      BY <1>7 DEF Entry
    <3>2. writer[s].frames = file[s].frames /\ ~file[s].ragged /\ file[s].wav /\ s \in Sources
      BY <1>7, WritingFacts
    <3> QED
      BY <2>1, <3>1, <3>2
  <2>3. ManifestTellsFile'
    BY <1>7, <2>2 DEF ManifestTellsFile
  <2>4. ArchiveLossIsMarked'
    BY <1>1, <1>3, <1>7, <2>1 DEF ArchiveLossIsMarked
  <2>5. HeadersAreSafe'
    BY <1>5, <1>7
  <2> QED
    BY <1>2, <2>3, <2>4, <2>5 DEF TellInv
<1>8. CASE manifest' = manifest /\ (incomplete' = TRUE \/ UNCHANGED <<file, incomplete>>)
  <2>1. ManifestTellsFile'
    BY <1>1, <1>8 DEF ManifestTellsFile
  <2>2. ArchiveLossIsMarked'
    BY <1>1, <1>3, <1>8 DEF ArchiveLossIsMarked
  <2>3. ASSUME NEW done \in SUBSET open, status = "writing", file' = HeadersRewritten(file, done)
        PROVE  HeadersAreSafe'
    BY <1>5, <2>3
  <2>4. HeadersAreSafe' => TellInv'
    BY <1>2, <2>1, <2>2 DEF TellInv
  <2> QED
    BY <1>6, <1>7, <2>3, <2>4 DEF Finalize
<1> QED
  BY <1>7, <1>8 DEF Finalize

LEMMA CrashTells == ASSUME All, TellInv, ProcessEnds PROVE TellInv'
<1>1. status' = "down" /\ DOMAIN manifest' = {}
  BY DEF ProcessEnds, TellInv, BeforeTheEnd
<1>2. file \in [Sources -> File]
  BY DEF All, FilesOK
<1>3. ASSUME NEW x \in Sources PROVE file'[x].header <= file'[x].frames
  <2>1. CASE file' = file
    BY <2>1 DEF TellInv, HeadersAreSafe
  <2>2. CASE status = "writing"
    <3>1. file[x].header = 0 /\ file[x].frames \in Nat /\ writer[x].frames = file[x].frames
      BY <2>2, WritingFacts
    <3>2. ASSUME NEW s \in Sources, NEW k \in 0..1, NEW ragged \in BOOLEAN,
                 file' = [file EXCEPT ![s] = Grow(s, k, ragged)]
          PROVE  file'[x].header <= file'[x].frames
      <4>1. CASE x = s
        <5> DEFINE g == Grow(s, k, ragged)
        <5>1. FilesOK /\ k \in Nat
          BY DEF All
        <5>2. g.frames = file[s].frames + k /\ g.header = file[s].header
          BY <5>1, GrowFacts
        <5> HIDE DEF g
        <5>3. file'[x] = g
          BY <1>2, <3>2, <4>1 DEF g
        <5> QED
          BY <3>1, <4>1, <5>2, <5>3
      <4>2. CASE x # s
        BY <1>2, <3>1, <3>2, <4>2
      <4> QED
        BY <4>1, <4>2
    <3>3. ASSUME NEW s \in Sources, file' = [file EXCEPT ![s] = Created]
          PROVE  file'[x].header <= file'[x].frames
      <4>1. CASE x = s
        BY <1>2, <3>3, <4>1, CreatedFacts
      <4>2. CASE x # s
        BY <1>2, <3>1, <3>3, <4>2
      <4> QED
        BY <4>1, <4>2
    <3>4. ASSUME NEW done \in SUBSET Sources, file' = HeadersRewritten(file, done)
          PROVE  file'[x].header <= file'[x].frames
      BY <1>2, <3>1, <3>4, HeadersFacts
    <3> QED
      BY <2>1, <3>2, <3>3, <3>4 DEF ProcessEnds
  <2> QED
    BY <2>1, <2>2 DEF ProcessEnds
<1>4. HeadersAreSafe'
  BY <1>1, <1>3 DEF HeadersAreSafe
<1> QED
  BY <1>1, <1>4 DEF TellInv, BeforeTheEnd, ManifestTellsFile, ArchiveLossIsMarked

LEMMA RebuildTells == ASSUME All, TellInv, Rebuild PROVE TellInv'
<1>1. status' = "rebuilt"
  BY DEF Rebuild
<1>2. ASSUME NEW s \in Sources
      PROVE  /\ file'[s].frames = file[s].frames /\ file'[s].wav = file[s].wav
             /\ s \in FilesThere => file'[s].header = file[s].frames /\ file'[s].ragged = FALSE
             /\ s \notin FilesThere => file'[s] = file[s]
  <2>1. file'[s] = IF s \in FilesThere THEN Whole(file[s]) ELSE file[s]
    BY DEF Rebuild
  <2> QED
    BY <2>1, WholeFacts DEF All
<1>3. ASSUME NEW s \in FilesThere PROVE manifest'[s].frames = file[s].frames /\ s \in Sources /\ file[s].wav
  BY DEF Rebuild, Entry, FilesThere
<1>4. DOMAIN manifest' = FilesThere
  BY DEF Rebuild
<1>5. ManifestTellsFile'
  BY <1>2, <1>3, <1>4 DEF ManifestTellsFile
<1>6. ASSUME NEW s \in Sources PROVE file'[s].header <= file'[s].frames
  <2>1. file[s].frames \in Nat /\ file[s].header <= file[s].frames
    BY DEF All, FilesOK, File, TellInv, HeadersAreSafe
  <2>2. file'[s].header = file[s].frames \/ file'[s].header = file[s].header
    BY <1>2
  <2>3. file'[s].frames = file[s].frames
    BY <1>2
  <2> QED
    BY <2>1, <2>2, <2>3
<1>7. HeadersAreSafe'
  BY <1>1, <1>6 DEF HeadersAreSafe
<1> QED
  BY <1>1, <1>5, <1>7 DEF TellInv, BeforeTheEnd, ArchiveLossIsMarked

LEMMA RebuildFailsTells == ASSUME All, TellInv, RebuildFails PROVE TellInv'
<1>1. /\ status' = status /\ status \notin {"writing", "dropped"}
      /\ UNCHANGED <<heard, incomplete, writer>> /\ manifest' \in {manifest, NoManifest}
  BY DEF RebuildFails
<1>2. PICK done \in SUBSET FilesThere, cut \in SUBSET FilesThere :
        file' = [s \in Sources |-> IF s \in done THEN Whole(file[s])
                                  ELSE IF s \in cut THEN [file[s] EXCEPT !.ragged = FALSE] ELSE file[s]]
  BY DEF RebuildFails
<1>3. ASSUME NEW s \in Sources
      PROVE  /\ file'[s].frames = file[s].frames /\ file'[s].wav = file[s].wav
             /\ file'[s].header \in {file[s].header, file[s].frames}
             /\ file'[s].ragged \in {file[s].ragged, FALSE}
  <2>1. file'[s] = IF s \in done THEN Whole(file[s])
                   ELSE IF s \in cut THEN [file[s] EXCEPT !.ragged = FALSE] ELSE file[s]
    BY <1>2
  <2> QED
    BY <2>1, WholeFacts DEF All
<1>4. \A s \in Sources : file[s].frames \in Nat /\ file[s].header <= file[s].frames
  BY DEF All, FilesOK, File, TellInv, HeadersAreSafe
<1>5. HeadersAreSafe'
  <2>1. ASSUME NEW s \in Sources PROVE file'[s].header <= file'[s].frames
    <3>1. file'[s].header = file[s].frames \/ file'[s].header = file[s].header
      BY <1>3
    <3>2. file'[s].frames = file[s].frames
      BY <1>3
    <3> QED
      BY <1>4, <3>1, <3>2
  <2> QED
    BY <1>1, <2>1 DEF HeadersAreSafe
<1>6. ManifestTellsFile'
  <2>1. CASE manifest' = manifest
    <3>1. \A s \in DOMAIN manifest :
            /\ s \in Sources /\ file[s].frames = manifest[s].frames /\ file[s].ragged # TRUE /\ file[s].wav
            /\ file[s].header = manifest[s].frames
      BY DEF All, ManifestOK, TellInv, ManifestTellsFile
    <3> QED
      BY <1>3, <2>1, <3>1 DEF ManifestTellsFile
  <2>2. CASE manifest' = NoManifest
    BY <2>2 DEF ManifestTellsFile, NoManifest
  <2> QED
    BY <1>1, <2>1, <2>2
<1>7. BeforeTheEnd'
  BY <1>1 DEF BeforeTheEnd
<1>8. ArchiveLossIsMarked'
  BY <1>1, <1>3 DEF TellInv, ArchiveLossIsMarked
<1> QED
  BY <1>5, <1>6, <1>7, <1>8 DEF TellInv

\* TellInv holds at the start and, next to ArchiveInv, after every step.
THEOREM TellInvariant == ArchiveSpec => []TellInv
<1>1. ArchiveInit => TellInv
  <2> SUFFICES ASSUME ArchiveInit PROVE TellInv
    OBVIOUS
  <2>1. DOMAIN manifest = {} /\ status = "writing"
    BY DEF ArchiveInit, NoManifest
  <2>2. \A s \in Sources : /\ ~file[s].ragged /\ heard[s] = file[s].frames /\ file[s].header = 0
                           /\ file[s].frames = 0 /\ ~file[s].exists
    BY DEF ArchiveInit, NoFile
  <2> QED
    BY <2>1, <2>2 DEF TellInv, BeforeTheEnd, ManifestTellsFile, HeadersAreSafe, ArchiveLossIsMarked
<1>2. ArchiveInv /\ TellInv /\ [ArchiveNext]_archiveVars => TellInv'
  <2> SUFFICES ASSUME All, TellInv, [ArchiveNext]_archiveVars PROVE TellInv'
    BY Parts
  <2>1. CASE UNCHANGED archiveVars
    BY <2>1 DEF archiveVars, TellInv, BeforeTheEnd, ManifestTellsFile, HeadersAreSafe,
       ArchiveLossIsMarked
  <2>2. ASSUME NEW s \in Sources, Write(s) \/ Refuse(s) \/ FailWrite(s) \/ Ignore(s) \/ Miss(s)
        PROVE  TellInv'
    BY <2>2, WriteTells, RefuseTells, FailWriteTells, PassTells
  <2> QED
    BY <2>1, <2>2, FinalizeTells, CrashTells, RebuildTells, RebuildFailsTells DEF ArchiveNext
<1> QED
  BY <1>1, <1>2, ArchiveInvariant, PTL DEF ArchiveSpec

\* For every rate, packet size, failure and crash: a manifest fits its files,
\* also after a recovery that failed on the way, no header promises more than its
\* file holds, the one of a dropped file promises all that was accepted or none,
\* and a loss marks the meeting.
THEOREM ArchiveAlwaysTells == ArchiveSpec => []ArchiveTells
<1>1. ArchiveInv /\ TellInv => ArchiveTells
  BY DEF ArchiveInv, TellInv, ArchiveTells
<1> QED
  BY <1>1, ArchiveInvariant, TellInvariant, PTL

==============================================================================
