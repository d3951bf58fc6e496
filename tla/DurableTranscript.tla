-------------------------- MODULE DurableTranscript --------------------------
(***************************************************************************)
(* What storage promises to the rest of the application: a transcript only *)
(* grows at its end, holds a segment once, and still holds everything that *)
(* was reported as saved, until the user purges the meeting.               *)
(***************************************************************************)
EXTENDS Naturals, Sequences

CONSTANTS Meetings, Segments, Texts

VARIABLES
    transcript,  \* the finals of each meeting, in order
    told         \* what was reported as saved: a meeting, a place and the final there

Final == [segment : Segments, text : Texts]

Init ==
    /\ transcript = [m \in Meetings |-> <<>>]
    /\ told = {}

\* A segment the meeting does not have becomes its last.
Extend(m) ==
    \E f \in Final :
        /\ \A i \in DOMAIN transcript[m] : transcript[m][i].segment # f.segment
        /\ transcript' = [transcript EXCEPT ![m] = Append(@, f)]
        /\ told' = told

\* Only what the transcript holds is reported as saved.
Tell(m) ==
    \E i \in DOMAIN transcript[m] :
        /\ told' = told \cup {[meeting |-> m, sequence |-> i, final |-> transcript[m][i]]}
        /\ transcript' = transcript

Purge(m) ==
    /\ transcript' = [transcript EXCEPT ![m] = <<>>]
    /\ told' = {t \in told : t.meeting # m}

Next == \E m \in Meetings : Extend(m) \/ Tell(m) \/ Purge(m)

Spec == Init /\ [][Next]_<<transcript, told>>

\* What was reported as saved is where it was reported to be.
SavedIsKept ==
    \A t \in told :
        /\ t.sequence \in DOMAIN transcript[t.meeting]
        /\ transcript[t.meeting][t.sequence] = t.final

=============================================================================
