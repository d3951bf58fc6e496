-------------------------- MODULE MCMeetingTimeline --------------------------
(* MeetingTimeline on small instances. *)
EXTENDS MeetingTimeline

=============================================================================
