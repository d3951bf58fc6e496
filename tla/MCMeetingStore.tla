--------------------------- MODULE MCMeetingStore ---------------------------
(* MeetingStore on small instances; threads, segments and texts are           *)
(* interchangeable.                                                          *)
EXTENDS MeetingStore, TLC

StoreSymmetry == Permutations(Clients) \cup Permutations(Segments) \cup Permutations(Texts)

=============================================================================
