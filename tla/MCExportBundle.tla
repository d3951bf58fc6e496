---------------------------- MODULE MCExportBundle ----------------------------
(* Instance of ExportBundle, and with it of MeetingLibrary, for TLC. *)
EXTENDS ExportBundle

(* Two formats of everything a user may choose, without the originals; and  *)
(* a document with the labels of the first version of speakers.             *)
Translated ==
    [formats |-> <<"txt", "json">>, original |-> FALSE, translation |-> FALSE, bilingual |-> TRUE, speaker |-> FALSE,
     summary |-> TRUE, timestamp |-> TRUE, speakerVersion |-> 0, summaryVersion |-> 0]
Labelled ==
    [formats |-> <<"docx", "markdown">>, original |-> TRUE, translation |-> FALSE, bilingual |-> FALSE, speaker |-> TRUE,
     summary |-> TRUE, timestamp |-> FALSE, speakerVersion |-> 1, summaryVersion |-> 2]

MCAskedOptions == {Translated, Labelled}

Threads == Permutations(Clients)

=============================================================================
