--------------------------- MODULE SpeakerVersions ---------------------------
(***************************************************************************)
(* The speaker labels of a meeting (mvp/speaker.rs and the speaker tables  *)
(* of mvp/storage.rs): a chain of versions, each made by an analysis of    *)
(* the raw audio or by an edit of the version before it.  Nothing is ever  *)
(* rewritten; an undo appends a version with the labels of the parent.     *)
(*                                                                         *)
(* A labelling is abstracted to how many speakers it tells apart and to    *)
(* whether a name was given to one of them.                                *)
(***************************************************************************)
EXTENDS Naturals, Sequences

Edits == {"rename", "merge", "undo"}

Labelling == [speakers : 1..2, named : BOOLEAN]

(* SpeakerVersionSnapshot; parent 0 is None.  `click` is the history of the  *)
(* version the user was looking at: its meeting and its number.              *)
Version(labels, parent, operation, click) ==
    [labels |-> labels, parent |-> parent, operation |-> operation, click |-> click]

NoClick == [meeting |-> "none", version |-> 0]

-----------------------------------------------------------------------------
(* What a command would append (the drafts of speaker.rs). *)

(* draft_from_features: names are the default ones; the clustering is a     *)
(* function of the audio, which an algorithm of this size may still see in  *)
(* one way or the other.                                                    *)
Diarized(labels) == Version(labels, 0, "diarize", NoClick)

Renamed(chain, base, click) ==
    {Version([chain[base].labels EXCEPT !.named = given], base, "rename", click) : given \in BOOLEAN}

(* The two must be different speakers of the version. *)
Merged(chain, base, click) ==
    IF chain[base].labels.speakers < 2 THEN {}
    ELSE {Version([speakers |-> 1, named |-> given], base, "merge", click) : given \in BOOLEAN}

Undone(chain, base, click) ==
    LET parent == chain[base].parent IN
    IF parent = 0 THEN {}
    ELSE {Version(chain[parent].labels, base, "undo", click)}

(* The version must exist. *)
Drafts(chain, operation, base, click) ==
    IF base \notin DOMAIN chain THEN {}
    ELSE CASE operation = "rename" -> Renamed(chain, base, click)
           [] operation = "merge"  -> Merged(chain, base, click)
           [] operation = "undo"   -> Undone(chain, base, click)

-----------------------------------------------------------------------------
(* record_speaker_version_on_writer.  Keys of idempotency are fresh at every *)
(* click (idempotencyKey of main.ts), so that no request finds its own.      *)

(* Fault: whatever the latest version is. *)
ConflictsNever(chain, draft) == FALSE

(* base_version is the parent of an edit and None for an analysis. *)
Conflicts(chain, draft) == draft.operation # "diarize" /\ draft.parent # Len(chain)

(* An analysis that finds what the last one found is that version. *)
Repeats(chain, draft) ==
    /\ draft.operation = "diarize" /\ chain # <<>>
    /\ LET last == chain[Len(chain)] IN last.operation = "diarize" /\ last.labels = draft.labels

(* The chain afterwards; the answer is its last version. *)
Recorded(chain, draft) == IF Repeats(chain, draft) THEN chain ELSE Append(chain, draft)

-----------------------------------------------------------------------------
(* Properties of a chain. *)

(* An edit was made from the version just before it. *)
EditsAreLinear(chain) ==
    \A v \in DOMAIN chain : chain[v].operation \in Edits => chain[v].parent = v - 1

(* Labels come from an analysis or an edit of it: an undo gives back the    *)
(* labels from before the edit that it undoes, and a second undo takes the  *)
(* first one back.                                                          *)
UndoRestores(chain) ==
    \A v \in DOMAIN chain :
        chain[v].operation = "undo" =>
            /\ v > 2
            /\ chain[v].labels = chain[chain[v - 1].parent].labels
            /\ chain[v - 1].operation = "undo" => chain[v].labels = chain[v - 2].labels

=============================================================================
