--------------------------- MODULE SchemaMigration ---------------------------
(***************************************************************************)
(* What migrate in mvp/storage.rs makes of a database file of an earlier    *)
(* release.  A file is a version, the checksum recorded for it (known or    *)
(* not) and its parts: a part is a group of tables or columns that one      *)
(* version introduced.  Column definitions and indexes are left out, except *)
(* for the columns of mvp_meetings that the queries of the library name.    *)
(***************************************************************************)
EXTENDS Integers

SchemaVersion == 8

Parts == {"meetings", "translations", "attempts", "recovery", "timeline",
          "library", "speakers", "binaryExports", "provenance"}

(* The parts of a file as the release of that version left it *)
PartsOf(version) ==
    {p \in Parts :
        version >= CASE p = "meetings" -> 1 [] p = "translations" -> 2
                     [] p \in {"attempts", "recovery", "timeline"} -> 4
                     [] p = "library" -> 5 [] p = "speakers" -> 6
                     [] p = "binaryExports" -> 7 [] p = "provenance" -> 8}

AddV5(parts) == parts \cup {"library"}
AddV6(parts) == parts \cup {"speakers"}
AddV7(parts) == IF "meetings" \in parts THEN parts \cup {"binaryExports"} ELSE parts
AddV8(parts) == IF "library" \in parts THEN parts \cup {"provenance"} ELSE parts

(* add_final_timeline_columns *)
AddTimeline(parts) == parts \cup {"timeline"}

(* What the branch of a version does before the steps of later versions     *)
FromV1(parts) == AddTimeline(parts) \cup {"translations", "attempts", "recovery"}
FromV2(parts) == AddTimeline(parts) \cup {"attempts", "recovery"}
FromV3(parts) == AddTimeline(parts) \cup {"attempts", "recovery"}
(* An empty file gets the tables of version 4, those of exports as of 7. *)
Created == PartsOf(4) \cup {"binaryExports"}

BeforeV5(version, parts) ==
    CASE version = 0 -> Created
      [] version = 1 -> FromV1(parts)
      [] version = 2 -> FromV2(parts)
      [] version = 3 -> FromV3(parts)
      [] OTHER -> parts

LaterSteps(version, parts) ==
    CASE version = 7 -> AddV8(parts)
      [] version = 6 -> AddV8(AddV7(parts))
      [] version = 5 -> AddV8(AddV7(AddV6(parts)))
      [] OTHER -> AddV8(AddV7(AddV6(AddV5(BeforeV5(version, parts)))))

(* Versions whose translations become the first attempt of each segment *)
CopiesAttempts(version) == version \in {2, 3}

(* migrate refuses a newer file, and one whose checksum it does not know. *)
Accepts(file) == file.version \in 0..SchemaVersion /\ (file.version = 0 \/ file.known)

Migrated(file) ==
    IF file.version = SchemaVersion THEN file
    ELSE [version |-> SchemaVersion, known |-> TRUE, parts |-> LaterSteps(file.version, file.parts)]

(* validate_schema, run by every read connection *)
Readable(file) == file.version = SchemaVersion /\ file.known

(* The columns of mvp_meetings *)
MeetingColumns(parts) ==
    {"id", "state", "started_at", "ended_at", "last_opened_at", "last_final_sequence"} \cup
    (IF "library" \in parts THEN {"title", "language", "deleted_at", "delete_tombstone_id"} ELSE {})

=============================================================================
