----------------------------- MODULE MCFileAudit -----------------------------
(***************************************************************************)
(* FileAudit for TLC: two files of one source in one batch, the case the   *)
(* source-grain writers have to get right.                                 *)
(***************************************************************************)
EXTENDS FileAudit, TLC, Functions

CONSTANT players

OneSource == [f \in File |-> players]

(* Files and checksums are interchangeable. *)
FileSymmetry == Permutations(File) \cup Permutations(Checksum)

(* MaxNotes bounds the repeatable events of each file.  A history keeps to the
   notes of one question, to a number of them altogether, those that a
   reconciliation still owes included; the clock goes on only between
   lifecycle events.                                                       *)
NotesOf(k) == SelectSeq(file_audit_events[k], LAMBDA e : e.type \in Repeatable)

NotesAre(types, limit) ==
    LET notes == [k \in Key |-> NotesOf(k)] IN
    /\ \A k \in Key : \A i \in DOMAIN notes[k] : notes[k][i].type \in types
    /\ FoldFunction(LAMBDA s, n : Len(s) + n, Cardinality(pending), notes)
         <= IF clock = 0 THEN limit ELSE 0

(* Enough for a count that is written to one file, and again after the second
   file has been registered.                                               *)
SourceGrainNotes == NotesAre({"dq_completed", "gold_finished", "failed"}, 3) /\ pending = {}

(* Enough for a reconciliation that reads two files and writes their events
   while other callers move them on, or reads a file that then fails.      *)
ReconciliationNotes == NotesAre({"failed", "reconciled"}, 2)

OneQuestion == SourceGrainNotes \/ ReconciliationNotes
=============================================================================
