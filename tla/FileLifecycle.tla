---------------------------- MODULE FileLifecycle ----------------------------
(***************************************************************************)
(* What the audit DAO promises about the life of a file, without tables,   *)
(* events or counts (the FileStatus docstring of src/src/metadata/audit.py *)
(* and its mark_failed).  A file is registered once, goes forward one      *)
(* stage at a time, and can fail; nothing leaves "failed".  Ingestion is   *)
(* per file.  The Silver stages move every registered file of a source in  *)
(* a batch at once, or none of them.                                       *)
(***************************************************************************)
CONSTANTS Batch, File, Source, SourceOf

VARIABLE phase      \* the stage of each (batch, file); "absent" before it is known

Key == Batch \X File

Present(b, s) == { k \in Key : k[1] = b /\ SourceOf[k[2]] = s /\ phase[k] # "absent" }

Init == phase = [k \in Key |-> "absent"]

Advance(k, from, to) ==
    /\ phase[k] = from
    /\ phase' = [phase EXCEPT ![k] = to]

AdvanceSource(b, s, from, to) ==
    /\ Present(b, s) # {}
    /\ \A k \in Present(b, s) : phase[k] = from
    /\ phase' = [k \in Key |-> IF k \in Present(b, s) THEN to ELSE phase[k]]

(* From any stage, the finished one included: mark_failed does not look. *)
Fail(k) ==
    /\ phase[k] # "absent"
    /\ phase' = [phase EXCEPT ![k] = "failed"]

Next ==
    \/ \E k \in Key :
          \/ Advance(k, "absent", "registered")
          \/ Advance(k, "registered", "ingesting")
          \/ Advance(k, "ingesting", "ingested")
          \/ Fail(k)
    \/ \E b \in Batch, s \in Source :
          \/ AdvanceSource(b, s, "ingested", "transforming")
          \/ AdvanceSource(b, s, "transforming", "transformed")

Spec == Init /\ [][Next]_phase
=============================================================================
