----------------------------- MODULE BronzeLayer -----------------------------
(***************************************************************************)
(* The Bronze layer: run_bronze (src/src/bronze/run.py) looping over the   *)
(* registry, write_bronze_source (writer.py) taking one source through its *)
(* phases, and the Bronze resolver (resolver.py) that later layers read    *)
(* through.                                                                *)
(*                                                                         *)
(* Four stores survive a run: the raw files of the vendor, the file_audit  *)
(* table, the bronze rows of pipeline_runs, and the partition directories  *)
(* <bronze>/<source>/batch_id=<batch>.  The run itself is a process that   *)
(* makes one change to one store per step and can be killed between any    *)
(* two.  One process at a time runs Bronze: the DAG has max_active_runs=1  *)
(* and the command line runner is a single process.                        *)
(***************************************************************************)
EXTENDS AuditTable, Sequences

CONSTANTS
    Registry,           \* the sources in registry order
    FileOf,             \* the raw file of a source
    Contents,           \* what a vendor may deliver for a source: sets of checksums
    RowsIn,             \* the number of rows of the file with a checksum
    MaxAttempts,        \* bound on the runs of one batch
    MaxCrashes,         \* bound on killed runs
    MaxWriteErrors,     \* bound on failed partition writes
    MidRun              \* what the vendor may do to a file under a running batch

Torn  == "torn"     \* a directory with part of a write in it
NoDir == "no dir"

ASSUME BronzeAssumption ==
    /\ Registry \in Seq(Source) /\ Registry # << >>
    /\ FileOf \in [Source -> File]
    /\ \A s \in Source : SourceOf[FileOf[s]] = s
    /\ Contents \in [Source -> SUBSET Checksum]
    /\ RowsIn \in [Checksum -> Nat]
    /\ \A s, r \in Source : s # r => Contents[s] \cap Contents[r] = {}
    /\ NULL \notin Checksum \cup Batch \cup Key
    /\ {Torn, NoDir} \cap Checksum = {}
    /\ {MaxAttempts, MaxCrashes, MaxWriteErrors} \subseteq Nat
    /\ MidRun \subseteq {"replace", "withdraw"}

VARIABLES
    raw,            \* the file of a source in the raw directory, NULL if missing
    file_audit,     \* the audit table
    pipeline_runs,  \* the status of the bronze layer per batch, "none" without a row
    lake,           \* what is in the partition directory of (source, batch)
    clock,          \* _utcnow(): the second of the last registration
    pc, batch, pos, \* where the run is: step, its batch, the index of its source
    frame,          \* the checksum of the bytes the run holds in memory
    md5,            \* the fingerprint it computed
    prior,          \* the row whose ingestion makes this one a duplicate, or NULL
    failures,       \* the positions whose result is "failed"
    attempts,       \* runs started per batch
    crashes, writeErrors,
    disturbed       \* did anything outside the program go wrong in this run?

stores == <<raw, file_audit, pipeline_runs, lake>>
run    == <<pc, batch, pos, frame, md5, prior, failures>>
bounds == <<attempts, crashes, writeErrors, disturbed>>
vars   == <<stores, clock, run, bounds>>

source == Registry[pos]
key    == <<batch, FileOf[source]>>

Init ==
    /\ raw \in [Source -> Checksum \cup {NULL}]
    /\ \A s \in Source : raw[s] \in Contents[s] \cup {NULL}
    /\ file_audit = << >>
    /\ pipeline_runs = [b \in Batch |-> "none"]
    /\ lake = [p \in Source \X Batch |-> NoDir]
    /\ clock = 0
    /\ pc = "idle" /\ batch = NULL /\ pos = 0
    /\ frame = NULL /\ md5 = NULL /\ prior = NULL /\ failures = {}
    /\ attempts = [b \in Batch |-> 0]
    /\ crashes = 0 /\ writeErrors = 0 /\ disturbed = FALSE

-----------------------------------------------------------------------------
(* The run *)

has_succeeded(b) == pipeline_runs[b] = "success"

(* A batch that has succeeded is skipped whole, which changes nothing.
   mark_started is an upsert: it also restarts a failed or abandoned run.  *)
StartRun(b) ==
    /\ pc = "idle"
    /\ ~has_succeeded(b)
    /\ attempts[b] < MaxAttempts
    /\ pipeline_runs' = [pipeline_runs EXCEPT ![b] = "running"]
    /\ batch' = b /\ pos' = 1 /\ pc' = "load"
    /\ attempts' = [attempts EXCEPT ![b] = @ + 1]
    /\ UNCHANGED <<raw, file_audit, lake, clock, frame, md5, prior, failures, crashes, writeErrors, disturbed>>

(* The result of one source, and on to the next one; the last one leads to
   the verdict.                                                            *)
NextSource(failed) ==
    /\ failures' = IF failed THEN failures \cup {pos} ELSE failures
    /\ IF pos < Len(Registry) THEN pos' = pos + 1 /\ pc' = "load"
                              ELSE pos' = pos /\ pc' = "verdict"
    /\ frame' = NULL /\ md5' = NULL /\ prior' = NULL
    /\ UNCHANGED <<batch, attempts, crashes, writeErrors>>

(* The end of the process; what it held in memory is gone. *)
Exit ==
    /\ pc' = "idle" /\ batch' = NULL /\ pos' = 0
    /\ frame' = NULL /\ md5' = NULL /\ prior' = NULL /\ failures' = {}
    /\ disturbed' = FALSE
    /\ UNCHANGED attempts

GoTo(step) ==
    /\ pc' = step
    /\ UNCHANGED <<batch, pos, failures, attempts, crashes, writeErrors, disturbed>>

(* Mutant: FileNotFoundError is not caught. *)
LoadRaises ==
    /\ pc = "load"
    /\ IF raw[source] = NULL
       THEN Exit /\ UNCHANGED <<crashes, writeErrors>>
       ELSE frame' = raw[source] /\ GoTo("fingerprint") /\ UNCHANGED <<md5, prior>>
    /\ UNCHANGED <<stores, clock>>

(* Phase 1, load_source: a missing file has no fingerprint to register, so it
   leaves no trace in the audit.                                           *)
Load ==
    /\ pc = "load"
    /\ \/ /\ raw[source] = NULL
          /\ NextSource(TRUE)
          /\ disturbed' = TRUE
       \/ /\ raw[source] # NULL
          /\ frame' = raw[source]
          /\ GoTo("fingerprint")
          /\ UNCHANGED <<md5, prior>>
    /\ UNCHANGED <<stores, clock>>

(* The checksum is computed from the path again, after the rows were read. *)
Fingerprint ==
    /\ pc = "fingerprint"
    /\ IF raw[source] = NULL
       THEN \* open() raises out of the writer: the run dies as in a crash
            /\ Exit
            /\ UNCHANGED <<crashes, writeErrors>>
       ELSE /\ md5' = raw[source]
            /\ GoTo("register")
            /\ UNCHANGED <<frame, prior>>
    /\ UNCHANGED <<stores, clock>>

(* Phase 2: a file that changed since this batch registered it is a failure
   that leaves its row alone.  A registration is stamped with the second it
   is in, which may be that of the one before, also of another batch: only
   the order of the seconds is kept.                                       *)
Register ==
    /\ pc = "register"
    /\ IF Conflicts(file_audit, key, md5)
       THEN /\ NextSource(TRUE)
            /\ disturbed' = (disturbed \/ key \in DOMAIN file_audit)
            /\ UNCHANGED <<file_audit, clock>>
       ELSE /\ \/ /\ key \in DOMAIN file_audit
                  /\ UNCHANGED <<file_audit, clock>>
               \/ /\ key \notin DOMAIN file_audit
                  /\ clock' \in {clock, clock + 1}
                  /\ file_audit' = WithRegistered(file_audit, key, md5, clock')
            /\ GoTo("check")
            /\ UNCHANGED <<frame, md5, prior>>
    /\ UNCHANGED <<raw, pipeline_runs, lake>>

(* Mutant: the comparison with the batch of the prior row is inverted. *)
CheckInverted ==
    /\ pc = "check"
    /\ LET found == PreviousIngestions(file_audit, md5) IN
       \/ found = {} /\ prior' = NULL /\ GoTo("ingest")
       \/ \E k \in found : k[1] # batch /\ prior' = NULL /\ GoTo("ingest")
       \/ prior' \in {k \in found : k[1] = batch} /\ GoTo("skip")
    /\ UNCHANGED <<stores, clock, frame, md5>>

(* Phase 3: has this checksum landed before, in another batch? *)
Check ==
    /\ pc = "check"
    /\ LET found == PreviousIngestions(file_audit, md5) IN
       \/ /\ found = {} \/ \E k \in found : k[1] = batch
          /\ prior' = NULL
          /\ GoTo("ingest")
       \/ /\ prior' \in {k \in found : k[1] # batch}
          /\ GoTo("skip")
    /\ UNCHANGED <<stores, clock, frame, md5>>

(* mark_ingesting, on the way to a skip or to a write. *)
MarkIngesting(from, to) ==
    /\ pc = from
    /\ IF CanAdvance(file_audit, {key}, "ingesting")
       THEN file_audit' = WithIngesting(file_audit, key) /\ GoTo(to)
       ELSE UNCHANGED file_audit /\ GoTo("fail")
    /\ UNCHANGED <<raw, pipeline_runs, lake, clock, frame, md5, prior>>

(* A skip records the count of the prior row, or 0, and writes nothing. *)
CompleteSkip ==
    /\ pc = "complete_skip"
    /\ LET n == file_audit[prior].bronze_rows IN
       file_audit' = WithIngested(file_audit, key, RowsIn[frame], IF n = NULL THEN 0 ELSE n)
    /\ NextSource(FALSE)
    /\ UNCHANGED <<raw, pipeline_runs, lake, clock, disturbed>>

(* Phase 4, write_parquet with mode "overwrite": the old partition directory
   goes first, then the new file is written into it.  A frame without rows
   has no partition values, so nothing is removed and nothing written.     *)
ClearPartition ==
    /\ pc = "clear"
    /\ lake' = IF RowsIn[frame] = 0 THEN lake ELSE [lake EXCEPT ![<<source, batch>>] = NoDir]
    /\ GoTo("write")
    /\ UNCHANGED <<raw, file_audit, pipeline_runs, clock, frame, md5, prior>>

WritePartition ==
    /\ pc = "write"
    /\ lake' = IF RowsIn[frame] = 0 THEN lake ELSE [lake EXCEPT ![<<source, batch>>] = frame]
    /\ GoTo("complete")
    /\ UNCHANGED <<raw, file_audit, pipeline_runs, clock, frame, md5, prior>>

(* The write raises, with or without a part of the file on disk. *)
WriteError ==
    /\ pc = "write"
    /\ writeErrors < MaxWriteErrors
    /\ writeErrors' = writeErrors + 1
    /\ \E left \in {NoDir, Torn} : lake' = [lake EXCEPT ![<<source, batch>>] = left]
    /\ pc' = "fail" /\ disturbed' = TRUE
    /\ UNCHANGED <<raw, file_audit, pipeline_runs, clock, batch, pos, frame, md5, prior,
                   failures, attempts, crashes>>

CompleteWrite ==
    /\ pc = "complete"
    /\ file_audit' = WithIngested(file_audit, key, RowsIn[frame], RowsIn[frame])
    /\ NextSource(FALSE)
    /\ UNCHANGED <<raw, pipeline_runs, lake, clock, disturbed>>

(* The except clauses of phases 3 and 4. *)
FailSource ==
    /\ pc = "fail"
    /\ file_audit' = WithFailed(file_audit, key)
    /\ NextSource(TRUE)
    /\ UNCHANGED <<raw, pipeline_runs, lake, clock, disturbed>>

(* Mutant: the batch fails only when every source did. *)
VerdictIfAny ==
    /\ pc = "verdict"
    /\ pipeline_runs' = [pipeline_runs EXCEPT ![batch] =
                            IF failures # DOMAIN Registry THEN "success" ELSE "failed"]
    /\ Exit
    /\ UNCHANGED <<raw, file_audit, lake, clock, crashes, writeErrors>>

Verdict ==
    /\ pc = "verdict"
    /\ pipeline_runs' = [pipeline_runs EXCEPT ![batch] =
                            IF failures = {} THEN "success" ELSE "failed"]
    /\ Exit
    /\ UNCHANGED <<raw, file_audit, lake, clock, crashes, writeErrors>>

(* The steps of a run after its start. *)
RunStep ==
    \/ Load \/ Fingerprint \/ Register \/ Check
    \/ MarkIngesting("skip", "complete_skip") \/ CompleteSkip
    \/ MarkIngesting("ingest", "clear") \/ ClearPartition \/ WritePartition \/ CompleteWrite
    \/ FailSource \/ Verdict

-----------------------------------------------------------------------------
(* What happens around a run *)

(* The vendor delivers, replaces or withdraws a raw file. *)
Deliver(s) ==
    /\ \E c \in Contents[s] \cup {NULL} :
          /\ c # raw[s]
          /\ pc = "idle" \/ (IF c = NULL THEN "withdraw" ELSE "replace") \in MidRun
          /\ raw' = [raw EXCEPT ![s] = c]
    /\ disturbed' = (pc # "idle")
    /\ UNCHANGED <<file_audit, pipeline_runs, lake, clock, run, attempts, crashes, writeErrors>>

(* The process is killed, or an exception escapes the writer (a malformed
   manifest, a locked database): nothing after the last step happens.  A
   write that was cut short leaves part of a file.                         *)
Crash ==
    /\ pc # "idle"
    /\ crashes < MaxCrashes
    /\ crashes' = crashes + 1
    /\ lake' \in {lake, IF pc = "write" THEN [lake EXCEPT ![<<source, batch>>] = Torn] ELSE lake}
    /\ Exit
    /\ UNCHANGED <<raw, file_audit, pipeline_runs, clock, writeErrors>>

Next ==
    \/ \E b \in Batch : StartRun(b)
    \/ RunStep
    \/ WriteError
    \/ \E s \in Source : Deliver(s)
    \/ Crash

Spec == Init /\ [][Next]_vars

(* A process that is not killed takes its next step: the runner is straight
   line code without a wait.                                               *)
FairSpec == Spec /\ WF_vars(RunStep)
-----------------------------------------------------------------------------
(* The resolver *)

(* _find_all_batches_with_checksum: the batches, other than b, in which some
   file with checksum c landed, with their last registration.              *)
CandidateBatches(c, b) ==
    { k[1] : k \in { j \in DOMAIN file_audit : /\ file_audit[j].checksum = c
                                             /\ file_audit[j].status \in LandedStatus } } \ {b}

LastLanded(c, cand) ==
    LET at == { file_audit[k].registered_at : k \in
                    { j \in BatchFiles(file_audit, cand) : /\ file_audit[j].checksum = c
                                                          /\ file_audit[j].status \in LandedStatus } }
    IN  CHOOSE n \in at : \A m \in at : m <= n

(* The batches whose partition resolve_bronze_partition may return for source
   s in batch b: its own, or the most recent candidate that is on disk; none
   means unresolvable.                                                     *)
Resolve(s, b) ==
    IF lake[<<s, b>>] # NoDir THEN {b}
    ELSE UNION { LET c      == file_audit[k].checksum
                     onDisk == { cand \in CandidateBatches(c, b) : lake[<<s, cand>>] # NoDir }
                 IN  { cand \in onDisk : \A other \in onDisk :
                                             LastLanded(c, other) <= LastLanded(c, cand) }
                 : k \in IngestionsAsOf(file_audit, s, b) }

-----------------------------------------------------------------------------
(* Properties *)

Partition == Source \X Batch
Landed(t, k) == k \in DOMAIN t /\ t[k].status \in LandedStatus
Steps == {"idle", "load", "fingerprint", "register", "check", "skip", "complete_skip",
          "ingest", "clear", "write", "complete", "fail", "verdict"}

(* The stores and the run have the shapes the code gives them. *)
TypeOK ==
    /\ raw \in [Source -> Checksum \cup {NULL}]
    /\ DOMAIN file_audit \subseteq Key
    /\ \A k \in DOMAIN file_audit : file_audit[k] \in Row
    /\ pipeline_runs \in [Batch -> {"none", "running", "success", "failed"}]
    /\ lake \in [Partition -> Checksum \cup {Torn, NoDir}]
    /\ clock \in Nat
    /\ pc \in Steps
    /\ IF pc = "idle" THEN batch = NULL ELSE batch \in Batch /\ pos \in DOMAIN Registry
    /\ {frame, md5} \subseteq Checksum \cup {NULL}
    /\ prior \in Key \cup {NULL}
    /\ failures \subseteq DOMAIN Registry

(* The two metadata tables agree: when pipeline_runs says the batch succeeded,
   every registered source landed and is still landed, whatever other batches
   and attempts do to the shared table afterwards.                         *)
SuccessMeansLanded ==
    \A b \in Batch : has_succeeded(b) =>
        \A i \in DOMAIN Registry : Landed(file_audit, <<b, FileOf[Registry[i]]>>)

(* No two batches registered a file in the same second, which is as fine as
   registered_at is (audit.py:227).                                        *)
SecondsApart ==
    \A j, k \in DOMAIN file_audit :
        j[1] # k[1] => file_audit[j].registered_at # file_audit[k].registered_at

(* The batch a source is read from has the bytes that batch b registered. *)
ReadsItsBytes(s, b) ==
    \A from \in Resolve(s, b) : lake[<<s, from>>] = file_audit[<<b, FileOf[s]>>].checksum

(* What a successful batch landed can be read back: the resolver finds, for
   every source that had rows, a partition, its own or through any chain of
   skipped duplicates, and the bytes in it are the ones the batch registered
   (resolver.py).  This holds under four conditions: no two batches register
   in the same second (of two that do, the resolver may take the wrong row
   as the most recent, audit.py:1002), the file has rows (a file without any
   lands and leaves no partition), every batch is run once and no file is
   replaced under a run.                                                   *)
SuccessfulBatchIsReadable ==
    SecondsApart =>
        \A b \in Batch : has_succeeded(b) =>
            \A i \in DOMAIN Registry :
                LET s == Registry[i] IN
                RowsIn[file_audit[<<b, FileOf[s]>>].checksum] > 0 =>
                    Resolve(s, b) # {} /\ ReadsItsBytes(s, b)

(* The counts of a landed file are those of the bytes it was registered
   with, also when the writer copied them along a chain of duplicates
   (writer.py:207).                                                        *)
LandedCountsAreTrue ==
    \A k \in DOMAIN file_audit : Landed(file_audit, k) =>
        LET r == file_audit[k] IN r.source_rows = RowsIn[r.checksum] /\ r.bronze_rows = RowsIn[r.checksum]

(* Vendor re-sends are stored once: no two batches land the same bytes of a
   source in partitions of their own.                                      *)
NoDuplicateLanding ==
    \A s \in Source : \A a, b \in Batch :
        /\ Landed(file_audit, <<a, FileOf[s]>>) /\ Landed(file_audit, <<b, FileOf[s]>>)
        /\ lake[<<s, a>>] \in Checksum /\ lake[<<s, a>>] = lake[<<s, b>>]
        => a = b

(* A partition that was written whole is never touched again, neither by a
   re-run of its batch nor by another batch: every later layer may keep
   reading it.  That is not what writer.py:32 says: "Re-running a batch
   atomically replaces just that batch's partition".  A re-run gets to no
   second write of a source, since mark_ingesting refuses it
   (CleanRunSucceeds), so that the overwriting of writer.py:249-250 happens
   neither to a whole partition nor to a torn one.                         *)
PartitionsAreImmutable ==
    [][\A p \in Partition : lake[p] \in Checksum => lake'[p] = lake[p]]_vars

(* A run to which nothing happened, all files there and unchanged, no write
   error, no crash, succeeds: "Re-running batches is safe; recovery from
   partial failure is just re-running the same DAG" (ADR-0003:159-160).    *)
CleanRunSucceeds == pc = "verdict" /\ ~disturbed => failures = {}

(* Every run ends, and it ends with its batch decided in pipeline_runs, also
   when files are missing, replaced or taken back and writes fail (run.py,
   and the except clauses of writer.py).  There are two exceptions: the run
   is killed, which stands for every exception that the writer does not
   catch, or a file that was there to be read has gone when its checksum is
   computed (file_loader.py:130, not caught at writer.py:145).             *)
RunsAreDecided ==
    /\ []<>(pc = "idle")
    /\ [][pc # "idle" /\ pc' = "idle" =>
             \/ pipeline_runs'[batch] \in {"success", "failed"}
             \/ crashes' > crashes
             \/ pc = "fingerprint" /\ raw[source] = NULL]_vars
=============================================================================
