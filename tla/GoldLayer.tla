------------------------------ MODULE GoldLayer ------------------------------
(***************************************************************************)
(* The DAG (src/dags/football_pipeline.py, src/src/orchestration/) from    *)
(* the point of view of Gold (src/src/gold/): which data a Gold partition  *)
(* is computed from, and what the gate in front of it keeps out.           *)
(*                                                                         *)
(* Bronze and Silver appear by what they leave behind: the partitions that *)
(* Gold's views read, the verdict, and the report the gate reads.  A       *)
(* partition is named by the batch that wrote it; a Gold file is what its  *)
(* query saw of the tables, or Torn.  Airflow (one DAG run at a time, a    *)
(* bounded number of retries of a task, a killed task is a failed try) is  *)
(* external and modelled from how the DAG uses it.                         *)
(***************************************************************************)
EXTENDS Integers, FiniteSets, Sequences, Functions

CONSTANTS
    Batch,          \* batch_id values
    SilverTable,    \* SILVER_VIEWS
    BronzeTable,    \* BRONZE_DIRECT_VIEWS: read from Bronze, no Silver layer
    ALL_ARTIFACTS,  \* the artifacts in the order of the runner
    Reads,          \* the tables of an artifact's query
    PrimarySource,  \* the source on whose audit rows its count is recorded
    NULL,
    Torn,           \* a file of which only a part was written
    Retries,        \* the DAG's retries per task
    MaxRuns,        \* bound on the DAG runs, of all batches
    MaxFaults       \* bound on the steps of Gold that raise or are killed

Table    == SilverTable \cup BronzeTable
Artifact == Range(ALL_ARTIFACTS)

(* What a query can see: the batches that have a partition in its tables. *)
Snapshots == UNION { [T -> SUBSET Batch] : T \in SUBSET Table }

ASSUME GoldAssumption ==
    /\ SilverTable \cap BronzeTable = {}
    /\ ALL_ARTIFACTS \in Seq(Artifact) /\ ALL_ARTIFACTS # << >>
    /\ Reads \in [Artifact -> SUBSET Table]
    /\ DOMAIN PrimarySource = Artifact
    /\ NULL \notin Batch \cup [artifact : Artifact, rows : BOOLEAN]
                       \cup [read : Snapshots, rows : BOOLEAN]
    /\ Torn \notin Snapshots
    /\ {Retries, MaxRuns, MaxFaults} \subseteq Nat

PrimarySources == Range(PrimarySource)

VARIABLES
    table,          \* the batches that have a partition in a table
    silver_run,     \* has the Silver layer of a batch succeeded?
    dq_report,      \* what the DQ report of a batch amounts to
    gold_run,       \* pipeline_runs of (batch, 'gold')
    gold,           \* the files in the partition of (artifact, batch)
    gold_rows,      \* gold_row_count: its artifact, and whether it counts any row
    answers,        \* history: the last build of (artifact, batch) that came to an end
    pc, batch, tries, pos, results, runs, faults

lake  == <<table, silver_run, dq_report>>
vars  == <<lake, gold_run, gold, gold_rows, answers, pc, batch, tries, pos, results, runs, faults>>

(* "absent" is a batch without a report; "excessive" has critical failures
   and a quarantine share above the threshold; "tolerable" has not both.   *)
ReportKind == {"absent", "tolerable", "excessive"}

(* The outcome of an artifact: "written" with rows, "written" without any
   (which leaves no file), and "failed".                                   *)
Outcome == {"written", "empty", "failed"}


Init ==
    /\ table = [t \in Table |-> {}]
    /\ silver_run = [b \in Batch |-> FALSE]
    /\ dq_report = [b \in Batch |-> "absent"]
    /\ gold_run = [b \in Batch |-> "none"]
    /\ gold = [p \in Artifact \X Batch |-> << >>]
    /\ gold_rows = [p \in PrimarySources \X Batch |-> NULL]
    /\ answers = [p \in Artifact \X Batch |-> NULL]
    /\ pc = "idle" /\ batch = NULL /\ tries = 0 /\ pos = 0 /\ results = << >>
    /\ runs = 0 /\ faults = 0

artifact == ALL_ARTIFACTS[pos]
here     == <<artifact, batch>>

-----------------------------------------------------------------------------
(* Tasks *)

GoTo(task) == pc' = task /\ tries' = 0 /\ UNCHANGED batch

Finish == pc' = "idle" /\ batch' = NULL /\ tries' = 0

(* Mutant: one retry too many. *)
FailsOnceMore(task) ==
    IF tries <= Retries THEN pc' = task /\ tries' = tries + 1 /\ UNCHANGED batch
                        ELSE Finish

(* Mutant: the tries are not counted. *)
FailsUncounted(task) ==
    IF tries < Retries THEN pc' = task /\ UNCHANGED <<batch, tries>>
                       ELSE Finish

(* A task raised: the same task again, or the DAG run is over. *)
Fails(task) ==
    IF tries < Retries THEN pc' = task /\ tries' = tries + 1 /\ UNCHANGED batch
                       ELSE Finish

Fault == faults < MaxFaults /\ faults' = faults + 1

(* A DAG run; max_active_runs = 1.  Bronze writes a partition of the batch,
   or skips a source whose bytes it already has.                           *)
StartDag(b) ==
    /\ pc = "idle"
    /\ runs < MaxRuns /\ runs' = runs + 1
    /\ \E skipped \in SUBSET BronzeTable :
          /\ \A t \in skipped : table[t] # {}
          /\ table' = [t \in Table |-> IF t \in BronzeTable \ skipped
                                       THEN table[t] \cup {b} ELSE table[t]]
    /\ pc' = "silver" /\ batch' = b /\ tries' = 0
    /\ UNCHANGED <<silver_run, dq_report, gold_run, gold, gold_rows, answers, pos, results, faults>>

(* What a Silver run leaves: a report (or none), the partitions it has
   written, and none where it was stopped between the removal of the old one
   and the end of the write.  What makes it a success is that no step raised:
   a table of no rows has no partition and is no failure, and a run that is
   killed with every table written is no success.                          *)
SilverRuns(written, lost, r, ok) ==
    /\ written \cap lost = {}
    /\ ok => lost = {}
    /\ table' = [t \in Table |-> IF t \in written THEN table[t] \cup {batch}
                                 ELSE IF t \in lost THEN table[t] \ {batch}
                                 ELSE table[t]]
    /\ dq_report' = [dq_report EXCEPT ![batch] = IF r = "absent" THEN @ ELSE r]
    /\ silver_run' = [silver_run EXCEPT ![batch] = ok]

(* run_silver_task.  The run is skipped after a success; the task may be
   killed after its success.                                               *)
SilverTask ==
    /\ pc = "silver"
    /\ \/ silver_run[batch] /\ UNCHANGED lake /\ GoTo("dq_gate")
       \/ /\ ~silver_run[batch]
          /\ \E written, lost \in SUBSET SilverTable, r \in ReportKind, ok \in BOOLEAN :
                /\ SilverRuns(written, lost, r, ok)
                /\ (ok /\ GoTo("dq_gate")) \/ Fails("silver")
    /\ UNCHANGED <<gold_run, gold, gold_rows, answers, pos, results, runs, faults>>

(* critical_failures > 0 and quarantine_pct > quarantine_threshold_pct; a
   batch without a report passes.                                          *)
GateFails(b) == dq_report[b] = "excessive"

(* Mutant: Gold starts when the gate is done, passed or not. *)
DqGateDone ==
    /\ pc = "dq_gate"
    /\ IF GateFails(batch) /\ tries < Retries THEN Fails("dq_gate") ELSE GoTo("gold")
    /\ UNCHANGED <<lake, gold_run, gold, gold_rows, answers, pos, results, runs, faults>>

DqGate ==
    /\ pc = "dq_gate"
    /\ IF GateFails(batch) THEN Fails("dq_gate") ELSE GoTo("gold")
    /\ UNCHANGED <<lake, gold_run, gold, gold_rows, answers, pos, results, runs, faults>>

-----------------------------------------------------------------------------
(* run_gold *)

Skip ==
    /\ pc = "gold"
    /\ gold_run[batch] = "success"
    /\ Finish
    /\ UNCHANGED <<lake, gold_run, gold, gold_rows, answers, pos, results, runs, faults>>

(* The session is opened, or every artifact is marked as failed: a view on a
   table whose directory is empty cannot be created.                       *)
StartGold ==
    /\ pc = "gold"
    /\ gold_run[batch] # "success"
    /\ gold_run' = [gold_run EXCEPT ![batch] = "running"]
    /\ \/ pc' = "build" /\ pos' = 1 /\ results' = << >> /\ UNCHANGED faults
       \/ /\ ((\E t \in Table : table[t] = {}) /\ UNCHANGED faults) \/ Fault
          /\ pc' = "verdict" /\ pos' = 0
          /\ results' = [i \in DOMAIN ALL_ARTIFACTS |-> "failed"]
    /\ UNCHANGED <<lake, gold, gold_rows, answers, batch, tries, runs>>

(* The views read every partition there is of a table (the glob of
   register_views), whichever batch wrote it.                              *)
Snapshot(a) == [t \in Reads[a] |-> table[t]]

NextArtifact(loop, after) ==
    /\ IF pos < Len(ALL_ARTIFACTS) THEN pos' = pos + 1 /\ pc' = loop
                                   ELSE pos' = 1 /\ pc' = after
    /\ UNCHANGED <<batch, tries>>

AddFile(f) == gold' = [gold EXCEPT ![here] = Append(@, f)]

Answer(rows) == answers' = [answers EXCEPT ![here] = [read |-> Snapshot(artifact), rows |-> rows]]

(* The write adds a file of a new name to the partition directory; what is
   in the directory stays.  A result without rows is "written" as no file.  A
   query on a table without any partition raises; one that reads a torn
   partition raises too, and is among the faults.  A write that raises may
   leave a part of its file.                                               *)
BuildGold ==
    /\ pc = "build"
    /\ LET canBuild == \A t \in Reads[artifact] : table[t] # {} IN
       \/ /\ canBuild /\ AddFile(Snapshot(artifact)) /\ Answer(TRUE)
          /\ results' = Append(results, "written") /\ UNCHANGED faults
       \/ /\ canBuild /\ Answer(FALSE)
          /\ results' = Append(results, "empty") /\ UNCHANGED <<gold, faults>>
       \/ /\ canBuild /\ Fault /\ (AddFile(Torn) \/ UNCHANGED gold)
          /\ results' = Append(results, "failed") /\ UNCHANGED answers
       \/ /\ ~canBuild
          /\ results' = Append(results, "failed") /\ UNCHANGED <<gold, answers, faults>>
    /\ NextArtifact("build", "record")
    /\ UNCHANGED <<lake, gold_run, gold_rows, runs>>

Count == [artifact |-> artifact, rows |-> results[pos] = "written"]

(* Mutant: failed artifacts are recorded too. *)
RecordGoldAlways ==
    /\ pc = "record"
    /\ gold_rows' = [gold_rows EXCEPT ![<<PrimarySource[artifact], batch>>] = Count]
    /\ NextArtifact("record", "verdict")
    /\ UNCHANGED <<lake, gold_run, gold, answers, results, runs, faults>>

(* record_gold_complete for an artifact that was written; best effort. *)
RecordGold ==
    /\ pc = "record"
    /\ \/ /\ results[pos] # "failed" /\ UNCHANGED faults
          /\ gold_rows' = [gold_rows EXCEPT ![<<PrimarySource[artifact], batch>>] = Count]
       \/ /\ IF results[pos] # "failed" THEN Fault ELSE UNCHANGED faults
          /\ UNCHANGED gold_rows
    /\ NextArtifact("record", "verdict")
    /\ UNCHANGED <<lake, gold_run, gold, answers, results, runs>>

(* Mutant: the layer fails only when every artifact did. *)
VerdictIfAny ==
    /\ pc = "verdict"
    /\ LET ok == \E i \in DOMAIN results : results[i] # "failed" IN
       /\ gold_run' = [gold_run EXCEPT ![batch] = IF ok THEN "success" ELSE "failed"]
       /\ IF ok THEN Finish ELSE Fails("gold")
    /\ pos' = 0 /\ results' = << >>
    /\ UNCHANGED <<lake, gold, gold_rows, answers, runs, faults>>

Verdict ==
    /\ pc = "verdict"
    /\ LET ok == "failed" \notin Range(results) IN
       /\ gold_run' = [gold_run EXCEPT ![batch] = IF ok THEN "success" ELSE "failed"]
       /\ IF ok THEN Finish ELSE Fails("gold")
    /\ pos' = 0 /\ results' = << >>
    /\ UNCHANGED <<lake, gold, gold_rows, answers, runs, faults>>

(* The task is killed, perhaps in the middle of a write. *)
Killed ==
    /\ pc \in {"build", "record", "verdict"}
    /\ Fault
    /\ Fails("gold")
    /\ (pc = "build" /\ AddFile(Torn)) \/ UNCHANGED gold
    /\ pos' = 0 /\ results' = << >>
    /\ UNCHANGED <<lake, gold_run, gold_rows, answers, runs>>

TaskStep ==
    \/ SilverTask \/ DqGate
    \/ Skip \/ StartGold \/ BuildGold \/ RecordGold \/ Verdict

Next ==
    \/ \E b \in Batch : StartDag(b)
    \/ TaskStep
    \/ Killed

Spec == Init /\ [][Next]_vars

(* The executor runs a task that is due, and the tasks wait for nothing. *)
FairSpec == Spec /\ WF_vars(TaskStep)

-----------------------------------------------------------------------------
(* Properties *)

Files(a, b) == Range(gold[<<a, b>>])

(* The lake and the run have the shapes the DAG and run_gold give them; the
   results of a run keep step with the artifact it is at.                  *)
TypeOK ==
    /\ table \in [Table -> SUBSET Batch]
    /\ silver_run \in [Batch -> BOOLEAN]
    /\ dq_report \in [Batch -> ReportKind]
    /\ gold_run \in [Batch -> {"none", "running", "success", "failed"}]
    /\ \A p \in Artifact \X Batch : gold[p] \in Seq(Snapshots \cup {Torn})
    /\ gold_rows \in [PrimarySources \X Batch ->
                        [artifact : Artifact, rows : BOOLEAN] \cup {NULL}]
    /\ answers \in [Artifact \X Batch -> [read : Snapshots, rows : BOOLEAN] \cup {NULL}]
    /\ results \in Seq(Outcome)
    /\ tries \in 0..Retries
    /\ (pc = "idle") <=> (batch = NULL)
    /\ pc \in {"build", "record"} => pos \in DOMAIN ALL_ARTIFACTS
    /\ pc = "build" => Len(results) = pos - 1
    /\ pc \in {"record", "verdict"} => Len(results) = Len(ALL_ARTIFACTS)

(* "critical DQ failures affecting > 5% of rows stop the pipeline before
   downstream consumers see partial data" (football_pipeline.py:18-21): a
   batch that the gate would refuse has no Gold partition, however often its
   DAG run, its tasks and their retries are started.                       *)
BlockedBatchHasNoGold ==
    \A b \in Batch, a \in Artifact : GateFails(b) => gold[<<a, b>>] = << >>

(* A Gold layer recorded as successful has an answer for every artifact: its
   query ran on what Silver left of its own batch, all of it and nothing that
   came later, and if it had rows they are on disk.  "success" survives the
   retries and the killed tries that came before (gold/run.py:286).  What the
   query read of the other batches is GoldReflectsOnlyItsBatch.            *)
SuccessIsFresh ==
    \A b \in Batch, a \in Artifact :
        gold_run[b] = "success" =>
            /\ answers[<<a, b>>] # NULL
            /\ \A t \in Reads[a] \cap SilverTable :
                  b \in answers[<<a, b>>].read[t] <=> b \in table[t]
            /\ answers[<<a, b>>].rows => answers[<<a, b>>].read \in Files(a, b)

(* The lineage count is the count of an artifact that was built: several
   artifacts share a primary source and the last one wins, but none is
   recorded that failed, and a count of some rows has a whole file on disk,
   however many tries came after it (gold/run.py:249-261).                 *)
RecordedMeansOnDisk ==
    \A s \in PrimarySources, b \in Batch :
        gold_rows[<<s, b>>] # NULL =>
            LET a == gold_rows[<<s, b>>].artifact IN
            /\ answers[<<a, b>>] # NULL
            /\ gold_rows[<<s, b>>].rows => \E f \in Files(a, b) : f # Torn

(* The DAG does not wait for itself: a gate that refuses, a Silver task that
   fails and a Gold task that fails or is killed are retried a bounded number
   of times, and a DAG run that was started is over at some time, so that the
   next one can start (max_active_runs = 1, football_pipeline.py).         *)
DagRunsEnd == \A b \in Batch : batch = b ~> pc = "idle"
=============================================================================
