--------------------------- MODULE GoldLayerProofs ---------------------------
(***************************************************************************)
(* Theorems about GoldLayer, for any batches, tables, artifacts, queries,  *)
(* retries and bounds.                                                     *)
(***************************************************************************)
EXTENDS GoldLayer, SequenceTheorems, TLAPS

Task == {"idle", "silver", "dq_gate", "gold", "build", "record", "verdict"}

(* TypeOK in two parts, with the types of the process. *)
StoresType ==
    /\ table \in [Table -> SUBSET Batch]
    /\ silver_run \in [Batch -> BOOLEAN]
    /\ dq_report \in [Batch -> ReportKind]
    /\ gold_run \in [Batch -> {"none", "running", "success", "failed"}]
    /\ \A p \in Artifact \X Batch : gold[p] \in Seq(Snapshots \cup {Torn})
    /\ gold_rows \in [PrimarySources \X Batch ->
                        [artifact : Artifact, rows : BOOLEAN] \cup {NULL}]
    /\ answers \in [Artifact \X Batch -> [read : Snapshots, rows : BOOLEAN] \cup {NULL}]

ProcessType ==
    /\ pc \in Task
    /\ batch \in Batch \cup {NULL}
    /\ pc = "idle" <=> batch = NULL
    /\ tries \in 0 .. Retries
    /\ results \in Seq(Outcome)
    /\ pc \in {"build", "record"} => pos \in DOMAIN ALL_ARTIFACTS
    /\ pc = "build" => Len(results) = pos - 1
    /\ pc \in {"record", "verdict"} => Len(results) = Len(ALL_ARTIFACTS)

(* gold is a function, which TypeOK leaves to its use. *)
TypeInv == StoresType /\ ProcessType /\ DOMAIN gold = Artifact \X Batch

LEMMA TypeInvIsTypeOK == TypeInv => TypeOK
BY DEF TypeInv, StoresType, ProcessType, TypeOK

(* The DAG passes the gate only with a batch that Silver succeeded for, and
   one that the gate lets through; so what has Gold had both.  A Silver run
   that is skipped leaves the partitions and the report alone, which makes
   this inductive.                                                         *)
GateInv ==
    /\ pc \in Task \ {"idle", "silver"} => silver_run[batch]
    /\ pc \in Task \ {"idle", "silver", "dq_gate"} => ~GateFails(batch)
    /\ \A b \in Batch, a \in Artifact :
          gold[<<a, b>>] # << >> \/ answers[<<a, b>>] # NULL => silver_run[b] /\ ~GateFails(b)

(* An answer is one about what Silver has left of its batch, and its rows
   are on disk.                                                            *)
AnswerInv ==
    \A b \in Batch, a \in Artifact :
        answers[<<a, b>>] # NULL =>
            /\ \A t \in Reads[a] \cap SilverTable :
                  b \in answers[<<a, b>>].read[t] <=> b \in table[t]
            /\ answers[<<a, b>>].rows => answers[<<a, b>>].read \in Files(a, b)

(* What an artifact is said to be: built, and with rows on disk. *)
Built(a, b, rows) ==
    /\ answers[<<a, b>>] # NULL
    /\ rows => \E f \in Files(a, b) : f # Torn

(* What a run takes for written was built, and so was what the audit rows
   and pipeline_runs say has been written.                                 *)
DiskInv ==
    /\ pc \in {"idle", "silver", "dq_gate", "gold"} => results = << >>
    /\ \A i \in DOMAIN results :
          results[i] # "failed" => Built(ALL_ARTIFACTS[i], batch, results[i] = "written")
    /\ \A b \in Batch : gold_run[b] = "success" => \A a \in Artifact : answers[<<a, b>>] # NULL
    /\ RecordedMeansOnDisk

IInv == TypeInv /\ GateInv /\ AnswerInv /\ DiskInv

-----------------------------------------------------------------------------

LEMMA InitIInv == Init => IInv
<1> SUFFICES ASSUME Init PROVE IInv
  OBVIOUS
<1>1. TypeInv
  BY GoldAssumption DEF Init, TypeInv, StoresType, ProcessType, Task, ReportKind
<1>2. GateInv
  BY DEF Init, GateInv, GateFails
<1>3. AnswerInv
  BY DEF Init, AnswerInv
<1>4. DiskInv
  BY DEF Init, DiskInv, RecordedMeansOnDisk
<1>5. QED
  BY <1>1, <1>2, <1>3, <1>4 DEF IInv

LEMMA AllNonEmpty ==
    /\ 1 \in DOMAIN ALL_ARTIFACTS /\ Len(ALL_ARTIFACTS) \in Nat
    /\ DOMAIN ALL_ARTIFACTS = 1 .. Len(ALL_ARTIFACTS)
    /\ \A i \in DOMAIN ALL_ARTIFACTS : ALL_ARTIFACTS[i] \in Artifact
    /\ \A a \in Artifact : \E i \in DOMAIN ALL_ARTIFACTS : ALL_ARTIFACTS[i] = a
BY GoldAssumption DEF Artifact, Range

(* A task that failed is tried again or ends the DAG run. *)
LEMMA FailsType ==
    ASSUME ProcessType, pc # "idle", NEW task \in Task \ {"idle"}, Fails(task)
    PROVE  /\ tries' \in 0 .. Retries
           /\ (pc' = task /\ batch' = batch) \/ (pc' = "idle" /\ batch' = NULL)
           /\ (pc' = "idle") <=> (batch' = NULL)
           /\ pc' \in Task /\ batch' \in Batch \cup {NULL}
BY GoldAssumption DEF Fails, Finish, ProcessType, Task

(* What a query can see is a snapshot, and no torn file. *)
LEMMA SnapshotType ==
    ASSUME TypeInv, NEW a \in Artifact
    PROVE  Snapshot(a) \in Snapshots /\ Snapshot(a) # Torn
<1>1. Reads[a] \in SUBSET Table
  BY GoldAssumption
<1>2. Snapshot(a) \in [Reads[a] -> SUBSET Batch]
  BY <1>1 DEF Snapshot, TypeInv, StoresType
<1>3. QED
  BY <1>1, <1>2, GoldAssumption DEF Snapshots

(* The files of a partition are only ever added to. *)
LEMMA GoldGrows ==
    ASSUME TypeInv, [Next]_vars
    PROVE  \/ gold' = gold
           \/ /\ here \in Artifact \X Batch /\ pc = "build"
              /\ \E f \in Snapshots \cup {Torn} : AddFile(f)
<1>1. CASE BuildGold \/ (Killed /\ pc = "build")
  <2>1. here \in Artifact \X Batch /\ artifact \in Artifact /\ pc = "build"
    BY <1>1, AllNonEmpty, GoldAssumption DEF BuildGold, TypeInv, ProcessType, here, artifact
  <2>2. QED
    BY <1>1, <2>1, SnapshotType DEF BuildGold, Killed
<1>2. CASE gold' = gold
  BY <1>2
<1>3. QED
  BY <1>1, <1>2 DEF Next, TaskStep, StartDag, SilverTask, DqGate, Skip, StartGold, RecordGold,
         Verdict, Killed, vars

(* So are the answers: an answer is replaced by one of a later query. *)
LEMMA AnswersGrow ==
    ASSUME TypeInv, [Next]_vars
    PROVE  \/ answers' = answers
           \/ /\ BuildGold /\ here \in Artifact \X Batch
              /\ \/ Answer(TRUE) /\ AddFile(Snapshot(artifact))
                 \/ Answer(FALSE) /\ gold' = gold
<1>1. CASE BuildGold
  <2>1. here \in Artifact \X Batch
    BY <1>1, AllNonEmpty, GoldAssumption DEF BuildGold, TypeInv, ProcessType, here, artifact
  <2>2. QED
    BY <1>1, <2>1 DEF BuildGold
<1>2. CASE answers' = answers
  BY <1>2
<1>3. QED
  BY <1>1, <1>2 DEF Next, TaskStep, StartDag, SilverTask, DqGate, Skip, StartGold, RecordGold,
         Verdict, Killed, vars

(* Files and answers keep their types. *)
LEMMA FilesType ==
    ASSUME TypeInv, [Next]_vars
    PROVE  /\ \A p \in Artifact \X Batch : gold'[p] \in Seq(Snapshots \cup {Torn})
           /\ DOMAIN gold' = Artifact \X Batch
           /\ answers' \in [Artifact \X Batch -> [read : Snapshots, rows : BOOLEAN] \cup {NULL}]
<1> USE DEF TypeInv, StoresType
<1>1. ASSUME here \in Artifact \X Batch, \E f \in Snapshots \cup {Torn} : AddFile(f)
      PROVE  /\ \A p \in Artifact \X Batch : gold'[p] \in Seq(Snapshots \cup {Torn})
             /\ DOMAIN gold' = Artifact \X Batch
  <2>1. PICK f \in Snapshots \cup {Torn} : gold' = [gold EXCEPT ![here] = Append(gold[here], f)]
    BY <1>1 DEF AddFile
  <2>2. Append(gold[here], f) \in Seq(Snapshots \cup {Torn})
    BY <1>1, <2>1
  <2>3. DOMAIN gold' = Artifact \X Batch
    BY <2>1
  <2>4. \A p \in Artifact \X Batch : gold'[p] = gold[p] \/ gold'[p] = Append(gold[here], f)
    BY <1>1, <2>1
  <2>5. \A p \in Artifact \X Batch : gold'[p] \in Seq(Snapshots \cup {Torn})
    BY <2>2, <2>4
  <2>6. QED
    BY <2>3, <2>5
<1>2. /\ \A p \in Artifact \X Batch : gold'[p] \in Seq(Snapshots \cup {Torn})
      /\ DOMAIN gold' = Artifact \X Batch
  BY <1>1, GoldGrows
<1>3. ASSUME BuildGold, NEW rows \in BOOLEAN, Answer(rows)
      PROVE  answers' \in [Artifact \X Batch -> [read : Snapshots, rows : BOOLEAN] \cup {NULL}]
  <2>1. artifact \in Artifact /\ here \in Artifact \X Batch
    BY <1>3, AllNonEmpty, GoldAssumption DEF BuildGold, ProcessType, here, artifact
  <2>2. [read |-> Snapshot(artifact), rows |-> rows] \in [read : Snapshots, rows : BOOLEAN]
    BY <2>1, SnapshotType
  <2>3. QED
    BY <1>3, <2>1, <2>2 DEF Answer
<1>4. answers' \in [Artifact \X Batch -> [read : Snapshots, rows : BOOLEAN] \cup {NULL}]
  BY <1>3, AnswersGrow
<1>5. QED
  BY <1>2, <1>4

(* The stores keep their types. *)
LEMMA StoresStep ==
    ASSUME TypeInv, [Next]_vars
    PROVE  StoresType' /\ DOMAIN gold' = Artifact \X Batch
<1> DEFINE Rest ==
      /\ table' \in [Table -> SUBSET Batch]
      /\ silver_run' \in [Batch -> BOOLEAN]
      /\ dq_report' \in [Batch -> ReportKind]
      /\ gold_run' \in [Batch -> {"none", "running", "success", "failed"}]
      /\ gold_rows' \in [PrimarySources \X Batch ->
                            [artifact : Artifact, rows : BOOLEAN] \cup {NULL}]
<1> SUFFICES Rest
  BY FilesType DEF StoresType
<1>0. /\ ProcessType
      /\ table \in [Table -> SUBSET Batch]
      /\ silver_run \in [Batch -> BOOLEAN]
      /\ dq_report \in [Batch -> ReportKind]
      /\ gold_run \in [Batch -> {"none", "running", "success", "failed"}]
      /\ gold_rows \in [PrimarySources \X Batch ->
                           [artifact : Artifact, rows : BOOLEAN] \cup {NULL}]
  BY DEF TypeInv, StoresType
<1>1. ASSUME NEW b \in Batch, StartDag(b) PROVE Rest
  BY <1>0, <1>1 DEF StartDag, Table
<1>2. CASE SilverTask
  <2>1. batch \in Batch
    BY <1>0, <1>2, GoldAssumption DEF SilverTask, ProcessType
  <2>2. CASE UNCHANGED lake
    BY <1>0, <1>2, <2>2 DEF SilverTask, lake
  <2>3. ASSUME NEW written \in SUBSET SilverTable, NEW lost \in SUBSET SilverTable,
               NEW r \in ReportKind, NEW ok \in BOOLEAN, SilverRuns(written, lost, r, ok)
        PROVE  Rest
    <3>1. table' \in [Table -> SUBSET Batch]
      BY <1>0, <2>1, <2>3 DEF SilverRuns
    <3>2. dq_report' \in [Batch -> ReportKind]
      BY <1>0, <2>3 DEF SilverRuns
    <3>3. silver_run' \in [Batch -> BOOLEAN]
      BY <1>0, <2>3 DEF SilverRuns
    <3>4. QED
      BY <1>0, <1>2, <3>1, <3>2, <3>3 DEF SilverTask
  <2>4. QED
    BY <1>2, <2>2, <2>3 DEF SilverTask
<1>3. CASE DqGate \/ Skip \/ Killed
  BY <1>0, <1>3 DEF DqGate, Skip, Killed, lake
<1>4. CASE StartGold
  BY <1>0, <1>4 DEF StartGold, lake
<1>5. CASE BuildGold
  BY <1>0, <1>5 DEF BuildGold, lake
<1>6. CASE RecordGold
  <2>1. batch \in Batch /\ artifact \in Artifact
    BY <1>0, <1>6, AllNonEmpty, GoldAssumption DEF RecordGold, ProcessType, artifact
  <2>2. PrimarySource[artifact] \in PrimarySources
    BY <2>1, GoldAssumption DEF PrimarySources, Range
  <2>3. gold_rows' \in [PrimarySources \X Batch ->
                          [artifact : Artifact, rows : BOOLEAN] \cup {NULL}]
    <3>1. Count \in [artifact : Artifact, rows : BOOLEAN]
      BY <2>1 DEF Count
    <3>2. QED
      BY <1>0, <1>6, <2>1, <2>2, <3>1 DEF RecordGold
  <2>4. QED
    BY <1>0, <1>6, <2>3 DEF RecordGold, lake
<1>7. CASE Verdict
  BY <1>0, <1>7 DEF Verdict, lake
<1>8. CASE UNCHANGED vars
  BY <1>0, <1>8 DEF vars, lake
<1>9. QED
  BY <1>1, <1>2, <1>3, <1>4, <1>5, <1>6, <1>7, <1>8 DEF Next, TaskStep

(* The process keeps its types. *)
LEMMA ProcessStep ==
    ASSUME TypeInv, [Next]_vars
    PROVE  ProcessType'
<1> USE DEF TypeInv
<1>1. ASSUME NEW b \in Batch, StartDag(b) PROVE ProcessType'
  BY <1>1, GoldAssumption DEF StartDag, ProcessType, Task
<1>2. CASE SilverTask
  <2>1. GoTo("dq_gate") \/ Fails("silver")
    BY <1>2 DEF SilverTask
  <2>2. CASE GoTo("dq_gate")
    BY <1>2, <2>2, GoldAssumption DEF SilverTask, GoTo, ProcessType, Task
  <2>3. CASE Fails("silver")
    BY <1>2, <2>3, FailsType DEF SilverTask, ProcessType, Task
  <2>4. QED
    BY <2>1, <2>2, <2>3
<1>3. CASE DqGate
  <2>1. CASE GoTo("gold")
    BY <1>3, <2>1, GoldAssumption DEF DqGate, GoTo, ProcessType, Task
  <2>2. CASE Fails("dq_gate")
    BY <1>3, <2>2, FailsType DEF DqGate, ProcessType, Task
  <2>3. QED
    BY <1>3, <2>1, <2>2 DEF DqGate
<1>4. CASE Skip
  BY <1>4, GoldAssumption DEF Skip, Finish, ProcessType, Task
<1>5. CASE StartGold
  <2>1. CASE pc' = "build" /\ pos' = 1 /\ results' = << >>
    BY <1>5, <2>1, AllNonEmpty DEF StartGold, ProcessType, Task
  <2>2. CASE pc' = "verdict" /\ results' = [i \in DOMAIN ALL_ARTIFACTS |-> "failed"]
    <3>1. results' \in Seq(Outcome) /\ Len(results') = Len(ALL_ARTIFACTS)
      BY <2>2, AllNonEmpty DEF Outcome
    <3>2. QED
      BY <1>5, <2>2, <3>1 DEF StartGold, ProcessType, Task
  <2>3. QED
    BY <1>5, <2>1, <2>2 DEF StartGold
<1>6. CASE BuildGold
  <2>1. PICK r \in Outcome : results' = Append(results, r)
    BY <1>6 DEF BuildGold, Outcome
  <2>2. results' \in Seq(Outcome) /\ Len(results') = Len(results) + 1
    BY <2>1 DEF ProcessType
  <2>3. pos \in 1 .. Len(ALL_ARTIFACTS) /\ Len(results) = pos - 1
    BY <1>6, AllNonEmpty DEF BuildGold, ProcessType
  <2>4. QED
    <3>1. NextArtifact("build", "record") /\ pc = "build"
      BY <1>6 DEF BuildGold
    <3>2. /\ \/ pc' = "build" /\ pos < Len(ALL_ARTIFACTS) /\ pos' = pos + 1
             \/ pc' = "record" /\ pos = Len(ALL_ARTIFACTS) /\ pos' = 1
          /\ batch' = batch /\ tries' = tries
      BY <2>3, <3>1 DEF NextArtifact
    <3>3. Len(results') = pos
      BY <2>2, <2>3
    <3>4. pos' \in DOMAIN ALL_ARTIFACTS
      <4>1. Len(ALL_ARTIFACTS) \in Nat /\ DOMAIN ALL_ARTIFACTS = 1 .. Len(ALL_ARTIFACTS)
        BY AllNonEmpty
      <4>2. pos' \in 1 .. Len(ALL_ARTIFACTS)
        <5>1. 1 \in 1 .. Len(ALL_ARTIFACTS)
          BY <2>3, <4>1
        <5>2. pos < Len(ALL_ARTIFACTS) => pos + 1 \in 1 .. Len(ALL_ARTIFACTS)
          BY <2>3, <4>1
        <5>3. QED
          BY <3>2, <5>1, <5>2, Zenon
      <4>3. QED
        BY <4>1, <4>2
    <3>5. /\ pc' = "build" => Len(results') = pos' - 1
          /\ pc' = "record" => Len(results') = Len(ALL_ARTIFACTS)
      BY <2>3, <3>2, <3>3
    <3>6. /\ batch' \in Batch \cup {NULL} /\ tries' \in 0 .. Retries
          /\ pc' \in {"build", "record"} /\ batch' # NULL
      BY <3>1, <3>2 DEF ProcessType
    <3>7. pc' = "idle" <=> batch' = NULL
      BY <3>6
    <3>8. QED
      BY <2>2, <3>4, <3>5, <3>6, <3>7 DEF ProcessType, Task
<1>7. CASE RecordGold
  <2>1. pos \in 1 .. Len(ALL_ARTIFACTS)
    BY <1>7, AllNonEmpty DEF RecordGold, ProcessType
  <2>2. QED
    BY <1>7, <2>1, AllNonEmpty DEF RecordGold, NextArtifact, ProcessType, Task
<1>8. CASE Verdict
  <2>1. CASE Finish
    BY <1>8, <2>1, GoldAssumption DEF Verdict, Finish, ProcessType, Task
  <2>2. CASE Fails("gold")
    BY <1>8, <2>2, FailsType DEF Verdict, ProcessType, Task
  <2>3. QED
    BY <1>8, <2>1, <2>2 DEF Verdict
<1>9. CASE Killed
  BY <1>9, FailsType DEF Killed, ProcessType, Task
<1>10. CASE UNCHANGED vars
  BY <1>10 DEF vars, ProcessType
<1>11. QED
  BY <1>1, <1>2, <1>3, <1>4, <1>5, <1>6, <1>7, <1>8, <1>9, <1>10 DEF Next, TaskStep

LEMMA TypeStep ==
    ASSUME TypeInv, [Next]_vars
    PROVE  TypeInv'
BY StoresStep, ProcessStep DEF TypeInv
-----------------------------------------------------------------------------
(* The gate *)

LEMMA GateStep ==
    ASSUME TypeInv, GateInv, [Next]_vars
    PROVE  GateInv'
<1> USE DEF GateInv, GateFails
<1>1. ASSUME NEW b \in Batch, StartDag(b) PROVE GateInv'
  BY <1>1 DEF StartDag, Task
<1>2. CASE SilverTask
  <2>1. batch \in Batch /\ pc' \in {"silver", "dq_gate", "idle"}
    BY <1>2, GoldAssumption DEF SilverTask, TypeInv, ProcessType, GoTo, Fails, Finish
  <2>2. CASE silver_run[batch] /\ UNCHANGED lake /\ GoTo("dq_gate")
    BY <1>2, <2>2 DEF SilverTask, lake, GoTo, Task
  <2>3. ASSUME ~silver_run[batch], NEW r \in ReportKind, NEW ok \in BOOLEAN,
               NEW written, NEW lost, SilverRuns(written, lost, r, ok),
               (ok /\ GoTo("dq_gate")) \/ Fails("silver")
        PROVE  GateInv'
    <3>1. \A b \in Batch \ {batch} : silver_run'[b] = silver_run[b] /\ dq_report'[b] = dq_report[b]
      BY <2>3 DEF SilverRuns, TypeInv, StoresType
    <3>2. \A a \in Artifact : gold[<<a, batch>>] = << >> /\ answers[<<a, batch>>] = NULL
      BY <2>1, <2>3
    <3>3. \A b \in Batch, a \in Artifact :
             gold'[<<a, b>>] # << >> \/ answers'[<<a, b>>] # NULL =>
                silver_run'[b] /\ ~(dq_report'[b] = "excessive")
      BY <1>2, <3>1, <3>2 DEF SilverTask
    <3>4. pc' = "dq_gate" => silver_run'[batch']
      BY <2>1, <2>3 DEF SilverRuns, GoTo, Fails, Finish, TypeInv, StoresType
    <3>5. QED
      BY <2>1, <3>3, <3>4 DEF Task
  <2>4. QED
    BY <1>2, <2>2, <2>3 DEF SilverTask
<1>3. CASE DqGate
  BY <1>3 DEF DqGate, lake, GoTo, Fails, Finish, Task
<1>4. CASE Skip
  BY <1>4 DEF Skip, lake, Finish, Task
<1>5. CASE StartGold
  BY <1>5 DEF StartGold, lake, Task
<1>6. CASE BuildGold \/ Killed
  <2>1. /\ batch \in Batch /\ silver_run[batch] /\ dq_report[batch] # "excessive"
        /\ UNCHANGED lake
        /\ pc' = "idle" \/ batch' = batch
    BY <1>6, GoldAssumption
       DEF BuildGold, Killed, Fails, Finish, NextArtifact, TypeInv, ProcessType, Task
  <2>2. ASSUME NEW b \in Batch \ {batch}, NEW a \in Artifact
        PROVE  gold'[<<a, b>>] = gold[<<a, b>>] /\ answers'[<<a, b>>] = answers[<<a, b>>]
    BY <2>2, GoldGrows, AnswersGrow DEF AddFile, Answer, here, TypeInv, StoresType
  <2>3. QED
    BY <2>1, <2>2 DEF lake, Task
<1>7. CASE RecordGold
  BY <1>7 DEF RecordGold, lake, NextArtifact, Task
<1>8. CASE Verdict
  <2>1. Finish \/ Fails("gold")
    BY <1>8 DEF Verdict
  <2>2. QED
    BY <1>8, <2>1 DEF Verdict, lake, Finish, Fails, Task
<1>9. CASE UNCHANGED vars
  BY <1>9 DEF vars, lake
<1>10. QED
  BY <1>1, <1>2, <1>3, <1>4, <1>5, <1>6, <1>7, <1>8, <1>9 DEF Next, TaskStep

-----------------------------------------------------------------------------
(* Answers and files *)

(* No file is lost, and the one that is added is there. *)
LEMMA FilesStay ==
    ASSUME TypeInv, [Next]_vars, NEW a \in Artifact, NEW b \in Batch
    PROVE  /\ Files(a, b) \subseteq Files(a, b)'
           /\ \A f : <<a, b>> = here /\ AddFile(f) => f \in Files(a, b)'
<1> DEFINE old == gold[<<a, b>>]
<1>1. old \in Seq(Snapshots \cup {Torn})
  BY DEF TypeInv, StoresType
<1>2. ASSUME NEW f, AddFile(f), <<a, b>> = here
      PROVE  Files(a, b) \subseteq Files(a, b)' /\ f \in Files(a, b)'
  <2>1. gold'[<<a, b>>] = Append(old, f)
    BY <1>2 DEF AddFile, TypeInv
  <2> HIDE DEF old
  <2>2. /\ \A i \in DOMAIN old : i \in DOMAIN Append(old, f) /\ Append(old, f)[i] = old[i]
        /\ Len(old) + 1 \in DOMAIN Append(old, f) /\ Append(old, f)[Len(old) + 1] = f
    BY <1>1
  <2>3. Range(old) \subseteq Range(Append(old, f)) /\ f \in Range(Append(old, f))
    BY <2>2 DEF Range
  <2>4. QED
    BY <2>1, <2>3 DEF Files, old
<1>3. CASE gold'[<<a, b>>] = old
  <2>1. Files(a, b)' = Files(a, b)
    BY <1>3 DEF Files
  <2>2. QED
    BY <1>2, <2>1
<1>4. CASE gold'[<<a, b>>] # old
  <2>1. PICK f : <<a, b>> = here /\ AddFile(f)
    BY <1>4, GoldGrows DEF AddFile, TypeInv
  <2>2. QED
    BY <1>2, <2>1
<1>5. QED
  BY <1>3, <1>4

(* The answer of a query that has just run. *)
LEMMA AnswerIs ==
    ASSUME TypeInv, [Next]_vars, NEW rows \in BOOLEAN, Answer(rows), here \in Artifact \X Batch
    PROVE  /\ answers'[here] # NULL
           /\ answers'[here] = [read |-> Snapshot(artifact), rows |-> rows]
<1>1. answers'[here] = [read |-> Snapshot(artifact), rows |-> rows]
  BY DEF Answer, TypeInv, StoresType
<1>2. artifact \in Artifact
  BY DEF here
<1>3. answers'[here] \in [read : Snapshots, rows : BOOLEAN]
  BY <1>1, <1>2, SnapshotType
<1>4. QED
  BY <1>1, <1>3, GoldAssumption

(* What was built stays built. *)
LEMMA BuiltStays ==
    ASSUME TypeInv, [Next]_vars, NEW a \in Artifact, NEW b \in Batch, NEW rows, Built(a, b, rows)
    PROVE  Built(a, b, rows)'
<1>1. answers'[<<a, b>>] # NULL
  <2>1. CASE answers' = answers
    BY <2>1 DEF Built
  <2>2. ASSUME NEW r \in BOOLEAN, Answer(r), here \in Artifact \X Batch
        PROVE  answers'[<<a, b>>] # NULL
    <3>1. CASE here = <<a, b>>
      BY <2>2, <3>1, AnswerIs
    <3>2. CASE here # <<a, b>>
      <4>1. answers'[<<a, b>>] = answers[<<a, b>>]
        BY <2>2, <3>2 DEF Answer, TypeInv, StoresType
      <4>2. QED
        BY <4>1 DEF Built
    <3>3. QED
      BY <3>1, <3>2
  <2>3. QED
    BY <2>1, <2>2, AnswersGrow
<1>2. QED
  BY <1>1, FilesStay DEF Built

(* Silver leaves the partitions of a batch alone once it has succeeded. *)
LEMMA TablesStay ==
    ASSUME TypeInv, [Next]_vars, NEW b \in Batch, silver_run[b], NEW t \in SilverTable
    PROVE  b \in table'[t] <=> b \in table[t]
<1>1. CASE SilverTask
  <2>1. CASE table' = table
    BY <2>1
  <2>2. ASSUME NEW written, NEW lost, NEW r, NEW ok, SilverRuns(written, lost, r, ok)
        PROVE  batch # b => (b \in table'[t] <=> b \in table[t])
    BY <2>2 DEF SilverRuns, Table
  <2>3. QED
    BY <1>1, <2>1, <2>2 DEF SilverTask, lake
<1>2. ASSUME NEW c \in Batch, StartDag(c) PROVE table'[t] = table[t]
  BY <1>2, GoldAssumption DEF StartDag, Table
<1>3. CASE table' = table
  BY <1>3
<1>4. QED
  BY <1>1, <1>2, <1>3 DEF Next, TaskStep, DqGate, Skip, StartGold, BuildGold, RecordGold,
         Verdict, Killed, vars, lake

LEMMA AnswerStep ==
    ASSUME TypeInv, GateInv, AnswerInv, [Next]_vars
    PROVE  AnswerInv'
<1> SUFFICES ASSUME NEW b \in Batch, NEW a \in Artifact, answers'[<<a, b>>] # NULL
             PROVE  /\ \A t \in Reads[a] \cap SilverTable :
                          b \in answers'[<<a, b>>].read[t] <=> b \in table'[t]
                    /\ answers'[<<a, b>>].rows => answers'[<<a, b>>].read \in Files(a, b)'
  BY DEF AnswerInv
<1>1. CASE answers'[<<a, b>>] = answers[<<a, b>>]
  <2>1. silver_run[b]
    BY <1>1 DEF GateInv
  <2>2. QED
    BY <1>1, <2>1, TablesStay, FilesStay DEF AnswerInv
<1>2. ASSUME BuildGold, here \in Artifact \X Batch, <<a, b>> = here,
             NEW rows \in BOOLEAN, Answer(rows), rows => AddFile(Snapshot(artifact))
      PROVE  /\ \A t \in Reads[a] \cap SilverTable :
                   b \in answers'[<<a, b>>].read[t] <=> b \in table'[t]
             /\ answers'[<<a, b>>].rows => answers'[<<a, b>>].read \in Files(a, b)'
  <2>1. answers'[<<a, b>>] = [read |-> Snapshot(a), rows |-> rows] /\ a = artifact
    BY <1>2, AnswerIs DEF here
  <2>2. table' = table
    BY <1>2 DEF BuildGold, lake
  <2>3. rows => Snapshot(a) \in Files(a, b)'
    BY <1>2, <2>1, FilesStay
  <2>4. \A t \in Reads[a] : Snapshot(a)[t] = table[t]
    BY DEF Snapshot
  <2>5. QED
    BY <2>1, <2>2, <2>3, <2>4
<1>3. CASE answers'[<<a, b>>] # answers[<<a, b>>]
  <2>1. /\ BuildGold /\ here \in Artifact \X Batch
        /\ \/ Answer(TRUE) /\ AddFile(Snapshot(artifact))
           \/ Answer(FALSE) /\ gold' = gold
    BY <1>3, AnswersGrow
  <2>2. <<a, b>> = here
    BY <1>3, <2>1 DEF Answer, TypeInv, StoresType
  <2>3. QED
    BY <1>2, <2>1, <2>2
<1>4. QED
  BY <1>1, <1>3

-----------------------------------------------------------------------------
(* What a run takes for written *)

(* The counts that stay. *)
LEMMA CountsStay ==
    ASSUME TypeInv, RecordedMeansOnDisk, [Next]_vars, gold_rows' = gold_rows
    PROVE  RecordedMeansOnDisk'
<1> SUFFICES ASSUME NEW s \in PrimarySources, NEW b \in Batch, gold_rows[<<s, b>>] # NULL
             PROVE  Built(gold_rows[<<s, b>>].artifact, b, gold_rows[<<s, b>>].rows)'
  BY DEF RecordedMeansOnDisk, Built
<1>1. gold_rows[<<s, b>>].artifact \in Artifact
  BY DEF TypeInv, StoresType
<1>2. Built(gold_rows[<<s, b>>].artifact, b, gold_rows[<<s, b>>].rows)
  BY DEF RecordedMeansOnDisk, Built
<1>3. ASSUME NEW rows, rows = gold_rows[<<s, b>>].rows
      PROVE  Built(gold_rows[<<s, b>>].artifact, b, rows)'
  BY <1>1, <1>2, <1>3, BuiltStays
<1>4. QED
  BY <1>3 DEF Built

(* The steps that leave the results of the run alone, or forget them, and
   write neither a verdict nor a count.                                    *)
LEMMA DiskKept ==
    ASSUME TypeInv, DiskInv, [Next]_vars,
           results' = << >> \/ (results' = results /\ batch' = batch /\ pc' \notin {"idle", "silver", "dq_gate", "gold"}),
           \A b \in Batch : gold_run'[b] = "success" => gold_run[b] = "success",
           gold_rows' = gold_rows
    PROVE  DiskInv'
<1>1. pc' \in {"idle", "silver", "dq_gate", "gold"} => results' = << >>
  OBVIOUS
<1>2. ASSUME NEW i \in DOMAIN results', results'[i] # "failed"
      PROVE  Built(ALL_ARTIFACTS[i], batch, results[i] = "written")'
  <2>1. results' = results /\ batch' = batch /\ results # << >>
    BY <1>2
  <2>2. batch \in Batch /\ i \in DOMAIN ALL_ARTIFACTS
    <3>1. pc \in {"build", "record", "verdict"}
      BY <2>1 DEF DiskInv, TypeInv, ProcessType, Task
    <3>2. batch \in Batch
      BY <3>1 DEF TypeInv, ProcessType
    <3>3. results \in Seq(Outcome) /\ Len(results) <= Len(ALL_ARTIFACTS)
      BY <3>1, AllNonEmpty DEF TypeInv, ProcessType
    <3>4. QED
      BY <1>2, <2>1, <3>2, <3>3, AllNonEmpty
  <2>3. Built(ALL_ARTIFACTS[i], batch, results[i] = "written")
    BY <1>2, <2>1 DEF DiskInv
  <2>4. ALL_ARTIFACTS[i] \in Artifact
    BY <2>2, AllNonEmpty
  <2>5. ASSUME NEW b, b = batch, NEW rows, rows = (results[i] = "written")
        PROVE Built(ALL_ARTIFACTS[i], b, rows)'
    BY <2>2, <2>3, <2>4, <2>5, BuiltStays
  <2>6. QED
    BY <2>1, <2>5 DEF Built, Files
<1>3. ASSUME NEW b \in Batch, gold_run'[b] = "success", NEW a \in Artifact
      PROVE  answers'[<<a, b>>] # NULL
  <2>1. Built(a, b, FALSE)
    BY <1>3 DEF DiskInv, Built
  <2>2. QED
    BY <2>1, BuiltStays DEF Built
<1>4. RecordedMeansOnDisk'
  BY CountsStay DEF DiskInv
<1>5. QED
  BY <1>1, <1>2, <1>3, <1>4 DEF DiskInv

(* The result of the artifact at hand: what is said to be written is built. *)
LEMMA BuildResult ==
    ASSUME TypeInv, BuildGold, [Next]_vars, NEW a, a = artifact, NEW b, b = batch
    PROVE  \E r \in Outcome :
              /\ results' = Append(results, r)
              /\ r # "failed" => Built(a, b, r = "written")'
<1>1. here \in Artifact \X Batch /\ a \in Artifact /\ b \in Batch /\ here = <<a, b>>
  BY AllNonEmpty, GoldAssumption DEF BuildGold, TypeInv, ProcessType, here, artifact
<1>2. CASE results' = Append(results, "written") /\ Answer(TRUE) /\ AddFile(Snapshot(artifact))
  <2>1. answers'[<<a, b>>] # NULL
    BY <1>1, <1>2, AnswerIs
  <2>2. Snapshot(a) \in Files(a, b)' /\ Snapshot(a) # Torn
    BY <1>1, <1>2, FilesStay, SnapshotType
  <2>3. Built(a, b, TRUE)'
    BY <2>1, <2>2 DEF Built
  <2>4. QED
    BY <1>2, <2>3 DEF Outcome, Built
<1>3. CASE results' = Append(results, "empty") /\ Answer(FALSE)
  <2>1. answers'[<<a, b>>] # NULL
    BY <1>1, <1>3, AnswerIs
  <2>2. QED
    BY <1>3, <2>1 DEF Outcome, Built
<1>4. CASE results' = Append(results, "failed")
  BY <1>4 DEF Outcome
<1>5. QED
  BY <1>2, <1>3, <1>4 DEF BuildGold

LEMMA DiskStep ==
    ASSUME TypeInv, GateInv, DiskInv, [Next]_vars
    PROVE  DiskInv'
<1> DEFINE before == {"idle", "silver", "dq_gate", "gold"}
<1>1. ASSUME NEW b \in Batch, StartDag(b) PROVE DiskInv'
  BY <1>1, DiskKept DEF StartDag, DiskInv
<1>2. CASE SilverTask
  BY <1>2, DiskKept DEF SilverTask, DiskInv
<1>3. CASE DqGate
  BY <1>3, DiskKept DEF DqGate, DiskInv
<1>4. CASE Skip
  BY <1>4, DiskKept DEF Skip, DiskInv
<1>5. CASE StartGold
  <2>1. \A b \in Batch : gold_run'[b] = "success" => gold_run[b] = "success"
    BY <1>5 DEF StartGold, TypeInv, StoresType
  <2>2. CASE results' = << >>
    BY <1>5, <2>1, <2>2, DiskKept DEF StartGold
  <2>3. CASE results' = [i \in DOMAIN ALL_ARTIFACTS |-> "failed"]
    <3>1. pc' = "verdict" \/ results' = << >>
      BY <1>5 DEF StartGold
    <3>2. \A i \in DOMAIN results' : results'[i] = "failed"
      BY <2>3
    <3>3. answers' = answers
      BY <1>5 DEF StartGold
    <3>4. RecordedMeansOnDisk'
      BY <1>5, CountsStay DEF StartGold, DiskInv
    <3>5. QED
      BY <2>1, <3>1, <3>2, <3>3, <3>4 DEF DiskInv
  <2>4. QED
    BY <1>5, <2>2, <2>3 DEF StartGold
<1>6. CASE BuildGold
  <2>1. /\ pc = "build" /\ batch' = batch /\ batch \in Batch /\ pc' \notin before
        /\ gold_run' = gold_run /\ gold_rows' = gold_rows
        /\ pos \in DOMAIN ALL_ARTIFACTS /\ Len(results) = pos - 1
        /\ results \in Seq(Outcome)
    BY <1>6, GoldAssumption DEF BuildGold, NextArtifact, TypeInv, ProcessType
  <2>2. ASSUME NEW i \in DOMAIN results', results'[i] # "failed", NEW b, b = batch,
               NEW rows, rows = (results'[i] = "written")
        PROVE  Built(ALL_ARTIFACTS[i], b, rows)'
    <3>1. PICK a : a = artifact
      OBVIOUS
    <3>2. PICK r \in Outcome :
             /\ results' = Append(results, r)
             /\ r # "failed" => Built(a, b, r = "written")'
      BY <1>6, <2>2, <3>1, BuildResult
    <3>3. \/ i \in DOMAIN results /\ results'[i] = results[i]
          \/ i = pos /\ results'[i] = r
      <4>1. pos \in Nat /\ Len(results) = pos - 1
        BY <2>1, AllNonEmpty
      <4>2. ASSUME NEW old \in Seq(Outcome), NEW n \in Nat, Len(old) = n - 1,
                   NEW j \in DOMAIN Append(old, r)
            PROVE  \/ j \in DOMAIN old /\ Append(old, r)[j] = old[j]
                   \/ j = n /\ Append(old, r)[j] = r
        <5>1. DOMAIN Append(old, r) = 1 .. n /\ DOMAIN old = 1 .. n - 1
          BY <4>2
        <5>2. QED
          BY <4>2, <5>1
      <4>3. QED
        BY <2>1, <2>2, <3>2, <4>1, <4>2
    <3>4. CASE i \in DOMAIN results /\ results'[i] = results[i]
      <4>1. ALL_ARTIFACTS[i] \in Artifact
        <5>1. pos \in 1 .. Len(ALL_ARTIFACTS)
          BY <2>1, AllNonEmpty
        <5>2. i \in DOMAIN ALL_ARTIFACTS
          BY <2>1, <3>4, <5>1, AllNonEmpty
        <5>3. QED
          BY <5>2, AllNonEmpty
      <4>2. Built(ALL_ARTIFACTS[i], b, rows)
        BY <2>2, <3>4 DEF DiskInv
      <4>3. QED
        BY <2>1, <2>2, <4>1, <4>2, BuiltStays
    <3>5. CASE i = pos /\ results'[i] = r
      <4>1. ALL_ARTIFACTS[i] = a
        BY <3>1, <3>5 DEF artifact
      <4>2. QED
        BY <2>2, <3>2, <3>5, <4>1
    <3>6. QED
      BY <3>3, <3>4, <3>5
  <2>3. \A i \in DOMAIN results' :
           results'[i] # "failed" => Built(ALL_ARTIFACTS[i], batch, results[i] = "written")'
    BY <2>1, <2>2 DEF Built, Files
  <2>4. ASSUME NEW b \in Batch, NEW a \in Artifact, gold_run'[b] = "success"
        PROVE  answers'[<<a, b>>] # NULL
    <3>1. Built(a, b, FALSE)
      BY <2>1, <2>4 DEF DiskInv, Built
    <3>2. QED
      BY <3>1, BuiltStays DEF Built
  <2>5. RecordedMeansOnDisk'
    BY <2>1, CountsStay DEF DiskInv
  <2>6. QED
    BY <2>1, <2>3, <2>4, <2>5 DEF DiskInv
<1>7. CASE RecordGold
  <2>1. CASE gold_rows' = gold_rows
    BY <1>7, <2>1, DiskKept DEF RecordGold, NextArtifact
  <2>2. CASE /\ results[pos] # "failed"
             /\ gold_rows' = [gold_rows EXCEPT ![<<PrimarySource[artifact], batch>>] = Count]
    <3>1. /\ batch \in Batch /\ artifact \in Artifact /\ pos \in DOMAIN results
          /\ batch' = batch /\ results' = results /\ gold' = gold /\ answers' = answers
          /\ gold_run' = gold_run /\ pc' \notin before
      BY <1>7, AllNonEmpty, GoldAssumption
         DEF RecordGold, NextArtifact, TypeInv, ProcessType, artifact
    <3>2. Built(artifact, batch, results[pos] = "written")
      BY <2>2, <3>1 DEF DiskInv, artifact
    <3>3. \A s \in PrimarySources, b \in Batch :
             \/ gold_rows'[<<s, b>>] = gold_rows[<<s, b>>]
             \/ gold_rows'[<<s, b>>] = Count /\ b = batch
      BY <2>2 DEF TypeInv, StoresType
    <3>4. Count.artifact = artifact /\ Count.rows = (results[pos] = "written")
      BY DEF Count
    <3>5. RecordedMeansOnDisk'
      BY <3>1, <3>2, <3>3, <3>4 DEF RecordedMeansOnDisk, DiskInv, Built, Files
    <3>6. QED
      BY <3>1, <3>5 DEF DiskInv, Built, Files
  <2>3. QED
    BY <1>7, <2>1, <2>2 DEF RecordGold
<1>8. CASE Verdict
  <2>1. /\ pc = "verdict" /\ results' = << >> /\ gold_rows' = gold_rows /\ answers' = answers
        /\ batch \in Batch /\ results \in Seq(Outcome)
        /\ Len(results) = Len(ALL_ARTIFACTS)
    BY <1>8, GoldAssumption DEF Verdict, TypeInv, ProcessType
  <2>2. ASSUME NEW b \in Batch, gold_run'[b] = "success", NEW a \in Artifact
        PROVE  answers[<<a, b>>] # NULL
    <3>1. CASE gold_run[b] = "success"
      BY <3>1 DEF DiskInv
    <3>2. CASE gold_run[b] # "success"
      <4>1. b = batch /\ "failed" \notin Range(results)
        BY <1>8, <2>2, <3>2 DEF Verdict, TypeInv, StoresType
      <4>2. PICK i \in DOMAIN ALL_ARTIFACTS : ALL_ARTIFACTS[i] = a
        BY AllNonEmpty
      <4>3. i \in DOMAIN results
        BY <2>1, <4>2, AllNonEmpty
      <4>4. results[i] # "failed"
        BY <2>1, <4>1, <4>3 DEF Range
      <4>5. QED
        BY <4>1, <4>2, <4>3, <4>4 DEF DiskInv, Built
    <3>3. QED
      BY <3>1, <3>2
  <2>3. RecordedMeansOnDisk'
    BY <2>1, CountsStay DEF DiskInv
  <2>4. QED
    BY <2>1, <2>2, <2>3 DEF DiskInv
<1>9. CASE Killed
  BY <1>9, DiskKept DEF Killed
<1>10. CASE UNCHANGED vars
  BY <1>10 DEF vars, DiskInv, RecordedMeansOnDisk, Built, Files
<1>11. QED
  BY <1>1, <1>2, <1>3, <1>4, <1>5, <1>6, <1>7, <1>8, <1>9, <1>10 DEF Next, TaskStep

-----------------------------------------------------------------------------

THEOREM Inductive == Spec => []IInv
<1>1. IInv /\ [Next]_vars => IInv'
  BY TypeStep, GateStep, AnswerStep, DiskStep DEF IInv
<1>2. QED
  BY InitIInv, <1>1, PTL DEF Spec

(* The shapes of the lake and of the run. *)
THEOREM TypeCorrect == Spec => []TypeOK
<1>1. IInv => TypeOK
  BY TypeInvIsTypeOK DEF IInv
<1>2. QED
  BY <1>1, Inductive, PTL

(* The gate: a batch whose report it refuses never has Gold, whatever is
   retried, killed or started again (football_pipeline.py:18-21).          *)
THEOREM GateHolds == Spec => []BlockedBatchHasNoGold
<1>1. IInv => BlockedBatchHasNoGold
  BY DEF IInv, GateInv, BlockedBatchHasNoGold
<1>2. QED
  BY <1>1, Inductive, PTL

(* A recorded success has an answer of every artifact's query over what Silver
   left of its own batch, and the rows of that answer on disk.             *)
THEOREM SuccessIsEarned == Spec => []SuccessIsFresh
<1>1. IInv => SuccessIsFresh
  BY DEF IInv, DiskInv, AnswerInv, SuccessIsFresh
<1>2. QED
  BY <1>1, Inductive, PTL

(* A recorded count is of an artifact that was built; a count of some rows
   has a whole file.                                                       *)
THEOREM CountsAreOfFiles == Spec => []RecordedMeansOnDisk
<1>1. IInv => RecordedMeansOnDisk
  BY DEF IInv, DiskInv
<1>2. QED
  BY <1>1, Inductive, PTL
=============================================================================
