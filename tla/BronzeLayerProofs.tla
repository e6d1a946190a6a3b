-------------------------- MODULE BronzeLayerProofs --------------------------
(***************************************************************************)
(* Theorems about BronzeLayer, for any sources, batches, files, contents   *)
(* and bounds, and whatever the vendor does under a run.                   *)
(***************************************************************************)
EXTENDS BronzeLayer, WellFoundedInduction, TLAPS

-----------------------------------------------------------------------------
(* The table *)

(* The columns the writers set, one UPDATE at a time. *)
LEMMA RowEdits ==
    ASSUME NEW r \in Row
    PROVE  /\ \A st \in FileStatus : [r EXCEPT !.status = st] \in Row
           /\ \A n \in Count : [r EXCEPT !.rejected_rows = n] \in Row
           /\ \A n \in Count : [r EXCEPT !.gold_rows = n] \in Row
           /\ \A st \in FileStatus, n \in Count :
                 [r EXCEPT !.status = st, !.silver_rows = n] \in Row
           /\ \A st \in FileStatus, m, n \in Count :
                 [r EXCEPT !.status = st, !.source_rows = m, !.bronze_rows = n] \in Row
BY DEF Row

(* Induction over the natural numbers, as the least-number principle: a set
   of them that is not empty has a least element, and one that is bounded a
   greatest.                                                               *)
LEMMA Least ==
    ASSUME NEW T, T \subseteq Nat, T # {}
    PROVE  \E n \in T : \A m \in T : n <= m
<1>1. PICK n \in T : \A m \in T : ~(<<m, n>> \in OpToRel(<, Nat))
  BY WFMin, NatLessThanWellFounded
<1>2. \A m \in T : ~(m < n)
  BY <1>1 DEF OpToRel
<1>3. QED
  BY <1>2

LEMMA Greatest ==
    ASSUME NEW T, T \subseteq Nat, T # {}, NEW b \in Nat, \A m \in T : m <= b
    PROVE  \E n \in T : \A m \in T : m <= n
<1> DEFINE D == { b - m : m \in T }
<1>1. D \subseteq Nat /\ D # {}
  <2>1. PICK t \in T : TRUE
    OBVIOUS
  <2>2. b - t \in D
    OBVIOUS
  <2>3. D \subseteq Nat
    OBVIOUS
  <2>4. QED
    BY <2>2, <2>3
<1>2. PICK d \in D : \A e \in D : d <= e
  BY <1>1, Least
<1>3. PICK n \in T : d = b - n
  OBVIOUS
<1>4. \A m \in T : b - n <= b - m
  BY <1>2, <1>3
<1>5. QED
  BY <1>4

(* Of rows that were registered by some second, some are the most recent. *)
LEMMA MostRecentExists ==
    ASSUME NEW t, NEW ks, ks # {}, NEW now \in Nat,
           \A k \in ks : t[k].registered_at \in Nat /\ t[k].registered_at <= now
    PROVE  MostRecent(t, ks) # {}
<1> DEFINE at == { t[k].registered_at : k \in ks }
<1>1. at \subseteq Nat /\ at # {} /\ \A m \in at : m <= now
  OBVIOUS
<1>2. PICK n \in at : \A m \in at : m <= n
  BY <1>1, Greatest
<1>3. PICK k \in ks : t[k].registered_at = n
  OBVIOUS
<1>4. k \in MostRecent(t, ks)
  BY <1>2, <1>3 DEF MostRecent
<1>5. QED
  BY <1>4

-----------------------------------------------------------------------------
(* A run of the layer *)

(* The steps at which the file of the current source has a row, those at
   which its bytes have been read, and those at which they have been
   fingerprinted.                                                          *)
HasRow   == {"check", "skip", "complete_skip", "ingest", "clear", "write", "complete", "fail"}
HasMd5   == HasRow \cup {"register"}
HasFrame == HasMd5 \cup {"fingerprint"}

StoresType ==
    /\ raw \in [Source -> Checksum \cup {NULL}]
    /\ \A s \in Source : raw[s] \in Contents[s] \cup {NULL}
    /\ DOMAIN file_audit \subseteq Key
    /\ \A k \in DOMAIN file_audit : file_audit[k] \in Row
    /\ pipeline_runs \in [Batch -> {"none", "running", "success", "failed"}]
    /\ lake \in [Partition -> Checksum \cup {Torn, NoDir}]
    /\ clock \in Nat

(* What the process holds at which step. *)
ProcessType ==
    /\ pc \in Steps
    /\ IF pc = "idle" THEN batch = NULL ELSE batch \in Batch /\ pos \in DOMAIN Registry
    /\ {frame, md5} \subseteq Checksum \cup {NULL}
    /\ prior \in Key \cup {NULL}
    /\ failures \subseteq DOMAIN Registry
    /\ pc \in HasFrame => frame \in Checksum
    /\ pc \in HasMd5 => md5 \in Checksum
    /\ pc \in HasRow => key \in DOMAIN file_audit
    /\ pc \in {"skip", "complete_skip"} => prior \in DOMAIN file_audit

TypeInv == StoresType /\ ProcessType

-----------------------------------------------------------------------------

LEMMA Sources ==
    /\ Len(Registry) \in Nat /\ DOMAIN Registry = 1 .. Len(Registry) /\ 1 \in DOMAIN Registry
    /\ \A i \in DOMAIN Registry : Registry[i] \in Source
BY BronzeAssumption

(* What a run has to hand for its current source. *)
LEMMA Here ==
    ASSUME TypeInv, pc # "idle"
    PROVE  /\ source \in Source /\ batch \in Batch /\ pos \in DOMAIN Registry
           /\ key = <<batch, FileOf[source]>> /\ key \in Key
           /\ <<source, batch>> \in Partition
BY Sources, BronzeAssumption DEF TypeInv, ProcessType, source, key, Key, Partition

LEMMA NextSourceMoves ==
    ASSUME pos \in DOMAIN Registry, failures \subseteq DOMAIN Registry,
           NEW failed \in BOOLEAN, NextSource(failed)
    PROVE  /\ \/ pc' = "load" /\ pos' = pos + 1 /\ pos < Len(Registry)
              \/ pc' = "verdict" /\ pos' = pos /\ pos = Len(Registry)
           /\ pos' \in DOMAIN Registry /\ batch' = batch
           /\ frame' = NULL /\ md5' = NULL /\ prior' = NULL
           /\ failures' \subseteq DOMAIN Registry
           /\ failures \subseteq failures' /\ (failed => failures' # {})
<1>1. pos \in 1 .. Len(Registry) /\ Len(Registry) \in Nat /\ DOMAIN Registry = 1 .. Len(Registry)
  BY Sources
<1>2. \/ pc' = "load" /\ pos' = pos + 1 /\ pos < Len(Registry)
      \/ pc' = "verdict" /\ pos' = pos /\ pos = Len(Registry)
  BY <1>1 DEF NextSource
<1>3. pos' \in DOMAIN Registry
  BY <1>1, <1>2
<1>4. /\ failures' \subseteq DOMAIN Registry
      /\ failures \subseteq failures' /\ (failed => failures' # {})
  BY DEF NextSource
<1>5. QED
  BY <1>2, <1>3, <1>4 DEF NextSource

(* What the process holds when it goes on to the next source, or is over. *)
LEMMA NextSourceType ==
    ASSUME ProcessType, pc # "idle", NEW failed \in BOOLEAN, NextSource(failed)
    PROVE  ProcessType'
<1>1. /\ pc' \in {"load", "verdict"} /\ pos' \in DOMAIN Registry /\ batch' = batch
      /\ frame' = NULL /\ md5' = NULL /\ prior' = NULL /\ failures' \subseteq DOMAIN Registry
  BY NextSourceMoves DEF ProcessType
<1>2. QED
  BY <1>1 DEF ProcessType, Steps, HasFrame, HasMd5, HasRow

LEMMA ExitType == ASSUME Exit PROVE ProcessType'
BY DEF Exit, ProcessType, Steps, HasFrame, HasMd5, HasRow

(* A step within the treatment of one source. *)
LEMMA GoToType ==
    ASSUME ProcessType, pc # "idle", NEW step \in Steps \ {"idle"}, GoTo(step),
           frame' \in Checksum \cup {NULL}, md5' \in Checksum \cup {NULL},
           prior' \in Key \cup {NULL},
           step \in HasFrame => frame' \in Checksum,
           step \in HasMd5 => md5' \in Checksum,
           step \in HasRow => key \in DOMAIN file_audit',
           step \in {"skip", "complete_skip"} => prior' \in DOMAIN file_audit'
    PROVE  ProcessType'
<1>1. /\ pc' = step /\ batch' = batch /\ pos' = pos /\ failures' = failures /\ key' = key
  BY DEF GoTo, key, source
<1>2. QED
  BY <1>1 DEF ProcessType

(* The rows that the run writes are rows. *)
LEMMA Edits ==
    ASSUME StoresType, NEW k \in DOMAIN file_audit, NEW m \in Count, NEW n \in Count
    PROVE  /\ DOMAIN WithIngesting(file_audit, k) = DOMAIN file_audit
           /\ \A j \in DOMAIN file_audit : WithIngesting(file_audit, k)[j] \in Row
           /\ DOMAIN WithIngested(file_audit, k, m, n) = DOMAIN file_audit
           /\ \A j \in DOMAIN file_audit : WithIngested(file_audit, k, m, n)[j] \in Row
           /\ DOMAIN WithFailed(file_audit, k) = DOMAIN file_audit
           /\ \A j \in DOMAIN file_audit : WithFailed(file_audit, k)[j] \in Row
BY RowEdits DEF StoresType, WithIngesting, WithIngested, WithFailed, FileStatus

LEMMA PriorLanded ==
    ASSUME NEW c, NEW k \in PreviousIngestions(file_audit, c)
    PROVE  k \in DOMAIN file_audit /\ file_audit[k].status \in LandedStatus /\ file_audit[k].checksum = c
BY DEF PreviousIngestions, MostRecent

LEMMA InitType == Init => TypeInv
<1> SUFFICES ASSUME Init PROVE TypeInv
  OBVIOUS
<1>1. DOMAIN file_audit = {}
  BY DEF Init
<1>2. StoresType
  BY <1>1 DEF Init, StoresType, Partition
<1>3. ProcessType
  BY DEF Init, ProcessType, Steps, HasFrame, HasMd5, HasRow
<1>4. QED
  BY <1>2, <1>3 DEF TypeInv

LEMMA StoresStep == ASSUME TypeInv, [Next]_vars PROVE StoresType'
<1> USE DEF TypeInv
<1>1. ASSUME NEW b \in Batch, StartRun(b) PROVE StoresType'
  BY <1>1 DEF StartRun, StoresType
<1>2. CASE Load \/ Fingerprint \/ Check
  BY <1>2 DEF Load, Fingerprint, Check, stores, StoresType
<1>3. CASE Register
  <2>0. clock' \in Nat
    <3>1. clock' = clock \/ clock' = clock + 1
      BY <1>3, Zenon DEF Register
    <3>2. QED
      BY <3>1 DEF StoresType
  <2>1. CASE file_audit' = file_audit
    BY <1>3, <2>0, <2>1 DEF Register, StoresType
  <2>2. CASE file_audit' = WithRegistered(file_audit, key, md5, clock')
    <3>1. key \in Key /\ md5 \in Checksum /\ clock' \in Nat
      BY <1>3, <2>0, Here DEF Register, ProcessType, HasMd5
    <3>2. NewRow(md5, clock') \in Row
      BY <3>1 DEF NewRow, Row, FileStatus, Count
    <3>3. QED
      BY <1>3, <2>0, <2>2, <3>1, <3>2 DEF Register, WithRegistered, StoresType
  <2>3. QED
    BY <1>3, <2>1, <2>2 DEF Register
<1>4. ASSUME NEW from \in HasRow, NEW to, MarkIngesting(from, to) PROVE StoresType'
  <2>1. key \in DOMAIN file_audit
    BY <1>4 DEF MarkIngesting, ProcessType
  <2>2. 0 \in Count
    BY DEF Count
  <2>3. QED
    BY <1>4, <2>1, <2>2, Edits DEF MarkIngesting, StoresType
<1>5. CASE CompleteSkip
  <2>1. key \in DOMAIN file_audit /\ frame \in Checksum /\ file_audit[prior] \in Row
    BY <1>5 DEF CompleteSkip, ProcessType, StoresType, HasFrame, HasMd5, HasRow
  <2>2. RowsIn[frame] \in Count /\ 0 \in Count /\ file_audit[prior].bronze_rows \in Count
    BY <2>1, BronzeAssumption DEF Row, Count
  <2>3. QED
    BY <1>5, <2>1, <2>2, Edits DEF CompleteSkip, StoresType
<1>6. CASE ClearPartition \/ WritePartition \/ WriteError \/ Crash
  <2>1. pc # "idle" /\ (WritePartition => frame \in Checksum)
    BY <1>6 DEF ClearPartition, WritePartition, WriteError, Crash, ProcessType, HasFrame, HasMd5, HasRow
  <2>2. lake' \in [Partition -> Checksum \cup {Torn, NoDir}]
    BY <1>6, <2>1, Here DEF ClearPartition, WritePartition, WriteError, Crash, StoresType
  <2>3. UNCHANGED <<raw, file_audit, pipeline_runs, clock>>
    BY <1>6 DEF ClearPartition, WritePartition, WriteError, Crash
  <2>4. QED
    BY <2>2, <2>3 DEF StoresType
<1>7. CASE CompleteWrite
  <2>1. key \in DOMAIN file_audit /\ RowsIn[frame] \in Count
    BY <1>7, BronzeAssumption DEF CompleteWrite, ProcessType, HasFrame, HasMd5, HasRow, Count
  <2>2. QED
    BY <1>7, <2>1, Edits DEF CompleteWrite, StoresType
<1>8. CASE FailSource
  <2>1. key \in DOMAIN file_audit /\ 0 \in Count
    BY <1>8 DEF FailSource, ProcessType, HasRow, Count
  <2>2. QED
    BY <1>8, <2>1, Edits DEF FailSource, StoresType
<1>9. CASE Verdict
  BY <1>9 DEF Verdict, StoresType
<1>10. ASSUME NEW s \in Source, Deliver(s) PROVE StoresType'
  <2>1. PICK c \in Contents[s] \cup {NULL} : raw' = [raw EXCEPT ![s] = c]
    BY <1>10 DEF Deliver
  <2>2. c \in Checksum \cup {NULL}
    BY <2>1, BronzeAssumption
  <2>3. QED
    BY <1>10, <2>1, <2>2 DEF Deliver, StoresType
<1>11. CASE UNCHANGED vars
  BY <1>11 DEF vars, stores, StoresType
<1>12. QED
  BY <1>1, <1>2, <1>3, <1>4, <1>5, <1>6, <1>7, <1>8, <1>9, <1>10, <1>11 DEF Next, RunStep, HasRow

LEMMA ProcessStep == ASSUME TypeInv, [Next]_vars PROVE ProcessType'
<1> USE DEF TypeInv
<1>1. ASSUME NEW b \in Batch, StartRun(b) PROVE ProcessType'
  BY <1>1, Sources DEF StartRun, ProcessType, Steps, HasFrame, HasMd5, HasRow
<1>2. CASE Load
  <2>1. CASE NextSource(TRUE)
    BY <1>2, <2>1, NextSourceType DEF Load
  <2>2. CASE raw[source] # NULL /\ frame' = raw[source] /\ GoTo("fingerprint") /\ UNCHANGED <<md5, prior>>
    <3>1. frame' \in Checksum
      BY <1>2, <2>2, Here DEF Load, StoresType
    <3>2. QED
      BY <1>2, <2>2, <3>1, GoToType DEF Load, ProcessType, Steps, HasFrame, HasMd5, HasRow
  <2>3. QED
    BY <1>2, <2>1, <2>2 DEF Load
<1>3. CASE Fingerprint
  <2>1. CASE Exit
    BY <2>1, ExitType
  <2>2. CASE raw[source] # NULL /\ md5' = raw[source] /\ GoTo("register") /\ UNCHANGED <<frame, prior>>
    <3>1. md5' \in Checksum /\ frame' \in Checksum
      BY <1>3, <2>2, Here DEF Fingerprint, StoresType, ProcessType, HasFrame
    <3>2. QED
      BY <1>3, <2>2, <3>1, GoToType DEF Fingerprint, ProcessType, Steps, HasFrame, HasMd5, HasRow
  <2>3. QED
    BY <1>3, <2>1, <2>2 DEF Fingerprint
<1>4. CASE Register
  <2>1. CASE NextSource(TRUE)
    BY <1>4, <2>1, NextSourceType DEF Register
  <2>2. CASE GoTo("check") /\ key \in DOMAIN file_audit' /\ UNCHANGED <<frame, md5, prior>>
    BY <1>4, <2>2, GoToType DEF Register, ProcessType, Steps, HasFrame, HasMd5, HasRow
  <2>3. QED
    BY <1>4, <2>1, <2>2 DEF Register, WithRegistered
<1>5. CASE Check
  <2>1. key \in DOMAIN file_audit' /\ pc # "idle" /\ UNCHANGED <<file_audit, frame, md5>>
        /\ frame \in Checksum /\ md5 \in Checksum
    BY <1>5 DEF Check, stores, ProcessType, HasFrame, HasMd5, HasRow
  <2>2. CASE prior' = NULL /\ GoTo("ingest")
    BY <2>1, <2>2, GoToType DEF ProcessType, Steps
  <2>3. CASE prior' \in PreviousIngestions(file_audit, md5) /\ GoTo("skip")
    <3>1. prior' \in DOMAIN file_audit' /\ prior' \in Key
      BY <2>1, <2>3, PriorLanded DEF StoresType
    <3>2. QED
      BY <2>1, <2>3, <3>1, GoToType DEF ProcessType, Steps
  <2>4. QED
    BY <1>5, <2>2, <2>3 DEF Check
<1>6. ASSUME NEW from \in HasRow, NEW to \in HasRow, to \notin {"skip"},
             to = "complete_skip" => from = "skip", MarkIngesting(from, to)
      PROVE  ProcessType'
  <2>1. DOMAIN file_audit' = DOMAIN file_audit
    BY <1>6 DEF MarkIngesting, WithIngesting
  <2>2. PICK step \in {to, "fail"} : GoTo(step)
    BY <1>6 DEF MarkIngesting
  <2>3. key \in DOMAIN file_audit /\ pc # "idle" /\ frame \in Checksum /\ md5 \in Checksum
        /\ UNCHANGED <<frame, md5, prior>> /\ prior \in Key \cup {NULL}
        /\ (to = "complete_skip" => prior \in DOMAIN file_audit)
    BY <1>6 DEF MarkIngesting, ProcessType, HasFrame, HasMd5, HasRow
  <2>4. step \in HasRow /\ step # "skip" /\ (step = "complete_skip" => to = "complete_skip")
        /\ step \in Steps \ {"idle"}
    BY <1>6, <2>2 DEF HasRow, Steps
  <2>5. QED
    BY <2>1, <2>2, <2>3, <2>4, GoToType
<1>7. CASE CompleteSkip \/ CompleteWrite
  BY <1>7, NextSourceType DEF CompleteSkip, CompleteWrite
<1>8. CASE FailSource
  BY <1>8, NextSourceType DEF FailSource
<1>9. CASE ClearPartition
  BY <1>9, GoToType DEF ClearPartition, ProcessType, Steps, HasFrame, HasMd5, HasRow
<1>10. CASE WritePartition
  BY <1>10, GoToType DEF WritePartition, ProcessType, Steps, HasFrame, HasMd5, HasRow
<1>11. CASE WriteError
  BY <1>11 DEF WriteError, ProcessType, Steps, HasFrame, HasMd5, HasRow, key, source
<1>12. CASE Verdict \/ Crash
  BY <1>12, ExitType DEF Verdict, Crash
<1>13. ASSUME NEW s \in Source, Deliver(s) PROVE ProcessType'
  BY <1>13 DEF Deliver, run, ProcessType, key, source
<1>14. CASE UNCHANGED vars
  BY <1>14 DEF vars, stores, run, ProcessType, key, source
<1>15. MarkIngesting("skip", "complete_skip") \/ MarkIngesting("ingest", "clear") => ProcessType'
  BY <1>6 DEF HasRow
<1>16. QED
  BY <1>1, <1>2, <1>3, <1>4, <1>5, <1>7, <1>8, <1>9, <1>10, <1>11, <1>12, <1>13, <1>14, <1>15
     DEF Next, RunStep

LEMMA TypeStep == ASSUME TypeInv, [Next]_vars PROVE TypeInv'
BY StoresStep, ProcessStep DEF TypeInv

-----------------------------------------------------------------------------
(* Partitions *)

(* A partition directory exists only for a row that is past "registered",
   and no writer leads back to that status.  A skip and a write are reached
   only through mark_ingesting, which takes a row that is still registered:
   so there is no directory where a run skips, and what it clears and writes
   is not there yet.  A row that landed has no torn partition.             *)
PastRegistered(t, k) == k \in DOMAIN t /\ t[k].status # "registered"

Marked == {"complete_skip", "clear", "write", "complete"}

PartitionInv(s, b) ==
    /\ lake[<<s, b>>] # NoDir => PastRegistered(file_audit, <<b, FileOf[s]>>)
    /\ Landed(file_audit, <<b, FileOf[s]>>) => lake[<<s, b>>] # Torn

LakeInv ==
    /\ \A s \in Source, b \in Batch : PartitionInv(s, b)
    /\ pc \in Marked => file_audit[key].status = "ingesting"
    /\ pc \in {"complete_skip", "clear", "write"} => lake[<<source, batch>>] = NoDir
    /\ pc = "complete" => lake[<<source, batch>>] = IF RowsIn[frame] = 0 THEN NoDir ELSE frame

LEMMA InitLake == Init => LakeInv
BY DEF Init, LakeInv, Partition, PartitionInv, Landed, Marked

(* Rows are not taken back to "registered". *)
LEMMA NeverRegisteredAgain ==
    ASSUME TypeInv, [Next]_vars, NEW k, PastRegistered(file_audit, k)
    PROVE  PastRegistered(file_audit', k)
<1> USE DEF PastRegistered
<1>1. CASE file_audit' = file_audit
  BY <1>1
<1>2. CASE Register
  BY <1>2 DEF Register, WithRegistered, Conflicts
<1>3. ASSUME NEW j, NEW m, NEW n, key = j,
             \/ file_audit' = WithIngesting(file_audit, j)
             \/ file_audit' = WithIngested(file_audit, j, m, n)
             \/ file_audit' = WithFailed(file_audit, j)
      PROVE  PastRegistered(file_audit', k)
  <2>1. DOMAIN file_audit' = DOMAIN file_audit
    BY <1>3 DEF WithIngesting, WithIngested, WithFailed
  <2>2. file_audit[k] \in Row
    BY DEF TypeInv, StoresType
  <2>3. file_audit'[k].status \in {file_audit[k].status, "ingesting", "ingested", "failed"}
    BY <1>3, <2>2 DEF WithIngesting, WithIngested, WithFailed, Row
  <2>4. QED
    BY <2>1, <2>3
<1>4. ASSUME NEW from, NEW to, MarkIngesting(from, to) PROVE PastRegistered(file_audit', k)
  BY <1>1, <1>3, <1>4 DEF MarkIngesting
<1>5. QED
  BY <1>1, <1>2, <1>3, <1>4
     DEF Next, RunStep, StartRun, Load, Fingerprint, Check, CompleteSkip, ClearPartition,
         WritePartition, WriteError, CompleteWrite, FailSource, Verdict, Deliver, Crash, vars, stores

(* Only the steps of a write change the lake, and only where the run is; they
   leave the audit table alone.                                            *)
LEMMA LakeChanges ==
    ASSUME TypeInv, [Next]_vars
    PROVE  /\ lake' = lake \/ pc \in {"clear", "write"}
           /\ pc \in {"clear", "write"} => file_audit' = file_audit
           /\ \A p \in Partition : p # <<source, batch>> => lake'[p] = lake[p]
           /\ pc = "clear" => lake'[<<source, batch>>] = NoDir \/ lake' = lake
<1>1. CASE ClearPartition \/ WritePartition \/ WriteError \/ Crash
  BY <1>1, Here DEF ClearPartition, WritePartition, WriteError, Crash, TypeInv, StoresType
<1>2. CASE lake' = lake
  <2>1. pc \in {"clear", "write"} => file_audit' = file_audit
    BY <1>1
       DEF Next, RunStep, StartRun, Load, Fingerprint, Register, Check, MarkIngesting, CompleteSkip,
           ClearPartition, WritePartition, WriteError, CompleteWrite, FailSource, Verdict, Deliver,
           Crash, vars, stores
  <2>2. QED
    BY <1>2, <2>1
<1>3. QED
  BY <1>1, <1>2
     DEF Next, RunStep, StartRun, Load, Fingerprint, Register, Check, MarkIngesting, CompleteSkip,
         CompleteWrite, FailSource, Verdict, Deliver, vars, stores

(* A row lands by being completed, after a skip or after a write. *)
LEMMA Landings ==
    ASSUME TypeInv, [Next]_vars, NEW k, Landed(file_audit', k), ~Landed(file_audit, k)
    PROVE  k = key /\ (CompleteSkip \/ CompleteWrite)
<1> USE DEF Landed, LandedStatus
<1>1. CASE file_audit' = file_audit
  BY <1>1
<1>2. CASE Register
  <2>1. file_audit' = file_audit \/ file_audit' = WithRegistered(file_audit, key, md5, clock')
    BY <1>2 DEF Register
  <2>2. CASE file_audit' = WithRegistered(file_audit, key, md5, clock')
    <3>1. k = key => file_audit'[k].status = "registered"
      BY <2>2 DEF WithRegistered, NewRow
    <3>2. k # key => k \in DOMAIN file_audit /\ file_audit'[k] = file_audit[k]
      BY <2>2 DEF WithRegistered
    <3>3. QED
      BY <3>1, <3>2
  <2>3. QED
    BY <1>1, <2>1, <2>2
<1>3. ASSUME NEW j, \/ file_audit' = WithIngesting(file_audit, j)
                    \/ file_audit' = WithFailed(file_audit, j)
      PROVE  FALSE
  <2>1. k \in DOMAIN file_audit
    BY <1>3 DEF WithIngesting, WithFailed
  <2>2. file_audit[k] \in Row
    BY <2>1 DEF TypeInv, StoresType
  <2>3. file_audit'[k].status \in {file_audit[k].status, "ingesting", "failed"}
    BY <1>3, <2>1, <2>2 DEF WithIngesting, WithFailed, Row
  <2>4. QED
    BY <2>1, <2>3
<1>4. ASSUME NEW m, NEW n, file_audit' = WithIngested(file_audit, key, m, n) PROVE k = key
  BY <1>4 DEF WithIngested
<1>5. ASSUME NEW from, NEW to, MarkIngesting(from, to) PROVE FALSE
  BY <1>1, <1>3, <1>5 DEF MarkIngesting
<1>6. QED
  BY <1>1, <1>2, <1>3, <1>4, <1>5
     DEF Next, RunStep, StartRun, Load, Fingerprint, Check, CompleteSkip, ClearPartition,
         WritePartition, WriteError, CompleteWrite, FailSource, Verdict, Deliver, Crash, vars, stores

(* The partition of one row. *)
LEMMA PartitionStep ==
    ASSUME TypeInv, LakeInv, [Next]_vars, NEW s \in Source, NEW b \in Batch
    PROVE  PartitionInv(s, b)'
<1> DEFINE k == <<b, FileOf[s]>>
<1>1. PartitionInv(s, b) /\ <<s, b>> \in Partition
  BY DEF LakeInv, Partition
<1>2. /\ k = key => <<s, b>> = <<source, batch>> \/ pc = "idle"
      /\ <<s, b>> = <<source, batch>> => k = key
  <2>1. SourceOf[FileOf[s]] = s
    BY BronzeAssumption
  <2>2. pc # "idle" => SourceOf[FileOf[source]] = source
    BY Here, BronzeAssumption
  <2>3. QED
    BY <2>1, <2>2 DEF key
<1>3. ASSUME PastRegistered(file_audit, k) PROVE PastRegistered(file_audit', k)
  BY <1>3, NeverRegisteredAgain
<1>4. CASE lake'[<<s, b>>] = lake[<<s, b>>]
  <2>1. ASSUME Landed(file_audit', k), ~Landed(file_audit, k), lake[<<s, b>>] = Torn PROVE FALSE
    <3>1. k = key /\ pc \in {"complete_skip", "complete"}
      BY <2>1, Landings DEF CompleteSkip, CompleteWrite
    <3>2. lake[<<source, batch>>] = NoDir \/ (frame \in Checksum /\ lake[<<source, batch>>] = frame)
      BY <3>1 DEF LakeInv, TypeInv, ProcessType, HasFrame, HasMd5, HasRow
    <3>3. QED
      BY <1>2, <2>1, <3>1, <3>2, BronzeAssumption DEF Torn, NoDir
  <2>2. QED
    BY <1>1, <1>3, <1>4, <2>1 DEF PartitionInv
<1>5. CASE lake'[<<s, b>>] # lake[<<s, b>>]
  <2>1. <<s, b>> = <<source, batch>> /\ pc \in {"clear", "write"} /\ file_audit' = file_audit
    BY <1>1, <1>5, LakeChanges
  <2>2. k = key /\ file_audit[k].status = "ingesting" /\ k \in DOMAIN file_audit
    BY <1>2, <2>1 DEF LakeInv, Marked, TypeInv, ProcessType, HasRow
  <2>3. QED
    BY <2>1, <2>2 DEF PartitionInv, PastRegistered, Landed, LandedStatus
<1>6. QED
  BY <1>4, <1>5

(* The row and the partition of the source at hand, while it is worked on. *)
LEMMA MarkedStep ==
    ASSUME TypeInv, LakeInv, [Next]_vars, pc' \in Marked
    PROVE  /\ file_audit'[key'].status = "ingesting"
           /\ pc' \in {"complete_skip", "clear", "write"} => lake'[<<source', batch'>>] = NoDir
           /\ pc' = "complete" =>
                lake'[<<source', batch'>>] = IF RowsIn[frame'] = 0 THEN NoDir ELSE frame'
<1> USE DEF Marked
<1>1. ASSUME NEW from, NEW to, MarkIngesting(from, to), from \in HasRow, to # "complete"
      PROVE  /\ file_audit'[key'].status = "ingesting"
             /\ lake'[<<source', batch'>>] = NoDir
             /\ pc' # "complete"
  <2>1. /\ key' = key /\ source' = source /\ batch' = batch /\ lake' = lake /\ pc' = to
        /\ CanAdvance(file_audit, {key}, "ingesting")
        /\ file_audit' = WithIngesting(file_audit, key)
    BY <1>1 DEF MarkIngesting, GoTo, key, source
  <2>2. key \in DOMAIN file_audit /\ file_audit[key].status = "registered" /\ file_audit[key] \in Row
    BY <2>1 DEF CanAdvance, LegalTransitions, TypeInv, StoresType
  <2>3. lake[<<source, batch>>] = NoDir
    BY <1>1, <2>2, Here DEF LakeInv, PartitionInv, PastRegistered, MarkIngesting, HasRow
  <2>4. file_audit'[key].status = "ingesting"
    BY <2>1, <2>2 DEF WithIngesting, Row
  <2>5. QED
    BY <1>1, <2>1, <2>3, <2>4
<1>2. CASE MarkIngesting("skip", "complete_skip") \/ MarkIngesting("ingest", "clear")
  BY <1>1, <1>2 DEF HasRow
<1>3. CASE ClearPartition \/ WritePartition
  <2>1. /\ pc \in {"clear", "write"} /\ UNCHANGED <<file_audit, key, source, batch, frame>>
        /\ frame \in Checksum /\ <<source, batch>> \in Partition
    BY <1>3, Here DEF ClearPartition, WritePartition, GoTo, key, source, TypeInv, ProcessType,
                      HasFrame, HasMd5, HasRow
  <2>2. QED
    BY <1>3, <2>1 DEF ClearPartition, WritePartition, GoTo, LakeInv, TypeInv, StoresType
<1>4. CASE (\E s \in Source : Deliver(s)) \/ UNCHANGED vars
  BY <1>4 DEF Deliver, vars, stores, run, key, source, LakeInv
<1>5. QED
  <2>1. ASSUME NEW failed, NextSource(failed) PROVE pc' \notin Marked
    BY <2>1 DEF NextSource
  <2>2. Exit => pc' \notin Marked
    BY DEF Exit
  <2>3. Load \/ Register \/ CompleteSkip \/ CompleteWrite \/ FailSource => pc' \notin Marked
    BY <2>1 DEF Load, Register, CompleteSkip, CompleteWrite, FailSource, GoTo
  <2>4. Fingerprint \/ Verdict \/ Crash => pc' \notin Marked
    BY <2>2 DEF Fingerprint, Verdict, Crash, GoTo
  <2>5. Check \/ WriteError \/ (\E b \in Batch : StartRun(b)) => pc' \notin Marked
    BY DEF Check, WriteError, StartRun, GoTo
  <2>6. QED
    BY <1>2, <1>3, <1>4, <2>3, <2>4, <2>5 DEF Next, RunStep

(* A whole partition is not touched. *)
LEMMA WholeStays ==
    ASSUME TypeInv, LakeInv, [Next]_vars, NEW p \in Partition, lake[p] \in Checksum
    PROVE  lake'[p] = lake[p]
<1>1. CASE p = <<source, batch>> /\ pc \in {"clear", "write"}
  BY <1>1, BronzeAssumption DEF LakeInv, NoDir
<1>2. CASE p # <<source, batch>> \/ pc \notin {"clear", "write"}
  BY <1>2, LakeChanges
<1>3. QED
  BY <1>1, <1>2

LEMMA LakeStep == ASSUME TypeInv, LakeInv, [Next]_vars PROVE LakeInv'
<1>1. \A s \in Source, b \in Batch : PartitionInv(s, b)'
  BY PartitionStep
<1>2. QED
  BY <1>1, MarkedStep DEF LakeInv, Marked

-----------------------------------------------------------------------------
(* Verdicts *)

(* While nothing has failed, every source before the current one has landed;
   a source of a running batch loses that only by failing, and no other run
   touches its row.                                                        *)
LandedBefore(i) == \A j \in 1 .. i : Landed(file_audit, <<batch, FileOf[Registry[j]]>>)

VerdictInv ==
    /\ pc # "idle" => pipeline_runs[batch] = "running"
    /\ pc \notin {"idle", "verdict"} /\ failures = {} => LandedBefore(pos - 1)
    /\ pc = "verdict" /\ failures = {} => LandedBefore(Len(Registry))
    /\ SuccessMeansLanded

LEMMA InitVerdict == Init => VerdictInv
BY DEF Init, VerdictInv, SuccessMeansLanded, has_succeeded

(* Every step but a failure leaves landed what has landed. *)
LEMMA LandedStays ==
    ASSUME TypeInv, [Next]_vars, NEW k, Landed(file_audit, k),
           ~FailSource \/ k # key
    PROVE  Landed(file_audit', k)
<1> USE DEF Landed, LandedStatus
<1>1. CASE file_audit' = file_audit
  BY <1>1
<1>2. CASE Register
  BY <1>2 DEF Register, WithRegistered, Conflicts
<1>3. ASSUME NEW from, NEW to, MarkIngesting(from, to) PROVE Landed(file_audit', k)
  <2>1. CASE file_audit' = WithIngesting(file_audit, key) /\ CanAdvance(file_audit, {key}, "ingesting")
    <3>1. k # key
      BY <2>1 DEF CanAdvance, LegalTransitions
    <3>2. QED
      BY <2>1, <3>1 DEF WithIngesting
  <2>2. QED
    BY <1>1, <1>3, <2>1 DEF MarkIngesting
<1>4. ASSUME NEW m, NEW n, file_audit' = WithIngested(file_audit, key, m, n) PROVE Landed(file_audit', k)
  BY <1>4 DEF WithIngested, TypeInv, StoresType, Row
<1>5. CASE FailSource
  BY <1>5 DEF FailSource, WithFailed
<1>6. QED
  BY <1>1, <1>2, <1>3, <1>4, <1>5
     DEF Next, RunStep, StartRun, Load, Fingerprint, Check, CompleteSkip, ClearPartition,
         WritePartition, WriteError, CompleteWrite, Verdict, Deliver, Crash, vars, stores

LEMMA BeforeStays ==
    ASSUME TypeInv, [Next]_vars, ~FailSource, batch' = batch, NEW i, LandedBefore(i)
    PROVE  LandedBefore(i)'
BY LandedStays DEF LandedBefore

(* The two ways for a source to be done well. *)
LEMMA CompletedLands ==
    ASSUME TypeInv, VerdictInv, CompleteSkip \/ CompleteWrite, failures' = {}
    PROVE  /\ batch' = batch
           /\ \A j \in 1 .. pos : Landed(file_audit', <<batch, FileOf[Registry[j]]>>)
           /\ \/ pc' = "load" /\ pos' = pos + 1
              \/ pc' = "verdict" /\ pos' = pos /\ pos = Len(Registry)
<1>1. /\ pc \in {"complete_skip", "complete"} /\ key \in DOMAIN file_audit
      /\ file_audit[key] \in Row /\ key = <<batch, FileOf[source]>>
  BY Here DEF CompleteSkip, CompleteWrite, TypeInv, ProcessType, StoresType, HasRow
<1>2. NextSource(FALSE) /\ \E m, n : file_audit' = WithIngested(file_audit, key, m, n)
  BY DEF CompleteSkip, CompleteWrite
<1>3. /\ batch' = batch /\ failures = {}
      /\ \/ pc' = "load" /\ pos' = pos + 1
         \/ pc' = "verdict" /\ pos' = pos /\ pos = Len(Registry)
  BY <1>1, <1>2, NextSourceMoves DEF TypeInv, ProcessType
<1>4. Landed(file_audit', key)
  BY <1>1, <1>2 DEF Landed, LandedStatus, WithIngested, Row
<1>5. LandedBefore(pos - 1)
  BY <1>1, <1>3 DEF VerdictInv
<1>6. ASSUME NEW j \in 1 .. pos PROVE Landed(file_audit', <<batch, FileOf[Registry[j]]>>)
  <2>1. pos \in Nat
    BY <1>1, Sources DEF TypeInv, ProcessType
  <2>2. CASE j = pos
    BY <1>1, <1>4, <2>2 DEF source
  <2>3. CASE j # pos
    <3>1. j \in 1 .. pos - 1
      BY <2>1, <2>3
    <3>2. CASE <<batch, FileOf[Registry[j]]>> = key
      BY <1>4, <3>2
    <3>3. QED
      BY <1>1, <1>5, <3>1, LandedStays DEF LandedBefore, Next, RunStep, FailSource
  <2>4. QED
    BY <2>2, <2>3
<1>7. QED
  BY <1>3, <1>6

LEMMA VerdictStep == ASSUME TypeInv, VerdictInv, [Next]_vars PROVE VerdictInv'
<1>1. SuccessMeansLanded'
  <2> SUFFICES ASSUME NEW b \in Batch, pipeline_runs'[b] = "success", NEW i \in DOMAIN Registry
               PROVE  Landed(file_audit', <<b, FileOf[Registry[i]]>>)
    BY DEF SuccessMeansLanded, has_succeeded
  <2>1. CASE pipeline_runs[b] = "success"
    <3>1. Landed(file_audit, <<b, FileOf[Registry[i]]>>)
      BY <2>1 DEF VerdictInv, SuccessMeansLanded, has_succeeded
    <3>2. FailSource => <<b, FileOf[Registry[i]]>> # key
      BY <2>1 DEF FailSource, VerdictInv, key
    <3>3. QED
      BY <3>1, <3>2, LandedStays
  <2>2. CASE pipeline_runs[b] # "success"
    <3>1. Verdict /\ failures = {} /\ b = batch /\ pc = "verdict" /\ file_audit' = file_audit
      BY <2>2 DEF Next, RunStep, StartRun, Load, Fingerprint, Register, Check, MarkIngesting,
                  CompleteSkip, ClearPartition, WritePartition, WriteError, CompleteWrite, FailSource,
                  Verdict, Deliver, Crash, vars, stores, TypeInv, StoresType
    <3>2. QED
      BY <3>1, Sources DEF VerdictInv, LandedBefore
  <2>3. QED
    BY <2>1, <2>2
<1>2. CASE pc' = "idle"
  BY <1>1, <1>2 DEF VerdictInv
<1>3. ASSUME NEW b \in Batch, StartRun(b) PROVE VerdictInv'
  <2>1. pc' = "load" /\ pos' = 1 /\ pipeline_runs'[batch'] = "running"
    BY <1>3 DEF StartRun, TypeInv, StoresType
  <2>2. LandedBefore(pos - 1)'
    BY <2>1 DEF LandedBefore
  <2>3. QED
    BY <1>1, <2>1, <2>2 DEF VerdictInv
<1>4. CASE CompleteSkip \/ CompleteWrite
  <2>1. pipeline_runs' = pipeline_runs /\ pipeline_runs[batch] = "running" /\ pos \in Nat
        /\ batch' = batch /\ pc' \in {"load", "verdict"}
    <3>1. NextSource(FALSE) /\ pc # "idle" /\ pipeline_runs' = pipeline_runs
      BY <1>4 DEF CompleteSkip, CompleteWrite
    <3>2. pos \in DOMAIN Registry /\ failures \subseteq DOMAIN Registry /\ pipeline_runs[batch] = "running"
      BY <3>1 DEF VerdictInv, TypeInv, ProcessType
    <3>3. batch' = batch /\ pc' \in {"load", "verdict"}
      BY <3>1, <3>2, NextSourceMoves
    <3>4. QED
      BY <3>1, <3>2, <3>3, Sources
  <2>2. CASE failures' # {}
    BY <1>1, <2>1, <2>2 DEF VerdictInv
  <2>3. CASE failures' = {}
    <3>1. /\ \A j \in 1 .. pos : Landed(file_audit', <<batch', FileOf[Registry[j]]>>)
          /\ \/ pc' = "load" /\ pos' = pos + 1
             \/ pc' = "verdict" /\ pos' = pos /\ pos = Len(Registry)
      BY <1>4, <2>1, <2>3, CompletedLands
    <3>2. pc' = "load" => LandedBefore(pos - 1)'
      <4>1. pc' = "load" => pos' - 1 = pos
        BY <2>1, <3>1
      <4>2. QED
        BY <3>1, <4>1 DEF LandedBefore
    <3>3. pc' = "verdict" => LandedBefore(Len(Registry))'
      BY <3>1 DEF LandedBefore
    <3>4. QED
      BY <1>1, <2>1, <3>1, <3>2, <3>3 DEF VerdictInv
  <2>4. QED
    BY <2>2, <2>3
<1>5. ASSUME NextSource(TRUE), pipeline_runs' = pipeline_runs, pc # "idle" PROVE VerdictInv'
  BY <1>1, <1>5, NextSourceMoves DEF VerdictInv, TypeInv, ProcessType
<1>6. ASSUME UNCHANGED <<pipeline_runs, batch, pos, failures>>, ~FailSource,
             pc' \notin {"idle", "verdict"}, pc \notin {"idle", "verdict"}
      PROVE  VerdictInv'
  <2>1. failures = {} => LandedBefore(pos - 1)'
    <3>1. failures = {} => LandedBefore(pos - 1)
      BY <1>6 DEF VerdictInv
    <3>2. QED
      BY <1>6, <3>1, LandedStays DEF LandedBefore
  <2>2. QED
    BY <1>1, <1>6, <2>1 DEF VerdictInv
<1>7. CASE UNCHANGED <<file_audit, pipeline_runs, run>>
  BY <1>1, <1>7 DEF VerdictInv, LandedBefore, run
<1>8. CASE Load \/ Register
  BY <1>5, <1>6, <1>8 DEF Load, Register, GoTo, stores, FailSource
<1>9. CASE Fingerprint
  BY <1>2, <1>6, <1>9 DEF Fingerprint, Exit, GoTo, stores, FailSource
<1>10. CASE Check \/ ClearPartition \/ WritePartition \/ WriteError
  BY <1>6, <1>10 DEF Check, ClearPartition, WritePartition, WriteError, GoTo, stores, FailSource
<1>11. CASE MarkIngesting("skip", "complete_skip") \/ MarkIngesting("ingest", "clear")
  BY <1>6, <1>11 DEF MarkIngesting, GoTo, FailSource
<1>12. CASE FailSource
  BY <1>5, <1>12 DEF FailSource
<1>13. CASE Verdict \/ Crash
  BY <1>2, <1>13 DEF Verdict, Crash, Exit
<1>14. CASE (\E s \in Source : Deliver(s)) \/ UNCHANGED vars
  BY <1>7, <1>14 DEF Deliver, vars, stores
<1>15. QED
  BY <1>3, <1>4, <1>8, <1>9, <1>10, <1>11, <1>12, <1>13, <1>14 DEF Next, RunStep

-----------------------------------------------------------------------------
(* Counts *)

(* When no file is replaced under a run, what the run holds, fingerprints and
   registers is one and the same content, and the prior ingestion of a
   duplicate is of that content too; so the count it copies is the right one. *)
FrameInv ==
    /\ pc \in HasFrame => raw[source] = frame \/ raw[source] = NULL
    /\ pc \in HasMd5 => md5 = frame
    /\ pc \in HasRow => file_audit[key].checksum = frame
    /\ pc \in {"skip", "complete_skip"} =>
          Landed(file_audit, prior) /\ file_audit[prior].checksum = frame

CountsInv == LandedCountsAreTrue /\ FrameInv

(* A landed row has the counts of its bytes. *)
Counted(t, k) ==
    Landed(t, k) => /\ t[k].source_rows = RowsIn[t[k].checksum]
                    /\ t[k].bronze_rows = RowsIn[t[k].checksum]

LEMMA InitCounts == Init => CountsInv
<1> SUFFICES ASSUME Init PROVE CountsInv
  OBVIOUS
<1>1. DOMAIN file_audit = {} /\ pc = "idle"
  BY DEF Init
<1>2. QED
  BY <1>1 DEF CountsInv, FrameInv, LandedCountsAreTrue, HasFrame, HasMd5, HasRow

(* The rows that are not the current one stay, and the current one keeps its
   checksum and the second of its registration.                            *)
LEMMA OtherRows ==
    ASSUME TypeInv, [Next]_vars, NEW k \in DOMAIN file_audit
    PROVE  /\ k \in DOMAIN file_audit'
           /\ k # key => file_audit'[k] = file_audit[k]
           /\ file_audit'[k].checksum = file_audit[k].checksum
           /\ file_audit'[k].registered_at = file_audit[k].registered_at
<1>1. file_audit[k] \in Row
  BY DEF TypeInv, StoresType
<1>2. CASE file_audit' = file_audit
  BY <1>2
<1>3. CASE Register
  BY <1>3 DEF Register, WithRegistered, Conflicts
<1>4. ASSUME NEW m, NEW n,
             \/ file_audit' = WithIngesting(file_audit, key)
             \/ file_audit' = WithIngested(file_audit, key, m, n)
             \/ file_audit' = WithFailed(file_audit, key)
      PROVE  /\ k \in DOMAIN file_audit'
             /\ k # key => file_audit'[k] = file_audit[k]
             /\ file_audit'[k].checksum = file_audit[k].checksum
             /\ file_audit'[k].registered_at = file_audit[k].registered_at
  <2>1. CASE file_audit' = WithIngesting(file_audit, key)
    BY <1>1, <2>1 DEF WithIngesting, Row
  <2>2. CASE file_audit' = WithIngested(file_audit, key, m, n)
    <3>1. DOMAIN file_audit' = DOMAIN file_audit
      BY <2>2 DEF WithIngested
    <3>2. k # key => file_audit'[k] = file_audit[k]
      BY <2>2 DEF WithIngested
    <3>3. k = key => file_audit'[k] = [file_audit[k] EXCEPT !.status = "ingested", !.source_rows = m,
                                                          !.bronze_rows = n]
      BY <2>2 DEF WithIngested
    <3>4. QED
      BY <1>1, <3>1, <3>2, <3>3 DEF Row
  <2>3. CASE file_audit' = WithFailed(file_audit, key)
    BY <1>1, <2>3 DEF WithFailed, Row
  <2>4. QED
    BY <1>4, <2>1, <2>2, <2>3
<1>5. CASE CompleteSkip \/ CompleteWrite \/ FailSource
  BY <1>4, <1>5 DEF CompleteSkip, CompleteWrite, FailSource
<1>6. ASSUME NEW from, NEW to, MarkIngesting(from, to)
      PROVE  /\ k \in DOMAIN file_audit'
             /\ k # key => file_audit'[k] = file_audit[k]
             /\ file_audit'[k].checksum = file_audit[k].checksum
             /\ file_audit'[k].registered_at = file_audit[k].registered_at
  BY <1>2, <1>4, <1>6 DEF MarkIngesting
<1>7. QED
  BY <1>2, <1>3, <1>5, <1>6
     DEF Next, RunStep, StartRun, Load, Fingerprint, Check, ClearPartition, WritePartition,
         WriteError, Verdict, Deliver, Crash, vars, stores

(* What the step at hand does to the row of the current source. *)
LEMMA CurrentRow ==
    ASSUME TypeInv, CountsInv, [Next]_vars, pc \in HasRow
    PROVE  Counted(file_audit', key)
<1>1. key \in DOMAIN file_audit /\ file_audit[key] \in Row /\ file_audit[key].checksum = frame
      /\ Counted(file_audit, key)
  BY DEF CountsInv, FrameInv, LandedCountsAreTrue, Counted, Landed, TypeInv, StoresType, ProcessType
<1>2. CASE file_audit' = file_audit
  BY <1>1, <1>2
<1>3. CASE CompleteSkip
  <2>1. file_audit[prior].bronze_rows = RowsIn[frame] /\ RowsIn[frame] # NULL
    <3>1. frame \in Checksum /\ RowsIn[frame] \in Nat
      BY BronzeAssumption DEF TypeInv, ProcessType, HasFrame, HasMd5
    <3>2. file_audit[prior].bronze_rows = RowsIn[frame]
      BY <1>3 DEF CompleteSkip, CountsInv, FrameInv, LandedCountsAreTrue, Landed
    <3>3. QED
      BY <3>1, <3>2, AuditAssumption
  <2>2. file_audit' = WithIngested(file_audit, key, RowsIn[frame], RowsIn[frame])
    BY <1>3, <2>1 DEF CompleteSkip
  <2>3. QED
    BY <1>1, <2>2 DEF WithIngested, Counted, Row
<1>4. CASE CompleteWrite
  BY <1>1, <1>4 DEF CompleteWrite, WithIngested, Counted, Row
<1>5. CASE FailSource
  BY <1>1, <1>5 DEF FailSource, WithFailed, Counted, Landed, LandedStatus, Row
<1>6. ASSUME NEW from, NEW to, MarkIngesting(from, to) PROVE Counted(file_audit', key)
  BY <1>1, <1>2, <1>6 DEF MarkIngesting, WithIngesting, Counted, Landed, LandedStatus, Row
<1>7. ~Register
  BY DEF Register, HasRow
<1>8. QED
  BY <1>2, <1>3, <1>4, <1>5, <1>6, <1>7
     DEF Next, RunStep, StartRun, Load, Fingerprint, Check, ClearPartition, WritePartition,
         WriteError, Verdict, Deliver, Crash, vars, stores

LEMMA FrameStep ==
    ASSUME "replace" \notin MidRun, TypeInv, FrameInv, [Next]_vars
    PROVE  FrameInv'
<1> USE DEF HasFrame, HasMd5, HasRow
<1>1. pc' \in {"idle", "load", "verdict"} => FrameInv'
  BY DEF FrameInv
<1>2. NextSource(TRUE) \/ NextSource(FALSE) => FrameInv'
  BY <1>1 DEF NextSource
<1>3. Exit => FrameInv'
  BY <1>1 DEF Exit
<1>4. ASSUME NEW step, GoTo(step) PROVE pc' = step /\ source' = source /\ key' = key /\ batch' = batch
  BY <1>4 DEF GoTo, source, key
<1>5. CASE Load
  <2>1. CASE NextSource(TRUE)
    BY <1>2, <2>1
  <2>2. CASE GoTo("fingerprint") /\ frame' = raw[source] /\ raw' = raw
    <3>1. pc' = "fingerprint" /\ source' = source
      BY <1>4, <2>2
    <3>2. QED
      BY <2>2, <3>1 DEF FrameInv
  <2>3. QED
    BY <1>5, <2>1, <2>2 DEF Load, stores
<1>6. CASE Fingerprint
  <2>1. CASE Exit
    BY <1>3, <2>1
  <2>2. CASE raw[source] # NULL /\ md5' = raw[source] /\ GoTo("register") /\ UNCHANGED <<raw, frame>>
    <3>1. pc' = "register" /\ source' = source /\ md5' = frame
      BY <1>4, <1>6, <2>2 DEF Fingerprint, FrameInv
    <3>2. QED
      BY <1>6, <2>2, <3>1 DEF Fingerprint, FrameInv
  <2>3. QED
    BY <1>6, <2>1, <2>2 DEF Fingerprint, stores
<1>7. CASE Register
  <2>1. CASE NextSource(TRUE)
    BY <1>2, <2>1
  <2>2. CASE GoTo("check")
    <3>1. md5 = frame /\ file_audit'[key].checksum = md5 /\ UNCHANGED <<raw, frame, md5>>
      BY <1>7, <2>2 DEF Register, Conflicts, WithRegistered, NewRow, FrameInv, GoTo, NextSource
    <3>2. QED
      BY <1>4, <1>7, <2>2, <3>1 DEF Register, FrameInv
  <2>3. QED
    BY <1>7, <2>1, <2>2 DEF Register
<1>8. CASE Check
  <2>1. GoTo("ingest") \/ (GoTo("skip") /\ prior' \in PreviousIngestions(file_audit, md5))
    BY <1>8 DEF Check
  <2>2. prior' \in PreviousIngestions(file_audit, md5) =>
            Landed(file_audit, prior') /\ file_audit[prior'].checksum = md5
    BY PriorLanded DEF Landed
  <2>3. QED
    BY <1>4, <1>8, <2>1, <2>2 DEF Check, stores, FrameInv
<1>9. ASSUME NEW from \in HasRow, NEW to \in HasRow, to \notin {"skip"},
             to = "complete_skip" => from = "skip", MarkIngesting(from, to)
      PROVE  FrameInv'
  <2>1. key \in DOMAIN file_audit
    BY <1>9 DEF MarkIngesting, TypeInv, ProcessType
  <2>2. UNCHANGED <<raw, frame, md5, prior>> /\ (GoTo(to) \/ GoTo("fail"))
    BY <1>9 DEF MarkIngesting
  <2>3. file_audit'[key].checksum = frame /\ md5 = frame /\ (raw[source] = frame \/ raw[source] = NULL)
    BY <1>9, <2>1, OtherRows DEF MarkIngesting, FrameInv
  <2>4. CASE to = "complete_skip" /\ GoTo(to)
    <3>1. Landed(file_audit, prior) /\ file_audit[prior].checksum = frame
      BY <1>9, <2>4 DEF MarkIngesting, FrameInv
    <3>2. Landed(file_audit', prior)
      <4>1. ~FailSource
        BY <1>9, <2>4 DEF MarkIngesting, FailSource
      <4>2. QED
        BY <3>1, <4>1, LandedStays
    <3>3. file_audit'[prior].checksum = frame
      BY <3>1, OtherRows DEF Landed
    <3>4. QED
      BY <1>4, <2>2, <2>3, <2>4, <3>2, <3>3 DEF FrameInv
  <2>5. CASE GoTo("fail") \/ (GoTo(to) /\ to # "complete_skip")
    BY <1>4, <1>9, <2>2, <2>3, <2>5 DEF FrameInv
  <2>6. QED
    BY <2>2, <2>4, <2>5
<1>10. MarkIngesting("skip", "complete_skip") \/ MarkIngesting("ingest", "clear") => FrameInv'
  BY <1>9
<1>11. CASE ClearPartition \/ WritePartition
  BY <1>4, <1>11 DEF ClearPartition, WritePartition, FrameInv
<1>12. CASE WriteError
  BY <1>12 DEF WriteError, FrameInv, source, key
<1>13. CASE CompleteSkip \/ CompleteWrite \/ FailSource
  BY <1>2, <1>13 DEF CompleteSkip, CompleteWrite, FailSource
<1>14. CASE Verdict \/ Crash \/ \E b \in Batch : StartRun(b)
  BY <1>1, <1>3, <1>14 DEF Verdict, Crash, StartRun
<1>15. ASSUME NEW s \in Source, Deliver(s) PROVE FrameInv'
  <2>1. UNCHANGED <<file_audit, pc, source, key, frame, md5, prior>>
    BY <1>15 DEF Deliver, run, source, key
  <2>2. pc # "idle" => source \in Source /\ (raw'[source] = raw[source] \/ raw'[source] = NULL)
    BY <1>15, Here DEF Deliver, TypeInv, StoresType
  <2>3. QED
    BY <2>1, <2>2 DEF FrameInv
<1>16. CASE UNCHANGED vars
  BY <1>16 DEF vars, stores, run, FrameInv, source, key
<1>17. QED
  BY <1>5, <1>6, <1>7, <1>8, <1>10, <1>11, <1>12, <1>13, <1>14, <1>15, <1>16 DEF Next, RunStep

LEMMA CountsStep ==
    ASSUME "replace" \notin MidRun, TypeInv, CountsInv, [Next]_vars
    PROVE  CountsInv'
<1> USE DEF HasFrame, HasMd5, HasRow
<1>1. LandedCountsAreTrue'
  <2>1. ASSUME NEW k \in DOMAIN file_audit' PROVE Counted(file_audit', k)
    <3>1. CASE k \in DOMAIN file_audit /\ k # key
      BY <3>1, OtherRows DEF CountsInv, LandedCountsAreTrue, Counted, Landed
    <3>2. CASE k \in DOMAIN file_audit /\ k = key /\ pc \in HasRow
      BY <3>2, CurrentRow
    <3>3. CASE k \in DOMAIN file_audit /\ k = key /\ pc \notin HasRow
      <4>1. file_audit'[k] = file_audit[k]
        BY <3>3 DEF Next, RunStep, StartRun, Load, Fingerprint, Check, ClearPartition, WritePartition,
            WriteError, Verdict, Deliver, Crash, vars, stores, Register, WithRegistered, MarkIngesting,
            CompleteSkip, CompleteWrite, FailSource
      <4>2. QED
        BY <3>3, <4>1 DEF CountsInv, LandedCountsAreTrue, Counted, Landed
    <3>4. CASE k \notin DOMAIN file_audit
      <4>1. file_audit' = WithRegistered(file_audit, key, md5, clock')
        BY <2>1, <3>4 DEF Next, RunStep, StartRun, Load, Fingerprint, Check, ClearPartition,
            WritePartition, WriteError, Verdict, Deliver, Crash, vars, stores, Register, MarkIngesting,
            CompleteSkip, CompleteWrite, FailSource, WithIngesting, WithIngested, WithFailed
      <4>2. file_audit'[k] = NewRow(md5, clock')
        BY <2>1, <3>4, <4>1 DEF WithRegistered
      <4>3. QED
        BY <4>2 DEF NewRow, Counted, Landed, LandedStatus
    <3>5. QED
      BY <3>1, <3>2, <3>3, <3>4
  <2>2. QED
    BY <2>1 DEF LandedCountsAreTrue, Counted
<1>2. QED
  BY <1>1, FrameStep DEF CountsInv

-----------------------------------------------------------------------------
(* Duplicates *)

(* The rows of a step that were not there before, and what is held of the
   bytes of a source from one step to the next.                            *)
LEMMA NewRows ==
    ASSUME [Next]_vars, NEW k \in DOMAIN file_audit', k \notin DOMAIN file_audit
    PROVE  /\ pc = "register" /\ k = key /\ file_audit'[k] = NewRow(md5, clock')
           /\ GoTo("check") /\ UNCHANGED <<key, source, attempts>>
<1>1. file_audit' = WithRegistered(file_audit, key, md5, clock') /\ Register
  BY DEF Next, RunStep, StartRun, Load, Fingerprint, Check, ClearPartition, WritePartition,
         WriteError, Verdict, Deliver, Crash, vars, stores, Register, MarkIngesting,
         CompleteSkip, CompleteWrite, FailSource, WithIngesting, WithIngested, WithFailed
<1>2. k = key /\ file_audit'[k] = NewRow(md5, clock')
  BY <1>1 DEF WithRegistered
<1>3. GoTo("check")
  BY <1>1, <1>2 DEF Register
<1>4. QED
  BY <1>1, <1>2, <1>3 DEF Register, GoTo, key, source

LEMMA Held ==
    ASSUME [Next]_vars, pc' \in HasMd5, ~Fingerprint
    PROVE  /\ pc \in HasMd5
           /\ UNCHANGED <<md5, frame, source, key, batch>>
<1> USE DEF HasMd5, HasRow
<1>1. ASSUME NEW failed, NextSource(failed) PROVE FALSE
  BY <1>1 DEF NextSource
<1>2. ~Exit /\ ~Load /\ (\A b \in Batch : ~StartRun(b))
  BY <1>1 DEF Exit, Load, StartRun, GoTo
<1>3. CASE Register \/ Check \/ ClearPartition \/ WritePartition \/ WriteError
  BY <1>1, <1>3 DEF Register, Check, ClearPartition, WritePartition, WriteError, GoTo, key, source
<1>4. CASE MarkIngesting("skip", "complete_skip") \/ MarkIngesting("ingest", "clear")
  BY <1>4 DEF MarkIngesting, GoTo, key, source
<1>5. CASE (\E s \in Source : Deliver(s)) \/ UNCHANGED vars
  BY <1>5 DEF Deliver, vars, run, key, source
<1>6. QED
  BY <1>1, <1>2, <1>3, <1>4, <1>5
     DEF Next, RunStep, CompleteSkip, CompleteWrite, FailSource, Verdict, Crash

(* Every row is of the file of a source, its bytes are among those the vendor
   may deliver for that source, and it was registered by now.              *)
BytesInv ==
    /\ \A k \in DOMAIN file_audit :
          /\ k[2] = FileOf[SourceOf[k[2]]]
          /\ file_audit[k].checksum \in Contents[SourceOf[k[2]]]
          /\ file_audit[k].registered_at <= clock
    /\ pc \in HasMd5 => md5 \in Contents[source]

LEMMA InitBytes == Init => BytesInv
<1> SUFFICES ASSUME Init PROVE BytesInv
  OBVIOUS
<1>1. DOMAIN file_audit = {} /\ pc = "idle"
  BY DEF Init
<1>2. QED
  BY <1>1 DEF BytesInv, HasMd5, HasRow

(* The clock does not run backwards. *)
LEMMA ClockRuns == ASSUME TypeInv, [Next]_vars PROVE clock' \in Nat /\ clock <= clock'
<1>1. clock' \in {clock, clock + 1}
  BY DEF Next, RunStep, StartRun, Load, Fingerprint, Check, ClearPartition, WritePartition, WriteError,
         Verdict, Deliver, Crash, vars, stores, Register, MarkIngesting, CompleteSkip, CompleteWrite,
         FailSource
<1>2. QED
  BY <1>1 DEF TypeInv, StoresType

LEMMA BytesStep == ASSUME TypeInv, BytesInv, [Next]_vars PROVE BytesInv'
<1>1. ASSUME NEW k \in DOMAIN file_audit'
      PROVE  /\ k[2] = FileOf[SourceOf[k[2]]]
             /\ file_audit'[k].checksum \in Contents[SourceOf[k[2]]]
             /\ file_audit'[k].registered_at <= clock'
  <2>1. CASE k \in DOMAIN file_audit
    <3>1. file_audit[k].registered_at \in Nat /\ clock \in Nat
      BY <2>1 DEF TypeInv, StoresType, Row
    <3>2. QED
      BY <2>1, <3>1, OtherRows, ClockRuns DEF BytesInv
  <2>2. CASE k \notin DOMAIN file_audit
    <3>1. /\ pc = "register" /\ k = <<batch, FileOf[source]>>
          /\ file_audit'[k].checksum = md5 /\ file_audit'[k].registered_at = clock'
      BY <2>2, NewRows DEF NewRow, key
    <3>2. SourceOf[FileOf[source]] = source /\ md5 \in Contents[source] /\ clock' \in Nat
      BY <3>1, ClockRuns, Here, BronzeAssumption DEF BytesInv, HasMd5, TypeInv, StoresType
    <3>3. QED
      BY <3>1, <3>2
  <2>3. QED
    BY <2>1, <2>2
<1>2. ASSUME pc' \in HasMd5 PROVE md5' \in Contents[source']
  <2>1. CASE Fingerprint
    <3>1. raw[source] # NULL /\ md5' = raw[source] /\ GoTo("register")
      BY <1>2, <2>1 DEF Fingerprint, Exit, HasMd5, HasRow
    <3>2. source' = source /\ source \in Source
      BY <2>1, <3>1, Here DEF GoTo, source, Fingerprint
    <3>3. QED
      BY <3>1, <3>2 DEF TypeInv, StoresType
  <2>2. CASE ~Fingerprint
    BY <1>2, <2>2, Held DEF BytesInv
  <2>3. QED
    BY <2>1, <2>2
<1>3. QED
  BY <1>1, <1>2 DEF BytesInv

(* Sources share no bytes: rows with the same bytes are of one file. *)
LEMMA SameBytes ==
    ASSUME TypeInv, BytesInv, NEW j \in DOMAIN file_audit, NEW k \in DOMAIN file_audit,
           file_audit[j].checksum = file_audit[k].checksum
    PROVE  SourceOf[j[2]] = SourceOf[k[2]] /\ j[2] = k[2] /\ (j[1] = k[1] => j = k)
<1>1. j \in Key /\ k \in Key
  BY DEF TypeInv, StoresType
<1>2. SourceOf[j[2]] \in Source /\ SourceOf[k[2]] \in Source
  BY <1>1, AuditAssumption DEF Key
<1>3. SourceOf[j[2]] = SourceOf[k[2]]
  BY <1>2, BronzeAssumption DEF BytesInv
<1>4. QED
  BY <1>1, <1>3 DEF BytesInv, Key

(* No byte of a partition but its row's. *)
WholeInv ==
    \A s \in Source, b \in Batch :
        lake[<<s, b>>] \in Checksum => lake[<<s, b>>] = file_audit[<<b, FileOf[s]>>].checksum

LEMMA WholeStep ==
    ASSUME TypeInv, LakeInv, FrameInv, WholeInv, [Next]_vars
    PROVE  WholeInv'
<1> SUFFICES ASSUME NEW s \in Source, NEW b \in Batch, lake'[<<s, b>>] \in Checksum
             PROVE  lake'[<<s, b>>] = file_audit'[<<b, FileOf[s]>>].checksum
  BY DEF WholeInv
<1>0. <<s, b>> \in Partition
  BY DEF Partition
<1>1. CASE lake'[<<s, b>>] = lake[<<s, b>>]
  <2>1. <<b, FileOf[s]>> \in DOMAIN file_audit
    BY <1>1, BronzeAssumption DEF LakeInv, PartitionInv, PastRegistered, NoDir
  <2>2. QED
    BY <1>1, <2>1, OtherRows DEF WholeInv
<1>2. CASE lake'[<<s, b>>] # lake[<<s, b>>]
  <2>1. <<s, b>> = <<source, batch>> /\ pc \in {"clear", "write"} /\ file_audit' = file_audit
    BY <1>0, <1>2, LakeChanges
  <2>2. file_audit[<<b, FileOf[s]>>].checksum = frame
    BY <2>1 DEF FrameInv, HasRow, key
  <2>3. lake'[<<s, b>>] \in {NoDir, Torn, frame}
    <3>1. ClearPartition \/ WritePartition \/ WriteError \/ Crash
      BY <1>2
         DEF Next, RunStep, StartRun, Load, Fingerprint, Register, Check, MarkIngesting, CompleteSkip,
             CompleteWrite, FailSource, Verdict, Deliver, vars, stores
    <3>2. QED
      BY <1>0, <1>2, <2>1, <3>1 DEF ClearPartition, WritePartition, WriteError, Crash, TypeInv, StoresType
  <2>4. QED
    BY <2>1, <2>2, <2>3, BronzeAssumption
<1>3. QED
  BY <1>1, <1>2

(* When a run writes, no row of these bytes has landed. *)
Known(t, c) == \E k \in DOMAIN t : Landed(t, k) /\ t[k].checksum = c

DuplicateInv ==
    /\ pc = "ingest" => Landed(file_audit, key) \/ ~Known(file_audit, frame)
    /\ pc \in {"clear", "write", "complete"} => ~Known(file_audit, frame)

(* Bytes become known only when a source is completed. *)
LEMMA UnknownStays ==
    ASSUME TypeInv, [Next]_vars, ~CompleteSkip, ~CompleteWrite, NEW c, ~Known(file_audit, c)
    PROVE  ~Known(file_audit', c)
<1> SUFFICES ASSUME NEW k \in DOMAIN file_audit', Landed(file_audit', k), file_audit'[k].checksum = c
             PROVE  FALSE
  BY DEF Known
<1>1. Landed(file_audit, k) /\ k \in DOMAIN file_audit
  BY Landings DEF Landed
<1>2. file_audit[k].checksum = c
  BY <1>1, OtherRows
<1>3. QED
  BY <1>1, <1>2 DEF Known

(* The duplicate check of phase 3 finds every landed row with the bytes. *)
LEMMA CheckFinds ==
    ASSUME TypeInv, BytesInv, FrameInv, Check, pc' = "ingest"
    PROVE  Landed(file_audit, key) \/ ~Known(file_audit, frame)
<1> DEFINE found == { k \in DOMAIN file_audit : /\ file_audit[k].checksum = md5
                                               /\ file_audit[k].status \in LandedStatus }
<1>1. md5 = frame /\ key \in DOMAIN file_audit /\ file_audit[key].checksum = md5 /\ key[1] = batch
  BY DEF Check, FrameInv, TypeInv, ProcessType, HasMd5, HasRow, key
<1>2. \/ PreviousIngestions(file_audit, md5) = {}
      \/ \E k \in PreviousIngestions(file_audit, md5) : k[1] = batch
  BY DEF Check, GoTo
<1>3. CASE PreviousIngestions(file_audit, md5) = {}
  <2>1. MostRecent(file_audit, found) = {}
    BY <1>3 DEF PreviousIngestions
  <2>2. \A k \in found : file_audit[k].registered_at \in Nat /\ file_audit[k].registered_at <= clock
    BY DEF BytesInv, TypeInv, StoresType, Row
  <2>3. found = {}
    <3>1. clock \in Nat
      BY DEF TypeInv, StoresType
    <3>2. QED
      BY <2>1, <2>2, <3>1, MostRecentExists
  <2>4. QED
    BY <1>1, <2>3 DEF Known, Landed
<1>4. ASSUME NEW k \in PreviousIngestions(file_audit, md5), k[1] = batch
      PROVE  Landed(file_audit, key)
  <2>1. k \in DOMAIN file_audit /\ Landed(file_audit, k) /\ file_audit[k].checksum = md5
    BY <1>4, PriorLanded DEF Landed
  <2>2. k = key
    BY <1>1, <1>4, <2>1, SameBytes
  <2>3. QED
    BY <2>1, <2>2
<1>5. QED
  BY <1>2, <1>3, <1>4

LEMMA DuplicateStep ==
    ASSUME TypeInv, BytesInv, FrameInv, DuplicateInv, [Next]_vars
    PROVE  DuplicateInv'
<1> SUFFICES ASSUME pc' \in {"ingest", "clear", "write", "complete"} PROVE DuplicateInv'
  BY DEF DuplicateInv
<1>1. /\ frame' = frame /\ key' = key /\ pc' \in HasMd5
      /\ ~CompleteSkip /\ ~CompleteWrite /\ ~FailSource
  <2>1. ASSUME NEW failed, NextSource(failed) PROVE FALSE
    BY <2>1 DEF NextSource
  <2>2. ~Fingerprint /\ pc' \in HasMd5
    BY DEF Fingerprint, GoTo, Exit, HasMd5, HasRow
  <2>3. QED
    BY <2>1, <2>2, Held DEF CompleteSkip, CompleteWrite, FailSource
<1>2. CASE Check
  <2>1. pc' = "ingest" /\ file_audit' = file_audit
    BY <1>2 DEF Check, GoTo, stores
  <2>2. QED
    BY <1>1, <1>2, <2>1, CheckFinds DEF DuplicateInv
<1>3. CASE MarkIngesting("ingest", "clear")
  <2>1. pc = "ingest" /\ pc' = "clear" /\ CanAdvance(file_audit, {key}, "ingesting")
    BY <1>3 DEF MarkIngesting, GoTo
  <2>2. ~Landed(file_audit, key)
    BY <2>1 DEF CanAdvance, LegalTransitions, Landed, LandedStatus
  <2>3. ~Known(file_audit', frame)
    BY <1>1, <2>1, <2>2, UnknownStays DEF DuplicateInv
  <2>4. QED
    BY <1>1, <2>1, <2>3 DEF DuplicateInv
<1>4. CASE ClearPartition \/ WritePartition
  <2>1. pc \in {"clear", "write"} /\ pc' \in {"write", "complete"} /\ file_audit' = file_audit
    BY <1>4 DEF ClearPartition, WritePartition, GoTo
  <2>2. QED
    BY <1>1, <2>1 DEF DuplicateInv
<1>5. CASE (\E s \in Source : Deliver(s)) \/ UNCHANGED vars
  BY <1>1, <1>5 DEF Deliver, vars, stores, run, DuplicateInv
<1>6. QED
  BY <1>1, <1>2, <1>3, <1>4, <1>5
     DEF Next, RunStep, StartRun, Load, Fingerprint, Register, MarkIngesting, WriteError, Verdict,
         Crash, Exit, GoTo, NextSource

(* A source that lands has bytes of its own only where nobody else has. *)
LEMMA LandsAlone ==
    ASSUME TypeInv, LakeInv, FrameInv, WholeInv, DuplicateInv, [Next]_vars,
           NEW s \in Source, NEW a \in Batch, NEW b \in Batch, a # b,
           Landed(file_audit', <<a, FileOf[s]>>), ~Landed(file_audit, <<a, FileOf[s]>>),
           Landed(file_audit', <<b, FileOf[s]>>),
           lake'[<<s, a>>] \in Checksum, lake'[<<s, a>>] = lake'[<<s, b>>]
    PROVE  FALSE
<1>1. <<a, FileOf[s]>> = key /\ (CompleteSkip \/ CompleteWrite)
  BY Landings
<1>2. s = source /\ a = batch /\ pc \in {"complete_skip", "complete"} /\ lake' = lake
  <2>1. pc \in {"complete_skip", "complete"} /\ lake' = lake
    BY <1>1 DEF CompleteSkip, CompleteWrite
  <2>2. source \in Source /\ a = batch /\ FileOf[s] = FileOf[source]
    BY <1>1, <2>1, Here DEF key
  <2>3. SourceOf[FileOf[s]] = s /\ SourceOf[FileOf[source]] = source
    BY <2>2, BronzeAssumption
  <2>4. QED
    BY <2>1, <2>2, <2>3
<1>3. lake[<<s, a>>] = frame /\ CompleteWrite /\ pc = "complete"
  BY <1>1, <1>2, BronzeAssumption DEF LakeInv, CompleteSkip, CompleteWrite, NoDir
<1>4. Landed(file_audit, <<b, FileOf[s]>>)
  BY <1>1, <1>2, Landings DEF key
<1>5. file_audit[<<b, FileOf[s]>>].checksum = frame
  BY <1>2, <1>3 DEF WholeInv
<1>6. QED
  BY <1>3, <1>4, <1>5 DEF DuplicateInv, Known, Landed

LEMMA NoDuplicateStep ==
    ASSUME TypeInv, LakeInv, FrameInv, WholeInv, DuplicateInv, NoDuplicateLanding, [Next]_vars
    PROVE  NoDuplicateLanding'
<1> SUFFICES ASSUME NEW s \in Source, NEW a \in Batch, NEW b \in Batch,
                    Landed(file_audit', <<a, FileOf[s]>>), Landed(file_audit', <<b, FileOf[s]>>),
                    lake'[<<s, a>>] \in Checksum, lake'[<<s, a>>] = lake'[<<s, b>>], a # b
             PROVE  FALSE
  BY DEF NoDuplicateLanding
<1>1. Landed(file_audit, <<a, FileOf[s]>>) /\ Landed(file_audit, <<b, FileOf[s]>>)
  BY LandsAlone
<1>2. ASSUME NEW x \in Batch, Landed(file_audit, <<x, FileOf[s]>>) PROVE lake'[<<s, x>>] = lake[<<s, x>>]
  <2>1. <<s, x>> \in Partition
    BY DEF Partition
  <2>2. CASE <<s, x>> = <<source, batch>> /\ pc \in {"clear", "write"}
    BY <1>2, <2>2 DEF LakeInv, Marked, Landed, LandedStatus, key
  <2>3. QED
    BY <2>1, <2>2, LakeChanges
<1>3. QED
  BY <1>1, <1>2 DEF NoDuplicateLanding

-----------------------------------------------------------------------------
(* Reading back *)

(* What the run that is in progress may have written in the audit: when every
   batch is run once, the rows of two batches do not overlap in time, and
   those of the current batch are the latest.                              *)
InTurn(t) ==
    \A j, k, m, n \in DOMAIN t :
        /\ j[1] = m[1] /\ k[1] = n[1] /\ j[1] # k[1]
        /\ t[j].registered_at < t[k].registered_at
        => t[m].registered_at <= t[n].registered_at

OnceInv ==
    /\ attempts \in [Batch -> Nat]
    /\ \A k \in DOMAIN file_audit : attempts[k[1]] # 0
    /\ pc # "idle" => attempts[batch] # 0
    /\ InTurn(file_audit)
    /\ pc # "idle" =>
          \A j, k \in DOMAIN file_audit :
              j[1] # batch /\ k[1] = batch => file_audit[j].registered_at <= file_audit[k].registered_at

LEMMA InitOnce == Init => OnceInv
<1> SUFFICES ASSUME Init PROVE OnceInv
  OBVIOUS
<1>1. DOMAIN file_audit = {} /\ pc = "idle"
  BY DEF Init
<1>2. QED
  BY <1>1 DEF Init, OnceInv, InTurn

(* Only the start of a run changes the batch while the process is up. *)
LEMMA SameRun ==
    ASSUME [Next]_vars, \A b \in Batch : ~StartRun(b)
    PROVE  /\ attempts' = attempts
           /\ pc' # "idle" => pc # "idle" /\ batch' = batch
<1>1. ASSUME NEW failed, NextSource(failed), pc # "idle"
      PROVE  attempts' = attempts /\ batch' = batch
  BY <1>1 DEF NextSource
<1>2. Exit => attempts' = attempts /\ pc' = "idle"
  BY DEF Exit
<1>3. CASE Load \/ Fingerprint \/ Register \/ Check
  BY <1>1, <1>2, <1>3 DEF Load, Fingerprint, Register, Check, GoTo, stores
<1>4. CASE MarkIngesting("skip", "complete_skip") \/ MarkIngesting("ingest", "clear")
  BY <1>4 DEF MarkIngesting, GoTo
<1>5. CASE CompleteSkip \/ CompleteWrite \/ FailSource
  BY <1>1, <1>5 DEF CompleteSkip, CompleteWrite, FailSource
<1>6. CASE ClearPartition \/ WritePartition \/ WriteError \/ Verdict \/ Crash
  BY <1>2, <1>6 DEF ClearPartition, WritePartition, WriteError, Verdict, Crash, GoTo
<1>7. CASE (\E s \in Source : Deliver(s)) \/ UNCHANGED vars
  BY <1>7 DEF Deliver, vars, run, bounds
<1>8. QED
  BY <1>3, <1>4, <1>5, <1>6, <1>7 DEF Next, RunStep

(* A row that comes after all the others, in the turn of its batch. *)
LEMMA OneMoreRow ==
    ASSUME NEW t, NEW t2, NEW n, NEW b, n \notin DOMAIN t, DOMAIN t2 = DOMAIN t \cup {n}, n[1] = b,
           \A k \in DOMAIN t : t2[k].registered_at = t[k].registered_at,
           \A k \in DOMAIN t2 : t2[k].registered_at \in Nat /\ t2[k].registered_at <= t2[n].registered_at,
           InTurn(t),
           \A j, k \in DOMAIN t : j[1] # b /\ k[1] = b => t[j].registered_at <= t[k].registered_at
    PROVE  /\ InTurn(t2)
           /\ \A j, k \in DOMAIN t2 : j[1] # b /\ k[1] = b => t2[j].registered_at <= t2[k].registered_at
<1>1. ASSUME NEW j \in DOMAIN t2, NEW k \in DOMAIN t2, j[1] # b, k[1] = b
      PROVE  t2[j].registered_at <= t2[k].registered_at
  <2>1. CASE k = n
    BY <1>1, <2>1
  <2>2. CASE k # n
    BY <1>1, <2>2
  <2>3. QED
    BY <2>1, <2>2
<1>2. ASSUME NEW j \in DOMAIN t2, NEW k \in DOMAIN t2, NEW m \in DOMAIN t2, NEW o \in DOMAIN t2,
             j[1] = m[1], k[1] = o[1], j[1] # k[1], t2[j].registered_at < t2[k].registered_at
      PROVE  t2[m].registered_at <= t2[o].registered_at
  <2>1. CASE k[1] = b
    BY <1>1, <1>2, <2>1
  <2>2. CASE j[1] = b
    <3>1. t2[k].registered_at <= t2[j].registered_at
      BY <1>1, <1>2, <2>2
    <3>2. t2[k].registered_at \in Nat /\ t2[j].registered_at \in Nat
      BY <1>2
    <3>3. QED
      BY <1>2, <3>1, <3>2
  <2>3. CASE j[1] # b /\ k[1] # b
    <3>1. {j, k, m, o} \subseteq DOMAIN t
      BY <1>2, <2>3
    <3>2. QED
      BY <1>2, <3>1 DEF InTurn
  <2>4. QED
    BY <2>1, <2>2, <2>3
<1>3. QED
  BY <1>1, <1>2 DEF InTurn

LEMMA OnceStep ==
    ASSUME MaxAttempts = 1, TypeInv, BytesInv, OnceInv, [Next]_vars
    PROVE  OnceInv'
<1>1. CASE \E b \in Batch : StartRun(b)
  <2>1. PICK b \in Batch : StartRun(b)
    BY <1>1
  <2>2. /\ file_audit' = file_audit /\ batch' = b
        /\ attempts' = [attempts EXCEPT ![b] = @ + 1] /\ attempts[b] = 0
    BY <2>1 DEF StartRun, OnceInv
  <2>3. \A k \in DOMAIN file_audit : k[1] # b
    BY <2>2 DEF OnceInv
  <2>4. /\ attempts' \in [Batch -> Nat] /\ attempts'[b] = 1
        /\ \A x \in Batch : x # b => attempts'[x] = attempts[x]
    BY <2>2 DEF OnceInv
  <2>5. \A k \in DOMAIN file_audit : k[1] \in Batch
    BY DEF TypeInv, StoresType, Key
  <2>6. \A k \in DOMAIN file_audit : attempts'[k[1]] # 0
    BY <2>3, <2>4, <2>5 DEF OnceInv
  <2>7. InTurn(file_audit')
    BY <2>2 DEF OnceInv
  <2>8. QED
    BY <2>2, <2>3, <2>4, <2>6, <2>7 DEF OnceInv
<1>2. CASE \A b \in Batch : ~StartRun(b)
  <2>1. /\ attempts' = attempts
        /\ pc' # "idle" => pc # "idle" /\ batch' = batch
    BY <1>2, SameRun
  <2>2. CASE DOMAIN file_audit' \subseteq DOMAIN file_audit
    <3>1. \A k \in DOMAIN file_audit' :
             k \in DOMAIN file_audit /\ file_audit'[k].registered_at = file_audit[k].registered_at
      BY <2>2, OtherRows
    <3>2. InTurn(file_audit')
      BY <3>1 DEF OnceInv, InTurn
    <3>3. QED
      BY <2>1, <3>1, <3>2 DEF OnceInv
  <2>3. ASSUME NEW n \in DOMAIN file_audit', n \notin DOMAIN file_audit PROVE OnceInv'
    <3>1. /\ pc # "idle" /\ n[1] = batch /\ file_audit'[n].registered_at = clock' /\ n = key
          /\ pc' # "idle" /\ batch' = batch
      BY <2>1, <2>3, NewRows DEF key, NewRow, GoTo
    <3>2. DOMAIN file_audit' = DOMAIN file_audit \cup {n}
      BY <2>3, <3>1, NewRows, OtherRows
    <3>3. \A k \in DOMAIN file_audit : file_audit'[k].registered_at = file_audit[k].registered_at
      BY OtherRows
    <3>4. \A k \in DOMAIN file_audit' : /\ file_audit'[k].registered_at \in Nat
                                        /\ file_audit'[k].registered_at <= file_audit'[n].registered_at
      <4>1. TypeInv' /\ BytesInv'
        BY TypeStep, BytesStep
      <4>2. QED
        BY <3>1, <4>1 DEF TypeInv, StoresType, Row, BytesInv
    <3>5. /\ InTurn(file_audit')
          /\ \A j, k \in DOMAIN file_audit' :
                j[1] # batch /\ k[1] = batch => file_audit'[j].registered_at <= file_audit'[k].registered_at
      <4>1. /\ InTurn(file_audit)
            /\ \A j, k \in DOMAIN file_audit :
                  j[1] # batch /\ k[1] = batch => file_audit[j].registered_at <= file_audit[k].registered_at
        BY <3>1 DEF OnceInv
      <4>2. QED
        BY <2>3, <3>1, <3>2, <3>3, <3>4, <4>1, OneMoreRow
    <3>6. \A k \in DOMAIN file_audit' : attempts[k[1]] # 0
      BY <3>1, <3>2 DEF OnceInv
    <3>7. QED
      BY <2>1, <3>1, <3>5, <3>6 DEF OnceInv
  <2>4. QED
    BY <2>2, <2>3
<1>3. QED
  BY <1>1, <1>2

(* Of every content that landed with rows, the first row that landed has the
   partition; a failure takes back no row of an earlier batch.             *)
Own(k) == <<SourceOf[k[2]], k[1]>>

Keeps(t, disk, j, c) ==
    j \in DOMAIN t /\ Landed(t, j) /\ t[j].checksum = c /\ disk[Own(j)] = c

Stored(t, disk, k) ==
    \E j : Keeps(t, disk, j, t[k].checksum) /\ t[j].registered_at <= t[k].registered_at

StoredInv ==
    \A k \in DOMAIN file_audit :
        Landed(file_audit, k) /\ RowsIn[file_audit[k].checksum] > 0 => Stored(file_audit, lake, k)

(* What the rows say of the past does not change. *)
LEMMA KeepsStays ==
    ASSUME TypeInv, LakeInv, [Next]_vars, NEW j, NEW c \in Checksum, Keeps(file_audit, lake, j, c),
           ~FailSource \/ j # key
    PROVE  Keeps(file_audit', lake', j, c) /\ file_audit'[j].registered_at = file_audit[j].registered_at
<1>1. j \in Key /\ Own(j) \in Partition
  BY AuditAssumption DEF Keeps, TypeInv, StoresType, Own, Partition, Key
<1>2. lake'[Own(j)] = c
  BY <1>1, WholeStays DEF Keeps
<1>3. Landed(file_audit', j)
  BY LandedStays DEF Keeps
<1>4. QED
  BY <1>2, <1>3, OtherRows DEF Keeps, Own

LEMMA StoredStep ==
    ASSUME TypeInv, LakeInv, FrameInv, BytesInv, OnceInv, SecondsApart, StoredInv, [Next]_vars
    PROVE  StoredInv'
<1> SUFFICES ASSUME NEW k \in DOMAIN file_audit', Landed(file_audit', k),
                    RowsIn[file_audit'[k].checksum] > 0
             PROVE  Stored(file_audit', lake', k)
  BY DEF StoredInv
<1>1. ASSUME NEW r \in DOMAIN file_audit PROVE file_audit[r].checksum \in Checksum
  BY DEF TypeInv, StoresType, Row
<1>2. CASE Landed(file_audit, k)
  <2>1. k \in DOMAIN file_audit /\ file_audit'[k].checksum = file_audit[k].checksum
        /\ file_audit'[k].registered_at = file_audit[k].registered_at
    BY <1>2, OtherRows DEF Landed
  <2>2. PICK j : /\ Keeps(file_audit, lake, j, file_audit[k].checksum)
                 /\ file_audit[j].registered_at <= file_audit[k].registered_at
    BY <1>2, <2>1 DEF StoredInv, Stored
  <2>3. ~(FailSource /\ j = key)
    <3> SUFFICES ASSUME FailSource, j = key PROVE FALSE
      OBVIOUS
    <3>1. pc # "idle" /\ k # key
      BY DEF FailSource, WithFailed, Landed, LandedStatus, TypeInv, StoresType, Row
    <3>2. j \in DOMAIN file_audit /\ file_audit[j].checksum = file_audit[k].checksum /\ j[1] = batch
      BY <2>2 DEF Keeps, key
    <3>3. file_audit[j].registered_at \in Nat /\ file_audit[k].registered_at \in Nat
      BY <2>1, <3>2 DEF TypeInv, StoresType, Row
    <3>4. k[1] # batch => file_audit[k].registered_at <= file_audit[j].registered_at
      BY <2>1, <3>1, <3>2 DEF OnceInv
    <3>5. k[1] = batch
      BY <2>1, <2>2, <3>2, <3>3, <3>4 DEF SecondsApart
    <3>6. QED
      BY <2>1, <3>1, <3>2, <3>5, SameBytes
  <2>4. /\ Keeps(file_audit', lake', j, file_audit[k].checksum)
        /\ file_audit'[j].registered_at = file_audit[j].registered_at
    BY <1>1, <2>1, <2>2, <2>3, KeepsStays
  <2>5. QED
    BY <2>1, <2>2, <2>4 DEF Stored
<1>3. CASE ~Landed(file_audit, k)
  <2>1. k = key /\ (CompleteSkip \/ CompleteWrite)
    BY <1>3, Landings
  <2>2. k \in DOMAIN file_audit /\ pc \in HasRow /\ pc # "idle" /\ file_audit[k].checksum = frame
        /\ frame \in Checksum
    BY <2>1 DEF CompleteSkip, CompleteWrite, TypeInv, ProcessType, FrameInv, HasRow, HasFrame, HasMd5
  <2>3. file_audit'[k].checksum = frame /\ file_audit'[k].registered_at = file_audit[k].registered_at
    BY <2>2, OtherRows
  <2>4. k[1] = batch /\ file_audit[k].registered_at \in Nat
    BY <2>1, <2>2 DEF key, TypeInv, StoresType, Row
  <2>5. CASE CompleteWrite
    <3>1. Own(k) = <<source, batch>> /\ Own(k) \in Partition
      BY <2>1, <2>2, Here, BronzeAssumption DEF Own, key
    <3>2. lake'[Own(k)] = frame
      <4>1. RowsIn[frame] # 0
        BY <2>3
      <4>2. lake[<<source, batch>>] = frame /\ lake' = lake
        BY <2>5, <4>1 DEF LakeInv, CompleteWrite
      <4>3. QED
        BY <3>1, <4>2
    <3>3. Keeps(file_audit', lake', k, frame)
      BY <2>3, <3>2 DEF Keeps, Own
    <3>4. QED
      BY <2>3, <2>4, <3>3 DEF Stored
  <2>6. CASE CompleteSkip
    <3>1. Landed(file_audit, prior) /\ prior \in DOMAIN file_audit /\ file_audit[prior].checksum = frame
      BY <2>6 DEF CompleteSkip, FrameInv, Landed
    <3>2. PICK j : /\ Keeps(file_audit, lake, j, frame)
                   /\ file_audit[j].registered_at <= file_audit[prior].registered_at
      BY <2>3, <3>1 DEF StoredInv, Stored
    <3>3. Keeps(file_audit', lake', j, frame) /\ file_audit'[j].registered_at = file_audit[j].registered_at
      <4>1. ~FailSource
        BY <2>6 DEF CompleteSkip, FailSource
      <4>2. QED
        BY <2>2, <3>2, <4>1, KeepsStays
    <3>4. file_audit[j].registered_at <= file_audit[k].registered_at
      <4>1. j \in DOMAIN file_audit /\ file_audit[j].checksum = file_audit[k].checksum
        BY <2>2, <3>2 DEF Keeps
      <4>2. CASE j[1] # batch
        BY <2>2, <2>4, <4>1, <4>2 DEF OnceInv
      <4>3. CASE j[1] = batch
        BY <2>2, <2>4, <4>1, <4>3, SameBytes
      <4>4. QED
        BY <4>2, <4>3
    <3>5. QED
      BY <2>3, <2>4, <3>3, <3>4 DEF Stored
  <2>7. QED
    BY <2>1, <2>5, <2>6
<1>4. QED
  BY <1>2, <1>3

LEMMA InitStored == Init => StoredInv
<1> SUFFICES ASSUME Init PROVE StoredInv
  OBVIOUS
<1>1. DOMAIN file_audit = {}
  BY DEF Init
<1>2. QED
  BY <1>1 DEF StoredInv

(* The batch of a duplicate sees its own row, and no other. *)
LEMMA SeesItself ==
    ASSUME TypeInv, BytesInv, OnceInv, SecondsApart, NEW s \in Source, NEW b \in Batch,
           Landed(file_audit, <<b, FileOf[s]>>)
    PROVE  IngestionsAsOf(file_audit, s, b) = {<<b, FileOf[s]>>}
<1> DEFINE k == <<b, FileOf[s]>>
           asOf(j) == \/ BatchFiles(file_audit, b) = {}
                      \/ \E i \in BatchFiles(file_audit, b) :
                            file_audit[j].registered_at <= file_audit[i].registered_at
           seen == { j \in DOMAIN file_audit : /\ SourceOf[j[2]] = s
                                              /\ file_audit[j].status \in LandedStatus
                                              /\ asOf(j) }
<1>1. /\ k \in DOMAIN file_audit /\ k \in BatchFiles(file_audit, b) /\ SourceOf[k[2]] = s
      /\ k[1] = b /\ k[2] = FileOf[s]
  BY BronzeAssumption DEF Landed, BatchFiles
<1>2. ASSUME NEW j \in DOMAIN file_audit
      PROVE  file_audit[j].registered_at \in Nat /\ j = <<j[1], j[2]>> /\ j[2] = FileOf[SourceOf[j[2]]]
  BY DEF TypeInv, StoresType, Row, Key, BytesInv
<1>3. k \in seen
  <2>1. asOf(k)
    BY <1>1, <1>2
  <2>2. QED
    BY <1>1, <2>1 DEF Landed
<1>4. ASSUME NEW j \in seen PROVE file_audit[j].registered_at <= file_audit[k].registered_at
  <2>1. PICK i \in BatchFiles(file_audit, b) : file_audit[j].registered_at <= file_audit[i].registered_at
    BY <1>1, <1>4
  <2>2. i \in DOMAIN file_audit /\ i[1] = b
    BY DEF BatchFiles
  <2>3. CASE j[1] = b
    BY <1>1, <1>2, <2>3
  <2>4. CASE j[1] # b
    <3>1. file_audit[j].registered_at < file_audit[i].registered_at
      BY <1>2, <2>1, <2>2, <2>4 DEF SecondsApart
    <3>2. QED
      BY <1>1, <2>2, <2>4, <3>1 DEF OnceInv, InTurn
  <2>5. QED
    BY <2>3, <2>4
<1>5. ASSUME NEW j \in seen, file_audit[k].registered_at <= file_audit[j].registered_at PROVE j = k
  <2>1. file_audit[j].registered_at = file_audit[k].registered_at
    BY <1>1, <1>2, <1>4, <1>5
  <2>2. j[1] = b
    BY <1>1, <2>1 DEF SecondsApart
  <2>3. QED
    BY <1>1, <1>2, <2>2
<1>6. IngestionsAsOf(file_audit, s, b) = MostRecent(file_audit, seen)
  BY DEF IngestionsAsOf
<1>7. k \in MostRecent(file_audit, seen)
  BY <1>3, <1>4 DEF MostRecent
<1>8. ASSUME NEW j \in MostRecent(file_audit, seen) PROVE j = k
  <2>1. j \in seen /\ file_audit[k].registered_at <= file_audit[j].registered_at
    BY <1>3, <1>8 DEF MostRecent
  <2>2. QED
    BY <1>5, <2>1
<1>9. QED
  BY <1>6, <1>7, <1>8

(* The seconds LastLanded takes the last of. *)
LandedAt(c, cand) ==
    { file_audit[k].registered_at : k \in
        { j \in BatchFiles(file_audit, cand) : /\ file_audit[j].checksum = c
                                               /\ file_audit[j].status \in LandedStatus } }
LEMMA LastOf ==
    ASSUME NEW c, NEW cand, NEW x \in Nat, LandedAt(c, cand) = {x}
    PROVE  LastLanded(c, cand) = x
<1>1. LastLanded(c, cand) = CHOOSE n \in LandedAt(c, cand) : \A m \in LandedAt(c, cand) : m <= n
  BY DEF LastLanded, LandedAt
<1>2. LastLanded(c, cand) = CHOOSE n \in {x} : \A m \in {x} : m <= n
  BY <1>1
<1>3. QED
  BY <1>2

(* A batch in which the bytes of a source landed, and which has a partition
   of that source, has those bytes in it.                                  *)
LEMMA CandidateKeeps ==
    ASSUME TypeInv, LakeInv, BytesInv, WholeInv, NEW s \in Source, NEW b \in Batch,
           NEW k \in DOMAIN file_audit, SourceOf[k[2]] = s,
           NEW cand \in CandidateBatches(file_audit[k].checksum, b)
    PROVE  /\ cand \in Batch /\ <<cand, FileOf[s]>> \in DOMAIN file_audit
           /\ lake[<<s, cand>>] # NoDir => lake[<<s, cand>>] = file_audit[k].checksum
           /\ LastLanded(file_audit[k].checksum, cand) = file_audit[<<cand, FileOf[s]>>].registered_at
<1> DEFINE c == file_audit[k].checksum
           n == <<cand, FileOf[s]>>
<1>1. ASSUME NEW j \in DOMAIN file_audit, file_audit[j].checksum = c
      PROVE  j = <<j[1], FileOf[s]>> /\ j[1] \in Batch
  <2>1. j \in Key /\ SourceOf[j[2]] = s /\ j[2] = FileOf[SourceOf[j[2]]]
    BY <1>1, SameBytes DEF BytesInv, TypeInv, StoresType
  <2>2. QED
    BY <2>1 DEF Key
<1>2. PICK j \in DOMAIN file_audit : /\ file_audit[j].checksum = c
                                    /\ file_audit[j].status \in LandedStatus /\ j[1] = cand
  BY DEF CandidateBatches
<1>3. /\ j = n /\ cand \in Batch /\ n \in DOMAIN file_audit
      /\ Landed(file_audit, n) /\ file_audit[n].checksum = c
  <2>1. j = n /\ cand \in Batch
    BY <1>1, <1>2
  <2>2. QED
    BY <1>2, <2>1 DEF Landed
<1>4. ASSUME lake[<<s, cand>>] # NoDir PROVE lake[<<s, cand>>] = c
  <2>1. lake[<<s, cand>>] \in Checksum
    BY <1>3, <1>4 DEF LakeInv, PartitionInv, TypeInv, StoresType, Partition
  <2>2. QED
    BY <1>3, <2>1 DEF WholeInv
<1>5. LastLanded(c, cand) = file_audit[n].registered_at
  <2>1. ASSUME NEW i \in BatchFiles(file_audit, cand), file_audit[i].checksum = c PROVE i = n
    BY <1>1, <2>1 DEF BatchFiles
  <2>2. n \in BatchFiles(file_audit, cand) /\ file_audit[n].status \in LandedStatus
    BY <1>3 DEF BatchFiles, Landed
  <2>3. LandedAt(c, cand) = {file_audit[n].registered_at}
    BY <1>3, <2>1, <2>2 DEF LandedAt
  <2>4. file_audit[n].registered_at \in Nat
    BY <1>3 DEF TypeInv, StoresType, Row
  <2>5. QED
    BY <2>3, <2>4, LastOf
<1>6. QED
  BY <1>3, <1>4, <1>5

(* The most recent candidate on disk: there is one. *)
LEMMA SomeOnDisk ==
    ASSUME TypeInv, LakeInv, BytesInv, OnceInv, WholeInv, StoredInv, NEW s \in Source, NEW b \in Batch,
           NEW k, k = <<b, FileOf[s]>>, Landed(file_audit, k), RowsIn[file_audit[k].checksum] > 0,
           lake[<<s, b>>] = NoDir
    PROVE  \E best \in CandidateBatches(file_audit[k].checksum, b) :
              /\ lake[<<s, best>>] # NoDir
              /\ \A other \in CandidateBatches(file_audit[k].checksum, b) :
                    lake[<<s, other>>] # NoDir =>
                        LastLanded(file_audit[k].checksum, other) <= LastLanded(file_audit[k].checksum, best)
<1> DEFINE c == file_audit[k].checksum
           onDisk == { cand \in CandidateBatches(c, b) : lake[<<s, cand>>] # NoDir }
           last == { LastLanded(c, cand) : cand \in onDisk }
<1>1. k \in DOMAIN file_audit /\ SourceOf[k[2]] = s /\ c \in Checksum
  BY BronzeAssumption DEF Landed, TypeInv, StoresType, Row
<1>2. PICK j : Keeps(file_audit, lake, j, c)
  BY <1>1 DEF StoredInv, Stored
<1>3. j[1] \in onDisk
  <2>1. j \in DOMAIN file_audit /\ SourceOf[j[2]] = s
    BY <1>1, <1>2, SameBytes DEF Keeps
  <2>2. lake[<<s, j[1]>>] = c
    BY <1>2, <2>1 DEF Keeps, Own
  <2>3. c # NoDir
    BY <1>1, BronzeAssumption
  <2>4. j[1] \in CandidateBatches(c, b)
    BY <1>2, <2>1, <2>2, <2>3 DEF CandidateBatches, Keeps, Landed
  <2>5. QED
    BY <2>2, <2>3, <2>4
<1>4. \A cand \in onDisk : LastLanded(c, cand) \in Nat /\ LastLanded(c, cand) <= clock
  <2>1. ASSUME NEW cand \in onDisk PROVE LastLanded(c, cand) \in Nat /\ LastLanded(c, cand) <= clock
    <3>1. /\ <<cand, FileOf[s]>> \in DOMAIN file_audit
          /\ LastLanded(c, cand) = file_audit[<<cand, FileOf[s]>>].registered_at
      BY <1>1, CandidateKeeps
    <3>2. QED
      BY <3>1 DEF BytesInv, TypeInv, StoresType, Row
  <2>2. QED
    BY <2>1
<1>5. PICK n \in last : \A m \in last : m <= n
  <2>1. last # {} /\ last \subseteq Nat /\ (\A m \in last : m <= clock) /\ clock \in Nat
    <3>1. LastLanded(c, j[1]) \in last
      BY <1>3
    <3>2. last \subseteq Nat /\ \A m \in last : m <= clock
      BY <1>4
    <3>3. QED
      BY <3>1, <3>2 DEF TypeInv, StoresType
  <2>2. QED
    BY <2>1, Greatest
<1>6. PICK best \in onDisk : n = LastLanded(c, best)
  OBVIOUS
<1>7. \A other \in onDisk : LastLanded(c, other) <= LastLanded(c, best)
  BY <1>5, <1>6
<1>8. QED
  BY <1>6, <1>7

LEMMA Readable ==
    ASSUME TypeInv, LakeInv, VerdictInv, BytesInv, OnceInv, WholeInv, SecondsApart => StoredInv
    PROVE  SuccessfulBatchIsReadable
<1> SUFFICES ASSUME SecondsApart, StoredInv, NEW b \in Batch, has_succeeded(b), NEW i \in DOMAIN Registry,
                    NEW s, s = Registry[i], NEW c, c = file_audit[<<b, FileOf[s]>>].checksum,
                    RowsIn[c] > 0
             PROVE  /\ Resolve(s, b) # {}
                    /\ \A from \in Resolve(s, b) : lake[<<s, from>>] = c
  BY DEF SuccessfulBatchIsReadable, ReadsItsBytes
<1> DEFINE k == <<b, FileOf[s]>>
<1>1. /\ s \in Source /\ Landed(file_audit, k) /\ k \in DOMAIN file_audit
      /\ SourceOf[k[2]] = s /\ <<s, b>> \in Partition
  BY Sources, BronzeAssumption DEF VerdictInv, SuccessMeansLanded, Landed, Partition
<1>2. CASE lake[<<s, b>>] # NoDir
  <2>1. lake[<<s, b>>] = c
    BY <1>1, <1>2 DEF LakeInv, PartitionInv, TypeInv, StoresType, WholeInv
  <2>2. Resolve(s, b) = {b}
    BY <1>2 DEF Resolve
  <2>3. QED
    BY <2>1, <2>2
<1>3. CASE lake[<<s, b>>] = NoDir
  <2> DEFINE onDisk == { cand \in CandidateBatches(c, b) : lake[<<s, cand>>] # NoDir }
             best == { cand \in onDisk : \A other \in onDisk : LastLanded(c, other) <= LastLanded(c, cand) }
  <2>1. Resolve(s, b) = best
    <3>1. IngestionsAsOf(file_audit, s, b) = {k}
      BY <1>1, SeesItself
    <3>2. QED
      BY <1>3, <3>1 DEF Resolve
  <2>2. best # {}
    BY <1>1, <1>3, SomeOnDisk
  <2>3. ASSUME NEW from \in best PROVE lake[<<s, from>>] = c
    BY <1>1, CandidateKeeps
  <2>4. QED
    BY <2>1, <2>2, <2>3
<1>4. QED
  BY <1>2, <1>3

-----------------------------------------------------------------------------
(* Theorems *)

IInv == TypeInv /\ LakeInv /\ VerdictInv

LEMMA Invariant == Spec => []IInv
<1>1. Init => IInv
  BY InitType, InitLake, InitVerdict DEF IInv
<1>2. IInv /\ [Next]_vars => IInv'
  BY TypeStep, LakeStep, VerdictStep DEF IInv
<1>3. QED
  BY <1>1, <1>2, PTL DEF Spec

(* The stores and the process keep the shapes the code gives them. *)
THEOREM TypeCorrect == Spec => []TypeOK
<1>1. IInv => TypeOK
  BY DEF IInv, TypeInv, StoresType, ProcessType, TypeOK
<1>2. QED
  BY <1>1, Invariant, PTL

(* No step of any run clears or overwrites a partition that was written whole
   (write_parquet with mode "overwrite", writer.py): neither a re-run of its
   batch nor another batch, whatever failed or was killed before.          *)
THEOREM PartitionsStay == Spec => PartitionsAreImmutable
<1>1. IInv /\ [Next]_vars => [\A p \in Partition : lake[p] \in Checksum => lake'[p] = lake[p]]_vars
  BY WholeStays DEF IInv
<1>2. QED
  BY <1>1, Invariant, PTL DEF Spec, PartitionsAreImmutable

(* A batch that pipeline_runs says has succeeded has every registered source
   landed in file_audit, and keeps it, after any failures and re-runs of
   other batches (run.py, writer.py).                                      *)
THEOREM SuccessIsLanded == Spec => []SuccessMeansLanded
<1>1. IInv => SuccessMeansLanded
  BY DEF IInv, VerdictInv
<1>2. QED
  BY <1>1, Invariant, PTL

(* The counts of landed files are those of their bytes, along every chain of
   duplicates, when no file is replaced while a run is at it (writer.py:207;
   load_source reads the file before it is fingerprinted).                 *)
THEOREM CountsAreTrue ==
    ASSUME "replace" \notin MidRun
    PROVE  Spec => []LandedCountsAreTrue
<1>1. Init => TypeInv /\ CountsInv
  BY InitType, InitCounts
<1>2. TypeInv /\ CountsInv /\ [Next]_vars => (TypeInv /\ CountsInv)'
  BY TypeStep, CountsStep
<1>3. CountsInv => LandedCountsAreTrue
  BY DEF CountsInv
<1>4. QED
  BY <1>1, <1>2, <1>3, PTL DEF Spec

(* No two batches store the same bytes of a source (find_previous_successful_
   ingestion before a write, writer.py phase 3), over any number of runs of
   any batches, crashes and write errors, when no file is replaced between
   the two reads of a run.                                                 *)
THEOREM StoredOnce ==
    ASSUME "replace" \notin MidRun
    PROVE  Spec => []NoDuplicateLanding
<1> DEFINE Inv == /\ TypeInv /\ LakeInv /\ CountsInv /\ BytesInv
                  /\ WholeInv /\ DuplicateInv /\ NoDuplicateLanding
<1>1. Init => Inv
  <2>1. Init => WholeInv /\ DuplicateInv /\ NoDuplicateLanding
    BY BronzeAssumption DEF Init, WholeInv, DuplicateInv, NoDuplicateLanding, Partition, Landed
  <2>2. QED
    BY <2>1, InitType, InitLake, InitCounts, InitBytes
<1>2. Inv /\ [Next]_vars => Inv'
  <2> SUFFICES ASSUME Inv, [Next]_vars PROVE Inv'
    OBVIOUS
  <2>1. FrameInv
    BY DEF CountsInv
  <2>2. QED
    BY <2>1, TypeStep, LakeStep, CountsStep, BytesStep, WholeStep, DuplicateStep, NoDuplicateStep
<1>3. Inv => NoDuplicateLanding
  OBVIOUS
<1>4. QED
  BY <1>1, <1>2, <1>3, PTL DEF Spec

(* Seconds that are shared stay shared: rows are not taken back. *)
LEMMA ApartBefore == ASSUME TypeInv, [Next]_vars, SecondsApart' PROVE SecondsApart
BY OtherRows DEF SecondsApart

(* A successful batch can be read back: the resolver (resolver.py) finds a
   partition for each of its sources that had rows, its own or that of the
   first batch in which those bytes landed, and the bytes are those that were
   registered.  The conditions are those of the property: no two batches
   register in the same second (its hypothesis SecondsApart: registered_at is
   no finer), the file has rows, every batch is run once and no file is
   replaced under a run.  Runs may be killed, writes may fail and files be
   withdrawn at any time.                                                  *)
THEOREM SuccessIsReadable ==
    ASSUME "replace" \notin MidRun, MaxAttempts = 1
    PROVE  Spec => []SuccessfulBatchIsReadable
<1> DEFINE Inv == /\ IInv /\ CountsInv /\ BytesInv /\ WholeInv
                  /\ OnceInv /\ (SecondsApart => StoredInv)
<1>1. Init => Inv
  <2>1. Init => WholeInv
    BY BronzeAssumption DEF Init, WholeInv, Partition
  <2>2. QED
    BY <2>1, InitType, InitLake, InitVerdict, InitCounts, InitBytes, InitOnce, InitStored DEF IInv
<1>2. Inv /\ [Next]_vars => Inv'
  <2> SUFFICES ASSUME Inv, [Next]_vars PROVE Inv'
    OBVIOUS
  <2>1. FrameInv /\ TypeInv /\ LakeInv /\ VerdictInv
    BY DEF CountsInv, IInv
  <2>2. IInv'
    BY <2>1, TypeStep, LakeStep, VerdictStep DEF IInv
  <2>3. (SecondsApart => StoredInv)'
    BY <2>1, ApartBefore, StoredStep
  <2>4. QED
    BY <2>1, <2>2, <2>3, CountsStep, BytesStep, WholeStep, OnceStep
<1>3. Inv => SuccessfulBatchIsReadable
  BY Readable DEF IInv
<1>4. QED
  BY <1>1, <1>2, <1>3, PTL DEF Spec
=============================================================================
