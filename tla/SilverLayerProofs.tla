-------------------------- MODULE SilverLayerProofs --------------------------
(***************************************************************************)
(* Theorems about SilverLayer, for any sources, foreign keys, dependencies *)
(* between artifacts, numbers of rows and bounds.                          *)
(***************************************************************************)
EXTENDS SilverLayer, TLAPS

-----------------------------------------------------------------------------
(* The table *)

(* The columns the writers set, one UPDATE at a time. *)
LEMMA RowEdits ==
    ASSUME NEW r \in Row
    PROVE  /\ \A st \in FileStatus : [r EXCEPT !.status = st] \in Row
           /\ \A n \in Count : [r EXCEPT !.rejected_rows = n] \in Row
           /\ \A n \in Count : [r EXCEPT !.gold_rows = n] \in Row
           /\ \A st \in FileStatus, n \in Count :
                 [r EXCEPT !.status = st, !.silver_rows = n] \in Row
           /\ \A st \in FileStatus, m, n \in Count :
                 [r EXCEPT !.status = st, !.source_rows = m, !.bronze_rows = n] \in Row
BY DEF Row

(* What the writers that Silver calls leave is a table of the same files. *)
LEMMA SilverWriters ==
    ASSUME NEW t, \A k \in DOMAIN t : t[k] \in Row, NEW ks, NEW n \in Count
    PROVE  /\ DOMAIN WithRejected(t, ks, n) = DOMAIN t
           /\ \A k \in DOMAIN t : WithRejected(t, ks, n)[k] \in Row
           /\ DOMAIN WithTransforming(t, ks) = DOMAIN t
           /\ \A k \in DOMAIN t : WithTransforming(t, ks)[k] \in Row
           /\ DOMAIN WithTransformed(t, ks, n) = DOMAIN t
           /\ \A k \in DOMAIN t : WithTransformed(t, ks, n)[k] \in Row
           /\ \A k \in DOMAIN t : WithFailed(t, k)[k] \in Row
<1>1. /\ DOMAIN WithRejected(t, ks, n) = DOMAIN t
      /\ \A k \in DOMAIN t : WithRejected(t, ks, n)[k] \in Row
  BY RowEdits DEF WithRejected
<1>2. /\ DOMAIN WithTransforming(t, ks) = DOMAIN t
      /\ \A k \in DOMAIN t : WithTransforming(t, ks)[k] \in Row
  BY RowEdits DEF WithTransforming, FileStatus
<1>3. /\ DOMAIN WithTransformed(t, ks, n) = DOMAIN t
      /\ \A k \in DOMAIN t : WithTransformed(t, ks, n)[k] \in Row
  BY RowEdits DEF WithTransformed, FileStatus
<1>4. \A k \in DOMAIN t : WithFailed(t, k)[k] \in Row
  BY RowEdits DEF WithFailed, FileStatus
<1>5. QED
  BY <1>1, <1>2, <1>3, <1>4

-----------------------------------------------------------------------------
(* A run of the layer *)

DqStep    == {"lookups", "read", "quarantine", "record_quarantine"}
BeforeBuild == DqStep \cup {"report", "transforming"}
Step      == {"idle"} \cup BeforeBuild \cup {"build", "finalise", "verdict"}

(* The types of the stores without the audit table, and of the process. *)
StoresType ==
    /\ readable \in [Source \X Batch -> BOOLEAN]
    /\ pipeline_runs \in [Batch -> {"none", "running", "success", "failed"}]
    /\ rejected \in [Source \X Batch -> Count \cup {Torn}]
    /\ silver \in [Source \X Batch -> Frame \cup {NULL, Torn}]
    /\ attempts \in [Batch -> Nat] /\ faults \in Nat

ProcessType ==
    /\ pc \in Step
    /\ pc = "idle" <=> batch = NULL
    /\ batch \in Batch \cup {NULL}
    /\ pc # "idle" => pos \in DOMAIN Registry
    /\ fk_lookups \in BOOLEAN
    /\ pc \in {"quarantine", "record_quarantine"} => source \in DOMAIN dq_results

MemoryType ==
    /\ DOMAIN clean_bronze \subseteq Source
    /\ \A s \in DOMAIN clean_bronze : clean_bronze[s] \in Frame
    /\ DOMAIN dq_results \subseteq DOMAIN clean_bronze
    /\ \A s \in DOMAIN dq_results : dq_results[s] \in Nat
    /\ built \subseteq DOMAIN clean_bronze

TypeInv == StoresType /\ ProcessType /\ MemoryType

-----------------------------------------------------------------------------

LEMMA Sources ==
    /\ Len(Registry) \in Nat /\ DOMAIN Registry = 1 .. Len(Registry)
    /\ 1 \in DOMAIN Registry
    /\ \A i \in DOMAIN Registry : Registry[i] \in Source
    /\ \A s \in Source : \E i \in DOMAIN Registry : Registry[i] = s
BY SilverAssumption DEF Range

LEMMA NextSourceMoves ==
    ASSUME pos \in DOMAIN Registry, NEW loop, NEW after, NextSource(loop, after)
    PROVE  /\ \/ pc' = loop /\ pos' = pos + 1 /\ pos < Len(Registry)
              \/ pc' = after /\ pos' = 1 /\ pos = Len(Registry)
           /\ pos' \in DOMAIN Registry
           /\ batch' = batch
BY Sources DEF NextSource

(* What a run has to hand for its current source. *)
LEMMA Here ==
    ASSUME TypeInv, pc # "idle"
    PROVE  source \in Source /\ batch \in Batch /\ here \in Source \X Batch
BY Sources DEF TypeInv, ProcessType, source, here

LEMMA Frames ==
    ASSUME TypeInv, pc # "idle", NEW s \in Source
    PROVE  Rejects(s) \in Nat /\ Rejects(s) <= BadRows[s] /\ Raw(s) \in Frame /\ Clean(s) \in Frame
<1>1. RowsOf[s] \in Nat /\ BadRows[s] \in Nat /\ OrphanRows[s] \in Nat
      /\ OrphanRows[s] <= BadRows[s] /\ BadRows[s] <= RowsOf[s]
  BY SilverAssumption
<1>2. Rejects(s) = BadRows[s] \/ Rejects(s) = BadRows[s] - OrphanRows[s]
  BY DEF Rejects
<1>3. QED
  BY <1>1, <1>2 DEF Raw, Clean, Frame

(* With adds to a function, or overwrites it, at one source. *)
LEMMA WithAt ==
    ASSUME NEW f, NEW s, NEW v
    PROVE  /\ DOMAIN With(f, s, v) = DOMAIN f \cup {s}
           /\ With(f, s, v)[s] = v
           /\ \A x \in DOMAIN f \ {s} : With(f, s, v)[x] = f[x]
BY DEF With

-----------------------------------------------------------------------------
(* Types *)

LEMMA NoFrames == DOMAIN << >> = {}
OBVIOUS

LEMMA ExitType == ASSUME Exit PROVE ProcessType' /\ MemoryType'
BY NoFrames DEF Exit, ProcessType, MemoryType, Step

LEMMA ArtifactType ==
    ASSUME TypeInv, pc # "idle", source \in DOMAIN clean_bronze
    PROVE  Artifact(source) \in Frame
<1>1. clean_bronze[source] \in Frame /\ History[source] \in Nat
  BY Here, SilverAssumption DEF TypeInv, MemoryType
<1>2. QED
  BY <1>1 DEF Artifact, Frame

(* What a step leaves of the partitions: the one it is at can be another. *)
LEMMA RejectedMoves ==
    ASSUME TypeInv, pc # "idle", NEW v,
           v \in Interrupted(rejected[here]) \/ v \in Nat,
           rejected' = [rejected EXCEPT ![here] = v]
    PROVE  /\ rejected' \in [Source \X Batch -> Count \cup {Torn}]
           /\ \A s \in Source, b \in Batch :
                 rejected'[<<s, b>>] = IF <<s, b>> = here THEN v ELSE rejected[<<s, b>>]
           /\ v \in Interrupted(rejected[here]) =>
                 \A s \in Source, b \in Batch :
                    \/ rejected'[<<s, b>>] = rejected[<<s, b>>]
                    \/ <<s, b>> = here /\ rejected'[<<s, b>>] \in {NULL, Torn}
<1>1. here \in Source \X Batch /\ rejected \in [Source \X Batch -> Count \cup {Torn}]
  BY Here DEF TypeInv, StoresType
<1>2. v \in Count \cup {Torn}
  BY <1>1 DEF Interrupted, Count
<1>3. QED
  BY <1>1, <1>2 DEF Interrupted

LEMMA HalfWrittenIs ==
    ASSUME TypeInv, pc # "idle", silver' \in HalfWritten
    PROVE  /\ silver' \in [Source \X Batch -> Frame \cup {NULL, Torn}]
           /\ \A s \in Source, b \in Batch :
                 \/ silver'[<<s, b>>] = silver[<<s, b>>]
                 \/ <<s, b>> = here /\ silver'[<<s, b>>] \in {NULL, Torn}
<1>1. here \in Source \X Batch /\ silver \in [Source \X Batch -> Frame \cup {NULL, Torn}]
  BY Here DEF TypeInv, StoresType
<1>2. silver' = silver \/ \E v \in Interrupted(silver[here]) : silver' = [silver EXCEPT ![here] = v]
  BY DEF HalfWritten
<1>3. QED
  BY <1>1, <1>2 DEF Interrupted

LEMMA WithArtifactIs ==
    ASSUME TypeInv, pc # "idle", source \in DOMAIN clean_bronze, silver' = WithArtifact
    PROVE  /\ silver' \in [Source \X Batch -> Frame \cup {NULL, Torn}]
           /\ \A s \in Source, b \in Batch :
                 silver'[<<s, b>>] = IF <<s, b>> = here /\ Artifact(source).rows > 0
                                     THEN Artifact(source) ELSE silver[<<s, b>>]
           /\ Artifact(source).rows \in Nat /\ Artifact(source) \notin {NULL, Torn}
<1>1. here \in Source \X Batch /\ silver \in [Source \X Batch -> Frame \cup {NULL, Torn}]
  BY Here DEF TypeInv, StoresType
<1>2. Artifact(source) \in Frame
  BY ArtifactType
<1>3. Artifact(source).rows \in Nat /\ Artifact(source) \notin {NULL, Torn}
  BY <1>2, SilverAssumption DEF Frame
<1>4. QED
  BY <1>1, <1>2, <1>3 DEF WithArtifact

LEMMA StoresStep == ASSUME TypeInv, [Next]_vars PROVE StoresType'
<1> USE DEF StoresType
<1>1. ASSUME NEW b \in Batch, StartRun(b) PROVE StoresType'
  BY <1>1 DEF TypeInv, StartRun
<1>2. CASE BuildFkLookups
  BY <1>2 DEF TypeInv, BuildFkLookups, stores, Fault, NoFault
<1>3. CASE RunDq
  BY <1>3 DEF TypeInv, RunDq, stores, Fault, NoFault
<1>4. CASE Quarantine
  <2>1. dq_results[source] \in Nat /\ pc # "idle"
    BY <1>4 DEF TypeInv, ProcessType, MemoryType, Quarantine
  <2>2. faults' \in Nat
    BY <1>4 DEF TypeInv, Quarantine, Fault, NoFault
  <2>3. PICK left \in Interrupted(rejected[here]) \cup {dq_results[source]} :
           rejected' = [rejected EXCEPT ![here] = left]
    BY <1>4 DEF Quarantine
  <2>4. rejected' \in [Source \X Batch -> Count \cup {Torn}]
    BY <2>1, <2>3, RejectedMoves
  <2>5. QED
    BY <1>4, <2>2, <2>4 DEF TypeInv, Quarantine
<1>5. CASE RecordQuarantine
  BY <1>5 DEF TypeInv, RecordQuarantine, Fault, NoFault
<1>6. CASE WriteReport
  BY <1>6 DEF TypeInv, WriteReport, Fault, NoFault
<1>7. CASE MarkTransforming
  BY <1>7 DEF TypeInv, MarkTransforming, bounds
<1>8. CASE BuildArtifact
  <2>1. \/ silver' = silver
        \/ silver' \in HalfWritten
        \/ source \in DOMAIN clean_bronze /\ silver' = WithArtifact
    BY <1>8 DEF BuildArtifact, CanBuild
  <2>2. silver' \in [Source \X Batch -> Frame \cup {NULL, Torn}]
    BY <1>8, <2>1, HalfWrittenIs, WithArtifactIs DEF TypeInv, BuildArtifact
  <2>3. faults' \in Nat
    BY <1>8 DEF TypeInv, BuildArtifact, Fault, NoFault
  <2>4. QED
    BY <1>8, <2>2, <2>3 DEF TypeInv, BuildArtifact
<1>9. CASE FinaliseSource
  BY <1>9 DEF TypeInv, FinaliseSource, Fault, NoFault
<1>10. CASE Verdict
  BY <1>10 DEF TypeInv, Verdict, bounds
<1>11. CASE Crash
  <2>1. silver' \in [Source \X Batch -> Frame \cup {NULL, Torn}]
    BY <1>11, HalfWrittenIs DEF TypeInv, Crash
  <2>2. rejected' \in [Source \X Batch -> Count \cup {Torn}]
    BY <1>11, RejectedMoves DEF TypeInv, Crash
  <2>3. QED
    BY <1>11, <2>1, <2>2 DEF TypeInv, Crash
<1>12. CASE UNCHANGED vars
  BY <1>12 DEF TypeInv, vars, stores, bounds
<1>13. QED
  BY <1>1, <1>2, <1>3, <1>4, <1>5, <1>6, <1>7, <1>8, <1>9, <1>10, <1>11, <1>12 DEF Next, RunStep

LEMMA ProcessStep == ASSUME TypeInv, [Next]_vars PROVE ProcessType' /\ MemoryType'
<1> USE DEF TypeInv
<1>1. ASSUME NEW b \in Batch, StartRun(b) PROVE ProcessType' /\ MemoryType'
  BY <1>1, Sources, SilverAssumption
     DEF StartRun, memory, ProcessType, MemoryType, Step, BeforeBuild, DqStep
<1>2. CASE BuildFkLookups
  BY <1>2 DEF BuildFkLookups, GoTo, ProcessType, MemoryType, Step, BeforeBuild, DqStep
<1>3. CASE RunDq
  <2>1. source \in Source /\ pos \in DOMAIN Registry /\ batch \in Batch /\ pc = "read"
    BY <1>3, Here DEF RunDq, ProcessType
  <2>2. Rejects(source) \in Nat /\ Raw(source) \in Frame /\ Clean(source) \in Frame
    BY <2>1, Frames
  <2>3. \/ UNCHANGED <<clean_bronze, dq_results>> /\ NextSource("read", "report")
        \/ /\ dq_results' = With(dq_results, source, Rejects(source))
           /\ clean_bronze' = With(clean_bronze, source, Clean(source))
           /\ GoTo("quarantine") \/ NextSource("read", "report")
        \/ /\ clean_bronze' = With(clean_bronze, source, Raw(source))
           /\ UNCHANGED dq_results
           /\ NextSource("read", "report")
    BY <1>3 DEF RunDq
  <2>4. MemoryType'
    BY <1>3, <2>1, <2>2, <2>3 DEF RunDq, With, MemoryType
  <2>5. ProcessType'
    <3>1. CASE NextSource("read", "report")
      BY <1>3, <2>1, <3>1, NextSourceMoves
         DEF RunDq, ProcessType, Step, BeforeBuild, DqStep
    <3>2. CASE GoTo("quarantine") /\ dq_results' = With(dq_results, source, Rejects(source))
      <4>1. source \in DOMAIN dq_results'
        BY <3>2 DEF With
      <4>2. pc' = "quarantine" /\ batch' = batch /\ pos' = pos /\ source' = source
        BY <3>2 DEF GoTo, source
      <4>3. fk_lookups' = fk_lookups
        BY <1>3 DEF RunDq
      <4>4. QED
        BY <2>1, <4>1, <4>2, <4>3 DEF ProcessType, Step, BeforeBuild, DqStep
    <3>3. QED
      BY <2>3, <3>1, <3>2
  <2>6. QED
    BY <2>4, <2>5
<1>4. CASE Quarantine
  <2>1. source \in Source /\ pos \in DOMAIN Registry /\ batch \in Batch /\ Raw(source) \in Frame
    BY <1>4, Here, Frames DEF Quarantine, ProcessType
  <2>2. MemoryType'
    BY <1>4, <2>1 DEF Quarantine, With, MemoryType
  <2>3. ProcessType'
    <3>1. CASE NextSource("read", "report")
      BY <1>4, <2>1, <3>1, NextSourceMoves
         DEF Quarantine, ProcessType, Step, BeforeBuild, DqStep
    <3>2. CASE GoTo("record_quarantine")
      BY <1>4, <2>1, <3>2
         DEF Quarantine, GoTo, source, ProcessType, Step, BeforeBuild, DqStep
    <3>3. QED
      BY <1>4, <3>1, <3>2 DEF Quarantine
  <2>4. QED
    BY <2>2, <2>3
<1>5. CASE RecordQuarantine
  BY <1>5, NextSourceMoves
     DEF RecordQuarantine, memory, ProcessType, MemoryType, Step, BeforeBuild, DqStep
<1>6. CASE WriteReport
  BY <1>6 DEF WriteReport, GoTo, memory, ProcessType, MemoryType, Step, BeforeBuild, DqStep
<1>7. CASE MarkTransforming
  BY <1>7, NextSourceMoves
     DEF MarkTransforming, memory, ProcessType, MemoryType, Step, BeforeBuild, DqStep
<1>8. CASE BuildArtifact
  <2>1. built' \subseteq DOMAIN clean_bronze
    BY <1>8 DEF BuildArtifact, CanBuild, MemoryType
  <2>2. QED
    BY <1>8, <2>1, NextSourceMoves
       DEF BuildArtifact, ProcessType, MemoryType, Step, BeforeBuild, DqStep
<1>9. CASE FinaliseSource
  BY <1>9, NextSourceMoves
     DEF FinaliseSource, memory, ProcessType, MemoryType, Step, BeforeBuild, DqStep
<1>10. CASE Verdict \/ Crash
  BY <1>10, ExitType DEF Verdict, Crash
<1>11. CASE UNCHANGED vars
  BY <1>11 DEF vars, memory, ProcessType, MemoryType, source
<1>12. QED
  BY <1>1, <1>2, <1>3, <1>4, <1>5, <1>6, <1>7, <1>8, <1>9, <1>10, <1>11 DEF Next, RunStep

LEMMA TypeStep == ASSUME TypeInv, [Next]_vars PROVE TypeInv'
BY StoresStep, ProcessStep DEF TypeInv

LEMMA InitType == Init => TypeInv
<1> SUFFICES ASSUME Init PROVE TypeInv
  OBVIOUS
<1>1. readable \in [Source \X Batch -> BOOLEAN]
  BY DEF Init
<1>2. StoresType
  BY <1>1 DEF Init, StoresType, Count
<1>3. ProcessType /\ MemoryType
  BY NoFrames DEF Init, ProcessType, MemoryType, Step
<1>4. QED
  BY <1>2, <1>3 DEF TypeInv

-----------------------------------------------------------------------------
(* Frames without rows *)

InQuarantine(s) == pc = "quarantine" /\ s = source

(* A source that can be read has rows, so that a frame without any is what DQ
   leaves when it refuses them all; and it has put them into quarantine.   *)
FramesInv ==
    /\ \A s \in Source, b \in Batch : readable[<<s, b>>] => RowsOf[s] > 0
    /\ pc = "idle" => DOMAIN clean_bronze = {}
    /\ \A s \in DOMAIN clean_bronze :
          /\ RowsOf[s] > 0
          /\ InQuarantine(s) => clean_bronze[s].rows + dq_results[s] = RowsOf[s]
          /\ clean_bronze[s].rows = 0 /\ ~InQuarantine(s) => rejected[<<s, batch>>] = RowsOf[s]

LEMMA InitFramesInv == Init => FramesInv
<1> SUFFICES ASSUME Init PROVE FramesInv
  OBVIOUS
<1>1. \A s \in Source, b \in Batch : readable[<<s, b>>] => RowsOf[s] > 0
  <2>1. \A q \in Source \X Batch : readable[q] => RowsOf[q[1]] > 0
    BY DEF Init
  <2>2. SUFFICES ASSUME NEW s \in Source, NEW b \in Batch, readable[<<s, b>>] PROVE RowsOf[s] > 0
    OBVIOUS
  <2>3. QED
    BY <2>1, <2>2
<1>2. QED
  BY <1>1, NoFrames DEF Init, FramesInv

(* Steps that leave the frames and the quarantine alone. *)
LEMMA SameFrames ==
    ASSUME FramesInv, UNCHANGED <<readable, rejected, clean_bronze, batch>>,
           pc \notin {"idle", "quarantine"}, pc' \notin {"idle", "quarantine"}
    PROVE  FramesInv'
BY DEF FramesInv, InQuarantine

LEMMA ExitFrames ==
    ASSUME FramesInv, Exit, UNCHANGED readable
    PROVE  FramesInv'
BY NoFrames DEF FramesInv, Exit

LEMMA DqFrames ==
    ASSUME TypeInv, FramesInv, RunDq
    PROVE  FramesInv'
<1>1. /\ source \in Source /\ batch \in Batch /\ pc = "read" /\ pos \in DOMAIN Registry
      /\ here = <<source, batch>> /\ UNCHANGED <<readable, rejected>>
      /\ readable[here] => RowsOf[source] > 0
  BY Here DEF RunDq, TypeInv, ProcessType, stores, here, FramesInv
<1>2. /\ RowsOf[source] \in Nat /\ Rejects(source) \in Nat
      /\ Raw(source).rows = RowsOf[source] /\ Clean(source).rows = RowsOf[source] - Rejects(source)
  BY <1>1, Frames, SilverAssumption DEF Raw, Clean
<1>3. CASE UNCHANGED <<clean_bronze, dq_results>> /\ NextSource("read", "report")
  BY <1>1, <1>3, NextSourceMoves, SameFrames
<1>4. ASSUME NEW frame, readable[here], clean_bronze' = With(clean_bronze, source, frame),
             batch' = batch, pc' # "idle",
             pc' # "quarantine" => frame.rows = RowsOf[source],
             pc' = "quarantine" => source' = source
                                   /\ frame.rows + dq_results'[source] = RowsOf[source]
      PROVE  FramesInv'
  <2>1. ASSUME NEW s \in DOMAIN clean_bronze'
        PROVE  /\ RowsOf[s] > 0
               /\ InQuarantine(s)' => clean_bronze'[s].rows + dq_results'[s] = RowsOf[s]
               /\ clean_bronze'[s].rows = 0 /\ ~InQuarantine(s)' => rejected[<<s, batch>>] = RowsOf[s]
    <3>1. CASE s = source
      <4>1. clean_bronze'[s] = frame /\ (InQuarantine(s)' <=> pc' = "quarantine")
        BY <1>4, <3>1 DEF With, InQuarantine
      <4>2. QED
        BY <1>1, <1>2, <1>4, <3>1, <4>1
    <3>2. CASE s # source
      <4>1. s \in DOMAIN clean_bronze /\ clean_bronze'[s] = clean_bronze[s]
            /\ ~InQuarantine(s)' /\ ~InQuarantine(s)
        BY <1>1, <1>4, <3>2 DEF With, InQuarantine
      <4>2. QED
        BY <4>1 DEF FramesInv
    <3>3. QED
      BY <3>1, <3>2
  <2>2. QED
    BY <1>1, <1>4, <2>1 DEF FramesInv
<1>5. CASE /\ dq_results' = With(dq_results, source, Rejects(source)) /\ readable[here]
           /\ clean_bronze' = With(clean_bronze, source, Clean(source))
           /\ IF Rejects(source) > 0 THEN GoTo("quarantine") ELSE NextSource("read", "report")
  <2>1. /\ batch' = batch /\ pc' # "idle"
        /\ pc' = "quarantine" => source' = source
        /\ pc' # "quarantine" => Rejects(source) = 0
    BY <1>1, <1>2, <1>5, NextSourceMoves DEF GoTo, source
  <2>2. dq_results'[source] = Rejects(source)
    BY <1>5 DEF With
  <2>3. QED
    BY <1>2, <1>4, <1>5, <2>1, <2>2
<1>6. CASE /\ clean_bronze' = With(clean_bronze, source, Raw(source)) /\ readable[here]
           /\ NextSource("read", "report")
  BY <1>1, <1>2, <1>4, <1>6, NextSourceMoves
<1>7. QED
  BY <1>3, <1>5, <1>6 DEF RunDq

LEMMA QuarantineFrames ==
    ASSUME TypeInv, FramesInv, Quarantine
    PROVE  FramesInv'
<1>1. /\ source \in Source /\ batch \in Batch /\ pc = "quarantine" /\ pos \in DOMAIN Registry
      /\ here = <<source, batch>> /\ readable' = readable /\ batch' = batch
      /\ source \in DOMAIN clean_bronze /\ dq_results[source] \in Nat
      /\ pc' \notin {"idle", "quarantine"} /\ DOMAIN clean_bronze \subseteq Source
  BY Here, NextSourceMoves DEF Quarantine, TypeInv, ProcessType, MemoryType, GoTo, here
<1>2. \A s \in DOMAIN clean_bronze :
         /\ RowsOf[s] > 0 /\ RowsOf[s] \in Nat /\ clean_bronze[s].rows \in Nat
         /\ s # source => (clean_bronze[s].rows = 0 => rejected[<<s, batch>>] = RowsOf[s])
         /\ s = source => clean_bronze[s].rows + dq_results[s] = RowsOf[s]
  BY <1>1, SilverAssumption DEF FramesInv, InQuarantine, TypeInv, MemoryType, Frame
<1>3. ASSUME NEW s \in Source, s # source PROVE rejected'[<<s, batch>>] = rejected[<<s, batch>>]
  BY <1>1, <1>3, RejectedMoves DEF Quarantine
<1>4. CASE rejected' = [rejected EXCEPT ![here] = dq_results[source]] /\ clean_bronze' = clean_bronze
  <2>1. rejected'[here] = dq_results[source]
    BY <1>1, <1>4, RejectedMoves
  <2>2. ASSUME NEW s \in DOMAIN clean_bronze, clean_bronze[s].rows = 0
        PROVE  rejected'[<<s, batch>>] = RowsOf[s]
    <3>1. CASE s = source
      BY <1>1, <1>2, <2>1, <2>2, <3>1
    <3>2. CASE s # source
      BY <1>1, <1>2, <1>3, <2>2, <3>2
    <3>3. QED
      BY <3>1, <3>2
  <2>3. QED
    BY <1>1, <1>2, <1>4, <2>2 DEF FramesInv, InQuarantine
<1>5. CASE clean_bronze' = With(clean_bronze, source, Raw(source))
  <2>1. /\ DOMAIN clean_bronze' = DOMAIN clean_bronze /\ clean_bronze'[source].rows = RowsOf[source]
        /\ \A s \in DOMAIN clean_bronze : s # source => clean_bronze'[s] = clean_bronze[s]
    BY <1>1, <1>5 DEF With, Raw
  <2>2. \A s \in DOMAIN clean_bronze : clean_bronze'[s].rows = 0 => rejected'[<<s, batch>>] = RowsOf[s]
    BY <1>1, <1>2, <1>3, <2>1
  <2>3. QED
    BY <1>1, <1>2, <2>1, <2>2 DEF FramesInv, InQuarantine
<1>6. QED
  BY <1>4, <1>5 DEF Quarantine

LEMMA FramesStep == ASSUME TypeInv, FramesInv, [Next]_vars PROVE FramesInv'
<1>1. ASSUME NEW b \in Batch, StartRun(b) PROVE FramesInv'
  BY <1>1, NoFrames DEF StartRun, memory, FramesInv
<1>2. CASE BuildFkLookups
  BY <1>2, SameFrames DEF BuildFkLookups, GoTo, stores
<1>3. CASE RunDq
  BY <1>3, DqFrames
<1>4. CASE Quarantine
  BY <1>4, QuarantineFrames
<1>5. CASE RecordQuarantine
  <2>1. pc' \in {"read", "report"} /\ batch' = batch
    BY <1>5, NextSourceMoves DEF RecordQuarantine, TypeInv, ProcessType
  <2>2. QED
    BY <1>5, <2>1, SameFrames DEF RecordQuarantine, memory
<1>6. CASE WriteReport
  BY <1>6, SameFrames DEF WriteReport, GoTo, memory
<1>7. CASE MarkTransforming
  <2>1. pc' \in {"transforming", "build"} /\ batch' = batch
    BY <1>7, NextSourceMoves DEF MarkTransforming, TypeInv, ProcessType
  <2>2. QED
    BY <1>7, <2>1, SameFrames DEF MarkTransforming, memory
<1>8. CASE BuildArtifact
  <2>1. pc' \in {"build", "finalise"} /\ batch' = batch
    BY <1>8, NextSourceMoves DEF BuildArtifact, TypeInv, ProcessType
  <2>2. QED
    BY <1>8, <2>1, SameFrames DEF BuildArtifact
<1>9. CASE FinaliseSource
  <2>1. pc' \in {"finalise", "verdict"} /\ batch' = batch
    BY <1>9, NextSourceMoves DEF FinaliseSource, TypeInv, ProcessType
  <2>2. QED
    BY <1>9, <2>1, SameFrames DEF FinaliseSource, memory
<1>10. CASE Verdict \/ Crash
  BY <1>10, ExitFrames DEF Verdict, Crash
<1>11. CASE UNCHANGED vars
  BY <1>11 DEF vars, stores, memory, FramesInv, InQuarantine, source
<1>12. QED
  BY <1>1, <1>2, <1>3, <1>4, <1>5, <1>6, <1>7, <1>8, <1>9, <1>10, <1>11 DEF Next, RunStep

-----------------------------------------------------------------------------
(* Results *)

(* A run is recorded as running; its results grow with its position and are
   complete when it is decided; and what it takes for written is on disk, or
   has no row.  A batch that succeeded is never run again, so its partitions
   stay.                                                                   *)
Delivered(s, b) == Whole(s, b) \/ NothingLeft(s, b)

ResultsInv ==
    /\ pc # "idle" => pipeline_runs[batch] = "running"
    /\ pc \in {"idle"} \cup BeforeBuild => DOMAIN results = {}
    /\ pc = "build" => DOMAIN results = {Registry[i] : i \in 1 .. pos - 1}
    /\ pc \in {"finalise", "verdict"} => DOMAIN results = Source
    /\ \A s \in DOMAIN results : results[s] = "written" \/ results[s] = "failed"
    /\ \A s \in DOMAIN results : results[s] = "written" =>
          /\ s \in built /\ Delivered(s, batch)
          /\ s \in Versioned => \A b \in Batch : silver[<<s, b>>] # Torn
    /\ SuccessHasEveryArtifact

LEMMA InitResults == Init => ResultsInv
BY NoFrames DEF Init, ResultsInv, SuccessHasEveryArtifact, Succeeded, BeforeBuild, DqStep

LEMMA ExitResults ==
    ASSUME TypeInv, ResultsInv, pc # "idle", Exit, silver' = silver, rejected' = rejected,
           NEW v \in {"running", "failed", "success"},
           pipeline_runs' = [pipeline_runs EXCEPT ![batch] = v],
           v = "success" => \A s \in Source : Delivered(s, batch)
    PROVE  ResultsInv'
<1>0. \A s, b : Delivered(s, b)' = Delivered(s, b)
  BY DEF Delivered, Whole, NothingLeft
<1>1. pc' = "idle" /\ results' = << >>
  BY DEF Exit
<1>2. \A b \in Batch : pipeline_runs'[b] = IF b = batch THEN v ELSE pipeline_runs[b]
  BY DEF TypeInv, StoresType
<1>3. SuccessHasEveryArtifact'
  BY <1>0, <1>2 DEF ResultsInv, SuccessHasEveryArtifact, Succeeded, Delivered
<1>4. QED
  BY <1>1, <1>3, NoFrames DEF ResultsInv, BeforeBuild, DqStep

(* Steps that leave results, Silver and the verdicts alone. *)
LEMMA SameResults ==
    ASSUME ResultsInv, UNCHANGED <<results, silver, pipeline_runs, batch, built>>,
           pc # "idle",
           rejected' # rejected =>
               /\ pc = "quarantine"
               /\ \A s \in Source, b \in Batch : b # batch => rejected'[<<s, b>>] = rejected[<<s, b>>],
           (pc' \in BeforeBuild /\ pc \in BeforeBuild) \/ pc' \in {"build", "finalise", "verdict"},
           pc' = "build" => pc = "transforming" /\ pos' = 1,
           pc' \in {"finalise", "verdict"} => pc \in {"finalise", "verdict"}
    PROVE  ResultsInv'
<1>1. pc' = "build" => DOMAIN results' = {Registry[i] : i \in 1 .. pos' - 1}
  BY DEF ResultsInv, BeforeBuild
<1>2. SuccessHasEveryArtifact'
  <2>1. ASSUME NEW b \in Batch, Succeeded(b), NEW s \in Source
        PROVE  Whole(s, b)' \/ NothingLeft(s, b)'
    <3>1. b # batch /\ rejected'[<<s, b>>] = rejected[<<s, b>>]
      BY <2>1 DEF ResultsInv, Succeeded
    <3>2. QED
      BY <2>1, <3>1 DEF ResultsInv, SuccessHasEveryArtifact, Whole, NothingLeft
  <2>2. QED
    BY <2>1 DEF SuccessHasEveryArtifact, Succeeded
<1>3. pc' \in {"idle"} \cup BeforeBuild => DOMAIN results' = {}
  BY DEF ResultsInv, BeforeBuild, DqStep
<1>4. ASSUME NEW s \in DOMAIN results', results'[s] = "written"
      PROVE  s \in built' /\ Delivered(s, batch)'
             /\ (s \in Versioned => \A b \in Batch : silver'[<<s, b>>] # Torn)
  <2>1. s \in DOMAIN results /\ results[s] = "written" /\ rejected' = rejected
    BY <1>4 DEF ResultsInv, BeforeBuild, DqStep
  <2>2. QED
    BY <2>1 DEF ResultsInv, Delivered, Whole, NothingLeft
<1>5. QED
  BY <1>1, <1>2, <1>3, <1>4 DEF ResultsInv

LEMMA BuildResults ==
    ASSUME TypeInv, FramesInv, ResultsInv, BuildArtifact
    PROVE  ResultsInv'
<1> USE DEF TypeInv
<1>1. /\ pc = "build" /\ pos \in 1 .. Len(Registry) /\ batch' = batch
      /\ source \in Source /\ here = <<source, batch>> /\ here \in Source \X Batch
      /\ pipeline_runs' = pipeline_runs /\ pipeline_runs[batch] = "running"
      /\ Len(Registry) \in Nat
  BY Here, Sources, NextSourceMoves DEF BuildArtifact, ProcessType, ResultsInv, here
<1>2. PICK v \in {"written", "failed"} :
         /\ results' = With(results, source, v)
         /\ v = "written" => CanBuild /\ silver' = WithArtifact /\ source \in built'
         /\ v = "failed" => silver' = silver \/ silver' \in HalfWritten
         /\ built \subseteq built' /\ rejected' = rejected
  BY DEF BuildArtifact
<1>3. /\ \A s \in Source, b \in Batch : <<s, b>> # here => silver'[<<s, b>>] = silver[<<s, b>>]
      /\ v = "written" => /\ \A s \in Source : s = source => Delivered(s, batch)'
                          /\ silver'[here] # Torn \/ silver' = silver
  <2>1. CASE v = "failed"
    BY <1>1, <1>2, <2>1, HalfWrittenIs
  <2>2. CASE v = "written"
    <3>1. source \in DOMAIN clean_bronze
      BY <1>2, <2>2 DEF CanBuild
    <3>2. /\ \A s \in Source, b \in Batch :
                 silver'[<<s, b>>] = IF <<s, b>> = here /\ Artifact(source).rows > 0
                                     THEN Artifact(source) ELSE silver[<<s, b>>]
          /\ Artifact(source).rows \in Nat /\ Artifact(source) \notin {NULL, Torn}
      BY <1>1, <1>2, <2>2, <3>1, WithArtifactIs
    <3>3. CASE Artifact(source).rows > 0
      <4>1. silver'[<<source, batch>>] = Artifact(source)
        BY <1>1, <3>2, <3>3
      <4>2. QED
        BY <1>1, <3>2, <4>1 DEF Delivered, Whole, source
    <3>4. CASE Artifact(source).rows = 0
      <4>1. /\ clean_bronze[source].rows = 0 /\ History[source] = 0
        <5>1. clean_bronze[source] \in Frame /\ History[source] \in Nat
          BY <1>1, <3>1, SilverAssumption DEF MemoryType
        <5>2. Artifact(source).rows = clean_bronze[source].rows + History[source]
          BY <5>1 DEF Artifact, Frame
        <5>3. QED
          BY <3>4, <5>1, <5>2 DEF Frame
      <4>2. rejected[<<source, batch>>] = RowsOf[source]
        BY <1>1, <3>1, <4>1 DEF FramesInv, InQuarantine
      <4>3. \A s \in Source : s = source => Delivered(s, batch)'
        BY <1>1, <1>2, <4>1, <4>2 DEF Delivered, NothingLeft
      <4>4. silver' = silver
        BY <1>2, <2>2, <3>4 DEF WithArtifact, StoresType
      <4>5. QED
        BY <3>2, <4>3, <4>4
    <3>5. QED
      BY <3>2, <3>3, <3>4
  <2>3. QED
    BY <2>1, <2>2
<1>4. DOMAIN results' = DOMAIN results \cup {source} /\ results'[source] = v
      /\ \A s \in DOMAIN results \ {source} : results'[s] = results[s]
  BY <1>2 DEF With
<1>5. DOMAIN results' = {Registry[i] : i \in 1 .. pos}
  <2>1. DOMAIN results = {Registry[i] : i \in 1 .. pos - 1}
    BY <1>1 DEF ResultsInv
  <2>2. 1 .. pos = 1 .. pos - 1 \cup {pos}
    BY <1>1
  <2>3. QED
    BY <1>4, <2>1, <2>2 DEF source
<1>6. (pc' = "build" /\ pos' = pos + 1) \/ (pc' = "finalise" /\ pos = Len(Registry))
  BY <1>1 DEF BuildArtifact, NextSource
<1>7. /\ pc' = "build" => DOMAIN results' = {Registry[i] : i \in 1 .. pos' - 1}
      /\ pc' = "finalise" => DOMAIN results' = Source
  <2>1. pos' = pos + 1 => pos' - 1 = pos
    BY <1>1
  <2>2. pos = Len(Registry) => {Registry[i] : i \in 1 .. pos} = Source
    BY Sources
  <2>3. QED
    BY <1>5, <1>6, <2>1, <2>2
<1>8. ASSUME NEW s \in DOMAIN results', results'[s] = "written"
      PROVE  /\ s \in built' /\ Delivered(s, batch)'
             /\ s \in Versioned => \A b \in Batch : silver'[<<s, b>>] # Torn
  <2>1. DOMAIN results \subseteq Source /\ batch \in Batch
    BY <1>1, Here, Sources DEF ResultsInv
  <2>2. CASE s = source
    <3>1. v = "written"
      BY <1>4, <1>8, <2>2
    <3>2. s \in Versioned => \A b \in Batch : silver[<<s, b>>] # Torn
      BY <1>2, <2>2, <3>1 DEF CanBuild
    <3>3. Delivered(s, batch)'
      BY <1>1, <1>3, <2>2, <3>1
    <3>4. QED
      BY <1>1, <1>2, <1>3, <2>2, <3>1, <3>2, <3>3
  <2>3. CASE s # source
    <3>1. s \in DOMAIN results /\ results[s] = "written" /\ \A b \in Batch : <<s, b>> # here
      BY <1>1, <1>4, <1>8, <2>3
    <3>2. \A b \in Batch : silver'[<<s, b>>] = silver[<<s, b>>]
      BY <1>3, <2>1, <3>1
    <3>3. s \in built /\ Delivered(s, batch)
          /\ (s \in Versioned => \A b \in Batch : silver[<<s, b>>] # Torn)
      BY <3>1 DEF ResultsInv
    <3>4. QED
      BY <1>1, <1>2, <2>1, <3>2, <3>3 DEF Delivered, Whole, NothingLeft
  <2>4. QED
    BY <2>2, <2>3
<1>9. SuccessHasEveryArtifact'
  <2>1. ASSUME NEW b \in Batch, Succeeded(b), NEW s \in Source
        PROVE  Whole(s, b)' \/ NothingLeft(s, b)'
    <3>1. b # batch
      BY <1>1, <2>1 DEF Succeeded
    <3>2. silver'[<<s, b>>] = silver[<<s, b>>]
      BY <1>1, <1>3, <3>1
    <3>3. QED
      BY <1>2, <2>1, <3>2 DEF ResultsInv, SuccessHasEveryArtifact, Whole, NothingLeft
  <2>2. QED
    BY <1>1, <2>1 DEF SuccessHasEveryArtifact, Succeeded
<1>10. \A s \in DOMAIN results' : results'[s] = "written" \/ results'[s] = "failed"
  BY <1>2, <1>4 DEF ResultsInv
<1>11. QED
  BY <1>1, <1>6, <1>7, <1>8, <1>9, <1>10 DEF ResultsInv, BeforeBuild, DqStep

(* The quarantine of another batch stays. *)
LEMMA QuarantineElsewhere ==
    ASSUME TypeInv, Quarantine, NEW s \in Source, NEW b \in Batch, <<s, b>> # here
    PROVE  rejected'[<<s, b>>] = rejected[<<s, b>>]
<1>1. dq_results[source] \in Nat /\ pc # "idle"
  BY DEF Quarantine, TypeInv, ProcessType, MemoryType
<1>2. QED
  BY <1>1, RejectedMoves DEF Quarantine

LEMMA ResultsStep == ASSUME TypeInv, FramesInv, ResultsInv, [Next]_vars PROVE ResultsInv'
<1> USE DEF BeforeBuild, DqStep
<1>1. ASSUME NEW b \in Batch, StartRun(b) PROVE ResultsInv'
  <2>1. \A c \in Batch : pipeline_runs'[c] = IF c = b THEN "running" ELSE pipeline_runs[c]
    BY <1>1 DEF StartRun, TypeInv, StoresType
  <2>2. SuccessHasEveryArtifact'
    BY <1>1, <2>1 DEF StartRun, ResultsInv, SuccessHasEveryArtifact, Succeeded, Whole, NothingLeft
  <2>3. DOMAIN results' = {}
    BY <1>1, NoFrames DEF StartRun, memory, ResultsInv
  <2>4. QED
    BY <1>1, <2>1, <2>2, <2>3 DEF StartRun, ResultsInv
<1>2. CASE BuildFkLookups
  BY <1>2, SameResults DEF BuildFkLookups, GoTo, stores, DqStep, BeforeBuild
<1>3. CASE RunDq
  <2>1. pc' \in {"read", "report", "quarantine"} /\ batch' = batch
    BY <1>3, NextSourceMoves DEF RunDq, GoTo, TypeInv, ProcessType
  <2>2. QED
    BY <1>3, <2>1, SameResults DEF RunDq, stores
<1>4. CASE Quarantine
  <2>1. pc' \in {"read", "report", "record_quarantine"} /\ batch' = batch
    BY <1>4, NextSourceMoves DEF Quarantine, GoTo, TypeInv, ProcessType
  <2>2. \A s \in Source, b \in Batch : b # batch => rejected'[<<s, b>>] = rejected[<<s, b>>]
    BY <1>4, QuarantineElsewhere, Here DEF Quarantine, here
  <2>3. QED
    BY <1>4, <2>1, <2>2, SameResults DEF Quarantine
<1>5. CASE RecordQuarantine
  <2>1. pc' \in {"read", "report"} /\ batch' = batch
    BY <1>5, NextSourceMoves DEF RecordQuarantine, TypeInv, ProcessType
  <2>2. QED
    BY <1>5, <2>1, SameResults DEF RecordQuarantine, memory
<1>6. CASE WriteReport
  BY <1>6, SameResults DEF WriteReport, GoTo, memory
<1>7. CASE MarkTransforming
  <2>1. (pc' = "transforming" \/ (pc' = "build" /\ pos' = 1)) /\ batch' = batch
    BY <1>7 DEF MarkTransforming, NextSource
  <2>2. QED
    BY <1>7, <2>1, SameResults DEF MarkTransforming, memory
<1>8. CASE BuildArtifact
  BY <1>8, BuildResults
<1>9. CASE FinaliseSource
  <2>1. pc' \in {"finalise", "verdict"} /\ batch' = batch
    BY <1>9, NextSourceMoves DEF FinaliseSource, TypeInv, ProcessType
  <2>2. QED
    BY <1>9, <2>1, SameResults DEF FinaliseSource, memory
<1>10. CASE Verdict
  <2>1. PICK v \in {"failed", "success"} :
           /\ pipeline_runs' = [pipeline_runs EXCEPT ![batch] = v]
           /\ v = "success" => "failed" \notin Range(results)
    BY <1>10 DEF Verdict
  <2>2. v = "success" => \A s \in Source : Delivered(s, batch)
    BY <1>10, <2>1 DEF Verdict, ResultsInv, Range
  <2>3. QED
    BY <1>10, <2>1, <2>2, ExitResults DEF Verdict
<1>11. CASE Crash
  <2>1. pipeline_runs[batch] = "running" /\ pc # "idle" /\ here = <<source, batch>>
    BY <1>11, Here DEF Crash, ResultsInv, here
  <2>2. ASSUME NEW s \in Source, NEW b \in Batch, b # batch
        PROVE  silver'[<<s, b>>] = silver[<<s, b>>] /\ rejected'[<<s, b>>] = rejected[<<s, b>>]
    BY <1>11, <2>1, <2>2, HalfWrittenIs, RejectedMoves DEF Crash
  <2>3. SuccessHasEveryArtifact'
    BY <1>11, <2>1, <2>2
       DEF Crash, ResultsInv, SuccessHasEveryArtifact, Succeeded, Whole, NothingLeft
  <2>4. pc' = "idle" /\ results' = << >>
    BY <1>11 DEF Crash, Exit
  <2>5. QED
    BY <2>3, <2>4, NoFrames DEF ResultsInv
<1>12. CASE UNCHANGED vars
  BY <1>12 DEF vars, stores, memory, ResultsInv, SuccessHasEveryArtifact, Succeeded, Delivered,
               Whole, NothingLeft
<1>13. QED
  BY <1>1, <1>2, <1>3, <1>4, <1>5, <1>6, <1>7, <1>8, <1>9, <1>10, <1>11, <1>12 DEF Next, RunStep

-----------------------------------------------------------------------------
(* Runs in which nothing raises *)

(* The rows that DQ refuses when the lookups were built. *)
Refused(s, b) ==
    IF \A r \in References[s] : readable[<<r, b>>] THEN BadRows[s]
    ELSE BadRows[s] - OrphanRows[s]

(* Until a step raises, what DQ refuses depends on the source and on what is
   readable alone, so every run of a batch quarantines the same rows: a
   partition of an earlier run agrees with the frames of a later one, unless
   a run was killed while it rewrote the partition.                        *)
QuietFrames ==
    /\ pc \notin {"idle", "lookups"} => fk_lookups
    /\ pc = "idle" => DOMAIN clean_bronze = {}
    /\ \A s \in DOMAIN clean_bronze :
          /\ clean_bronze[s].rows + Refused(s, batch) = RowsOf[s]
          /\ clean_bronze[s].bad + Refused(s, batch) = BadRows[s]
          /\ ~InQuarantine(s) => Rejected(s, batch) = Refused(s, batch)
    /\ \A s \in DOMAIN dq_results : dq_results[s] = Refused(s, batch)

QuietStores ==
    \A s \in Source, b \in Batch :
        /\ Rejected(s, b) = 0 \/ Rejected(s, b) = Refused(s, b)
        /\ Whole(s, b) =>
              /\ silver[<<s, b>>].rows + Refused(s, b) = RowsOf[s] + History[s]
              /\ silver[<<s, b>>].bad + Refused(s, b) = BadRows[s]

QuietInv == faults = 0 => QuietFrames /\ QuietStores

LEMMA InitQuiet == Init => QuietInv
<1> SUFFICES ASSUME Init PROVE QuietFrames /\ QuietStores
  BY DEF QuietInv
<1>1. QuietFrames
  BY NoFrames DEF Init, QuietFrames
<1>2. QuietStores
  BY DEF Init, QuietStores, Rejected, Whole
<1>3. QED
  BY <1>1, <1>2

(* Faults are only ever added. *)
LEMMA FaultsGrow ==
    ASSUME TypeInv, [Next]_vars, faults' = 0
    PROVE  faults = 0
<1> USE DEF TypeInv, StoresType
<1>1. faults \in Nat
  OBVIOUS
<1>2. Fault \/ faults' = faults
  BY DEF Next, RunStep, StartRun, BuildFkLookups, RunDq, Quarantine, RecordQuarantine, WriteReport,
         MarkTransforming, BuildArtifact, FinaliseSource, Verdict, Crash, NoFault, bounds, vars
<1>3. QED
  BY <1>1, <1>2 DEF Fault

LEMMA Amounts ==
    ASSUME NEW s \in Source, NEW b \in Batch, TypeInv
    PROVE  /\ RowsOf[s] \in Nat /\ BadRows[s] \in Nat /\ OrphanRows[s] \in Nat /\ History[s] \in Nat
           /\ OrphanRows[s] <= BadRows[s] /\ BadRows[s] <= RowsOf[s]
           /\ Refused(s, b) \in Nat /\ Refused(s, b) <= BadRows[s] /\ Rejected(s, b) \in Nat
<1>1. /\ RowsOf[s] \in Nat /\ BadRows[s] \in Nat /\ OrphanRows[s] \in Nat /\ History[s] \in Nat
      /\ OrphanRows[s] <= BadRows[s] /\ BadRows[s] <= RowsOf[s]
  BY SilverAssumption
<1>2. Refused(s, b) = BadRows[s] \/ Refused(s, b) = BadRows[s] - OrphanRows[s]
  BY DEF Refused
<1>3. Rejected(s, b) \in Nat
  BY DEF TypeInv, StoresType, Rejected, Count
<1>4. QED
  BY <1>1, <1>2, <1>3

(* A partition that is not replaced is the old one, or not whole. *)
LEMMA QuarantineShrinks ==
    ASSUME TypeInv, [Next]_vars, ~(Quarantine /\ pc' = "record_quarantine"),
           NEW s \in Source, NEW b \in Batch
    PROVE  /\ Rejected(s, b)' = Rejected(s, b)
              \/ (Rejected(s, b)' = 0 /\ pc = "quarantine" /\ <<s, b>> = here /\ (Crash \/ Quarantine))
           /\ ~Quarantine /\ ~Crash => rejected' = rejected
<1>1. ~Quarantine /\ ~Crash => rejected' = rejected
  BY DEF Next, RunStep, StartRun, BuildFkLookups, RunDq, RecordQuarantine, WriteReport,
         MarkTransforming, BuildArtifact, FinaliseSource, Verdict, vars, stores
<1>2. CASE rejected' = rejected
  BY <1>1, <1>2 DEF Rejected
<1>3. ASSUME NEW left \in Interrupted(rejected[here]), pc = "quarantine",
             rejected' = [rejected EXCEPT ![here] = left], Crash \/ Quarantine
      PROVE  Rejected(s, b)' = Rejected(s, b)
              \/ (Rejected(s, b)' = 0 /\ pc = "quarantine" /\ <<s, b>> = here /\ (Crash \/ Quarantine))
  <2>1. \A q \in Source, c \in Batch :
           \/ rejected'[<<q, c>>] = rejected[<<q, c>>]
           \/ <<q, c>> = here /\ rejected'[<<q, c>>] \in {NULL, Torn}
    BY <1>3, RejectedMoves
  <2>2. QED
    BY <1>3, <2>1 DEF Rejected
<1>4. CASE Quarantine
  <2>1. PICK left \in Interrupted(rejected[here]) : rejected' = [rejected EXCEPT ![here] = left]
    BY <1>4 DEF Quarantine, GoTo
  <2>2. QED
    BY <1>1, <1>3, <1>4, <2>1 DEF Quarantine
<1>5. CASE Crash
  BY <1>1, <1>2, <1>3, <1>5 DEF Crash
<1>6. QED
  BY <1>1, <1>2, <1>4, <1>5

(* Steps that leave the frames and the quarantine alone, and of Silver at
   most take something away; or end the run.                               *)
LEMMA QuietSame ==
    ASSUME QuietFrames, QuietStores, UNCHANGED readable,
           \A s \in Source, b \in Batch :
               silver'[<<s, b>>] = silver[<<s, b>>] \/ silver'[<<s, b>>] \in {NULL, Torn},
           \A s, b : rejected' = rejected => Rejected(s, b)' = Rejected(s, b),
           \A s \in Source, b \in Batch :
               Rejected(s, b)' = Rejected(s, b) \/ Rejected(s, b)' = 0,
           pc' # "idle" => rejected' = rejected,
           \/ /\ UNCHANGED <<clean_bronze, dq_results, fk_lookups, batch>>
              /\ pc \notin {"idle", "lookups", "quarantine"} /\ pc' # "idle"
           \/ pc' = "idle" /\ DOMAIN clean_bronze' = {} /\ DOMAIN dq_results' = {}
           \/ /\ DOMAIN clean_bronze = {} /\ UNCHANGED clean_bronze /\ pc' = "lookups"
              /\ DOMAIN dq_results = {} /\ UNCHANGED dq_results
    PROVE  QuietFrames' /\ QuietStores'
<1>1. /\ \A s, b : Refused(s, b)' = Refused(s, b)
      /\ pc' # "idle" => \A s, b : Rejected(s, b)' = Rejected(s, b)
  BY DEF Refused, Rejected
<1>2. QuietStores'
  BY <1>1 DEF QuietStores, Whole
<1>3. CASE /\ UNCHANGED <<clean_bronze, dq_results, fk_lookups, batch>>
           /\ pc \notin {"idle", "lookups", "quarantine"} /\ pc' # "idle"
  <2>1. \A s \in DOMAIN clean_bronze : Rejected(s, batch) = Refused(s, batch)
    BY <1>3 DEF QuietFrames, InQuarantine
  <2>2. fk_lookups
    BY <1>3 DEF QuietFrames
  <2>3. QED
    BY <1>1, <1>2, <1>3, <2>1, <2>2 DEF QuietFrames
<1>4. CASE DOMAIN clean_bronze' = {} /\ DOMAIN dq_results' = {} /\ pc' \in {"idle", "lookups"}
  BY <1>2, <1>4 DEF QuietFrames
<1>5. QED
  BY <1>2, <1>3, <1>4

LEMMA QuietDq ==
    ASSUME TypeInv, QuietFrames, QuietStores, RunDq, NoFault
    PROVE  QuietFrames' /\ QuietStores'
<1>1. /\ source \in Source /\ batch \in Batch /\ pc = "read" /\ pos \in DOMAIN Registry
      /\ UNCHANGED <<readable, rejected, silver, fk_lookups>> /\ fk_lookups
  BY Here DEF RunDq, TypeInv, ProcessType, stores, QuietFrames
<1>2. \A s, b : Refused(s, b)' = Refused(s, b) /\ Rejected(s, b)' = Rejected(s, b)
  BY <1>1 DEF Refused, Rejected
<1>3. QuietStores'
  BY <1>1, <1>2 DEF QuietStores, Whole
<1>4. CASE UNCHANGED <<clean_bronze, dq_results>> /\ NextSource("read", "report")
  <2>1. pc' \in {"read", "report"} /\ batch' = batch
    BY <1>1, <1>4, NextSourceMoves
  <2>2. QED
    BY <1>1, <1>2, <1>4, <2>1, QuietSame
<1>5. CASE /\ dq_results' = With(dq_results, source, Rejects(source))
           /\ clean_bronze' = With(clean_bronze, source, Clean(source))
           /\ IF Rejects(source) > 0 THEN GoTo("quarantine") ELSE NextSource("read", "report")
  <2>1. Rejects(source) = Refused(source, batch)
    BY <1>1 DEF Rejects, Refused
  <2>2. /\ batch' = batch /\ pc' \in {"read", "report", "quarantine"}
        /\ Rejects(source) > 0 => pc' = "quarantine" /\ source' = source
    BY <1>1, <1>5, NextSourceMoves DEF GoTo, source
  <2>3. /\ Clean(source).rows + Refused(source, batch) = RowsOf[source]
        /\ Clean(source).bad + Refused(source, batch) = BadRows[source]
    BY <1>1, <2>1, Amounts DEF Clean
  <2>4. ASSUME NEW s \in DOMAIN clean_bronze'
        PROVE  /\ clean_bronze'[s].rows + Refused(s, batch) = RowsOf[s]
               /\ clean_bronze'[s].bad + Refused(s, batch) = BadRows[s]
               /\ ~InQuarantine(s)' => Rejected(s, batch) = Refused(s, batch)
    <3>1. CASE s = source
      <4>1. clean_bronze'[s] = Clean(source)
        BY <1>5, <3>1 DEF With
      <4>2. ~InQuarantine(s)' => Rejects(source) = 0
        BY <1>1, <2>2, <3>1, Amounts, <2>1 DEF InQuarantine
      <4>3. QED
        BY <1>1, <2>1, <2>3, <3>1, <4>1, <4>2 DEF QuietStores
    <3>2. CASE s # source
      <4>1. s \in DOMAIN clean_bronze /\ clean_bronze'[s] = clean_bronze[s]
        BY <1>5, <3>2 DEF With
      <4>2. QED
        BY <1>1, <4>1 DEF QuietFrames, InQuarantine
    <3>3. QED
      BY <3>1, <3>2
  <2>5. \A s \in DOMAIN dq_results' : dq_results'[s] = Refused(s, batch)
    BY <1>5, <2>1 DEF With, QuietFrames
  <2>6. QED
    BY <1>1, <1>2, <1>3, <2>2, <2>4, <2>5 DEF QuietFrames
<1>6. CASE Fault
  BY <1>6 DEF Fault, NoFault, TypeInv, StoresType
<1>7. QED
  BY <1>4, <1>5, <1>6 DEF RunDq

LEMMA QuietQuarantine ==
    ASSUME TypeInv, QuietFrames, QuietStores, Quarantine, NoFault
    PROVE  QuietFrames' /\ QuietStores'
<1>1. /\ source \in Source /\ batch \in Batch /\ pc = "quarantine"
      /\ source \in DOMAIN dq_results /\ here = <<source, batch>>
      /\ UNCHANGED <<readable, silver, fk_lookups, dq_results>>
  BY Here DEF Quarantine, TypeInv, ProcessType, here
<1>2. /\ rejected' = [rejected EXCEPT ![here] = dq_results[source]]
      /\ UNCHANGED clean_bronze /\ pc' = "record_quarantine" /\ batch' = batch
  BY DEF Quarantine, GoTo, Fault, NoFault, TypeInv, StoresType
<1>3. dq_results[source] \in Nat /\ dq_results[source] \notin {NULL, Torn}
      /\ dq_results[source] = Refused(source, batch)
  BY <1>1, AuditAssumption, SilverAssumption DEF TypeInv, MemoryType, QuietFrames, Count
<1>4. \A s, b : Refused(s, b)' = Refused(s, b)
  BY <1>1 DEF Refused
<1>5. \A s \in Source, b \in Batch :
         Rejected(s, b)' = IF <<s, b>> = here THEN Refused(s, b) ELSE Rejected(s, b)
  BY <1>1, <1>2, <1>3 DEF Rejected, TypeInv, StoresType
<1>6. QuietStores'
  BY <1>1, <1>4, <1>5 DEF QuietStores, Whole
<1>7. QuietFrames'
  BY <1>1, <1>2, <1>4, <1>5 DEF QuietFrames, InQuarantine, TypeInv, MemoryType
<1>8. QED
  BY <1>6, <1>7

LEMMA QuietBuild ==
    ASSUME TypeInv, QuietFrames, QuietStores, BuildArtifact
    PROVE  QuietFrames' /\ QuietStores'
<1>1. /\ source \in Source /\ batch \in Batch /\ pc = "build" /\ pos \in DOMAIN Registry
      /\ here = <<source, batch>> /\ here \in Source \X Batch
      /\ UNCHANGED <<readable, rejected, clean_bronze, fk_lookups, dq_results>>
  BY Here DEF BuildArtifact, TypeInv, ProcessType, here
<1>2. pc' \in {"build", "finalise"} /\ batch' = batch
  BY <1>1, NextSourceMoves DEF BuildArtifact
<1>3. \A s, b : Refused(s, b)' = Refused(s, b) /\ Rejected(s, b)' = Rejected(s, b)
  BY <1>1 DEF Refused, Rejected
<1>4. CASE silver' = silver \/ silver' \in HalfWritten
  <2>1. \A s \in Source, b \in Batch :
           silver'[<<s, b>>] = silver[<<s, b>>] \/ silver'[<<s, b>>] \in {NULL, Torn}
    BY <1>1, <1>4, HalfWrittenIs
  <2>2. QED
    BY <1>1, <1>2, <1>3, <2>1, QuietSame
<1>5. CASE source \in DOMAIN clean_bronze /\ silver' = WithArtifact
  <2>1. clean_bronze[source] \in Frame
    BY <1>5 DEF TypeInv, MemoryType
  <2>2. /\ Artifact(source).rows = clean_bronze[source].rows + History[source]
        /\ Artifact(source).bad = clean_bronze[source].bad
    BY <2>1 DEF Artifact, Frame
  <2>3. /\ clean_bronze[source].rows \in Nat
        /\ clean_bronze[source].rows + Refused(source, batch) = RowsOf[source]
        /\ clean_bronze[source].bad + Refused(source, batch) = BadRows[source]
        /\ Rejected(source, batch) = Refused(source, batch)
    BY <1>1, <1>5, <2>1 DEF QuietFrames, InQuarantine, Frame
  <2>4. Artifact(source).rows + Refused(source, batch) = RowsOf[source] + History[source]
    BY <1>1, <2>2, <2>3, Amounts
  <2>5. \A s \in Source, b \in Batch :
           silver'[<<s, b>>] = IF <<s, b>> = here /\ Artifact(source).rows > 0
                               THEN Artifact(source) ELSE silver[<<s, b>>]
    BY <1>1, <1>5, WithArtifactIs
  <2>6. QuietStores'
    <3>1. ASSUME NEW s \in Source, NEW b \in Batch, silver'[<<s, b>>] \notin {NULL, Torn}
          PROVE  /\ silver'[<<s, b>>].rows + Refused(s, b) = RowsOf[s] + History[s]
                 /\ silver'[<<s, b>>].bad + Refused(s, b) = BadRows[s]
      <4>1. CASE <<s, b>> = here /\ Artifact(source).rows > 0
        BY <1>1, <2>2, <2>3, <2>4, <2>5, <4>1
      <4>2. CASE ~(<<s, b>> = here /\ Artifact(source).rows > 0)
        BY <2>5, <3>1, <4>2 DEF QuietStores, Whole
      <4>3. QED
        BY <4>1, <4>2
    <3>2. QED
      BY <1>3, <3>1 DEF QuietStores, Whole
  <2>7. QuietFrames'
    BY <1>1, <1>2, <1>3 DEF QuietFrames, InQuarantine
  <2>8. QED
    BY <2>6, <2>7
<1>6. QED
  BY <1>4, <1>5 DEF BuildArtifact, CanBuild

LEMMA QuietStep == ASSUME TypeInv, QuietInv, [Next]_vars PROVE QuietInv'
<1> SUFFICES ASSUME faults' = 0, QuietFrames, QuietStores PROVE QuietFrames' /\ QuietStores'
  BY FaultsGrow DEF QuietInv
<1>0. ~Fault /\ DOMAIN dq_results \subseteq DOMAIN clean_bronze
  BY DEF Fault, TypeInv, StoresType, MemoryType
<1>q. /\ rejected' = rejected => \A s, b : Rejected(s, b)' = Rejected(s, b)
      /\ \A s : \A b : rejected' = rejected => Rejected(s, b)' = Rejected(s, b)
  BY DEF Rejected
<1>1. ASSUME NEW b \in Batch, StartRun(b) PROVE QuietFrames' /\ QuietStores'
  <2>1. DOMAIN clean_bronze = {} /\ DOMAIN dq_results = {}
    BY <1>0, <1>1 DEF StartRun, QuietFrames
  <2>2. QED
    BY <1>1, <2>1, <1>q, QuietSame DEF StartRun, memory
<1>2. CASE BuildFkLookups
  <2>1. /\ fk_lookups' = TRUE /\ pc' = "read" /\ pc = "lookups" /\ batch' = batch
        /\ UNCHANGED <<readable, rejected, silver, clean_bronze, dq_results>>
    BY <1>0, <1>2 DEF BuildFkLookups, GoTo, stores
  <2>2. \A s, b : Refused(s, b)' = Refused(s, b) /\ Rejected(s, b)' = Rejected(s, b)
    BY <2>1 DEF Refused, Rejected
  <2>3. QED
    BY <2>1, <2>2 DEF QuietFrames, QuietStores, InQuarantine, Whole
<1>3. CASE RunDq
  BY <1>0, <1>3, QuietDq DEF RunDq
<1>4. CASE Quarantine
  BY <1>0, <1>4, QuietQuarantine DEF Quarantine
<1>5. CASE RecordQuarantine
  <2>1. pc' \in {"read", "report"} /\ batch' = batch
    BY <1>5, NextSourceMoves DEF RecordQuarantine, TypeInv, ProcessType
  <2>2. QED
    BY <1>5, <2>1, <1>q, QuietSame DEF RecordQuarantine, memory
<1>6. CASE WriteReport
  BY <1>6, <1>q, QuietSame DEF WriteReport, GoTo, memory
<1>7. CASE MarkTransforming
  <2>1. pc' \in {"transforming", "build"} /\ batch' = batch
    BY <1>7, NextSourceMoves DEF MarkTransforming, TypeInv, ProcessType
  <2>2. QED
    BY <1>7, <2>1, <1>q, QuietSame DEF MarkTransforming, memory
<1>8. CASE BuildArtifact
  BY <1>8, QuietBuild
<1>9. CASE FinaliseSource
  <2>1. pc' \in {"finalise", "verdict"} /\ batch' = batch
    BY <1>9, NextSourceMoves DEF FinaliseSource, TypeInv, ProcessType
  <2>2. QED
    BY <1>9, <2>1, <1>q, QuietSame DEF FinaliseSource, memory
<1>10. CASE Verdict
  BY <1>10, NoFrames, <1>q, QuietSame DEF Verdict, Exit
<1>11. CASE Crash
  <2>1. \A s \in Source, b \in Batch :
           /\ silver'[<<s, b>>] = silver[<<s, b>>] \/ silver'[<<s, b>>] \in {NULL, Torn}
           /\ Rejected(s, b)' = Rejected(s, b) \/ Rejected(s, b)' = 0
    BY <1>11, HalfWrittenIs, QuarantineShrinks DEF Crash, Exit
  <2>2. QED
    BY <1>11, <2>1, NoFrames, <1>q, QuietSame DEF Crash, Exit
<1>12. CASE UNCHANGED vars
  BY <1>12 DEF vars, stores, memory, QuietFrames, QuietStores, Refused, Rejected, InQuarantine, source, Whole
<1>13. QED
  BY <1>1, <1>2, <1>3, <1>4, <1>5, <1>6, <1>7, <1>8, <1>9, <1>10, <1>11, <1>12 DEF Next, RunStep

-----------------------------------------------------------------------------
(* First runs, whatever raises in them *)

(* Before its first run a batch has nothing.  In that run the sources are
   taken one by one, each once; the rows of the frame of a source and those
   of its quarantine partition (or, until it is written, those that it will
   have) are the rows of Bronze, and artifacts are only built after that.  *)
FirstFrames ==
    pc # "idle" /\ attempts[batch] = 1 =>
        /\ pc \in BeforeBuild => \A s \in Source : silver[<<s, batch>>] = NULL
        /\ pc = "lookups" => DOMAIN clean_bronze = {}
        /\ pc = "read" => \A i \in DOMAIN Registry : Registry[i] \in DOMAIN clean_bronze => i < pos
        /\ pc \in {"quarantine", "record_quarantine"} =>
              \A i \in DOMAIN Registry : Registry[i] \in DOMAIN clean_bronze => i <= pos
        /\ \A s \in Source : s \notin DOMAIN clean_bronze \/ InQuarantine(s) => Rejected(s, batch) = 0
        /\ \A s \in DOMAIN clean_bronze :
              clean_bronze[s].rows + (IF InQuarantine(s) THEN dq_results[s] ELSE Rejected(s, batch))
                  = RowsOf[s]

FirstStores ==
    \A s \in Source, b \in Batch :
        /\ attempts[b] = 0 => silver[<<s, b>>] = NULL /\ Rejected(s, b) = 0
        /\ attempts[b] = 1 /\ Whole(s, b) =>
              silver[<<s, b>>].rows + Rejected(s, b) = RowsOf[s] + History[s]

FirstInv ==
    /\ pc = "idle" => DOMAIN clean_bronze = {}
    /\ pc # "idle" => attempts[batch] > 0
    /\ FirstFrames
    /\ FirstStores

LEMMA InitFirst == Init => FirstInv
<1> SUFFICES ASSUME Init PROVE FirstInv
  OBVIOUS
<1>1. FirstStores
  BY DEF Init, FirstStores, Rejected
<1>2. QED
  BY <1>1, NoFrames DEF Init, FirstInv, FirstFrames

(* Steps of the run that leave the frames and the quarantine alone. *)
LEMMA FirstSame ==
    ASSUME TypeInv, FirstInv, UNCHANGED <<rejected, attempts, batch, clean_bronze>>,
           \A s \in Source, b \in Batch :
               \/ silver'[<<s, b>>] = silver[<<s, b>>]
               \/ b = batch /\ silver'[<<s, b>>] \in {NULL, Torn},
           pc \notin {"idle", "quarantine"},
           pc' \notin {"idle", "lookups", "quarantine", "record_quarantine"},
           pc' \in BeforeBuild => pc \in BeforeBuild /\ silver' = silver,
           pc' = "read" =>
               \/ pc = "read" /\ pos' = pos + 1
               \/ pc = "record_quarantine" /\ pos' = pos + 1
               \/ pc = "lookups"
    PROVE  FirstInv'
<1>1. \A s, b : Rejected(s, b)' = Rejected(s, b)
  BY DEF Rejected
<1>2. batch \in Batch /\ DOMAIN Registry \subseteq Nat /\ pos \in Nat
  BY Sources, Here DEF TypeInv, ProcessType
<1>3. FirstStores'
  <2>1. attempts[batch] # 0
    BY <1>2 DEF FirstInv, TypeInv, StoresType
  <2>2. QED
    BY <1>1, <2>1 DEF FirstInv, FirstStores, Whole
<1>4. ASSUME attempts[batch] = 1 PROVE FirstFrames'
  <2>1. pc' \in BeforeBuild => \A s \in Source : silver'[<<s, batch>>] = NULL
    BY <1>2, <1>4 DEF FirstInv, FirstFrames
  <2>2. pc' = "read" => \A i \in DOMAIN Registry : Registry[i] \in DOMAIN clean_bronze => i < pos'
    BY <1>2, <1>4 DEF FirstInv, FirstFrames
  <2>3. \A s \in Source : s \notin DOMAIN clean_bronze => Rejected(s, batch) = 0
    BY <1>4 DEF FirstInv, FirstFrames
  <2>4. \A s \in DOMAIN clean_bronze : clean_bronze[s].rows + Rejected(s, batch) = RowsOf[s]
    BY <1>4 DEF FirstInv, FirstFrames, InQuarantine
  <2>5. QED
    BY <1>1, <2>1, <2>2, <2>3, <2>4 DEF FirstFrames, InQuarantine
<1>5. attempts[batch] # 1 => FirstFrames'
  BY DEF FirstFrames
<1>6. QED
  BY <1>3, <1>4, <1>5 DEF FirstInv

LEMMA FirstExit ==
    ASSUME TypeInv, FirstInv, pc # "idle", Exit, UNCHANGED attempts,
           \A s \in Source, b \in Batch :
               /\ \/ silver'[<<s, b>>] = silver[<<s, b>>]
                  \/ b = batch /\ silver'[<<s, b>>] \in {NULL, Torn}
               /\ \/ Rejected(s, b)' = Rejected(s, b)
                  \/ b = batch /\ (attempts[b] = 1 => Rejected(s, b)' = Rejected(s, b))
    PROVE  FirstInv'
<1>1. attempts[batch] # 0
  BY Here DEF FirstInv, TypeInv, StoresType
<1>2. FirstStores'
  BY <1>1 DEF FirstInv, FirstStores, Whole
<1>3. QED
  BY <1>2, NoFrames DEF FirstInv, FirstFrames, Exit

LEMMA FirstStart ==
    ASSUME TypeInv, FirstInv, NEW b \in Batch, StartRun(b)
    PROVE  FirstInv'
<1>1. /\ pc = "idle" /\ pc' = "lookups" /\ batch' = b /\ clean_bronze' = clean_bronze
      /\ UNCHANGED <<rejected, silver>> /\ DOMAIN clean_bronze = {}
      /\ attempts' = [attempts EXCEPT ![b] = @ + 1]
  BY DEF StartRun, memory, FirstInv
<1>2. \A c \in Batch : attempts[c] \in Nat
                       /\ attempts'[c] = IF c = b THEN attempts[c] + 1 ELSE attempts[c]
  BY <1>1 DEF TypeInv, StoresType
<1>3. \A s, c : Rejected(s, c)' = Rejected(s, c)
  BY <1>1 DEF Rejected
<1>4. FirstStores'
  <2>1. ASSUME NEW s \in Source, NEW c \in Batch
        PROVE  /\ attempts'[c] = 0 => silver[<<s, c>>] = NULL /\ Rejected(s, c) = 0
               /\ attempts'[c] = 1 /\ Whole(s, c) =>
                     silver[<<s, c>>].rows + Rejected(s, c) = RowsOf[s] + History[s]
    <3>1. CASE c = b
      <4>1. attempts'[c] = attempts[c] + 1 /\ attempts[c] \in Nat
        BY <1>2, <3>1
      <4>2. attempts'[c] # 0 /\ (attempts'[c] = 1 => attempts[c] = 0)
        BY <4>1
      <4>3. QED
        BY <4>2 DEF FirstInv, FirstStores, Whole
    <3>2. CASE c # b
      BY <1>2, <3>2 DEF FirstInv, FirstStores
    <3>3. QED
      BY <3>1, <3>2
  <2>2. QED
    BY <1>1, <1>3, <2>1 DEF FirstStores, Whole
<1>5. attempts'[b] > 0 /\ (attempts'[b] = 1 => attempts[b] = 0)
  <2>1. attempts[b] \in Nat /\ attempts'[b] = attempts[b] + 1
    BY <1>2
  <2>2. QED
    BY <2>1
<1>6. ASSUME attempts'[b] = 1 PROVE \A s \in Source : silver[<<s, b>>] = NULL /\ Rejected(s, b) = 0
  BY <1>5, <1>6 DEF FirstInv, FirstStores
<1>7. FirstFrames'
  BY <1>1, <1>3, <1>6 DEF FirstFrames, InQuarantine, BeforeBuild, DqStep
<1>8. QED
  BY <1>1, <1>4, <1>5, <1>7 DEF FirstInv

(* DQ and the quarantine of the current source, which has had neither. *)
LEMMA FirstDq ==
    ASSUME TypeInv, FirstInv, RunDq
    PROVE  FirstInv'
<1>1. /\ source \in Source /\ batch \in Batch /\ pc = "read" /\ pos \in DOMAIN Registry
      /\ pos \in Nat /\ DOMAIN Registry \subseteq Nat
      /\ UNCHANGED <<rejected, silver, attempts>>
  BY Here, Sources DEF RunDq, TypeInv, ProcessType, stores
<1>2. \A s, b : Rejected(s, b)' = Rejected(s, b)
  BY <1>1 DEF Rejected
<1>3. FirstStores'
  BY <1>1, <1>2 DEF FirstInv, FirstStores, Whole
<1>4. \/ pc' = "quarantine" /\ pos' = pos
      \/ pc' = "read" /\ pos' = pos + 1
      \/ pc' = "report"
  BY <1>1, NextSourceMoves DEF RunDq, GoTo
<1>5. batch' = batch
  BY <1>1, NextSourceMoves DEF RunDq, GoTo
<1>6. CASE clean_bronze' = clean_bronze /\ pc' # "quarantine"
  BY <1>1, <1>4, <1>5, <1>6, FirstSame DEF BeforeBuild, DqStep
<1>7. ASSUME NEW frame \in Frame,
             clean_bronze' = With(clean_bronze, source, frame),
             pc' # "quarantine" => frame.rows = RowsOf[source],
             pc' = "quarantine" =>
                 dq_results'[source] \in Nat /\ dq_results'[source] + frame.rows = RowsOf[source]
      PROVE  FirstInv'
  <2>1. /\ DOMAIN clean_bronze' = DOMAIN clean_bronze \cup {source}
        /\ clean_bronze'[source] = frame
        /\ \A s \in DOMAIN clean_bronze : s # source => clean_bronze'[s] = clean_bronze[s]
    BY <1>7 DEF With
  <2>2. SUFFICES ASSUME attempts[batch] = 1 PROVE FirstFrames'
    BY <1>1, <1>3, <1>4, <1>5 DEF FirstInv, FirstFrames
  <2>3. /\ \A s \in Source : silver[<<s, batch>>] = NULL
        /\ \A i \in DOMAIN Registry : Registry[i] \in DOMAIN clean_bronze => i < pos
        /\ \A s \in Source : s \notin DOMAIN clean_bronze => Rejected(s, batch) = 0
        /\ \A s \in DOMAIN clean_bronze : clean_bronze[s].rows + Rejected(s, batch) = RowsOf[s]
    BY <1>1, <2>2 DEF FirstInv, FirstFrames, InQuarantine, BeforeBuild, DqStep
  <2>4. Rejected(source, batch) = 0
    BY <1>1, <2>3 DEF source
  <2>5. \A i \in DOMAIN Registry : Registry[i] \in DOMAIN clean_bronze' => i <= pos
    <3>1. \A i \in DOMAIN Registry : Registry[i] = source => i = pos
      BY <1>1, SilverAssumption DEF source
    <3>2. QED
      BY <1>1, <2>1, <2>3, <3>1
  <2>6. pc' = "read" => \A i \in DOMAIN Registry : Registry[i] \in DOMAIN clean_bronze' => i < pos'
    BY <1>1, <1>4, <2>5
  <2>7. pc' = "quarantine" => source' = source
    BY <1>4 DEF source
  <2>8. \A s \in Source : s \notin DOMAIN clean_bronze' \/ InQuarantine(s)' => Rejected(s, batch) = 0
    BY <2>1, <2>3, <2>4, <2>7 DEF InQuarantine
  <2>9. ASSUME NEW s \in DOMAIN clean_bronze'
        PROVE  clean_bronze'[s].rows + (IF InQuarantine(s)' THEN dq_results'[s] ELSE Rejected(s, batch))
                  = RowsOf[s]
    <3>1. CASE s = source
      <4>1. InQuarantine(s)' <=> pc' = "quarantine"
        BY <2>7, <3>1 DEF InQuarantine
      <4>2. clean_bronze'[s].rows = frame.rows /\ frame.rows \in Nat
        BY <2>1, <3>1 DEF Frame
      <4>3. CASE pc' = "quarantine"
        <5>1. dq_results'[s] + frame.rows = RowsOf[s] /\ dq_results'[s] \in Nat
          BY <1>7, <3>1, <4>3
        <5>2. QED
          BY <4>1, <4>2, <4>3, <5>1
      <4>4. CASE pc' # "quarantine"
        BY <1>7, <2>4, <3>1, <4>1, <4>2, <4>4
      <4>5. QED
        BY <4>3, <4>4
    <3>2. CASE s # source
      <4>1. ~InQuarantine(s)' /\ s \in DOMAIN clean_bronze
        BY <2>1, <2>7, <3>2 DEF InQuarantine
      <4>2. QED
        BY <2>1, <2>3, <3>2, <4>1
    <3>3. QED
      BY <3>1, <3>2
  <2>10. QED
    BY <1>1, <1>2, <1>4, <1>5, <2>3, <2>5, <2>6, <2>8, <2>9 DEF FirstFrames
<1>8. /\ RowsOf[source] \in Nat /\ Rejects(source) \in Nat
      /\ Raw(source) \in Frame /\ Clean(source) \in Frame
      /\ Raw(source).rows = RowsOf[source] /\ Clean(source).rows = RowsOf[source] - Rejects(source)
  BY <1>1, Frames, Amounts DEF Raw, Clean
<1>9. CASE /\ dq_results' = With(dq_results, source, Rejects(source))
           /\ clean_bronze' = With(clean_bronze, source, Clean(source))
           /\ IF Rejects(source) > 0 THEN GoTo("quarantine") ELSE NextSource("read", "report")
  <2>1. pc' # "quarantine" => Clean(source).rows = RowsOf[source]
    BY <1>8, <1>9 DEF GoTo
  <2>2. dq_results'[source] = Rejects(source)
    BY <1>9 DEF With
  <2>3. dq_results'[source] + Clean(source).rows = RowsOf[source]
    BY <1>8, <2>2
  <2>4. QED
    BY <1>7, <1>8, <1>9, <2>1, <2>2, <2>3
<1>10. CASE /\ clean_bronze' = With(clean_bronze, source, Raw(source))
            /\ UNCHANGED dq_results /\ NextSource("read", "report")
  <2>1. pc' # "quarantine"
    BY <1>1, <1>10, NextSourceMoves
  <2>2. QED
    BY <1>7, <1>8, <1>10, <2>1
<1>11. CASE UNCHANGED <<clean_bronze, dq_results>> /\ NextSource("read", "report")
  BY <1>1, <1>6, <1>11, NextSourceMoves
<1>12. QED
  BY <1>9, <1>10, <1>11 DEF RunDq

LEMMA FirstQuarantine ==
    ASSUME TypeInv, FirstInv, Quarantine
    PROVE  FirstInv'
<1>1. /\ source \in Source /\ batch \in Batch /\ pc = "quarantine" /\ pos \in DOMAIN Registry
      /\ pos \in Nat /\ DOMAIN Registry \subseteq Nat /\ here = <<source, batch>>
      /\ source \in DOMAIN clean_bronze /\ dq_results[source] \in Nat
      /\ UNCHANGED <<silver, attempts>>
  BY Here, Sources DEF Quarantine, TypeInv, ProcessType, MemoryType, here
<1>2. \/ pc' = "record_quarantine" /\ pos' = pos
      \/ pc' = "read" /\ pos' = pos + 1
      \/ pc' = "report"
  BY <1>1, NextSourceMoves DEF Quarantine, GoTo
<1>3. batch' = batch
  BY <1>1, NextSourceMoves DEF Quarantine, GoTo
<1>4. \A s \in Source, b \in Batch : <<s, b>> # here => Rejected(s, b)' = Rejected(s, b)
  BY QuarantineElsewhere DEF Rejected
<1>5. ASSUME attempts[batch] = 1
      PROVE  /\ \A s \in Source : silver[<<s, batch>>] = NULL
             /\ \A i \in DOMAIN Registry : Registry[i] \in DOMAIN clean_bronze => i <= pos
             /\ \A s \in Source : s \notin DOMAIN clean_bronze => Rejected(s, batch) = 0
             /\ Rejected(source, batch) = 0
             /\ clean_bronze[source].rows + dq_results[source] = RowsOf[source]
             /\ \A s \in DOMAIN clean_bronze : s # source =>
                   clean_bronze[s].rows + Rejected(s, batch) = RowsOf[s]
  BY <1>1, <1>5 DEF FirstInv, FirstFrames, InQuarantine, BeforeBuild, DqStep
<1>6. FirstStores'
  <2>1. \A s \in Source : attempts[batch] > 0 /\ (attempts[batch] = 1 => silver[<<s, batch>>] = NULL)
    BY <1>1, <1>5 DEF FirstInv
  <2>2. attempts[batch] # 0
    BY <1>1, <2>1 DEF TypeInv, StoresType
  <2>3. QED
    BY <1>1, <1>4, <2>1, <2>2 DEF FirstInv, FirstStores, Whole
<1>7. ASSUME attempts[batch] = 1,
             DOMAIN clean_bronze' = DOMAIN clean_bronze,
             \A s \in DOMAIN clean_bronze : s # source => clean_bronze'[s] = clean_bronze[s],
             \A s \in Source : s = source => clean_bronze'[s].rows + Rejected(s, batch)' = RowsOf[s]
      PROVE  FirstFrames'
  <2>1. \A s \in Source : ~InQuarantine(s)'
    BY <1>2 DEF InQuarantine
  <2>2. \A s \in Source : s # source => Rejected(s, batch)' = Rejected(s, batch)
    BY <1>1, <1>3, <1>4
  <2>3. \A s \in DOMAIN clean_bronze' : clean_bronze'[s].rows + Rejected(s, batch)' = RowsOf[s]
    BY <1>5, <1>7, <2>2 DEF TypeInv, MemoryType
  <2>4. \A s \in Source : s \notin DOMAIN clean_bronze' => Rejected(s, batch)' = 0
    BY <1>1, <1>5, <1>7, <2>2
  <2>5. pc' = "read" => \A i \in DOMAIN Registry : Registry[i] \in DOMAIN clean_bronze' => i < pos'
    BY <1>1, <1>2, <1>5, <1>7
  <2>6. pc' \in {"quarantine", "record_quarantine"} =>
            \A i \in DOMAIN Registry : Registry[i] \in DOMAIN clean_bronze' => i <= pos'
    BY <1>1, <1>2, <1>5, <1>7
  <2>7. DOMAIN clean_bronze' \subseteq Source
    BY <1>7 DEF TypeInv, MemoryType
  <2>8. QED
    BY <1>1, <1>2, <1>3, <1>5, <1>7, <2>1, <2>3, <2>4, <2>5, <2>6, <2>7 DEF FirstFrames
<1>8. ASSUME attempts[batch] = 1 PROVE FirstFrames'
  <2>1. CASE rejected' = [rejected EXCEPT ![here] = dq_results[source]] /\ UNCHANGED clean_bronze
    <3>1. dq_results[source] \notin {NULL, Torn}
      BY <1>1, AuditAssumption, SilverAssumption DEF Count
    <3>2. rejected'[here] = dq_results[source]
      BY <1>1, <2>1, Here DEF TypeInv, StoresType
    <3>3. \A s \in Source : s = source => Rejected(s, batch)' = dq_results[s]
      BY <1>1, <1>3, <3>1, <3>2 DEF Rejected
    <3>4. QED
      BY <1>5, <1>7, <1>8, <2>1, <3>3
  <2>2. CASE clean_bronze' = With(clean_bronze, source, Raw(source)) /\ pc' # "record_quarantine"
    <3>1. /\ DOMAIN clean_bronze' = DOMAIN clean_bronze /\ clean_bronze'[source] = Raw(source)
          /\ \A s \in DOMAIN clean_bronze : s # source => clean_bronze'[s] = clean_bronze[s]
      BY <1>1, <2>2 DEF With
    <3>2. \A s \in Source : s = source => Rejected(s, batch)' = 0
      <4>1. \A s \in Source : Rejected(s, batch)' = Rejected(s, batch) \/ Rejected(s, batch)' = 0
        BY <1>1, <1>3, <2>2, QuarantineShrinks DEF Next, RunStep
      <4>2. QED
        BY <1>5, <1>8, <4>1
    <3>3. Raw(source).rows + 0 = RowsOf[source]
      BY <1>1, Amounts DEF Raw
    <3>4. QED
      BY <1>7, <1>8, <3>1, <3>2, <3>3
  <2>3. QED
    BY <1>1, <2>1, <2>2, NextSourceMoves DEF Quarantine
<1>9. attempts[batch] # 1 => FirstFrames'
  BY <1>1, <1>3 DEF FirstFrames
<1>10. QED
  BY <1>1, <1>2, <1>3, <1>6, <1>8, <1>9 DEF FirstInv

LEMMA FirstBuild ==
    ASSUME TypeInv, FirstInv, BuildArtifact
    PROVE  FirstInv'
<1>1. /\ source \in Source /\ batch \in Batch /\ pc = "build" /\ pos \in DOMAIN Registry
      /\ here = <<source, batch>> /\ here \in Source \X Batch
      /\ UNCHANGED <<rejected, clean_bronze, attempts>>
  BY Here DEF BuildArtifact, TypeInv, ProcessType, here
<1>2. pc' \in {"build", "finalise"} /\ batch' = batch
  BY <1>1, NextSourceMoves DEF BuildArtifact
<1>3. CASE silver' = silver \/ silver' \in HalfWritten
  <2>1. \A s \in Source, b \in Batch :
           \/ silver'[<<s, b>>] = silver[<<s, b>>]
           \/ b = batch /\ silver'[<<s, b>>] \in {NULL, Torn}
    BY <1>1, <1>3, HalfWrittenIs
  <2>2. QED
    BY <1>1, <1>2, <2>1, FirstSame DEF BeforeBuild, DqStep
<1>4. CASE source \in DOMAIN clean_bronze /\ silver' = WithArtifact
  <2>1. \A s, b : Rejected(s, b)' = Rejected(s, b)
    BY <1>1 DEF Rejected
  <2>2. \A s \in Source, b \in Batch :
           silver'[<<s, b>>] = IF <<s, b>> = here /\ Artifact(source).rows > 0
                               THEN Artifact(source) ELSE silver[<<s, b>>]
    BY <1>1, <1>4, WithArtifactIs
  <2>3. attempts[batch] = 1 => Artifact(source).rows + Rejected(source, batch) = RowsOf[source] + History[source]
    <3>1. clean_bronze[source] \in Frame
      BY <1>4 DEF TypeInv, MemoryType
    <3>2. /\ Artifact(source).rows = clean_bronze[source].rows + History[source]
          /\ clean_bronze[source].rows \in Nat
      BY <3>1 DEF Artifact, Frame
    <3>3. attempts[batch] = 1 => clean_bronze[source].rows + Rejected(source, batch) = RowsOf[source]
      BY <1>1, <1>4 DEF FirstInv, FirstFrames, InQuarantine
    <3>4. QED
      BY <1>1, <3>2, <3>3, Amounts
  <2>4. attempts[batch] # 0
    BY <1>1 DEF FirstInv, TypeInv, StoresType
  <2>5. FirstStores'
    <3>1. ASSUME NEW s \in Source, NEW b \in Batch
          PROVE  /\ attempts[b] = 0 => silver'[<<s, b>>] = NULL /\ Rejected(s, b) = 0
                 /\ attempts[b] = 1 /\ silver'[<<s, b>>] \notin {NULL, Torn} =>
                       silver'[<<s, b>>].rows + Rejected(s, b) = RowsOf[s] + History[s]
      <4>1. CASE <<s, b>> = here /\ Artifact(source).rows > 0
        BY <1>1, <2>2, <2>3, <2>4, <4>1
      <4>2. CASE ~(<<s, b>> = here /\ Artifact(source).rows > 0)
        BY <2>2, <4>2 DEF FirstInv, FirstStores, Whole
      <4>3. QED
        BY <4>1, <4>2
    <3>2. QED
      BY <1>1, <2>1, <3>1 DEF FirstStores, Whole
  <2>6. FirstFrames'
    BY <1>1, <1>2, <2>1 DEF FirstInv, FirstFrames, InQuarantine, BeforeBuild, DqStep
  <2>7. QED
    BY <1>1, <1>2, <2>5, <2>6 DEF FirstInv
<1>5. QED
  BY <1>3, <1>4 DEF BuildArtifact, CanBuild

LEMMA FirstStep == ASSUME TypeInv, FirstInv, [Next]_vars PROVE FirstInv'
<1> USE DEF BeforeBuild, DqStep
<1>1. ASSUME NEW b \in Batch, StartRun(b) PROVE FirstInv'
  BY <1>1, FirstStart
<1>2. CASE BuildFkLookups
  BY <1>2, FirstSame DEF BuildFkLookups, GoTo, stores
<1>3. CASE RunDq
  BY <1>3, FirstDq
<1>4. CASE Quarantine
  BY <1>4, FirstQuarantine
<1>5. CASE RecordQuarantine
  <2>1. ((pc' = "read" /\ pos' = pos + 1) \/ pc' = "report") /\ batch' = batch
    BY <1>5, NextSourceMoves DEF RecordQuarantine, TypeInv, ProcessType
  <2>2. QED
    BY <1>5, <2>1, FirstSame DEF RecordQuarantine, memory
<1>6. CASE WriteReport
  BY <1>6, FirstSame DEF WriteReport, GoTo, memory
<1>7. CASE MarkTransforming
  <2>1. pc' \in {"transforming", "build"} /\ batch' = batch
    BY <1>7, NextSourceMoves DEF MarkTransforming, TypeInv, ProcessType
  <2>2. QED
    BY <1>7, <2>1, FirstSame DEF MarkTransforming, memory, bounds
<1>8. CASE BuildArtifact
  BY <1>8, FirstBuild
<1>9. CASE FinaliseSource
  <2>1. pc' \in {"finalise", "verdict"} /\ batch' = batch
    BY <1>9, NextSourceMoves DEF FinaliseSource, TypeInv, ProcessType
  <2>2. QED
    BY <1>9, <2>1, FirstSame DEF FinaliseSource, memory
<1>10. CASE Verdict
  <2>1. \A s, b : Rejected(s, b)' = Rejected(s, b)
    BY <1>10 DEF Verdict, Rejected
  <2>2. QED
    BY <1>10, <2>1, FirstExit DEF Verdict, bounds
<1>11. CASE Crash
  <2>1. pc # "idle" /\ Exit /\ UNCHANGED attempts /\ here = <<source, batch>>
    BY <1>11 DEF Crash, here
  <2>2. ASSUME NEW s \in Source, NEW b \in Batch
        PROVE  /\ \/ silver'[<<s, b>>] = silver[<<s, b>>]
                  \/ b = batch /\ silver'[<<s, b>>] \in {NULL, Torn}
               /\ \/ Rejected(s, b)' = Rejected(s, b)
                  \/ b = batch /\ (attempts[b] = 1 => Rejected(s, b)' = Rejected(s, b))
    <3>1. \/ silver'[<<s, b>>] = silver[<<s, b>>]
          \/ b = batch /\ silver'[<<s, b>>] \in {NULL, Torn}
      BY <1>11, <2>1, HalfWrittenIs DEF Crash
    <3>2. \/ Rejected(s, b)' = Rejected(s, b)
          \/ Rejected(s, b)' = 0 /\ pc = "quarantine" /\ <<s, b>> = here
      BY <1>11, <2>1, QuarantineShrinks DEF Exit
    <3>3. pc = "quarantine" /\ <<s, b>> = here /\ attempts[b] = 1 => Rejected(s, b) = 0
      BY <2>1 DEF FirstInv, FirstFrames, InQuarantine
    <3>4. QED
      BY <2>1, <3>1, <3>2, <3>3
  <2>3. QED
    BY <2>1, <2>2, FirstExit
<1>12. CASE UNCHANGED vars
  BY <1>12 DEF vars, stores, memory, bounds, FirstInv, FirstFrames, FirstStores, Rejected,
               InQuarantine, source, Whole
<1>13. QED
  BY <1>1, <1>2, <1>3, <1>4, <1>5, <1>6, <1>7, <1>8, <1>9, <1>10, <1>11, <1>12 DEF Next, RunStep

-----------------------------------------------------------------------------
(* The audit table *)

AuditInv ==
    /\ DOMAIN file_audit \subseteq Key
    /\ \A k \in DOMAIN file_audit : file_audit[k] \in Row

LEMMA InitAudit == Init => AuditInv
<1> SUFFICES ASSUME Init PROVE AuditInv
  OBVIOUS
<1>1. PICK landed \in SUBSET (Batch \X Source), absent \in SUBSET (Batch \X Source) :
         file_audit = [k \in {KeyOf(p[1], p[2]) : p \in (Batch \X Source) \ absent} |->
                          IF <<k[1], SourceOf[k[2]]>> \in landed THEN LandedRow(SourceOf[k[2]])
                          ELSE FailedRow]
  BY DEF Init
<1>2. \A p \in Batch \X Source : KeyOf(p[1], p[2]) \in Key /\ SourceOf[KeyOf(p[1], p[2])[2]] \in Source
  BY SilverAssumption DEF KeyOf, Key
<1>3. \A c \in Checksum : NewRow(c, 0) \in Row
  BY DEF NewRow, Row, FileStatus, Count
<1>4. PICK c \in Checksum : c = CHOOSE d \in Checksum : TRUE
  BY SilverAssumption
<1>5. FailedRow \in Row
  BY <1>3, <1>4, RowEdits DEF FailedRow, FileStatus
<1>6. ASSUME NEW s \in Source PROVE LandedRow(s) \in Row
  <2>1. RowsOf[s] \in Count
    BY SilverAssumption DEF Count
  <2>2. QED
    BY <1>3, <1>4, <2>1, RowEdits DEF LandedRow, FileStatus
<1>7. DOMAIN file_audit = {KeyOf(p[1], p[2]) : p \in (Batch \X Source) \ absent}
  BY <1>1
<1>8. DOMAIN file_audit \subseteq Key
  BY <1>2, <1>7
<1>9. ASSUME NEW k \in DOMAIN file_audit PROVE file_audit[k] \in Row
  <2>1. SourceOf[k[2]] \in Source
    BY <1>2, <1>7
  <2>2. file_audit[k] = LandedRow(SourceOf[k[2]]) \/ file_audit[k] = FailedRow
    BY <1>1, <1>7
  <2>3. QED
    BY <1>5, <1>6, <2>1, <2>2
<1>10. QED
  BY <1>8, <1>9 DEF AuditInv

LEMMA AuditStep == ASSUME TypeInv, ResultsInv, AuditInv, [Next]_vars PROVE AuditInv'
<1>1. CASE RecordQuarantine
  <2>1. dq_results[source] \in Count
    BY <1>1 DEF RecordQuarantine, TypeInv, ProcessType, MemoryType, Count
  <2>2. QED
    BY <1>1, <2>1, SilverWriters DEF RecordQuarantine, AuditInv
<1>2. CASE MarkTransforming
  <2>1. NULL \in Count
    BY DEF Count
  <2>2. QED
    BY <1>2, <2>1, SilverWriters DEF MarkTransforming, AuditInv
<1>3. CASE FinaliseSource
  <2>1. source \in Source /\ batch \in Batch /\ here = <<source, batch>> /\ NULL \in Count
        /\ DOMAIN results = Source
    BY <1>3, Here DEF FinaliseSource, ResultsInv, here, Count
  <2>2. results[source] = "written" => Artifact(source).rows \in Count
    BY <1>3, <2>1, ArtifactType DEF FinaliseSource, ResultsInv, TypeInv, MemoryType, Frame, Count
  <2>3. CASE file_audit' = [k \in DOMAIN file_audit |->
                               IF k \in FilesOf(file_audit, batch, source)
                               THEN WithFailed(file_audit, k)[k] ELSE file_audit[k]]
    BY <2>1, <2>3, SilverWriters DEF AuditInv
  <2>4. CASE file_audit' = file_audit
    BY <2>4 DEF AuditInv
  <2>5. CASE /\ results[source] = "written"
             /\ file_audit' = WithTransformed(file_audit, FilesOf(file_audit, batch, source),
                                              Artifact(source).rows)
    BY <2>2, <2>5, SilverWriters DEF AuditInv
  <2>6. QED
    BY <1>3, <2>3, <2>4, <2>5 DEF FinaliseSource
<1>4. CASE file_audit' = file_audit
  BY <1>4 DEF AuditInv
<1>5. QED
  BY <1>1, <1>2, <1>3, <1>4
     DEF Next, RunStep, StartRun, BuildFkLookups, RunDq, Quarantine, WriteReport,
         BuildArtifact, Verdict, Crash, vars, stores

-----------------------------------------------------------------------------
(* The file of a source *)

(* Every row is the one of a source in a batch; its Bronze counts are those
   of the data when it landed, and it has no other way to be failed.       *)
FilesInv ==
    /\ \A k \in DOMAIN file_audit : \E b \in Batch, s \in Source : k = KeyOf(b, s)
    /\ \A s \in Source, b \in Batch : ReconcilesOn(s, b) =>
          /\ AuditRow(s, b).status \in {"ingested", "transforming", "transformed", "failed"}
          /\ AuditRow(s, b).source_rows = AuditRow(s, b).bronze_rows
          /\ AuditRow(s, b).bronze_rows = RowsOf[s]
             \/ (AuditRow(s, b).bronze_rows = NULL /\ AuditRow(s, b).status = "failed")

LEMMA KeysApart ==
    ASSUME NEW s \in Source, NEW t \in Source, NEW b, NEW c
    PROVE  KeyOf(b, s) = KeyOf(c, t) <=> b = c /\ s = t
BY SilverAssumption DEF KeyOf

LEMMA OneFile ==
    ASSUME FilesInv, NEW s \in Source, NEW b \in Batch
    PROVE  FilesOf(file_audit, b, s) = {KeyOf(b, s)} \cap DOMAIN file_audit
<1>1. ASSUME NEW k \in DOMAIN file_audit
      PROVE  k[1] = b /\ SourceOf[k[2]] = s <=> k = KeyOf(b, s)
  <2>1. PICK c \in Batch, t \in Source : k = KeyOf(c, t)
    BY <1>1 DEF FilesInv
  <2>2. k[1] = c /\ SourceOf[k[2]] = t
    BY <2>1, SilverAssumption DEF KeyOf
  <2>3. QED
    BY <2>1, <2>2, KeysApart
<1>2. QED
  BY <1>1 DEF FilesOf

LEMMA RowColumns ==
    ASSUME AuditInv, NEW s \in Source, NEW b \in Batch, ReconcilesOn(s, b)
    PROVE  AuditRow(s, b) \in Row
BY DEF AuditInv, ReconcilesOn, AuditRow

(* What the audit calls of a run do to the rows: they touch the row of the
   current source alone, and only when its status allows.                  *)
LEMMA RecordsOne ==
    ASSUME TypeInv, FilesInv, RecordQuarantine,
           NEW s \in Source, NEW b \in Batch, ReconcilesOn(s, b)
    PROVE  \/ <<s, b>> = here
              /\ AuditRow(s, b)' = [AuditRow(s, b) EXCEPT !.rejected_rows = dq_results[source]]
           \/ AuditRow(s, b)' = AuditRow(s, b)
<1>1. source \in Source /\ batch \in Batch /\ here = <<source, batch>>
  BY Here DEF RecordQuarantine, here
<1>2. KeyOf(b, s) \in FilesOf(file_audit, batch, source) <=> <<s, b>> = here
  BY <1>1, OneFile, KeysApart DEF ReconcilesOn
<1>3. QED
  BY <1>2 DEF RecordQuarantine, WithRejected, ReconcilesOn, AuditRow

LEMMA MarksOne ==
    ASSUME TypeInv, FilesInv, MarkTransforming,
           NEW s \in Source, NEW b \in Batch, ReconcilesOn(s, b)
    PROVE  AuditRow(s, b)' = IF <<s, b>> = here /\ AuditRow(s, b).status = "ingested"
                             THEN [AuditRow(s, b) EXCEPT !.status = "transforming"]
                             ELSE AuditRow(s, b)
<1>1. source \in Source /\ batch \in Batch /\ here = <<source, batch>>
  BY Here DEF MarkTransforming, here
<1>2. KeyOf(b, s) \in FilesOf(file_audit, batch, source) <=> <<s, b>> = here
  BY <1>1, OneFile, KeysApart DEF ReconcilesOn
<1>3. <<s, b>> = here =>
         (CanAdvance(file_audit, FilesOf(file_audit, batch, source), "transforming")
             <=> AuditRow(s, b).status = "ingested")
  <2>1. <<s, b>> = here => FilesOf(file_audit, batch, source) = {KeyOf(b, s)}
    BY <1>1, OneFile DEF ReconcilesOn
  <2>2. QED
    BY <2>1 DEF CanAdvance, LegalTransitions, ReconcilesOn, AuditRow
<1>4. QED
  BY <1>2, <1>3 DEF MarkTransforming, WithTransforming, ReconcilesOn, AuditRow

LEMMA FinalisesOne ==
    ASSUME TypeInv, FilesInv, FinaliseSource,
           NEW s \in Source, NEW b \in Batch, ReconcilesOn(s, b)
    PROVE  \/ <<s, b>> # here /\ AuditRow(s, b)' = AuditRow(s, b)
           \/ <<s, b>> = here /\ results[source] = "failed"
              /\ AuditRow(s, b)' = [AuditRow(s, b) EXCEPT !.status = "failed"]
           \/ <<s, b>> = here /\ results[source] = "written" /\ AuditRow(s, b).status = "transforming"
              /\ AuditRow(s, b)' = [AuditRow(s, b) EXCEPT !.status = "transformed",
                                                          !.silver_rows = Artifact(source).rows]
           \/ /\ <<s, b>> = here /\ AuditRow(s, b)' = AuditRow(s, b)
              /\ \/ results[source] = "written" /\ AuditRow(s, b).status # "transforming"
                 \/ Fault
<1>1. source \in Source /\ batch \in Batch /\ here = <<source, batch>>
  BY Here DEF FinaliseSource, here
<1>2. KeyOf(b, s) \in FilesOf(file_audit, batch, source) <=> <<s, b>> = here
  BY <1>1, OneFile, KeysApart DEF ReconcilesOn
<1>3. <<s, b>> = here =>
         (CanAdvance(file_audit, FilesOf(file_audit, batch, source), "transformed")
             <=> AuditRow(s, b).status = "transforming")
  <2>1. <<s, b>> = here => FilesOf(file_audit, batch, source) = {KeyOf(b, s)}
    BY <1>1, OneFile DEF ReconcilesOn
  <2>2. QED
    BY <2>1 DEF CanAdvance, LegalTransitions, ReconcilesOn, AuditRow
<1>4. CASE /\ results[source] = "failed"
           /\ file_audit' = [k \in DOMAIN file_audit |->
                               IF k \in FilesOf(file_audit, batch, source)
                               THEN WithFailed(file_audit, k)[k] ELSE file_audit[k]]
  BY <1>2, <1>4 DEF WithFailed, ReconcilesOn, AuditRow
<1>5. CASE /\ results[source] = "written"
           /\ file_audit' = IF CanAdvance(file_audit, FilesOf(file_audit, batch, source), "transformed")
                            THEN WithTransformed(file_audit, FilesOf(file_audit, batch, source),
                                                 Artifact(source).rows)
                            ELSE file_audit
  BY <1>2, <1>3, <1>5 DEF WithTransformed, ReconcilesOn, AuditRow
<1>6. CASE Fault /\ UNCHANGED file_audit
  BY <1>6 DEF AuditRow, KeyOf
<1>7. QED
  BY <1>4, <1>5, <1>6 DEF FinaliseSource

LEMMA FilesStay ==
    ASSUME [Next]_vars
    PROVE  /\ DOMAIN file_audit' = DOMAIN file_audit
           /\ ~RecordQuarantine /\ ~MarkTransforming /\ ~FinaliseSource => file_audit' = file_audit
           /\ readable' = readable
<1>1. ~RecordQuarantine /\ ~MarkTransforming /\ ~FinaliseSource => file_audit' = file_audit
  BY DEF Next, RunStep, StartRun, BuildFkLookups, RunDq, Quarantine, WriteReport,
         BuildArtifact, Verdict, Crash, vars, stores
<1>2. RecordQuarantine \/ MarkTransforming \/ FinaliseSource => DOMAIN file_audit' = DOMAIN file_audit
  BY DEF RecordQuarantine, MarkTransforming, FinaliseSource, WithRejected, WithTransforming,
         WithTransformed
<1>3. readable' = readable
  BY DEF Next, RunStep, StartRun, BuildFkLookups, RunDq, Quarantine, WriteReport, RecordQuarantine,
         MarkTransforming, FinaliseSource, BuildArtifact, Verdict, Crash, vars, stores
<1>4. QED
  BY <1>1, <1>2, <1>3

LEMMA InitFiles == Init => FilesInv
<1> SUFFICES ASSUME Init PROVE FilesInv
  OBVIOUS
<1>1. PICK landed \in SUBSET (Batch \X Source), absent \in SUBSET (Batch \X Source) :
         file_audit = [k \in {KeyOf(p[1], p[2]) : p \in (Batch \X Source) \ absent} |->
                          IF <<k[1], SourceOf[k[2]]>> \in landed THEN LandedRow(SourceOf[k[2]])
                          ELSE FailedRow]
  BY DEF Init
<1>2. \A k \in DOMAIN file_audit : \E b \in Batch, s \in Source : k = KeyOf(b, s)
  <2>1. DOMAIN file_audit = {KeyOf(p[1], p[2]) : p \in (Batch \X Source) \ absent}
    BY <1>1
  <2>2. ASSUME NEW k \in DOMAIN file_audit PROVE \E b \in Batch, s \in Source : k = KeyOf(b, s)
    <3>1. PICK p \in Batch \X Source : k = KeyOf(p[1], p[2])
      BY <2>1
    <3>2. p[1] \in Batch /\ p[2] \in Source
      OBVIOUS
    <3>3. QED
      BY <3>1, <3>2
  <2>3. QED
    BY <2>2
<1>3. ASSUME NEW s \in Source, NEW b \in Batch, ReconcilesOn(s, b)
      PROVE  AuditRow(s, b) = LandedRow(s) \/ AuditRow(s, b) = FailedRow
  <2>1. SourceOf[KeyOf(b, s)[2]] = s
    BY SilverAssumption DEF KeyOf
  <2>2. QED
    BY <1>1, <1>3, <2>1 DEF ReconcilesOn, AuditRow
<1>4. \A s \in Source :
         /\ LandedRow(s).status = "ingested" /\ LandedRow(s).source_rows = RowsOf[s]
         /\ LandedRow(s).bronze_rows = RowsOf[s]
  BY DEF LandedRow, NewRow
<1>5. FailedRow.status = "failed" /\ FailedRow.source_rows = NULL /\ FailedRow.bronze_rows = NULL
  BY DEF FailedRow, NewRow
<1>6. ASSUME NEW s \in Source, NEW b \in Batch, ReconcilesOn(s, b)
      PROVE  /\ AuditRow(s, b).status = "ingested" \/ AuditRow(s, b).status = "failed"
             /\ AuditRow(s, b).source_rows = AuditRow(s, b).bronze_rows
             /\ AuditRow(s, b).bronze_rows = RowsOf[s]
                \/ (AuditRow(s, b).bronze_rows = NULL /\ AuditRow(s, b).status = "failed")
  <2>1. CASE AuditRow(s, b) = LandedRow(s)
    BY <1>4, <2>1
  <2>2. CASE AuditRow(s, b) = FailedRow
    BY <1>5, <2>2
  <2>3. QED
    BY <1>3, <1>6, <2>1, <2>2
<1>7. QED
  BY <1>2, <1>6 DEF FilesInv

LEMMA FilesStep == ASSUME TypeInv, AuditInv, FilesInv, [Next]_vars PROVE FilesInv'
<1>1. DOMAIN file_audit' = DOMAIN file_audit
  BY FilesStay
<1>2. \A b, s : KeyOf(b, s)' = KeyOf(b, s) /\ ReconcilesOn(s, b)' = ReconcilesOn(s, b)
  BY <1>1 DEF ReconcilesOn, KeyOf
<1>3. ASSUME NEW s \in Source, NEW b \in Batch, ReconcilesOn(s, b)
      PROVE  /\ AuditRow(s, b)'.status \in {"ingested", "transforming", "transformed", "failed"}
             /\ AuditRow(s, b)'.source_rows = AuditRow(s, b)'.bronze_rows
             /\ AuditRow(s, b)'.bronze_rows = RowsOf[s]
                \/ (AuditRow(s, b)'.bronze_rows = NULL /\ AuditRow(s, b)'.status = "failed")
  <2>1. AuditRow(s, b) \in Row
    BY <1>3, RowColumns
  <2>2. /\ AuditRow(s, b).status \in {"ingested", "transforming", "transformed", "failed"}
        /\ AuditRow(s, b).source_rows = AuditRow(s, b).bronze_rows
        /\ AuditRow(s, b).bronze_rows = RowsOf[s]
           \/ (AuditRow(s, b).bronze_rows = NULL /\ AuditRow(s, b).status = "failed")
    BY <1>3 DEF FilesInv
  <2>3. CASE RecordQuarantine
    BY <1>3, <2>1, <2>2, <2>3, RecordsOne DEF Row
  <2>4. CASE MarkTransforming
    BY <1>3, <2>1, <2>2, <2>4, MarksOne DEF Row
  <2>5. CASE FinaliseSource
    <3>1. \/ AuditRow(s, b)' = AuditRow(s, b)
          \/ AuditRow(s, b)' = [AuditRow(s, b) EXCEPT !.status = "failed"]
          \/ /\ AuditRow(s, b).status = "transforming"
             /\ AuditRow(s, b)' = [AuditRow(s, b) EXCEPT !.status = "transformed",
                                                         !.silver_rows = Artifact(source).rows]
      BY <1>3, <2>5, FinalisesOne
    <3>2. CASE AuditRow(s, b)' = AuditRow(s, b)
      BY <2>2, <3>2
    <3>3. CASE AuditRow(s, b)' = [AuditRow(s, b) EXCEPT !.status = "failed"]
      BY <2>1, <2>2, <3>3 DEF Row
    <3>4. CASE /\ AuditRow(s, b).status = "transforming"
               /\ AuditRow(s, b)' = [AuditRow(s, b) EXCEPT !.status = "transformed",
                                                           !.silver_rows = Artifact(source).rows]
      <4>1. /\ AuditRow(s, b)'.status = "transformed"
            /\ AuditRow(s, b)'.source_rows = AuditRow(s, b).source_rows
            /\ AuditRow(s, b)'.bronze_rows = AuditRow(s, b).bronze_rows
        BY <2>1, <3>4 DEF Row
      <4>2. AuditRow(s, b).bronze_rows = RowsOf[s]
        BY <2>2, <3>4
      <4>3. QED
        BY <2>2, <4>1, <4>2
    <3>5. QED
      BY <3>1, <3>2, <3>3, <3>4
  <2>6. CASE file_audit' = file_audit
    BY <2>2, <2>6 DEF AuditRow
  <2>7. QED
    BY <2>3, <2>4, <2>5, <2>6, FilesStay
<1>4. QED
  BY <1>1, <1>2, <1>3 DEF FilesInv

-----------------------------------------------------------------------------
(* The amounts that DQ reports and the quarantine holds *)

AmountInv ==
    /\ pc \in {"lookups", "report"} => pos = 1
    /\ pc = "idle" => DOMAIN dq_results = {} /\ built = {}
    /\ pc \in BeforeBuild => built = {}
    /\ \A s \in DOMAIN dq_results : dq_results[s] <= BadRows[s]
    /\ DOMAIN dq_results # {} => dq_results \in [DOMAIN dq_results -> Nat]
    /\ pc = "record_quarantine" => Rejected(source, batch) = dq_results[source]
    /\ \A s \in Source, b \in Batch : Rejected(s, b) <= BadRows[s]

LEMMA InitAmount == Init => AmountInv
<1> SUFFICES ASSUME Init PROVE AmountInv
  OBVIOUS
<1>1. \A s \in Source, b \in Batch : Rejected(s, b) = 0 /\ BadRows[s] \in Nat
  BY SilverAssumption DEF Init, Rejected
<1>2. QED
  BY <1>1, NoFrames DEF Init, AmountInv, BeforeBuild, DqStep

LEMMA AmountStep == ASSUME TypeInv, AmountInv, [Next]_vars PROVE AmountInv'
<1> USE DEF BeforeBuild, DqStep
<1>1. CASE RunDq
  <2>1. /\ source \in Source /\ pc = "read" /\ pos \in DOMAIN Registry
        /\ UNCHANGED <<rejected, built>>
    BY <1>1, Here DEF RunDq, TypeInv, ProcessType, stores
  <2>2. pc' \in {"read", "report", "quarantine"} /\ (pc' = "report" => pos' = 1)
    BY <1>1, <2>1, NextSourceMoves DEF RunDq, GoTo
  <2>3. \A s, b : Rejected(s, b)' = Rejected(s, b)
    BY <2>1 DEF Rejected
  <2>4. dq_results' = dq_results \/ dq_results' = With(dq_results, source, Rejects(source))
    BY <1>1 DEF RunDq
  <2>5. /\ \A s \in DOMAIN dq_results' : dq_results'[s] <= BadRows[s]
        /\ DOMAIN dq_results' # {} => dq_results' \in [DOMAIN dq_results' -> Nat]
    <3>1. Rejects(source) \in Nat /\ Rejects(source) <= BadRows[source]
      BY <2>1, Frames
    <3>2. QED
      BY <2>4, <3>1 DEF With, AmountInv, TypeInv, MemoryType
  <2>6. QED
    BY <2>1, <2>2, <2>3, <2>5 DEF AmountInv
<1>2. CASE Quarantine
  <2>1. /\ source \in Source /\ batch \in Batch /\ here = <<source, batch>>
        /\ pc = "quarantine" /\ source \in DOMAIN dq_results /\ dq_results[source] \in Nat
        /\ dq_results[source] <= BadRows[source] /\ pos \in DOMAIN Registry
        /\ UNCHANGED <<dq_results, built>>
    BY <1>2, Here DEF Quarantine, TypeInv, ProcessType, MemoryType, AmountInv, here
  <2>2. \/ pc' = "record_quarantine" /\ UNCHANGED <<pos, batch>>
           /\ rejected' = [rejected EXCEPT ![here] = dq_results[source]]
        \/ pc' \in {"read", "report"} /\ (pc' = "report" => pos' = 1)
    BY <1>2, <2>1, NextSourceMoves DEF Quarantine, GoTo
  <2>3. CASE /\ pc' = "record_quarantine" /\ UNCHANGED <<pos, batch>>
             /\ rejected' = [rejected EXCEPT ![here] = dq_results[source]]
    <3>0. dq_results[source] \notin {NULL, Torn}
      BY <2>1, AuditAssumption, SilverAssumption DEF Count
    <3>1. \A s \in Source, b \in Batch :
             Rejected(s, b)' = IF <<s, b>> = here THEN dq_results[source] ELSE Rejected(s, b)
      BY <2>1, <2>3, <3>0 DEF Rejected, TypeInv, StoresType
    <3>2. source' = source
      BY <2>3 DEF source
    <3>3. QED
      BY <2>1, <2>3, <3>1, <3>2 DEF AmountInv
  <2>4. CASE pc' \in {"read", "report"} /\ (pc' = "report" => pos' = 1)
    <3>1. ASSUME NEW s \in Source, NEW b \in Batch PROVE Rejected(s, b)' <= BadRows[s]
      <4>1. Rejected(s, b)' = Rejected(s, b) \/ Rejected(s, b)' = 0
        BY <1>2, <2>4, QuarantineShrinks
      <4>2. QED
        BY <4>1, Amounts DEF AmountInv
    <3>2. QED
      BY <2>1, <2>4, <3>1 DEF AmountInv
  <2>5. QED
    BY <2>2, <2>3, <2>4
<1>3. ASSUME UNCHANGED <<rejected, dq_results>>, pc' # "record_quarantine",
             pc' \in {"lookups", "report"} => pos' = 1,
             pc' # "idle", pc' \in BeforeBuild => built' = {}
      PROVE  AmountInv'
  BY <1>3 DEF AmountInv, Rejected
<1>4. ASSUME NEW b \in Batch, StartRun(b) PROVE AmountInv'
  BY <1>3, <1>4 DEF StartRun, memory, AmountInv
<1>5. CASE BuildFkLookups
  BY <1>3, <1>5 DEF BuildFkLookups, GoTo, stores, AmountInv
<1>6. CASE RecordQuarantine
  <2>1. pc' \in {"read", "report"} /\ (pc' = "report" => pos' = 1)
    BY <1>6, NextSourceMoves DEF RecordQuarantine, TypeInv, ProcessType
  <2>2. QED
    BY <1>3, <1>6, <2>1 DEF RecordQuarantine, memory, AmountInv
<1>7. CASE WriteReport
  BY <1>3, <1>7 DEF WriteReport, GoTo, memory, AmountInv
<1>8. CASE MarkTransforming
  <2>1. pc' \in {"transforming", "build"}
    BY <1>8, NextSourceMoves DEF MarkTransforming, TypeInv, ProcessType
  <2>2. QED
    BY <1>3, <1>8, <2>1 DEF MarkTransforming, memory, AmountInv
<1>9. CASE BuildArtifact
  <2>1. pc' \in {"build", "finalise"}
    BY <1>9, NextSourceMoves DEF BuildArtifact, TypeInv, ProcessType
  <2>2. QED
    BY <1>3, <1>9, <2>1 DEF BuildArtifact
<1>10. CASE FinaliseSource
  <2>1. pc' \in {"finalise", "verdict"}
    BY <1>10, NextSourceMoves DEF FinaliseSource, TypeInv, ProcessType
  <2>2. QED
    BY <1>3, <1>10, <2>1 DEF FinaliseSource, memory
<1>11. CASE Verdict \/ Crash
  <2>1. Exit
    BY <1>11 DEF Verdict, Crash
  <2>2. ASSUME NEW s \in Source, NEW b \in Batch PROVE Rejected(s, b)' <= BadRows[s]
    <3>1. Rejected(s, b)' = Rejected(s, b) \/ Rejected(s, b)' = 0
      BY <2>1, QuarantineShrinks DEF Exit
    <3>2. QED
      BY <3>1, Amounts DEF AmountInv
  <2>3. QED
    BY <2>1, <2>2, NoFrames DEF Exit, AmountInv
<1>12. CASE UNCHANGED vars
  BY <1>12 DEF vars, stores, memory, AmountInv, Rejected, source
<1>13. QED
  BY <1>1, <1>2, <1>4, <1>5, <1>6, <1>7, <1>8, <1>9, <1>10, <1>11, <1>12 DEF Next, RunStep

-----------------------------------------------------------------------------
(* What a run in which nothing raises reads and builds *)

Until(i) == {Registry[j] : j \in 1 .. i}

(* With the frames of D built, the builder that comes i-th succeeds. *)
Allows(i, b, D) ==
    readable[<<Registry[i], b>>] /\ Needs[Registry[i]] \subseteq D \cap Until(i - 1)

(* In every set that holds what can be built from it: what a quiet run of the
   batch builds, said without the run.                                     *)
Buildable(s, b) ==
    \A D \in SUBSET Source :
        (\A i \in DOMAIN Registry : Allows(i, b, D) => Registry[i] \in D) => s \in D

Passed == IF pc = "read" THEN pos - 1 ELSE pos

QuietRead ==
    /\ \A s \in DOMAIN clean_bronze : readable[<<s, batch>>]
    /\ pc \in {"read", "quarantine", "record_quarantine"} =>
          \A s \in Until(Passed) : readable[<<s, batch>>] => s \in DOMAIN dq_results
    /\ pc \in {"report", "transforming", "build", "finalise", "verdict"} =>
          \A s \in Source : readable[<<s, batch>>] => s \in DOMAIN dq_results

(* A dimension that a run was killed in the middle of writing. *)
TornDim == \E s \in Versioned, b \in Batch : silver[<<s, b>>] = Torn

(* Every builder that can succeed has. *)
QuietBuilt ==
    /\ built = {s \in DOMAIN results : results[s] = "written"}
    /\ \A s \in built : Buildable(s, batch)
    /\ ~TornDim => \A i \in DOMAIN Registry :
          Registry[i] \in DOMAIN results /\ results[Registry[i]] = "failed" => ~Allows(i, batch, built)

(* No run reads it any more, and none writes it. *)
LEMMA TornStays ==
    ASSUME TypeInv, [Next]_vars, TornDim
    PROVE  TornDim'
<1>1. PICK s \in Versioned, b \in Batch : silver[<<s, b>>] = Torn
  BY DEF TornDim
<1>2. s \in Source
  BY <1>1, SilverAssumption
<1>3. CASE silver' = silver
  BY <1>3 DEF TornDim
<1>4. CASE pc # "idle" /\ CanBuild /\ (silver' = WithArtifact \/ silver' \in HalfWritten)
  <2>1. <<s, b>> # here
    BY <1>1, <1>4 DEF CanBuild, here
  <2>2. silver'[<<s, b>>] = silver[<<s, b>>]
    BY <1>2, <1>4, <2>1, WithArtifactIs, HalfWrittenIs DEF CanBuild
  <2>3. QED
    BY <1>1, <2>2 DEF TornDim
<1>5. CASE BuildArtifact
  BY <1>3, <1>4, <1>5 DEF BuildArtifact
<1>6. CASE Crash
  BY <1>3, <1>4, <1>6 DEF Crash
<1>7. QED
  BY <1>3, <1>5, <1>6
     DEF Next, RunStep, StartRun, BuildFkLookups, RunDq, Quarantine, RecordQuarantine, WriteReport,
         MarkTransforming, FinaliseSource, Verdict, vars, stores

LEMMA UntilGrows ==
    /\ Until(0) = {}
    /\ \A i \in DOMAIN Registry : Until(i) = Until(i - 1) \cup {Registry[i]}
    /\ Until(Len(Registry)) = Source
<1>1. Until(0) = {}
  BY DEF Until
<1>2. ASSUME NEW i \in DOMAIN Registry PROVE Until(i) = Until(i - 1) \cup {Registry[i]}
  <2>1. i \in Nat /\ i >= 1
    BY Sources
  <2>2. 1 .. i = (1 .. i - 1) \cup {i}
    BY <2>1
  <2>3. QED
    BY <2>2 DEF Until
<1>3. Until(Len(Registry)) = Source
  BY Sources DEF Until
<1>4. QED
  BY <1>1, <1>2, <1>3

(* The sources of the registry are distinct. *)
LEMMA UntilMembers ==
    ASSUME NEW i \in DOMAIN Registry, NEW n \in Int, n <= Len(Registry)
    PROVE  Registry[i] \in Until(n) => i <= n
<1> SUFFICES ASSUME Registry[i] \in Until(n) PROVE i <= n
  OBVIOUS
<1>1. PICK j \in 1 .. n : Registry[i] = Registry[j]
  BY DEF Until
<1>2. j \in DOMAIN Registry
  BY Sources
<1>3. i = j
  BY <1>1, <1>2, SilverAssumption
<1>4. QED
  BY <1>3

LEMMA BuildableStays ==
    ASSUME readable' = readable
    PROVE  /\ \A s, b : Buildable(s, b)' <=> Buildable(s, b)
           /\ \A i, b, D : Allows(i, b, D)' <=> Allows(i, b, D)
           /\ \A s, b : Refused(s, b)' = Refused(s, b)
<1>1. \A i, b, D : Allows(i, b, D)' <=> Allows(i, b, D)
  BY DEF Allows, Until
<1>2. \A s, b : Buildable(s, b)' <=> Buildable(s, b)
  BY <1>1 DEF Buildable
<1>3. QED
  BY <1>1, <1>2 DEF Refused

LEMMA ReadSame ==
    ASSUME TypeInv, QuietRead, UNCHANGED <<readable, clean_bronze, dq_results, batch>>,
           \/ pc = "quarantine" /\ pc' = "record_quarantine" /\ pos' = pos
           \/ pc = "record_quarantine" /\ NextSource("read", "report")
           \/ /\ pc \in {"report", "transforming", "build", "finalise", "verdict"}
              /\ pc' \in {"transforming", "build", "finalise", "verdict"}
    PROVE  QuietRead'
<1>1. CASE pc = "quarantine" /\ pc' = "record_quarantine" /\ pos' = pos
  BY <1>1 DEF QuietRead, Passed, Until
<1>2. CASE pc = "record_quarantine" /\ NextSource("read", "report")
  <2>1. pos \in Nat /\ pos \in DOMAIN Registry
    BY <1>2, Sources DEF TypeInv, ProcessType
  <2>2. \/ pc' = "read" /\ pos' = pos + 1
        \/ pc' = "report" /\ pos = Len(Registry)
    BY <1>2, <2>1, NextSourceMoves
  <2>3. \A s \in Until(pos) : readable[<<s, batch>>] => s \in DOMAIN dq_results
    BY <1>2 DEF QuietRead, Passed
  <2>4. pc' = "read" => Passed' = pos
    BY <2>1, <2>2 DEF Passed
  <2>5. QED
    BY <2>2, <2>3, <2>4, UntilGrows DEF QuietRead, Until
<1>3. CASE /\ pc \in {"report", "transforming", "build", "finalise", "verdict"}
           /\ pc' \in {"transforming", "build", "finalise", "verdict"}
  BY <1>3 DEF QuietRead
<1>4. QED
  BY <1>1, <1>2, <1>3

LEMMA ReadDq ==
    ASSUME TypeInv, QuietRead, RunDq, NoFault, readable' = readable
    PROVE  QuietRead'
<1>1. /\ source \in Source /\ pc = "read" /\ pos \in DOMAIN Registry /\ pos \in Nat
      /\ here = <<source, batch>> /\ source = Registry[pos]
  BY Here, Sources DEF RunDq, TypeInv, ProcessType, here, source
<1>2. \/ pc' = "quarantine" /\ pos' = pos
      \/ pc' = "read" /\ pos' = pos + 1
      \/ pc' = "report" /\ pos = Len(Registry)
  BY <1>1, NextSourceMoves DEF RunDq, GoTo
<1>3. batch' = batch
  BY <1>1, NextSourceMoves DEF RunDq, GoTo
<1>4. /\ DOMAIN clean_bronze \subseteq DOMAIN clean_bronze'
      /\ \A s \in DOMAIN clean_bronze' : s \in DOMAIN clean_bronze \/ s = source
      /\ source \in DOMAIN clean_bronze' => readable[here] \/ source \in DOMAIN clean_bronze
      /\ DOMAIN dq_results \subseteq DOMAIN dq_results'
      /\ readable[here] => source \in DOMAIN dq_results'
  BY DEF RunDq, With, Fault, NoFault, TypeInv, StoresType
<1>5. \A s \in Until(pos) : readable[<<s, batch>>] => s \in DOMAIN dq_results'
  <2>1. Until(pos) = Until(pos - 1) \cup {source}
    BY <1>1, UntilGrows
  <2>2. \A s \in Until(pos - 1) : readable[<<s, batch>>] => s \in DOMAIN dq_results
    BY <1>1 DEF QuietRead, Passed
  <2>3. QED
    BY <1>1, <1>4, <2>1, <2>2
<1>6. \A s \in DOMAIN clean_bronze' : readable[<<s, batch>>]
  BY <1>1, <1>4 DEF QuietRead
<1>7. pc' \in {"read", "quarantine"} => Passed' = pos
  BY <1>1, <1>2 DEF Passed
<1>8. QED
  BY <1>2, <1>3, <1>5, <1>6, <1>7, UntilGrows DEF QuietRead, Until

LEMMA QuietReadStep ==
    ASSUME TypeInv, AmountInv, QuietFrames, QuietRead, [Next]_vars, faults' = 0
    PROVE  QuietRead'
<1>0. ~Fault /\ readable' = readable /\ DOMAIN dq_results \subseteq DOMAIN clean_bronze
  BY FilesStay DEF Fault, TypeInv, StoresType, MemoryType
<1>1. ASSUME NEW b \in Batch, StartRun(b) PROVE QuietRead'
  <2>1. DOMAIN clean_bronze' = {} /\ pc' = "lookups"
    BY <1>1 DEF StartRun, memory, QuietFrames
  <2>2. QED
    BY <2>1 DEF QuietRead
<1>2. CASE BuildFkLookups
  <2>1. pc' = "read" /\ pos' = 1 /\ batch' = batch /\ UNCHANGED clean_bronze
    BY <1>2 DEF BuildFkLookups, GoTo, AmountInv
  <2>2. Until(Passed)' = {}
    BY <2>1, UntilGrows DEF Passed, Until
  <2>3. QED
    BY <1>0, <2>1, <2>2 DEF QuietRead
<1>3. CASE RunDq
  BY <1>0, <1>3, ReadDq DEF RunDq
<1>4. CASE Quarantine
  BY <1>0, <1>4, ReadSame DEF Quarantine, GoTo
<1>5. CASE RecordQuarantine
  BY <1>0, <1>5, ReadSame DEF RecordQuarantine, memory, NextSource
<1>6. CASE WriteReport
  BY <1>0, <1>6, ReadSame DEF WriteReport, GoTo, memory
<1>7. CASE MarkTransforming
  <2>1. pc' \in {"transforming", "build"} /\ batch' = batch
    BY <1>7, NextSourceMoves DEF MarkTransforming, TypeInv, ProcessType
  <2>2. QED
    BY <1>0, <1>7, <2>1, ReadSame DEF MarkTransforming, memory
<1>8. CASE BuildArtifact
  <2>1. pc' \in {"build", "finalise"} /\ batch' = batch
    BY <1>8, NextSourceMoves DEF BuildArtifact, TypeInv, ProcessType
  <2>2. QED
    BY <1>0, <1>8, <2>1, ReadSame DEF BuildArtifact
<1>9. CASE FinaliseSource
  <2>1. pc' \in {"finalise", "verdict"} /\ batch' = batch
    BY <1>9, NextSourceMoves DEF FinaliseSource, TypeInv, ProcessType
  <2>2. QED
    BY <1>0, <1>9, <2>1, ReadSame DEF FinaliseSource, memory
<1>10. CASE Verdict \/ Crash
  BY <1>10, NoFrames DEF Verdict, Crash, Exit, QuietRead
<1>11. CASE UNCHANGED vars
  BY <1>11 DEF vars, stores, memory, QuietRead, Passed, Until
<1>12. QED
  BY <1>1, <1>2, <1>3, <1>4, <1>5, <1>6, <1>7, <1>8, <1>9, <1>10, <1>11 DEF Next, RunStep

LEMMA BuiltBuild ==
    ASSUME TypeInv, ResultsInv, QuietRead, QuietBuilt, BuildArtifact, NoFault, readable' = readable
    PROVE  QuietBuilt'
<1>0. TornDim => TornDim'
  BY TornStays DEF Next, RunStep
<1>1. /\ source \in Source /\ pc = "build" /\ pos \in DOMAIN Registry /\ pos \in Nat
      /\ source = Registry[pos] /\ batch' = batch
  BY Here, Sources, NextSourceMoves DEF BuildArtifact, TypeInv, ProcessType, source
<1>2. /\ DOMAIN results = Until(pos - 1)
      /\ source \notin DOMAIN results
  <2>1. DOMAIN results = Until(pos - 1)
    BY <1>1 DEF ResultsInv, Until
  <2>2. pos - 1 \in Int /\ pos - 1 <= Len(Registry) /\ ~(pos <= pos - 1)
    BY <1>1, Sources
  <2>3. QED
    BY <1>1, <2>1, <2>2, UntilMembers
<1>3. built \subseteq Until(pos - 1)
  BY <1>2 DEF QuietBuilt
<1>4. \A i \in DOMAIN Registry : i <= pos => Until(i - 1) \subseteq Until(pos - 1)
  BY <1>1, Sources DEF Until
<1>5. \A i \in DOMAIN Registry : Registry[i] \in DOMAIN results \/ Registry[i] = source => i <= pos
  <2>1. Until(pos) = Until(pos - 1) \cup {source} /\ pos \in Int /\ pos <= Len(Registry)
    BY <1>1, UntilGrows, Sources
  <2>2. QED
    BY <1>2, <2>1, UntilMembers
<1>6. CASE /\ source \in DOMAIN clean_bronze /\ Needs[source] \subseteq built
           /\ built' = built \cup {source} /\ results' = With(results, source, "written")
  <2>1. DOMAIN results' = DOMAIN results \cup {source} /\ results'[source] = "written"
        /\ \A s \in DOMAIN results : results'[s] = results[s]
    BY <1>2, <1>6 DEF With
  <2>2. built' = {s \in DOMAIN results' : results'[s] = "written"}
    BY <1>6, <2>1 DEF QuietBuilt
  <2>3. Buildable(source, batch)
    <3>1. SUFFICES ASSUME NEW D \in SUBSET Source,
                          \A i \in DOMAIN Registry : Allows(i, batch, D) => Registry[i] \in D
                   PROVE  source \in D
      BY DEF Buildable
    <3>2. built \subseteq D
      BY <3>1 DEF QuietBuilt, Buildable
    <3>3. readable[<<source, batch>>]
      BY <1>6 DEF QuietRead
    <3>4. Needs[source] \subseteq D \cap Until(pos - 1)
      BY <1>3, <1>6, <3>2
    <3>5. Allows(pos, batch, D)
      BY <1>1, <3>3, <3>4 DEF Allows
    <3>6. QED
      BY <1>1, <3>1, <3>5
  <2>4. ASSUME ~TornDim, NEW i \in DOMAIN Registry,
               Registry[i] \in DOMAIN results', results'[Registry[i]] = "failed"
        PROVE  ~Allows(i, batch, built')
    <3>1. Registry[i] \in DOMAIN results /\ results[Registry[i]] = "failed" /\ i <= pos
      BY <1>5, <2>1, <2>4
    <3>2. source \notin Until(i - 1)
      BY <1>2, <1>4, <3>1
    <3>3. built' \cap Until(i - 1) = built \cap Until(i - 1)
      BY <1>6, <3>2
    <3>4. QED
      BY <2>4, <3>1, <3>3 DEF QuietBuilt, Allows
  <2>5. QED
    BY <1>0, <1>1, <1>6, <2>2, <2>3, <2>4, BuildableStays DEF QuietBuilt
<1>7. CASE /\ ~CanBuild
           /\ built' = built /\ results' = With(results, source, "failed")
  <2>1. DOMAIN results' = DOMAIN results \cup {source} /\ results'[source] = "failed"
        /\ \A s \in DOMAIN results : results'[s] = results[s]
    BY <1>2, <1>7 DEF With
  <2>2. built' = {s \in DOMAIN results' : results'[s] = "written"}
    BY <1>7, <2>1 DEF QuietBuilt
  <2>3. ~TornDim => ~Allows(pos, batch, built)
    <3>1. source \notin DOMAIN clean_bronze => ~readable[<<source, batch>>]
      BY <1>1 DEF QuietRead, TypeInv, MemoryType
    <3>2. ~TornDim => ~(source \in DOMAIN clean_bronze /\ Needs[source] \subseteq built)
      BY <1>7 DEF CanBuild, TornDim
    <3>3. QED
      BY <1>1, <3>1, <3>2 DEF Allows
  <2>4. ASSUME ~TornDim, NEW i \in DOMAIN Registry, Registry[i] \in DOMAIN results', results'[Registry[i]] = "failed"
        PROVE  ~Allows(i, batch, built)
    <3>1. CASE Registry[i] = source
      <4>1. i = pos
        BY <1>1, <3>1, SilverAssumption
      <4>2. QED
        BY <2>3, <2>4, <4>1
    <3>2. CASE Registry[i] # source
      BY <2>1, <2>4, <3>2 DEF QuietBuilt
    <3>3. QED
      BY <3>1, <3>2
  <2>5. QED
    BY <1>0, <1>1, <1>7, <2>2, <2>4, BuildableStays DEF QuietBuilt
<1>8. QED
  BY <1>6, <1>7 DEF BuildArtifact, CanBuild, Fault, NoFault, TypeInv, StoresType

LEMMA QuietBuiltStep ==
    ASSUME TypeInv, ResultsInv, AmountInv, QuietRead, QuietBuilt, [Next]_vars, faults' = 0
    PROVE  QuietBuilt'
<1>0. ~Fault /\ readable' = readable /\ (TornDim => TornDim')
  BY FilesStay, TornStays DEF Fault, TypeInv, StoresType
<1>1. CASE BuildArtifact
  BY <1>0, <1>1, BuiltBuild DEF BuildArtifact
<1>2. CASE UNCHANGED <<results, built, batch>>
  BY <1>0, <1>2, BuildableStays DEF QuietBuilt
<1>3. CASE DOMAIN results' = {} /\ built' = {}
  BY <1>3 DEF QuietBuilt
<1>4. ASSUME NEW b \in Batch, StartRun(b) PROVE QuietBuilt'
  BY <1>3, <1>4 DEF StartRun, memory, ResultsInv, AmountInv
<1>5. CASE BuildFkLookups \/ RunDq \/ Quarantine \/ RecordQuarantine \/ WriteReport
           \/ MarkTransforming \/ FinaliseSource
  BY <1>2, <1>5 DEF BuildFkLookups, RunDq, Quarantine, RecordQuarantine, WriteReport,
        MarkTransforming, FinaliseSource, GoTo, NextSource, memory
<1>6. CASE Verdict \/ Crash
  BY <1>3, <1>6, NoFrames DEF Verdict, Crash, Exit
<1>7. CASE UNCHANGED vars
  BY <1>2, <1>7 DEF vars, memory
<1>8. QED
  BY <1>1, <1>4, <1>5, <1>6, <1>7 DEF Next, RunStep

(* In the end the frames that were not built are those that cannot be. *)
LEMMA BuiltIsAll ==
    ASSUME TypeInv, ResultsInv, QuietBuilt, pc \in {"finalise", "verdict"},
           NEW s \in Source
    PROVE  /\ results[s] = "written" => Buildable(s, batch)
           /\ ~TornDim /\ Buildable(s, batch) => results[s] = "written"
<1>1. DOMAIN results = Source
  BY DEF ResultsInv
<1>2. ~TornDim => \A i \in DOMAIN Registry : Allows(i, batch, built) => Registry[i] \in built
  BY <1>1, Sources DEF QuietBuilt, ResultsInv
<1>3. built \in SUBSET Source
  BY <1>1 DEF QuietBuilt
<1>4. QED
  BY <1>1, <1>2, <1>3 DEF QuietBuilt, Buildable

-----------------------------------------------------------------------------
(* The audit rows of batches in whose runs nothing raised *)

QuietRow(s, b) ==
    /\ \/ AuditRow(s, b).rejected_rows = NULL
       \/ AuditRow(s, b).rejected_rows = Refused(s, b)
    /\ \/ AuditRow(s, b).silver_rows = NULL
       \/ AuditRow(s, b).silver_rows + Refused(s, b) = RowsOf[s] + History[s]
    /\ AuditRow(s, b).status = "transformed" =>
          AuditRow(s, b).silver_rows # NULL /\ Buildable(s, b)
    /\ AuditRow(s, b).status = "failed" /\ AuditRow(s, b).bronze_rows # NULL =>
          ~Buildable(s, b) \/ TornDim

QuietRows == \A s \in Source, b \in Batch : ReconcilesOn(s, b) => QuietRow(s, b)

LEMMA QuietRowsInit == Init => QuietRows
<1> SUFFICES ASSUME Init, NEW s \in Source, NEW b \in Batch, ReconcilesOn(s, b)
             PROVE  QuietRow(s, b)
  BY DEF QuietRows
<1>1. PICK landed \in SUBSET (Batch \X Source), absent \in SUBSET (Batch \X Source) :
         file_audit = [k \in {KeyOf(p[1], p[2]) : p \in (Batch \X Source) \ absent} |->
                          IF <<k[1], SourceOf[k[2]]>> \in landed THEN LandedRow(SourceOf[k[2]])
                          ELSE FailedRow]
  BY DEF Init
<1>2. SourceOf[KeyOf(b, s)[2]] = s
  BY SilverAssumption DEF KeyOf
<1>3. AuditRow(s, b) = LandedRow(s) \/ AuditRow(s, b) = FailedRow
  BY <1>1, <1>2 DEF ReconcilesOn, AuditRow
<1>4. /\ LandedRow(s).status = "ingested"
      /\ LandedRow(s).rejected_rows = NULL /\ LandedRow(s).silver_rows = NULL
  BY DEF LandedRow, NewRow
<1>5. /\ FailedRow.status = "failed" /\ FailedRow.bronze_rows = NULL
      /\ FailedRow.rejected_rows = NULL /\ FailedRow.silver_rows = NULL
  BY DEF FailedRow, NewRow
<1>6. CASE AuditRow(s, b) = LandedRow(s)
  BY <1>4, <1>6 DEF QuietRow
<1>7. CASE AuditRow(s, b) = FailedRow
  BY <1>5, <1>7 DEF QuietRow
<1>8. QED
  BY <1>3, <1>6, <1>7

(* Before Silver has run for a batch its rows have no count of Silver's. *)
LEMMA QuietRowsStep ==
    ASSUME TypeInv, ResultsInv, AuditInv, FilesInv, QuietFrames, QuietStores, QuietBuilt, QuietRows,
           [Next]_vars, faults' = 0
    PROVE  QuietRows'
<1> SUFFICES ASSUME NEW s \in Source, NEW b \in Batch, ReconcilesOn(s, b)'
             PROVE  QuietRow(s, b)'
  BY DEF QuietRows
<1>1. readable' = readable /\ ReconcilesOn(s, b)
  BY FilesStay DEF ReconcilesOn, KeyOf
<1>2. QuietRow(s, b) /\ AuditRow(s, b) \in Row
  BY <1>1, RowColumns DEF QuietRows
<1>3. /\ Buildable(s, b)' <=> Buildable(s, b)
      /\ Refused(s, b)' = Refused(s, b)
      /\ TornDim => TornDim'
  BY <1>1, BuildableStays, TornStays
<1>4. CASE AuditRow(s, b)' = AuditRow(s, b)
  BY <1>2, <1>3, <1>4 DEF QuietRow
<1>5. CASE RecordQuarantine
  <2>1. CASE /\ <<s, b>> = here
             /\ AuditRow(s, b)' = [AuditRow(s, b) EXCEPT !.rejected_rows = dq_results[source]]
    <3>1. dq_results[source] = Refused(s, b)
      BY <1>5, <2>1, Here DEF RecordQuarantine, here, QuietFrames, TypeInv, ProcessType
    <3>2. /\ AuditRow(s, b)'.rejected_rows = Refused(s, b)
          /\ AuditRow(s, b)'.silver_rows = AuditRow(s, b).silver_rows
          /\ AuditRow(s, b)'.status = AuditRow(s, b).status
          /\ AuditRow(s, b)'.bronze_rows = AuditRow(s, b).bronze_rows
      BY <1>2, <2>1, <3>1 DEF Row
    <3>3. QED
      BY <1>2, <1>3, <3>2 DEF QuietRow
  <2>2. QED
    BY <1>1, <1>4, <1>5, <2>1, RecordsOne
<1>6. CASE MarkTransforming
  <2>1. CASE AuditRow(s, b)' = [AuditRow(s, b) EXCEPT !.status = "transforming"]
    <3>1. /\ AuditRow(s, b)'.rejected_rows = AuditRow(s, b).rejected_rows
          /\ AuditRow(s, b)'.silver_rows = AuditRow(s, b).silver_rows
          /\ AuditRow(s, b)'.status = "transforming"
      BY <1>2, <2>1 DEF Row
    <3>2. QED
      BY <1>2, <1>3, <3>1 DEF QuietRow
  <2>2. QED
    BY <1>1, <1>4, <1>6, <2>1, MarksOne
<1>7. CASE FinaliseSource
  <2>0. source \in Source /\ batch \in Batch /\ here = <<source, batch>> /\ pc = "finalise"
    BY <1>7, Here DEF FinaliseSource, here
  <2>1. CASE /\ <<s, b>> = here /\ results[source] = "failed"
             /\ AuditRow(s, b)' = [AuditRow(s, b) EXCEPT !.status = "failed"]
    <3>1. ~Buildable(s, b) \/ TornDim
      BY <2>0, <2>1, BuiltIsAll
    <3>2. /\ AuditRow(s, b)'.rejected_rows = AuditRow(s, b).rejected_rows
          /\ AuditRow(s, b)'.silver_rows = AuditRow(s, b).silver_rows
          /\ AuditRow(s, b)'.status = "failed"
      BY <1>2, <2>1 DEF Row
    <3>3. QED
      BY <1>2, <1>3, <3>1, <3>2 DEF QuietRow
  <2>2. CASE /\ <<s, b>> = here /\ results[source] = "written"
             /\ AuditRow(s, b)' = [AuditRow(s, b) EXCEPT !.status = "transformed",
                                                         !.silver_rows = Artifact(source).rows]
    <3>1. Buildable(s, b)
      BY <2>0, <2>2, BuiltIsAll
    <3>2. /\ Artifact(source).rows \in Nat
          /\ Artifact(source).rows + Refused(s, b) = RowsOf[s] + History[s]
      <4>1. source \in DOMAIN clean_bronze /\ clean_bronze[source] \in Frame
        BY <2>0, <2>2 DEF ResultsInv, TypeInv, MemoryType
      <4>2. clean_bronze[source].rows + Refused(s, b) = RowsOf[s]
        BY <2>0, <2>2, <4>1 DEF QuietFrames
      <4>3. Artifact(source).rows = clean_bronze[source].rows + History[s]
            /\ clean_bronze[source].rows \in Nat
        BY <2>0, <2>2, <4>1 DEF Artifact, Frame
      <4>4. QED
        BY <4>2, <4>3, Amounts
    <3>3. Artifact(source).rows # NULL
      BY <3>2, AuditAssumption
    <3>4. /\ AuditRow(s, b)'.rejected_rows = AuditRow(s, b).rejected_rows
          /\ AuditRow(s, b)'.silver_rows = Artifact(source).rows
          /\ AuditRow(s, b)'.status = "transformed"
      BY <1>2, <2>2 DEF Row
    <3>5. QED
      BY <1>2, <1>3, <3>1, <3>2, <3>3, <3>4 DEF QuietRow
  <2>3. QED
    BY <1>1, <1>4, <1>7, <2>1, <2>2, FinalisesOne
<1>8. CASE file_audit' = file_audit
  BY <1>4, <1>8 DEF AuditRow, KeyOf
<1>9. QED
  BY <1>5, <1>6, <1>7, <1>8, FilesStay

(* Where a quiet run has come to, the audit rows have followed. *)
QuietProgress ==
    \A s \in Source : ReconcilesOn(s, batch) =>
        /\ pc = "transforming" /\ s \in Until(pos - 1) => AuditRow(s, batch).status # "ingested"
        /\ pc \in {"build", "finalise", "verdict"} => AuditRow(s, batch).status # "ingested"
        /\ (pc = "finalise" /\ s \in Until(pos - 1)) \/ pc = "verdict" =>
              AuditRow(s, batch).status \in {"transformed", "failed"}

LEMMA ProgressStep ==
    ASSUME TypeInv, ResultsInv, AmountInv, AuditInv, FilesInv, QuietProgress, [Next]_vars, faults' = 0
    PROVE  QuietProgress'
<1>0. ~Fault /\ readable' = readable /\ (\A s, b : ReconcilesOn(s, b)' = ReconcilesOn(s, b))
  BY FilesStay DEF Fault, TypeInv, StoresType, ReconcilesOn, KeyOf
<1>1. CASE pc' \in {"idle", "lookups", "read", "quarantine", "record_quarantine", "report"}
  BY <1>1 DEF QuietProgress
<1>2. CASE WriteReport
  <2>1. pos' = 1 /\ pc' = "transforming"
    BY <1>2 DEF WriteReport, GoTo, AmountInv
  <2>2. Until(pos - 1)' = {}
    BY <2>1, UntilGrows DEF Until
  <2>3. QED
    BY <2>1, <2>2 DEF QuietProgress
<1>3. CASE MarkTransforming
  <2>1. /\ source \in Source /\ pos \in DOMAIN Registry /\ pos \in Nat /\ source = Registry[pos]
        /\ pc = "transforming" /\ here = <<source, batch>> /\ batch \in Batch
    BY <1>3, Here, Sources DEF MarkTransforming, TypeInv, ProcessType, source, here
  <2>2. /\ \/ pc' = "transforming" /\ pos' = pos + 1
           \/ pc' = "build" /\ pos = Len(Registry)
        /\ batch' = batch
    BY <1>3, <2>1, NextSourceMoves DEF MarkTransforming
  <2>3. ASSUME NEW s \in Source, NEW b \in Batch, b = batch, ReconcilesOn(s, b), s \in Until(pos)
        PROVE  AuditRow(s, b)'.status # "ingested"
    <3>1. AuditRow(s, b) \in Row
      BY <2>1, <2>3, RowColumns
    <3>2. s = source \/ AuditRow(s, b).status # "ingested"
      BY <2>1, <2>3, UntilGrows DEF QuietProgress
    <3>3. AuditRow(s, b)' = IF <<s, b>> = here /\ AuditRow(s, b).status = "ingested"
                                THEN [AuditRow(s, b) EXCEPT !.status = "transforming"]
                                ELSE AuditRow(s, b)
      BY <1>3, <2>1, <2>3, MarksOne
    <3>4. QED
      BY <2>1, <2>3, <3>1, <3>2, <3>3 DEF Row
  <2>4. CASE pc' = "transforming" /\ pos' = pos + 1
    <3>1. Until(pos - 1)' = Until(pos)
      BY <2>1, <2>4 DEF Until
    <3>2. QED
      BY <1>0, <2>1, <2>2, <2>3, <2>4, <3>1 DEF QuietProgress, AuditRow, KeyOf
  <2>5. CASE pc' = "build" /\ pos = Len(Registry)
    BY <1>0, <2>1, <2>2, <2>3, <2>5, UntilGrows DEF QuietProgress, AuditRow, KeyOf
  <2>6. QED
    BY <2>2, <2>4, <2>5
<1>4. CASE BuildArtifact
  <2>1. (pc' = "build" \/ (pc' = "finalise" /\ pos' = 1)) /\ batch' = batch /\ file_audit' = file_audit
        /\ pc = "build"
    BY <1>4, NextSourceMoves DEF BuildArtifact, NextSource
  <2>2. pos' = 1 => Until(pos - 1)' = {}
    BY UntilGrows DEF Until
  <2>3. QED
    BY <1>0, <2>1, <2>2 DEF QuietProgress, AuditRow, KeyOf
<1>5. CASE FinaliseSource
  <2>1. /\ source \in Source /\ pos \in DOMAIN Registry /\ pos \in Nat /\ source = Registry[pos]
        /\ pc = "finalise" /\ here = <<source, batch>> /\ batch \in Batch
    BY <1>5, Here, Sources DEF FinaliseSource, TypeInv, ProcessType, source, here
  <2>2. /\ \/ pc' = "finalise" /\ pos' = pos + 1
           \/ pc' = "verdict" /\ pos = Len(Registry)
        /\ batch' = batch
    BY <1>5, <2>1, NextSourceMoves DEF FinaliseSource
  <2>3. ASSUME NEW s \in Source, NEW b \in Batch, b = batch, ReconcilesOn(s, b)
        PROVE  /\ AuditRow(s, b)'.status # "ingested"
               /\ s \in Until(pos) => AuditRow(s, b)'.status \in {"transformed", "failed"}
    <3>1. /\ AuditRow(s, b) \in Row
          /\ AuditRow(s, b).status \in {"transforming", "transformed", "failed"}
      BY <2>1, <2>3, RowColumns DEF QuietProgress, FilesInv
    <3>2. s \in Until(pos) => s = source \/ AuditRow(s, b).status \in {"transformed", "failed"}
      BY <2>1, <2>3, UntilGrows DEF QuietProgress
    <3>3. \/ <<s, b>> # here /\ AuditRow(s, b)' = AuditRow(s, b)
          \/ AuditRow(s, b)' = [AuditRow(s, b) EXCEPT !.status = "failed"]
          \/ AuditRow(s, b)' = [AuditRow(s, b) EXCEPT !.status = "transformed",
                                                      !.silver_rows = Artifact(source).rows]
          \/ AuditRow(s, b)' = AuditRow(s, b) /\ AuditRow(s, b).status # "transforming"
      BY <1>0, <1>5, <2>1, <2>3, FinalisesOne
    <3>4. QED
      BY <2>1, <2>3, <3>1, <3>2, <3>3 DEF Row
  <2>4. CASE pc' = "finalise" /\ pos' = pos + 1
    <3>1. Until(pos - 1)' = Until(pos)
      BY <2>1, <2>4 DEF Until
    <3>2. QED
      BY <1>0, <2>1, <2>2, <2>3, <2>4, <3>1 DEF QuietProgress, AuditRow, KeyOf
  <2>5. CASE pc' = "verdict" /\ pos = Len(Registry)
    BY <1>0, <2>1, <2>2, <2>3, <2>5, UntilGrows DEF QuietProgress, AuditRow, KeyOf
  <2>6. QED
    BY <2>2, <2>4, <2>5
<1>6. CASE UNCHANGED vars
  BY <1>0, <1>6 DEF vars, stores, QuietProgress, AuditRow, KeyOf, Until
<1>7. CASE \E b \in Batch : StartRun(b)
  BY <1>1, <1>7 DEF StartRun
<1>8. CASE BuildFkLookups \/ RunDq \/ Quarantine \/ RecordQuarantine
  BY <1>1, <1>8 DEF BuildFkLookups, RunDq, Quarantine, RecordQuarantine, GoTo, NextSource
<1>9. CASE Verdict \/ Crash
  BY <1>1, <1>9 DEF Verdict, Crash, Exit
<1>10. QED
  BY <1>2, <1>3, <1>4, <1>5, <1>6, <1>7, <1>8, <1>9 DEF Next, RunStep

(* The report of a quiet run counts what DQ refused. *)
QuietReport ==
    pc \in {"transforming", "build", "finalise", "verdict"} /\ DOMAIN dq_results # {} =>
        batch \in DOMAIN dq_reports /\ dq_reports[batch].quarantined = SumOver(dq_results)

LEMMA ReportStep ==
    ASSUME TypeInv, QuietReport, [Next]_vars, faults' = 0
    PROVE  QuietReport'
<1>0. ~Fault
  BY DEF Fault, TypeInv, StoresType
<1>1. CASE pc' \in {"idle", "lookups", "read", "quarantine", "record_quarantine", "report"}
  BY <1>1 DEF QuietReport
<1>2. CASE WriteReport
  <2>1. UNCHANGED <<dq_results, batch>>
    BY <1>2 DEF WriteReport, GoTo, memory
  <2>2. CASE dq_results # << >> /\ dq_reports' = With(dq_reports, batch, Report)
    <3>1. batch \in DOMAIN dq_reports' /\ dq_reports'[batch] = Report
      BY <2>2 DEF With
    <3>2. Report.quarantined = SumOver(dq_results)
      BY DEF Report
    <3>3. SumOver(dq_results') = SumOver(dq_results)
      BY <2>1
    <3>4. QED
      BY <2>1, <3>1, <3>2, <3>3 DEF QuietReport
  <2>3. CASE dq_results = << >>
    BY <2>1, <2>3, NoFrames DEF QuietReport
  <2>4. QED
    BY <1>0, <1>2, <2>2, <2>3 DEF WriteReport
<1>3. CASE /\ UNCHANGED <<dq_results, dq_reports, batch>>
           /\ pc \in {"transforming", "build", "finalise", "verdict"}
  BY <1>3 DEF QuietReport
<1>4. CASE MarkTransforming \/ BuildArtifact \/ FinaliseSource
  BY <1>3, <1>4 DEF MarkTransforming, BuildArtifact, FinaliseSource, NextSource, memory
<1>5. CASE UNCHANGED vars
  BY <1>5 DEF vars, stores, memory, QuietReport
<1>6. CASE \E b \in Batch : StartRun(b)
  BY <1>1, <1>6 DEF StartRun
<1>7. CASE BuildFkLookups \/ RunDq \/ Quarantine \/ RecordQuarantine
  BY <1>1, <1>7 DEF BuildFkLookups, RunDq, Quarantine, RecordQuarantine, GoTo, NextSource
<1>8. CASE Verdict \/ Crash
  BY <1>1, <1>8 DEF Verdict, Crash, Exit
<1>9. QED
  BY <1>2, <1>4, <1>5, <1>6, <1>7, <1>8 DEF Next, RunStep

(* What a quiet success leaves behind. *)
Settled(b) ==
    /\ \A s \in Source : Landed(s, b) => AuditRow(s, b).status = "transformed"
    /\ \A s \in Source : Rejected(s, b) = Refused(s, b)
    /\ b \in DOMAIN dq_reports
    /\ dq_reports[b].quarantined = SumOver([s \in Source |-> Rejected(s, b)])

QuietSuccess == \A b \in Batch : Succeeded(b) => Settled(b)

QuietSilver == QuietRead /\ QuietBuilt /\ QuietRows /\ QuietProgress /\ QuietReport /\ QuietSuccess

(* The stores of a batch change in its own runs alone. *)
LEMMA OthersStay ==
    ASSUME TypeInv, FilesInv, [Next]_vars, NEW b \in Batch, pc = "idle" \/ b # batch
    PROVE  /\ \A s \in Source : ReconcilesOn(s, b) => AuditRow(s, b)' = AuditRow(s, b)
           /\ b \in DOMAIN dq_reports =>
                 b \in DOMAIN dq_reports' /\ dq_reports'[b] = dq_reports[b]
           /\ \A s \in Source : Rejected(s, b)' = Rejected(s, b)
<1>1. ASSUME NEW s \in Source, ReconcilesOn(s, b) PROVE AuditRow(s, b)' = AuditRow(s, b)
  <2>1. CASE file_audit' = file_audit
    BY <2>1 DEF AuditRow, KeyOf
  <2>2. CASE RecordQuarantine
    BY <1>1, <2>2, RecordsOne DEF RecordQuarantine, here
  <2>3. CASE MarkTransforming
    BY <1>1, <2>3, MarksOne DEF MarkTransforming, here
  <2>4. CASE FinaliseSource
    BY <1>1, <2>4, FinalisesOne DEF FinaliseSource, here
  <2>5. QED
    BY <2>1, <2>2, <2>3, <2>4, FilesStay
<1>2. dq_reports' = dq_reports \/ (WriteReport /\ dq_reports' = With(dq_reports, batch, Report))
  BY DEF Next, RunStep, StartRun, BuildFkLookups, RunDq, Quarantine, RecordQuarantine, WriteReport,
         MarkTransforming, BuildArtifact, FinaliseSource, Verdict, Crash, vars, stores
<1>3. b \in DOMAIN dq_reports => b \in DOMAIN dq_reports' /\ dq_reports'[b] = dq_reports[b]
  BY <1>2 DEF With, WriteReport
<1>4. ASSUME NEW s \in Source PROVE Rejected(s, b)' = Rejected(s, b)
  <2>1. pc # "idle" => <<s, b>> # here
    BY DEF here
  <2>2. CASE Quarantine
    BY <2>1, <2>2, QuarantineElsewhere DEF Rejected, Quarantine
  <2>3. CASE ~Quarantine
    BY <2>1, <2>3, QuarantineShrinks
  <2>4. QED
    BY <2>2, <2>3
<1>5. QED
  BY <1>1, <1>3, <1>4

(* What the table holds of a landed file does not turn into another count. *)
LEMMA LandedStays ==
    ASSUME TypeInv, AuditInv, FilesInv, [Next]_vars, NEW s \in Source, NEW b \in Batch
    PROVE  Landed(s, b)' <=> Landed(s, b)
<1>1. ReconcilesOn(s, b)' <=> ReconcilesOn(s, b)
  BY FilesStay DEF ReconcilesOn, KeyOf
<1>2. ASSUME ReconcilesOn(s, b) PROVE AuditRow(s, b)'.bronze_rows = AuditRow(s, b).bronze_rows
  <2>1. AuditRow(s, b) \in Row
    BY <1>2, RowColumns
  <2>2. CASE file_audit' = file_audit
    BY <2>2 DEF AuditRow, KeyOf
  <2>3. CASE RecordQuarantine
    BY <1>2, <2>1, <2>3, RecordsOne DEF Row
  <2>4. CASE MarkTransforming
    BY <1>2, <2>1, <2>4, MarksOne DEF Row
  <2>5. CASE FinaliseSource
    BY <1>2, <2>1, <2>5, FinalisesOne DEF Row
  <2>6. QED
    BY <2>2, <2>3, <2>4, <2>5, FilesStay
<1>3. QED
  BY <1>1, <1>2 DEF Landed

LEMMA VerdictSettles ==
    ASSUME TypeInv, ResultsInv, AmountInv, FilesInv, QuietFrames, QuietSilver, Verdict,
           pipeline_runs'[batch] = "success", NEW b \in Batch, b = batch
    PROVE  Settled(b)
<1>1. pc = "verdict" /\ \A s \in Source : results[s] = "written"
  <2>1. "failed" \notin Range(results) /\ pc = "verdict"
    BY DEF Verdict, TypeInv, StoresType
  <2>2. QED
    BY <2>1 DEF ResultsInv, Range
<1>2. \A s \in Source : Buildable(s, b) /\ s \in built
  BY <1>1, BuiltIsAll DEF QuietSilver, QuietBuilt, ResultsInv
<1>3. ASSUME NEW s \in Source, Landed(s, b) PROVE AuditRow(s, b).status = "transformed"
  <2>1. AuditRow(s, b).status \in {"transformed", "failed"}
    BY <1>1, <1>3 DEF QuietSilver, QuietProgress, Landed
  <2>2. QuietRow(s, b)
    BY <1>3 DEF QuietSilver, QuietRows, Landed
  <2>3. ~TornDim
    <3>1. \A q \in Source : q \in Versioned => \A c \in Batch : silver[<<q, c>>] # Torn
      BY <1>1 DEF ResultsInv
    <3>2. QED
      BY <3>1, SilverAssumption DEF TornDim
  <2>4. QED
    BY <1>2, <1>3, <2>1, <2>2, <2>3 DEF QuietRow, Landed
<1>4. DOMAIN dq_results = Source
  <2>1. \A s \in Source : s \in DOMAIN clean_bronze
    BY <1>2 DEF TypeInv, MemoryType
  <2>2. \A s \in Source : s \in DOMAIN dq_results
    BY <1>1, <2>1 DEF QuietSilver, QuietRead
  <2>3. QED
    BY <2>2 DEF TypeInv, MemoryType
<1>5. Source # {}
  BY Sources
<1>6. dq_results = [s \in Source |-> Rejected(s, b)]
  <2>1. dq_results \in [Source -> Nat]
    BY <1>4, <1>5 DEF AmountInv
  <2>2. \A s \in Source : dq_results[s] = Rejected(s, b)
    BY <1>1, <1>4 DEF QuietFrames, InQuarantine, TypeInv, MemoryType
  <2>3. QED
    BY <2>1, <2>2
<1>7. b \in DOMAIN dq_reports /\ dq_reports[b].quarantined = SumOver(dq_results)
  BY <1>1, <1>4, <1>5 DEF QuietSilver, QuietReport
<1>8. \A s \in Source : Rejected(s, b) = Refused(s, b)
  BY <1>1, <1>4 DEF QuietFrames, InQuarantine, TypeInv, MemoryType
<1>9. QED
  BY <1>3, <1>6, <1>7, <1>8 DEF Settled

LEMMA SuccessStep ==
    ASSUME TypeInv, ResultsInv, AmountInv, AuditInv, FilesInv, QuietFrames, QuietSilver,
           [Next]_vars, faults' = 0
    PROVE  QuietSuccess'
<1> SUFFICES ASSUME NEW b \in Batch, Succeeded(b)' PROVE Settled(b)'
  BY DEF QuietSuccess
<1>1. CASE Verdict /\ b = batch
  <2>1. Settled(b)
    BY <1>1, VerdictSettles DEF Succeeded
  <2>2. UNCHANGED <<file_audit, dq_reports, rejected, readable>>
    BY <1>1 DEF Verdict
  <2>3. QED
    BY <2>1, <2>2 DEF Settled, Landed, ReconcilesOn, AuditRow, KeyOf, Rejected, Refused
<1>2. CASE ~(Verdict /\ b = batch)
  <2>1. pipeline_runs' = pipeline_runs
        \/ (\E c \in Batch : StartRun(c) /\ pipeline_runs' = [pipeline_runs EXCEPT ![c] = "running"])
        \/ (Verdict /\ \E v : pipeline_runs' = [pipeline_runs EXCEPT ![batch] = v])
    BY DEF Next, RunStep, StartRun, BuildFkLookups, RunDq, Quarantine, RecordQuarantine, WriteReport,
           MarkTransforming, BuildArtifact, FinaliseSource, Verdict, Crash, vars, stores
  <2>2. Succeeded(b)
    BY <1>2, <2>1 DEF Succeeded, TypeInv, StoresType
  <2>3. pc = "idle" \/ b # batch
    BY <2>2 DEF ResultsInv, Succeeded
  <2>4. Settled(b)
    BY <2>2 DEF QuietSilver, QuietSuccess
  <2>5. [s \in Source |-> Rejected(s, b)'] = [s \in Source |-> Rejected(s, b)]
    BY <2>3, OthersStay
  <2>6. \A s \in Source : Refused(s, b)' = Refused(s, b)
    BY FilesStay DEF Refused
  <2>7. QED
    BY <2>3, <2>4, <2>5, <2>6, OthersStay, LandedStays DEF Settled, Landed
<1>3. QED
  BY <1>1, <1>2

-----------------------------------------------------------------------------
(* The audit rows of batches that were run once, whatever raised *)

(* The counts of a row are those of the stores, once there are any; while the
   run is under way they are not there before the stores have been written. *)
FirstRow(s, b) ==
    /\ attempts[b] = 0 => AuditRow(s, b).rejected_rows = NULL /\ AuditRow(s, b).silver_rows = NULL
    /\ attempts[b] = 1 =>
          /\ \/ AuditRow(s, b).rejected_rows = NULL
             \/ AuditRow(s, b).rejected_rows = Rejected(s, b)
          /\ \/ AuditRow(s, b).silver_rows = NULL
             \/ AuditRow(s, b).silver_rows + Rejected(s, b) = RowsOf[s] + History[s]
          /\ b = batch /\ pc \in BeforeBuild =>
                /\ AuditRow(s, b).silver_rows = NULL
                /\ s \notin DOMAIN clean_bronze \/ InQuarantine(s) =>
                      AuditRow(s, b).rejected_rows = NULL

FirstRows == \A s \in Source, b \in Batch : ReconcilesOn(s, b) => FirstRow(s, b)

LEMMA FirstRowsInit == Init => FirstRows
<1> SUFFICES ASSUME Init, NEW s \in Source, NEW b \in Batch, ReconcilesOn(s, b)
             PROVE  AuditRow(s, b).rejected_rows = NULL /\ AuditRow(s, b).silver_rows = NULL
  BY DEF Init, FirstRows, FirstRow
<1>1. PICK landed \in SUBSET (Batch \X Source), absent \in SUBSET (Batch \X Source) :
         file_audit = [k \in {KeyOf(p[1], p[2]) : p \in (Batch \X Source) \ absent} |->
                          IF <<k[1], SourceOf[k[2]]>> \in landed THEN LandedRow(SourceOf[k[2]])
                          ELSE FailedRow]
  BY DEF Init
<1>2. SourceOf[KeyOf(b, s)[2]] = s
  BY SilverAssumption DEF KeyOf
<1>3. AuditRow(s, b) = LandedRow(s) \/ AuditRow(s, b) = FailedRow
  BY <1>1, <1>2 DEF ReconcilesOn, AuditRow
<1>4. /\ LandedRow(s).rejected_rows = NULL /\ LandedRow(s).silver_rows = NULL
      /\ FailedRow.rejected_rows = NULL /\ FailedRow.silver_rows = NULL
  BY DEF LandedRow, FailedRow, NewRow
<1>5. CASE AuditRow(s, b) = LandedRow(s)
  BY <1>4, <1>5
<1>6. CASE AuditRow(s, b) = FailedRow
  BY <1>4, <1>6
<1>7. QED
  BY <1>3, <1>5, <1>6

(* A step that leaves the row, its quarantine and the run's frames alone. *)
LEMMA FirstRowSame ==
    ASSUME NEW s \in Source, NEW b \in Batch, FirstRow(s, b),
           AuditRow(s, b)' = AuditRow(s, b), attempts' = attempts,
           attempts[b] = 1 => Rejected(s, b)' = Rejected(s, b),
           pc' \in BeforeBuild /\ b = batch' =>
               b = batch /\ pc \in BeforeBuild /\ clean_bronze' = clean_bronze
               /\ (InQuarantine(s)' => InQuarantine(s))
    PROVE  FirstRow(s, b)'
BY DEF FirstRow

LEMMA FirstRowsStart ==
    ASSUME TypeInv, FirstInv, NEW s \in Source, NEW b \in Batch, FirstRow(s, b),
           AuditRow(s, b)' = AuditRow(s, b), NEW c \in Batch, StartRun(c)
    PROVE  FirstRow(s, b)'
<1>1. attempts'[b] = (IF b = c THEN attempts[b] + 1 ELSE attempts[b]) /\ attempts[b] \in Nat
  BY DEF StartRun, TypeInv, StoresType
<1>2. pc' = "lookups" /\ batch' = c /\ rejected' = rejected /\ pc = "idle"
  BY DEF StartRun
<1>3. Rejected(s, b)' = Rejected(s, b)
  BY <1>2 DEF Rejected
<1>4. CASE b = c
  <2>1. attempts'[b] = 1 => attempts[b] = 0
    BY <1>1, <1>4
  <2>2. attempts'[b] # 0
    BY <1>1, <1>4
  <2>3. QED
    BY <2>1, <2>2 DEF FirstRow
<1>5. CASE b # c
  <2>1. batch' # b /\ attempts'[b] = attempts[b]
    BY <1>1, <1>2, <1>5
  <2>2. QED
    BY <1>3, <2>1, <1>2 DEF FirstRow
<1>6. QED
  BY <1>4, <1>5

LEMMA FirstRowsStep ==
    ASSUME TypeInv, ResultsInv, FirstInv, AmountInv, AuditInv, FilesInv, FirstRows, [Next]_vars
    PROVE  FirstRows'
<1> SUFFICES ASSUME NEW s \in Source, NEW b \in Batch, ReconcilesOn(s, b)'
             PROVE  FirstRow(s, b)'
  BY DEF FirstRows
<1> USE DEF BeforeBuild, DqStep
<1>1. ReconcilesOn(s, b)
  BY FilesStay DEF ReconcilesOn, KeyOf
<1>2. FirstRow(s, b) /\ AuditRow(s, b) \in Row
  BY <1>1, RowColumns DEF FirstRows
<1>3. file_audit' = file_audit => AuditRow(s, b)' = AuditRow(s, b)
  BY DEF AuditRow, KeyOf
<1>4. rejected' = rejected => Rejected(s, b)' = Rejected(s, b)
  BY DEF Rejected
<1>5. ASSUME NEW c \in Batch, StartRun(c) PROVE FirstRow(s, b)'
  BY <1>2, <1>3, <1>5, FirstRowsStart DEF StartRun
<1>6. CASE BuildFkLookups
  BY <1>2, <1>3, <1>4, <1>6, FirstRowSame DEF BuildFkLookups, GoTo, stores, InQuarantine
<1>7. CASE RunDq
  <2>1. /\ AuditRow(s, b)' = AuditRow(s, b) /\ Rejected(s, b)' = Rejected(s, b)
        /\ UNCHANGED <<attempts, batch>> /\ pc = "read" /\ pos \in DOMAIN Registry
    BY <1>3, <1>4, <1>7, NextSourceMoves DEF RunDq, stores, GoTo, TypeInv, ProcessType
  <2>2. CASE b = batch /\ attempts[b] = 1
    <3>1. source \notin DOMAIN clean_bronze
      <4>1. \A i \in DOMAIN Registry : Registry[i] \in DOMAIN clean_bronze => i < pos
        BY <2>1, <2>2 DEF FirstInv, FirstFrames
      <4>2. ~(pos < pos)
        BY <2>1, Sources
      <4>3. QED
        BY <2>1, <4>1, <4>2 DEF source
    <3>2. DOMAIN clean_bronze \subseteq DOMAIN clean_bronze'
      BY <1>7 DEF RunDq, With
    <3>3. InQuarantine(s)' => s = source
      BY <1>7, <2>1, NextSourceMoves DEF RunDq, InQuarantine, GoTo, source
    <3>4. QED
      BY <1>2, <2>1, <2>2, <3>1, <3>2, <3>3 DEF FirstRow
  <2>3. CASE ~(b = batch /\ attempts[b] = 1)
    BY <1>2, <2>1, <2>3 DEF FirstRow
  <2>4. QED
    BY <2>2, <2>3
<1>8. CASE Quarantine
  <2>1. /\ AuditRow(s, b)' = AuditRow(s, b) /\ UNCHANGED <<attempts, batch>>
        /\ pc = "quarantine" /\ pos \in DOMAIN Registry /\ source \in Source
        /\ source \in DOMAIN clean_bronze /\ here = <<source, batch>>
        /\ pc' \in {"read", "report", "record_quarantine"}
    BY <1>3, <1>8, NextSourceMoves, Here
       DEF Quarantine, GoTo, TypeInv, ProcessType, MemoryType, here
  <2>2. DOMAIN clean_bronze' = DOMAIN clean_bronze
    BY <1>8, <2>1 DEF Quarantine, With
  <2>3. <<s, b>> # here => Rejected(s, b)' = Rejected(s, b)
    BY <1>8, QuarantineElsewhere DEF Rejected
  <2>4. CASE <<s, b>> = here
    <3>1. attempts[b] = 1 =>
             AuditRow(s, b).rejected_rows = NULL /\ AuditRow(s, b).silver_rows = NULL
      BY <1>2, <2>1, <2>4 DEF FirstRow, InQuarantine
    <3>2. QED
      BY <1>2, <2>1, <3>1 DEF FirstRow
  <2>5. CASE <<s, b>> # here
    <3>1. ~InQuarantine(s)'
      BY <2>1 DEF InQuarantine
    <3>2. QED
      BY <1>2, <2>1, <2>2, <2>3, <2>5, <3>1 DEF FirstRow
  <2>6. QED
    BY <2>4, <2>5
<1>9. CASE RecordQuarantine
  <2>1. /\ Rejected(s, b)' = Rejected(s, b) /\ UNCHANGED <<attempts, batch, clean_bronze>>
        /\ pc = "record_quarantine" /\ pc' \in {"read", "report"}
        /\ pos \in DOMAIN Registry /\ source \in Source /\ source \in DOMAIN clean_bronze
        /\ here = <<source, batch>>
    BY <1>4, <1>9, NextSourceMoves, Here
       DEF RecordQuarantine, memory, TypeInv, ProcessType, MemoryType, here
  <2>2. CASE AuditRow(s, b)' = AuditRow(s, b)
    BY <1>2, <2>1, <2>2, FirstRowSame DEF InQuarantine
  <2>3. CASE /\ <<s, b>> = here
             /\ AuditRow(s, b)' = [AuditRow(s, b) EXCEPT !.rejected_rows = dq_results[source]]
    <3>1. /\ AuditRow(s, b)'.rejected_rows = dq_results[source]
          /\ AuditRow(s, b)'.silver_rows = AuditRow(s, b).silver_rows
      BY <1>2, <2>3 DEF Row
    <3>2. Rejected(s, b) = dq_results[source]
      BY <2>1, <2>3 DEF AmountInv
    <3>3. attempts[b] # 0 /\ s \in DOMAIN clean_bronze /\ ~InQuarantine(s)'
      BY <2>1, <2>3, Here DEF FirstInv, TypeInv, StoresType, InQuarantine
    <3>4. QED
      BY <1>2, <2>1, <2>3, <3>1, <3>2, <3>3 DEF FirstRow
  <2>4. QED
    BY <1>1, <1>9, <2>2, <2>3, RecordsOne
<1>10. CASE WriteReport
  BY <1>2, <1>3, <1>4, <1>10, FirstRowSame DEF WriteReport, GoTo, memory, InQuarantine
<1>11. CASE MarkTransforming
  <2>1. /\ Rejected(s, b)' = Rejected(s, b) /\ UNCHANGED <<attempts, batch, clean_bronze>>
        /\ pc = "transforming" /\ pc' \in {"transforming", "build"}
    BY <1>4, <1>11, NextSourceMoves DEF MarkTransforming, memory, bounds, TypeInv, ProcessType
  <2>2. \/ AuditRow(s, b)' = AuditRow(s, b)
        \/ AuditRow(s, b)' = [AuditRow(s, b) EXCEPT !.status = "transforming"]
    BY <1>1, <1>11, MarksOne
  <2>3. /\ AuditRow(s, b)'.rejected_rows = AuditRow(s, b).rejected_rows
        /\ AuditRow(s, b)'.silver_rows = AuditRow(s, b).silver_rows
    BY <1>2, <2>2 DEF Row
  <2>4. QED
    BY <1>2, <2>1, <2>3 DEF FirstRow, InQuarantine
<1>12. CASE BuildArtifact
  <2>1. pc' \in {"build", "finalise"}
    BY <1>12, NextSourceMoves DEF BuildArtifact, TypeInv, ProcessType
  <2>2. QED
    BY <1>2, <1>3, <1>4, <1>12, <2>1, FirstRowSame DEF BuildArtifact
<1>13. CASE FinaliseSource
  <2>1. /\ Rejected(s, b)' = Rejected(s, b) /\ UNCHANGED attempts
        /\ pc' \in {"finalise", "verdict"}
        /\ source \in Source /\ here = <<source, batch>> /\ batch \in Batch
        /\ pc = "finalise"
    BY <1>4, <1>13, NextSourceMoves, Here DEF FinaliseSource, memory, TypeInv, ProcessType, here
  <2>2. CASE AuditRow(s, b)' = AuditRow(s, b)
    BY <1>2, <2>1, <2>2, FirstRowSame
  <2>3. CASE AuditRow(s, b)' = [AuditRow(s, b) EXCEPT !.status = "failed"]
    <3>1. /\ AuditRow(s, b)'.rejected_rows = AuditRow(s, b).rejected_rows
          /\ AuditRow(s, b)'.silver_rows = AuditRow(s, b).silver_rows
      BY <1>2, <2>3 DEF Row
    <3>2. QED
      BY <1>2, <2>1, <3>1 DEF FirstRow
  <2>4. CASE /\ <<s, b>> = here /\ results[source] = "written"
             /\ AuditRow(s, b)' = [AuditRow(s, b) EXCEPT !.status = "transformed",
                                                         !.silver_rows = Artifact(source).rows]
    <3>1. /\ AuditRow(s, b)'.rejected_rows = AuditRow(s, b).rejected_rows
          /\ AuditRow(s, b)'.silver_rows = Artifact(source).rows
      BY <1>2, <2>4 DEF Row
    <3>2. source \in DOMAIN clean_bronze /\ clean_bronze[source] \in Frame
      BY <2>1, <2>4 DEF ResultsInv, TypeInv, MemoryType
    <3>3. attempts[b] # 0
      BY <2>1, <2>4 DEF FirstInv, TypeInv, StoresType
    <3>4. attempts[b] = 1 => Artifact(source).rows + Rejected(s, b) = RowsOf[s] + History[s]
      <4>1. attempts[b] = 1 => clean_bronze[source].rows + Rejected(s, b) = RowsOf[s]
        BY <2>1, <2>4, <3>2 DEF FirstInv, FirstFrames, InQuarantine
      <4>2. Artifact(source).rows = clean_bronze[source].rows + History[s]
            /\ clean_bronze[source].rows \in Nat
        BY <2>1, <2>4, <3>2 DEF Artifact, Frame
      <4>3. QED
        BY <2>1, <2>4, <4>1, <4>2, Amounts
    <3>5. QED
      BY <1>2, <2>1, <3>1, <3>3, <3>4 DEF FirstRow
  <2>5. QED
    BY <1>1, <1>13, <2>2, <2>3, <2>4, FinalisesOne
<1>14. CASE Verdict \/ Crash
  <2>1. /\ AuditRow(s, b)' = AuditRow(s, b) /\ attempts' = attempts /\ pc' = "idle"
    BY <1>3, <1>14 DEF Verdict, Crash, Exit, bounds
  <2>2. attempts[b] = 1 => Rejected(s, b)' = Rejected(s, b)
    <3>1. \/ Rejected(s, b)' = Rejected(s, b)
          \/ Rejected(s, b)' = 0 /\ pc = "quarantine" /\ <<s, b>> = here
      BY <2>1, QuarantineShrinks
    <3>2. pc = "quarantine" /\ <<s, b>> = here /\ attempts[b] = 1 => Rejected(s, b) = 0
      BY DEF FirstInv, FirstFrames, InQuarantine, here
    <3>3. QED
      BY <3>1, <3>2
  <2>3. QED
    BY <1>2, <2>1, <2>2, FirstRowSame
<1>15. CASE UNCHANGED vars
  BY <1>2, <1>3, <1>4, <1>15, FirstRowSame DEF vars, stores, memory, bounds, InQuarantine, source
<1>16. QED
  BY <1>5, <1>6, <1>7, <1>8, <1>9, <1>10, <1>11, <1>12, <1>13, <1>14, <1>15 DEF Next, RunStep

-----------------------------------------------------------------------------
(* Theorems *)

IInv == TypeInv /\ FramesInv /\ ResultsInv /\ QuietInv /\ FirstInv /\ AuditInv

LEMMA Invariant == Spec => []IInv
<1>1. Init => IInv
  BY InitType, InitFramesInv, InitResults, InitQuiet, InitFirst, InitAudit DEF IInv
<1>2. IInv /\ [Next]_vars => IInv'
  BY TypeStep, FramesStep, ResultsStep, QuietStep, FirstStep, AuditStep DEF IInv
<1>3. QED
  BY <1>1, <1>2, PTL DEF Spec

(* The stores keep their shape whatever raises and whenever a run is killed,
   and the DQ results are those of the sources that have a frame.          *)
THEOREM TypeCorrect == Spec => []TypeOK
<1>1. IInv => TypeOK
  BY DEF IInv, TypeInv, StoresType, ProcessType, MemoryType, ResultsInv, AuditInv, TypeOK
<1>2. QED
  BY <1>1, Invariant, PTL

(* "One bad source does NOT kill the batch", but a batch is successful only
   with a whole partition of every artifact on disk (run.py:694), or with
   all the rows of its source in quarantine: for any number of bad rows,
   after any faults, kills in the middle of a write, and re-runs.          *)
THEOREM SuccessIsComplete == Spec => []SuccessHasEveryArtifact
<1>1. IInv => SuccessHasEveryArtifact
  BY DEF IInv, ResultsInv
<1>2. QED
  BY <1>1, Invariant, PTL

(* While no step raises and the referenced sources can be read, no row that
   breaks a critical rule is in Silver, for any rules and numbers of rows
   (run.py:373-374), also after kills and re-runs.                         *)
THEOREM SilverIsClean == Spec => []DirtyRowsNeverReachSilver
<1>1. IInv => DirtyRowsNeverReachSilver
  <2> SUFFICES ASSUME IInv, NEW s \in Source, NEW b \in Batch, Whole(s, b),
                      faults = 0, \A r \in References[s] : readable[<<r, b>>]
               PROVE  silver[<<s, b>>].bad = 0
    BY DEF DirtyRowsNeverReachSilver
  <2>1. silver[<<s, b>>].bad + BadRows[s] = BadRows[s]
    BY DEF IInv, QuietInv, QuietStores, Refused
  <2>2. silver[<<s, b>>].bad \in Nat /\ BadRows[s] \in Nat
    BY SilverAssumption DEF IInv, TypeInv, StoresType, Frame, Whole
  <2>3. QED
    BY <2>1, <2>2
<1>2. QED
  BY <1>1, Invariant, PTL

RowsInv == AmountInv /\ FilesInv /\ FirstRows /\ (faults = 0 => QuietSilver)

LEMMA InitRows == Init => RowsInv
<1> SUFFICES ASSUME Init PROVE QuietSilver
  BY InitAmount, InitFiles, FirstRowsInit DEF RowsInv
<1>1. QuietRead /\ QuietBuilt
  BY NoFrames DEF Init, QuietRead, QuietBuilt
<1>2. QuietProgress /\ QuietReport /\ QuietSuccess
  BY DEF Init, QuietProgress, QuietReport, QuietSuccess, Succeeded
<1>3. QED
  BY <1>1, <1>2, QuietRowsInit DEF QuietSilver

LEMMA RowsStep == ASSUME IInv, RowsInv, [Next]_vars PROVE RowsInv'
<1> USE DEF IInv, RowsInv
<1>1. AmountInv' /\ FilesInv' /\ FirstRows'
  BY AmountStep, FilesStep, FirstRowsStep
<1>2. ASSUME faults' = 0 PROVE QuietSilver'
  <2>1. faults = 0 /\ QuietFrames /\ QuietStores /\ QuietSilver
    BY <1>2, FaultsGrow DEF QuietInv
  <2>2. QuietRead' /\ QuietBuilt'
    BY <1>2, <2>1, QuietReadStep, QuietBuiltStep DEF QuietSilver
  <2>3. QuietRows' /\ QuietProgress' /\ QuietReport'
    BY <1>2, <2>1, QuietRowsStep, ProgressStep, ReportStep DEF QuietSilver
  <2>4. QuietSuccess'
    BY <1>2, <2>1, SuccessStep
  <2>5. QED
    BY <2>2, <2>3, <2>4 DEF QuietSilver
<1>3. QED
  BY <1>1, <1>2

LEMMA RowsInvariant == Spec => [](IInv /\ RowsInv)
<1>1. Init => RowsInv
  BY InitRows
<1>2. IInv /\ RowsInv /\ [Next]_vars => RowsInv'
  BY RowsStep
<1>3. QED
  BY <1>1, <1>2, Invariant, PTL DEF Spec

(* A partition that is not there, or not whole, gives no row. *)
LEMMA KeptRows ==
    ASSUME IInv, NEW s \in Source, NEW b \in Batch
    PROVE  /\ Kept(s, b) \in Nat
           /\ Whole(s, b) => Kept(s, b) = silver[<<s, b>>].rows
           /\ ~Whole(s, b) => Kept(s, b) = 0
BY DEF IInv, TypeInv, StoresType, Kept, Whole, Frame

(* What a success holds: the rows that DQ has not refused. *)
LEMMA SuccessKeeps ==
    ASSUME IInv, NEW s \in Source, NEW b \in Batch, Succeeded(b),
           Rejected(s, b) = Refused(s, b), faults = 0, Whole(s, b) \/ History[s] = 0
    PROVE  Kept(s, b) + Refused(s, b) = RowsOf[s] + History[s]
<1>1. CASE Whole(s, b)
  BY <1>1, KeptRows DEF IInv, QuietInv, QuietStores
<1>2. CASE ~Whole(s, b)
  <2>1. NothingLeft(s, b)
    BY <1>2 DEF IInv, ResultsInv, SuccessHasEveryArtifact
  <2>2. RowsOf[s] \in Nat /\ RowsOf[s] \notin {NULL, Torn}
    BY SilverAssumption, AuditAssumption DEF Count
  <2>3. Refused(s, b) = RowsOf[s]
    BY <2>1, <2>2 DEF NothingLeft, Rejected
  <2>4. QED
    BY <1>2, <2>1, <2>2, <2>3, KeptRows DEF NothingLeft
<1>3. QED
  BY <1>1, <1>2

(* DQ and quarantine lose no row and double none (run.py:403-458): in a first
   run from the moment the artifact is on disk, whatever raises; and in every
   success after kills and re-runs in which nothing does, although a kill may
   take away either partition in the middle of a rewrite.                  *)
THEOREM RowsAreKept == Spec => []RowsAreConserved
<1>1. IInv /\ RowsInv => RowsAreConserved
  <2> SUFFICES ASSUME IInv, RowsInv, NEW s \in Source, NEW b \in Batch,
                      \/ attempts[b] = 1 /\ (Whole(s, b) \/ Succeeded(b))
                      \/ Succeeded(b) /\ faults = 0 /\ History[s] = 0
               PROVE  Kept(s, b) + Rejected(s, b) = RowsOf[s] + History[s]
    BY DEF RowsAreConserved
  <2>1. CASE attempts[b] = 1 /\ Whole(s, b)
    BY <2>1, KeptRows DEF IInv, FirstInv, FirstStores
  <2>2. CASE attempts[b] = 1 /\ Succeeded(b) /\ ~Whole(s, b)
    <3>1. NothingLeft(s, b)
      BY <2>2 DEF IInv, ResultsInv, SuccessHasEveryArtifact
    <3>2. RowsOf[s] \in Nat /\ RowsOf[s] \notin {NULL, Torn}
      BY SilverAssumption, AuditAssumption DEF Count
    <3>3. QED
      BY <2>2, <3>1, <3>2, KeptRows DEF NothingLeft, Rejected
  <2>3. CASE Succeeded(b) /\ faults = 0 /\ History[s] = 0
    <3>1. Rejected(s, b) = Refused(s, b)
      BY <2>3 DEF RowsInv, QuietSilver, QuietSuccess, Settled
    <3>2. QED
      BY <2>3, <3>1, SuccessKeeps
  <2>4. QED
    BY <2>1, <2>2, <2>3
<1>2. QED
  BY <1>1, RowsInvariant, PTL

(* A layer recorded as successful is recorded file by file too, with the rows
   on disk (run.py:480-499, 664-691): for any sources and any dependencies
   between them, after kills and re-runs in which nothing raises.          *)
THEOREM SuccessIsRecorded == Spec => []SuccessMeansTransformed
<1>1. IInv /\ RowsInv => SuccessMeansTransformed
  <2> SUFFICES ASSUME IInv, RowsInv, NEW b \in Batch, NEW s \in Source,
                      Succeeded(b), Landed(s, b), faults = 0
               PROVE  /\ AuditRow(s, b).status = "transformed"
                      /\ AuditRow(s, b).silver_rows = Kept(s, b)
    BY DEF SuccessMeansTransformed
  <2>1. AuditRow(s, b).status = "transformed"
    BY DEF RowsInv, QuietSilver, QuietSuccess, Settled
  <2>2. /\ AuditRow(s, b).silver_rows # NULL
        /\ AuditRow(s, b).silver_rows + Refused(s, b) = RowsOf[s] + History[s]
    BY <2>1 DEF RowsInv, QuietSilver, QuietRows, QuietRow, Landed
  <2>3. /\ Rejected(s, b) = Refused(s, b)
        /\ Whole(s, b) \/ History[s] = 0
    BY DEF RowsInv, QuietSilver, QuietSuccess, Settled, IInv, ResultsInv, SuccessHasEveryArtifact,
           NothingLeft
  <2>4. Kept(s, b) + Refused(s, b) = RowsOf[s] + History[s] /\ Kept(s, b) \in Nat
    BY <2>3, SuccessKeeps, KeptRows
  <2>5. AuditRow(s, b).silver_rows \in Nat
    BY <2>2, RowColumns DEF IInv, Landed, Row, Count
  <2>6. QED
    BY <2>1, <2>2, <2>4, <2>5, Amounts DEF IInv
<1>2. QED
  BY <1>1, RowsInvariant, PTL

(* What reconcile_batch finds of a batch that succeeded is never CRITICAL,
   where the artifact has the rows of the batch alone (ADR-0001:88,
   audit.py:1078), but for complete_silver_loss of a source all of whose rows
   are in quarantine: for any numbers of bad rows, in a first run whatever
   raises, and after kills and re-runs in which nothing does.              *)
THEOREM SuccessIsReconciled == Spec => []SuccessReconciles
<1>1. IInv /\ RowsInv => SuccessReconciles
  <2> SUFFICES ASSUME IInv, RowsInv, NEW b \in Batch, Succeeded(b), attempts[b] = 1 \/ faults = 0,
                      NEW s \in Source, ReconcilesOn(s, b), History[s] = 0,
                      NEW f \in Findings(AuditRow(s, b)), f[1] = "CRITICAL"
               PROVE  f[2] = "complete_silver_loss" /\ NothingLeft(s, b)
    BY DEF SuccessReconciles
  <2> DEFINE r == AuditRow(s, b)
  <2>1. /\ r \in Row /\ r.source_rows = r.bronze_rows
        /\ r.bronze_rows = RowsOf[s] \/ r.bronze_rows = NULL
    BY RowColumns DEF IInv, RowsInv, FilesInv
  <2>2. PICK n \in Nat :
           /\ n <= BadRows[s] /\ n = Rejected(s, b)
           /\ r.rejected_rows = NULL \/ r.rejected_rows = n
           /\ r.silver_rows = NULL \/ r.silver_rows + n = RowsOf[s]
    <3>1. Refused(s, b) \in Nat /\ Rejected(s, b) \in Nat /\ RowsOf[s] \in Nat
          /\ Refused(s, b) <= BadRows[s] /\ Rejected(s, b) <= BadRows[s]
      BY Amounts DEF IInv, RowsInv, AmountInv
    <3>2. CASE attempts[b] = 1
      <4>1. /\ r.rejected_rows = NULL \/ r.rejected_rows = Rejected(s, b)
            /\ r.silver_rows = NULL \/ r.silver_rows + Rejected(s, b) = RowsOf[s]
        BY <3>1, <3>2 DEF RowsInv, FirstRows, FirstRow
      <4>2. QED
        BY <3>1, <4>1
    <3>3. CASE faults = 0
      <4>1. /\ r.rejected_rows = NULL \/ r.rejected_rows = Refused(s, b)
            /\ r.silver_rows = NULL \/ r.silver_rows + Refused(s, b) = RowsOf[s]
        BY <3>1, <3>3 DEF RowsInv, QuietSilver, QuietRows, QuietRow
      <4>2. Rejected(s, b) = Refused(s, b)
        BY <3>3 DEF RowsInv, QuietSilver, QuietSuccess, Settled
      <4>3. QED
        BY <3>1, <4>1, <4>2
    <3>4. QED
      BY <3>2, <3>3
  <2>3. /\ RowsOf[s] \in Nat /\ BadRows[s] \in Nat /\ BadRows[s] <= RowsOf[s]
        /\ r.silver_rows \in Nat \cup {NULL} /\ NULL \notin Nat
    BY <2>1, Amounts, AuditAssumption DEF IInv, Row, Count
  <2>4. ~Inflated(r)
    BY <2>1, <2>3 DEF Inflated
  <2>5. ~Drifted(r)
    BY <2>1, <2>2, <2>3 DEF Drifted
  <2>6. LostAll(r) => NothingLeft(s, b)
    <3>1. LostAll(r) => Rejected(s, b) = RowsOf[s] /\ RowsOf[s] > 0
      BY <2>1, <2>2, <2>3 DEF LostAll
    <3>2. Rejected(s, b) > 0 => Rejected(s, b) = rejected[<<s, b>>]
      BY DEF Rejected
    <3>3. QED
      BY <3>1, <3>2 DEF NothingLeft
  <2>7. f[2] = "complete_silver_loss" /\ LostAll(r)
    BY <2>4, <2>5 DEF Findings
  <2>8. QED
    BY <2>6, <2>7
<1>2. QED
  BY <1>1, RowsInvariant, PTL

(* The report that the gate reads after a quiet success is there and counts
   what the quarantine partitions of the batch hold (run.py:473,
   airflow_wrappers.py:170).                                               *)
THEOREM GateIsInformed == Spec => []GateSeesTheQuarantine
<1>1. IInv /\ RowsInv => GateSeesTheQuarantine
  <2> SUFFICES ASSUME IInv, RowsInv, NEW b \in Batch, Succeeded(b), faults = 0
               PROVE  /\ b \in DOMAIN dq_reports
                      /\ dq_reports[b].quarantined = SumOver([s \in Source |-> Rejected(s, b)])
    BY DEF GateSeesTheQuarantine
  <2>1. Settled(b)
    BY DEF RowsInv, QuietSilver, QuietSuccess
  <2>2. QED
    BY <2>1 DEF Settled
<1>2. QED
  BY <1>1, RowsInvariant, PTL

(* "TRANSFORMED: terminal success" (audit.py:115), while no step raises: a
   builder that cannot succeed in a later run could not in the run that
   transformed the file, so that no re-run marks it failed (audit.py:740),
   unless a kill has left a dimension torn.                                *)
THEOREM TransformedStays == Spec => TransformedIsTerminal
<1>1. IInv /\ RowsInv /\ [Next]_vars =>
         \A k \in DOMAIN file_audit :
            /\ file_audit[k].status = "transformed" /\ faults' = 0
            /\ \A s \in Versioned, b \in Batch : silver[<<s, b>>] # Torn
            => file_audit'[k].status = "transformed"
  <2> SUFFICES ASSUME IInv, RowsInv, [Next]_vars, NEW k \in DOMAIN file_audit,
                      file_audit[k].status = "transformed", faults' = 0, ~TornDim
               PROVE  file_audit'[k].status = "transformed"
    BY DEF TornDim
  <2>1. PICK b \in Batch, s \in Source : k = KeyOf(b, s)
    BY DEF RowsInv, FilesInv
  <2>2. ReconcilesOn(s, b) /\ AuditRow(s, b).status = "transformed" /\ AuditRow(s, b) \in Row
    BY <2>1, RowColumns DEF ReconcilesOn, AuditRow, IInv
  <2>3. file_audit'[k] = AuditRow(s, b)'
    BY <2>1 DEF AuditRow, KeyOf
  <2>4. faults = 0 /\ QuietSilver
    BY FaultsGrow DEF IInv, RowsInv
  <2>5. CASE file_audit' = file_audit
    BY <2>5
  <2>6. CASE RecordQuarantine
    BY <2>2, <2>3, <2>6, RecordsOne DEF IInv, RowsInv, Row
  <2>7. CASE MarkTransforming
    BY <2>2, <2>3, <2>7, MarksOne DEF IInv, RowsInv
  <2>8. CASE FinaliseSource
    <3>1. <<s, b>> = here => results[source] = "written"
      <4>1. Buildable(s, b)
        BY <2>2, <2>4 DEF QuietSilver, QuietRows, QuietRow
      <4>2. QED
        BY <2>4, <2>8, <4>1, BuiltIsAll DEF IInv, QuietSilver, FinaliseSource, here
    <3>2. QED
      BY <2>2, <2>3, <2>8, <3>1, FinalisesOne DEF IInv, RowsInv, Row
  <2>9. QED
    BY <2>5, <2>6, <2>7, <2>8, FilesStay
<1>2. QED
  BY <1>1, RowsInvariant, PTL DEF Spec, TransformedIsTerminal
=============================================================================
