------------------------------- MODULE DqRules -------------------------------
(***************************************************************************)
(* The data quality rules (src/src/dq/): what a rule says of a row, which  *)
(* rows of a source are quarantined, what the report counts and what the   *)
(* gate makes of it.                                                       *)
(*                                                                         *)
(* A frame is a function from row ids to rows, so that equal rows are      *)
(* still several; a row is a record, and NULL is a missing value (what     *)
(* to_records of the engine makes of it).  The rules are a constant, as    *)
(* the code reads them from a file.                                        *)
(***************************************************************************)
EXTENDS Integers, FiniteSets, FiniteSetsExt, Functions

CONSTANTS
    dq_rules,   \* configs/dq_rules.yaml
    NULL

NotNullRule(source, columns, severity) ==
    [ rule_type |-> "not_null", source |-> source, severity |-> severity, columns |-> columns ]

RangeRule(source, column, min, max, severity) ==
    [ rule_type |-> "range", source |-> source, severity |-> severity,
      column |-> column, min |-> min, max |-> max ]

UniqueRule(source, columns, severity) ==
    [ rule_type |-> "unique", source |-> source, severity |-> severity, columns |-> columns ]

ForeignKeyRule(source, column, references_source, references_column, severity) ==
    [ rule_type |-> "foreign_key", source |-> source, severity |-> severity, column |-> column,
      references_source |-> references_source, references_column |-> references_column ]

RulesForSource(source) == {rule \in dq_rules : rule.source = source}

-----------------------------------------------------------------------------
(* One rule on one row *)

PassesNotNull(rule, row) == \A c \in rule.columns : row[c] # NULL

(* A missing value is the business of the not-null rules. *)
PassesRange(rule, row) ==
    LET value == row[rule.column]
    IN  value # NULL => /\ rule.min # NULL => rule.min <= value
                        /\ rule.max # NULL => value <= rule.max

(* Every row whose key occurs more than once fails, the first one included;
   all rows are counted, whatever other rules say of them.                 *)
PassesUnique(rule, frame, i) ==
    \A j \in DOMAIN frame \ {i} : \E c \in rule.columns : frame[j][c] # frame[i][c]

(* Mutant: values are not looked up. *)
PassesForeignKeyAlways(rule, row, fk_lookups) == TRUE

(* Without a lookup every row passes; so does a missing value. *)
PassesForeignKey(rule, row, fk_lookups) ==
    LET key == <<rule.references_source, rule.references_column>>
    IN  key \in DOMAIN fk_lookups /\ row[rule.column] # NULL =>
            row[rule.column] \in fk_lookups[key]

PassesSchema(rule, row) == rule.expected_columns \subseteq DOMAIN row

Passes(rule, frame, i, fk_lookups) ==
    CASE rule.rule_type = "not_null"    -> PassesNotNull(rule, frame[i])
      [] rule.rule_type = "range"       -> PassesRange(rule, frame[i])
      [] rule.rule_type = "unique"      -> PassesUnique(rule, frame, i)
      [] rule.rule_type = "foreign_key" -> PassesForeignKey(rule, frame[i], fk_lookups)
      [] rule.rule_type = "schema"      -> PassesSchema(rule, frame[i])

-----------------------------------------------------------------------------
(* Foreign key lookups *)

(* What some foreign key rule refers to: <<source, column>>. *)
FkDependencies ==
    {<<rule.references_source, rule.references_column>> :
        rule \in {r \in dq_rules : r.rule_type = "foreign_key"}}

(* The values of the column in the Bronze rows of the source, good and bad;
   a source that cannot be resolved has no entry at all.                   *)
BuildFkLookups(bronze) ==
    [ dep \in {d \in FkDependencies : d[1] \in DOMAIN bronze} |->
        {bronze[dep[1]][i][dep[2]] : i \in DOMAIN bronze[dep[1]]} \ {NULL} ]

-----------------------------------------------------------------------------
(* One source *)

CriticalRules(source) == {rule \in RulesForSource(source) : rule.severity = "critical"}

RowsFailed(rule, frame, fk_lookups) == {i \in DOMAIN frame : ~Passes(rule, frame, i, fk_lookups)}

FailsCritical(source, frame, i, fk_lookups) ==
    \E rule \in CriticalRules(source) : ~Passes(rule, frame, i, fk_lookups)

(* run_dq_for_source: clean_rows and failing_rows. *)
CleanRows(source, frame, fk_lookups) ==
    Restrict(frame, {i \in DOMAIN frame : ~FailsCritical(source, frame, i, fk_lookups)})

FailingRows(source, frame, fk_lookups) ==
    Restrict(frame, {i \in DOMAIN frame : FailsCritical(source, frame, i, fk_lookups)})

(* The rules of a severity that fired. *)
Fired(source, severity, frame, fk_lookups) ==
    {rule \in RulesForSource(source) :
        rule.severity = severity /\ RowsFailed(rule, frame, fk_lookups) # {}}

(* build_source_report *)
SourceReport(source, frame, fk_lookups) ==
    [ rows_in           |-> Cardinality(DOMAIN frame),
      rows_quarantined  |-> Cardinality(DOMAIN FailingRows(source, frame, fk_lookups)),
      critical_failures |-> Cardinality(Fired(source, "critical", frame, fk_lookups)),
      warnings          |-> Cardinality(Fired(source, "warning", frame, fk_lookups)) ]

(* build_batch_report: the sums over the reports of the sources. *)
BatchReport(reports) ==
    [ field \in {"rows_in", "rows_quarantined", "critical_failures", "warnings"} |->
        MapThenSumSet(LAMBDA s : reports[s][field], DOMAIN reports) ]

(* dq_gate_task, the threshold in percent. *)
GateFails(report, quarantine_threshold_pct) ==
    /\ report.critical_failures > 0
    /\ report.rows_in > 0
    /\ report.rows_quarantined * 100 > quarantine_threshold_pct * report.rows_in
=============================================================================
