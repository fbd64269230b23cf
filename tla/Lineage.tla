------------------------------- MODULE Lineage -------------------------------
(***************************************************************************)
(* The lineage of a data set (malapp/governance/datasets.py) and its       *)
(* leakage audit (malapp/governance/leakage.py).                           *)
(*                                                                         *)
(* A record of a source is a row of the lineage once its tier, partition   *)
(* and group are settled.  An identity is one value per kind; file hashes  *)
(* are one kind, so are the digests of a certificate, and the package name *)
(* is left out (the audit does not look at it but through the group).      *)
(***************************************************************************)
EXTENDS Integers, FiniteSets, Sequences, SequencesExt

CONSTANT None             \* an empty field

Tiers == {"raw", "silver", "human_reviewed", "gold"}
PARTITIONS == {"raw", "train", "dev", "test", "calibration", "challenge", "shadow"}
Kinds == {"certificate", "family", "apk"}

\* normalize_label_tier and normalize_partition: an alias for each, and an error
\* for what is neither.
TierOf(record) == IF record.tier = None THEN "raw" ELSE record.tier
PartitionOf(record) ==
    CASE record.partition = None -> "raw"
      [] record.partition = "validation" -> "dev"
      [] record.partition = "holdout" -> "test"
      [] OTHER -> record.partition

\* _derive_group_key: the strongest identity a record has.
DerivedGroup(record) ==
    CASE record.certificate # None -> <<"certificate", record.certificate>>
      [] record.family # None -> <<"family", record.family>>
      [] record.apk # None -> <<"apk", record.apk>>
      [] OTHER -> <<"sample", record.id>>

GroupOf(record) == IF record.group # None THEN record.group ELSE DerivedGroup(record)

\* normalize_lineage_record raises for a record without an id, and for a gold one
\* that no label comes with.
Sound(record) ==
    /\ record.id # None
    /\ TierOf(record) \in Tiers /\ PartitionOf(record) \in PARTITIONS
    /\ TierOf(record) = "gold" => record.label # None

RowOf(record) ==
    [id |-> record.id, group |-> GroupOf(record), tier |-> TierOf(record),
     partition |-> PartitionOf(record), derived |-> record.derived,
     certificate |-> record.certificate, family |-> record.family, apk |-> record.apk]

\* The lineage of a list of records, or nothing when one of them is refused.
RowsOf(records) ==
    IF records # <<>> /\ \A n \in DOMAIN records : Sound(records[n])
    THEN [n \in DOMAIN records |-> RowOf(records[n])] ELSE <<>>

(* -------------------------------- audit ------------------------------- *)

Partitions(rows) == {rows[n].partition : n \in DOMAIN rows}

\* _cross_partition_check and _identity_check.
Crosses(rows, key) ==
    \E m, n \in DOMAIN rows :
        /\ rows[m][key] # None /\ rows[m][key] = rows[n][key]
        /\ rows[m].partition # rows[n].partition

\* _duplicate_within_partition_check.
Repeats(rows) ==
    \E m, n \in DOMAIN rows :
        m # n /\ rows[m].id = rows[n].id /\ rows[m].partition = rows[n].partition

\* _label_feature_check.
TellsLabel(rows) == \E n \in DOMAIN rows : rows[n].derived

\* _reserved_boundary_check.
Tuning == {"train", "dev", "calibration"}
Reserves(rows, reserved) ==
    \E n \in DOMAIN rows : rows[n].partition \in Tuning /\ rows[n].id \in reserved

\* audit_lineage_records: what is missing blocks, before any check fails.
Audit(rows, required, reserved) ==
    IF rows = <<>> \/ ~(required \subseteq Partitions(rows)) THEN "blocked"
    ELSE IF \/ \E key \in Kinds \cup {"id", "group"} : Crosses(rows, key)
            \/ Repeats(rows) \/ TellsLabel(rows) \/ Reserves(rows, reserved)
         THEN "fail" ELSE "pass"
===============================================================================
