---------------------------- MODULE SampleImport ----------------------------
(***************************************************************************)
(* How samples get into the database mvp.db: the requests of dashboard.py  *)
(* and preprocess.py, each record in a transaction of its own, and the     *)
(* programs under scripts/data, which hold one transaction, and with it    *)
(* SQLite's only write lock, over many rows.  The fields of a record are   *)
(* what load_feature_context merges again; parsing and wording are left    *)
(* out, as is the registry of field names.                                 *)
(***************************************************************************)
EXTENDS Integers, Sequences, SequencesExt, FiniteSetsExt

CONSTANTS
    Samples,        \* MD5s
    Casts,          \* sets of programs that run beside each other: name |-> plan
    ChunkRows,      \* rows a workbook import saves between two commits
    PullLimit,      \* the limit of pull_conflict_samples
    MaxCrashes      \* a bound

\* A plan: the kind of the program and the sheets, or the items, it is to import.
Served == {"upload", "ingest", "pull"}
Kinds == Served \cup {"workbook", "engines", "labels", "enrich", "boot"}

\* The rows of a plan, each of a sample or of none; an engine's row is of one of the
\* two engines, a row of the label workbook has a label.
Engines == {"360", "cm"}
Unnamed == "none"
NoLabel == "none"
NoDetection == [score |-> 0, type |-> "none"]
IsRow(kind, record) ==
    /\ record.md5 \in Samples \cup {Unnamed}
    /\ kind = "engines" => record.detection # NoDetection
    /\ kind = "labels" => record.label # NoLabel
IsPlan(plan) ==
    /\ plan.kind \in Kinds
    /\ plan.kind # "boot" =>
          /\ plan.sheets # <<>> /\ plan.sheets \in Seq(ToSet(plan.sheets))
          /\ \A sheet \in ToSet(plan.sheets) :
                /\ sheet.rows \in Seq(ToSet(sheet.rows))
                /\ \A record \in ToSet(sheet.rows) : IsRow(plan.kind, record)
                /\ plan.kind = "engines" => sheet.source \in Engines
                /\ plan.kind \in {"pull", "enrich"} => sheet.rows = <<>>

ASSUME ImportAssumption ==
    /\ IsFiniteSet(Samples) /\ Unnamed \notin Samples
    /\ \A plans \in Casts : "none" \notin DOMAIN plans /\ \A p \in DOMAIN plans : IsPlan(plans[p])
    /\ ChunkRows \in Nat \ {0} /\ PullLimit \in Nat /\ MaxCrashes \in Nat

VARIABLES
    cast,
    store,          \* the tables, as committed
    holder,         \* the program whose transaction holds the write lock, or "none"
    draft,          \* the tables as that transaction sees them
    prog,           \* where each program is
    reported,       \* what programs that ended said they imported
    crashes

importVars == <<cast, store, holder, draft, prog, reported, crashes>>

NotQueued == 0

Programs == DOMAIN cast
Kind(p) == cast[p].kind
EmptyStore ==
    [features |-> <<>>,                                \* sample_features
     tasks |-> [m \in Samples |-> NotQueued],          \* sample_tasks: 1 + priority_score
     items |-> [p \in Programs |-> {}],                \* batch_items of p's import batch
     totals |-> [p \in Programs |-> 0],                \* its total_count
     manual |-> [m \in Samples |-> NoLabel],           \* manual_labels
     apps |-> [m \in Samples |-> NoLabel],             \* app_md5_labels
     fetched |-> [m \in Samples |-> "none"],           \* app_md5_api_cache: status
     detections |-> [e \in Engines |-> [m \in Samples |-> NoDetection]]]

Ready == [at |-> "idle", sheet |-> 1, left |-> <<>>, rows |-> 0, saved |-> {}]

ImportInit ==
    /\ cast \in Casts
    /\ store = EmptyStore /\ holder = "none" /\ draft = EmptyStore
    /\ prog = [p \in Programs |-> Ready] /\ reported = {} /\ crashes = 0

(* ---------------------------- saving a record -------------------------- *)

\* compute_priority: what makes a sample urgent.
Urgency == [conflict_type |-> 40, human_label |-> 30, fake_app |-> 20, fraud_business |-> 20,
            fraud_url |-> 20, many_iocs |-> 10]
PriorityOf(record) ==
    LET part(u) == IF u \in record.urgent THEN Urgency[u] ELSE 0
    IN  Min({100, part("conflict_type") + part("human_label") + part("fake_app")
                  + part("fraud_business") + part("fraud_url") + part("many_iocs")})

\* save_feature_record: the record unless it is there already, the task with the
\* higher of its priorities, the item of the batch.
Row(record, source) == [md5 |-> record.md5, source |-> source, record |-> record]
Saved(s, record, source, batch) ==
    [s EXCEPT
        !.features = IF Row(record, source) \in ToSet(@) THEN @ ELSE Append(@, Row(record, source)),
        !.tasks[record.md5] = Max({@, 1 + PriorityOf(record)}),
        !.items = [p \in Programs |-> IF p = batch THEN @[p] \cup {record.md5} ELSE @[p]]]

\* What a program tells of a row it has saved.
Claim(into, record, source, batch) ==
    [into |-> into, record |-> record, source |-> source, batch |-> batch]
BatchFor(p) == IF Kind(p) = "ingest" THEN "none" ELSE p
Claims(p, record, source) ==
    CASE Kind(p) \in Served -> {Claim("features", record, source, BatchFor(p))}
      [] Kind(p) = "workbook" ->
            {Claim("features", record, source, "none")}
            \cup (IF record.label = NoLabel THEN {} ELSE {Claim("manual", record, source, "none")})
      [] OTHER -> {Claim(Kind(p), record, source, "none")}

\* load_feature_context: of each field the value that was saved first, the indicators
\* of all records (merge_network_packages), the static package of the last.
Context(md5) ==
    LET record(n) == store.features[n].record
        rows == {n \in DOMAIN store.features : store.features[n].md5 = md5}
        names == UNION {DOMAIN record(n).fields : n \in rows}
        first(name) == Min({n \in rows : name \in DOMAIN record(n).fields})
    IN  [fields |-> [name \in names |-> record(first(name)).fields[name]],
         iocs |-> UNION {record(n).iocs : n \in rows},
         static |-> IF rows = {} THEN {} ELSE {record(Max(rows))}]

(* --------------------------- requests and rows ------------------------- *)

Step(p, at) == prog' = [prog EXCEPT ![p].at = at]
Free == holder = "none"
Rest(p) == prog[p].left
Source(p) == cast[p].sheets[prog[p].sheet].source
SheetRows(p, n) == cast[p].sheets[n].rows

\* Two engines disagree on a sample.
Gap(m) ==
    LET score(e) == store.detections[e][m].score
    IN  Max({score("360"), score("cm")}) - Min({score("360"), score("cm")})
Conflicting ==
    {m \in Samples :
        /\ \A e \in Engines : store.detections[e][m] # NoDetection
        /\ Gap(m) >= 35 \/ store.detections["360"][m].type # store.detections["cm"][m].type}
Pulled(m) ==
    [md5 |-> m, urgent |-> {"conflict_type"}, iocs |-> {}, label |-> NoLabel,
     fields |-> [engine_a |-> store.detections["360"][m], engine_b |-> store.detections["cm"][m]]]
\* The widest gaps first, up to the limit.
Pulls ==
    {SubSeq(q, 1, Min({PullLimit, Len(q)})) :
        q \in {x \in SetToSeqs(Conflicting) : \A i, j \in DOMAIN x : i < j => Gap(x[i]) >= Gap(x[j])}}

\* md5s_for_enrichment: those of the labels that were never asked for.
ToEnrich == {m \in Samples : store.apps[m] # NoLabel /\ store.fetched[m] = "none"}

\* A program begins.  The server serves when it has booted; a pull of nothing ends.
Begin(p) ==
    /\ prog[p].at = "idle"
    /\ Kind(p) \in Served => \A q \in Programs : Kind(q) = "boot" => prog[q].at \in {"ended", "dead"}
    /\ \/ /\ Kind(p) \in {"upload", "ingest", "workbook", "engines", "labels"}
          /\ prog' = [prog EXCEPT ![p].at = IF Kind(p) = "upload" THEN "opening" ELSE "running",
                                  ![p].left = SheetRows(p, 1)]
       \/ /\ Kind(p) = "pull"
          /\ \E q \in Pulls :
                prog' = [prog EXCEPT ![p].at = IF q = <<>> THEN "ended" ELSE "opening",
                                     ![p].left = [n \in DOMAIN q |-> Pulled(q[n])]]
       \/ /\ Kind(p) = "enrich"
          /\ prog' = [prog EXCEPT ![p].at = "running",
                ![p].left = [n \in 1..Cardinality(ToEnrich) |->
                                [md5 |-> SetToSeq(ToEnrich)[n], label |-> "ok"]]]
       \/ Kind(p) = "boot" /\ Step(p, "running")
    /\ UNCHANGED <<cast, store, holder, draft, reported, crashes>>

\* create_import_batch.
OpenBatch(p) ==
    /\ prog[p].at = "opening" /\ Free
    /\ Step(p, "running")
    /\ UNCHANGED <<cast, store, holder, draft, reported, crashes>>

\* The record of a request, in a transaction of its own.
Serve(p) ==
    /\ Kind(p) \in Served /\ prog[p].at = "running" /\ Rest(p) # <<>>
    /\ Free /\ Head(Rest(p)).md5 # Unnamed
    /\ store' = Saved(store, Head(Rest(p)), Source(p), BatchFor(p))
    /\ prog' = [prog EXCEPT ![p].left = Tail(@),
                            ![p].saved = @ \cup Claims(p, Head(Rest(p)), Source(p))]
    /\ UNCHANGED <<cast, holder, draft, reported, crashes>>

\* A record without an MD5, or a write that waited five seconds for the lock, raises:
\* an upload counts it and goes on, anything else ends there.
Fail(p) ==
    /\ Kind(p) \in Served
    /\ \/ prog[p].at = "opening" /\ ~Free /\ Step(p, "raised")
       \/ /\ prog[p].at = "running" /\ Rest(p) # <<>>
          /\ ~Free \/ Head(Rest(p)).md5 = Unnamed
          /\ IF Kind(p) = "upload" THEN prog' = [prog EXCEPT ![p].left = Tail(@)]
             ELSE Step(p, "raised")
       \/ prog[p].at = "running" /\ Rest(p) = <<>> /\ ~Free /\ Kind(p) # "ingest" /\ Step(p, "raised")
    /\ UNCHANGED <<cast, store, holder, draft, reported, crashes>>

\* finalize_import_batch, and the answer.
Answered(p) ==
    /\ Kind(p) \in Served /\ prog[p].at = "running" /\ Rest(p) = <<>>
    /\ IF Kind(p) = "ingest" THEN UNCHANGED store
       ELSE Free /\ store' = [store EXCEPT !.totals[p] = Cardinality(store.items[p])]
    /\ Step(p, "ended") /\ reported' = reported \cup prog[p].saved
    /\ UNCHANGED <<cast, holder, draft, crashes>>

(* ------------------------------ workbooks ------------------------------ *)

\* What a row of a program's transaction writes: the record, with the manual label of
\* a conflict workbook; an engine's detection; an app label; a fetched answer.
Written(s, p, record) ==
    CASE Kind(p) = "workbook" ->
            [Saved(s, record, Source(p), "none") EXCEPT
                !.manual[record.md5] = IF record.label = NoLabel THEN @ ELSE record.label]
      [] Kind(p) = "engines" -> [s EXCEPT !.detections[Source(p)][record.md5] = record.detection]
      [] Kind(p) = "labels" -> [s EXCEPT !.apps[record.md5] = record.label]
      [] Kind(p) = "enrich" -> [s EXCEPT !.fetched[record.md5] = record.label]

\* The transaction ends.  Mutant: the connection is closed without a commit.
Close_Lost(p) == UNCHANGED store /\ holder' = "none" /\ draft' = EmptyStore
Close(p) ==
    /\ store' = IF holder = p THEN draft ELSE store
    /\ holder' = "none" /\ draft' = EmptyStore

\* The next row.  The first one takes the lock, an answer that failed is a row too,
\* a row without an MD5 is passed over; a workbook import commits every ChunkRows rows.
Load(p, record) ==
    LET s == Written(IF holder = p THEN draft ELSE store, p, record)
        full == Kind(p) = "workbook" /\ prog[p].rows + 1 = ChunkRows
    IN  /\ IF full THEN store' = s /\ holder' = "none" /\ draft' = EmptyStore
           ELSE draft' = s /\ holder' = p /\ UNCHANGED store
        /\ prog' = [prog EXCEPT ![p].left = Tail(@), ![p].rows = IF full THEN 0 ELSE @ + 1,
                                ![p].saved = @ \cup Claims(p, record, Source(p))]
Loads(p) == Kind(p) \notin Served \cup {"boot"} /\ prog[p].at = "running"
LoadRow(p) ==
    /\ Loads(p) /\ Rest(p) # <<>>
    /\ \/ /\ Head(Rest(p)).md5 = Unnamed
          /\ prog' = [prog EXCEPT ![p].left = Tail(@)]
          /\ UNCHANGED <<store, holder, draft>>
       \/ /\ Head(Rest(p)).md5 # Unnamed /\ holder \in {"none", p}
          /\ \/ Load(p, Head(Rest(p)))
             \/ Kind(p) = "enrich" /\ Load(p, [Head(Rest(p)) EXCEPT !.label = "failed"])
       \/ /\ Head(Rest(p)).md5 # Unnamed /\ holder \notin {"none", p}
          /\ Step(p, "raised") /\ UNCHANGED <<store, holder, draft>>
    /\ UNCHANGED <<cast, reported, crashes>>

\* The end of a sheet: its transaction is closed, the next sheet follows, or the
\* program prints its counts.
EndSheet(p) ==
    /\ Loads(p) /\ Rest(p) = <<>> /\ holder \in {"none", p}
    /\ Close(p)
    /\ IF prog[p].sheet < Len(cast[p].sheets)
       THEN /\ prog' = [prog EXCEPT ![p].sheet = @ + 1, ![p].rows = 0,
                                    ![p].left = SheetRows(p, prog[p].sheet + 1)]
            /\ UNCHANGED reported
       ELSE Step(p, "ended") /\ reported' = reported \cup prog[p].saved
    /\ UNCHANGED <<cast, crashes>>

(* ------------------------------- the boot ------------------------------ *)

\* reset_runtime_state clears table after table in one transaction.  While another
\* program holds the lock a table is passed over after five seconds.
Cleared == <<"items", "totals", "tasks", "features">>
PassOver(p) ==
    /\ Kind(p) = "boot" /\ prog[p].at = "running" /\ ~Free
    /\ prog[p].rows < Len(Cleared)
    /\ prog' = [prog EXCEPT ![p].rows = @ + 1]
    /\ UNCHANGED <<cast, store, holder, draft, reported, crashes>>

Standing(claims) == {c \in claims : c.into # "features"}
Reset(p) ==
    /\ Kind(p) = "boot" /\ prog[p].at = "running"
    /\ LET gone == {Cleared[n] : n \in prog[p].rows + 1..Len(Cleared)}
       IN  IF gone = {} THEN Step(p, "ended") /\ UNCHANGED <<store, reported>>
           ELSE /\ Free
                /\ store' = [t \in DOMAIN store |-> IF t \in gone THEN EmptyStore[t] ELSE store[t]]
                /\ reported' = Standing(reported)
                /\ prog' = [q \in Programs |->
                      [prog[q] EXCEPT !.saved = Standing(@), !.at = IF q = p THEN "ended" ELSE @]]
    /\ UNCHANGED <<cast, holder, draft, crashes>>

\* A program is killed; SQLite rolls its transaction back.
Killed(p) ==
    /\ prog[p].at \in {"opening", "running"} /\ crashes < MaxCrashes
    /\ Step(p, "dead") /\ crashes' = crashes + 1
    /\ IF holder = p THEN holder' = "none" /\ draft' = EmptyStore ELSE UNCHANGED <<holder, draft>>
    /\ UNCHANGED <<cast, store, reported>>

ImportNext == \E p \in Programs :
    \/ Begin(p) \/ OpenBatch(p) \/ Serve(p) \/ Fail(p) \/ Answered(p)
    \/ LoadRow(p) \/ EndSheet(p) \/ PassOver(p) \/ Reset(p) \/ Killed(p)
ImportSpec == ImportInit /\ [][ImportNext]_importVars

(* ------------------------------ properties ----------------------------- *)

\* What an import reports it has imported is there, whatever ran beside it, was killed
\* or waited for the lock, until the server is started with a reset: the record, a task
\* at least as urgent as the record asks for, the item of its batch, and every field and
\* indicator of it in what a judgement will read.
Kept(c) ==
    LET m == c.record.md5
    IN  CASE c.into = "features" ->
                /\ Row(c.record, c.source) \in ToSet(store.features)
                /\ store.tasks[m] >= 1 + PriorityOf(c.record)
                /\ c.batch # "none" => m \in store.items[c.batch]
                /\ DOMAIN c.record.fields \subseteq DOMAIN Context(m).fields
                /\ c.record.iocs \subseteq Context(m).iocs
          [] c.into = "manual" -> store.manual[m] # NoLabel
          [] c.into = "labels" -> store.apps[m] # NoLabel
          [] c.into = "enrich" -> store.fetched[m] # "none"
          [] c.into = "engines" -> store.detections[c.source][m] # NoDetection
ImportedIsKept == \A c \in reported : Kept(c)
=============================================================================
