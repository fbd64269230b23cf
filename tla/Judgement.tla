------------------------------- MODULE Judgement -------------------------------
(***************************************************************************)
(* execute_judgement of malapp/application/judgement.py: concurrent calls  *)
(* that judge contents of one sample (the same md5 with different imported *)
(* features), with the stages of PipelineStages, the `judgements` rows,    *)
(* the `report_cache` rows and the model settings, which an operator may   *)
(* change at any time. What a stage computes is left out: it ends, is      *)
(* degraded, is skipped or raises. A report is the call that made it, with *)
(* what the cache and the readers of rows tell apart.                      *)
(***************************************************************************)
EXTENDS Naturals

CONSTANTS Calls, Contents, Models, NoCall,
          MaxFaults,               \* bounds: errors, crashes and degraded stages,
          MaxSettings, MaxExpiry   \* changes of settings, expiries

ASSUME JudgementAssumption ==
  /\ NoCall \notin Calls /\ Contents # {}
  /\ MaxFaults \in Nat /\ MaxSettings \in Nat /\ MaxExpiry \in Nat

VARIABLES
  settings,   \* the models of the settings file
  rows,       \* judgements, by report id
  cache,      \* report_cache, by content and model_cache_signature
  at,         \* where each call is
  content,    \*   what it judges
  stage,      \*   its PipelineStateMachine
  used,       \*   the models its agents and its debate used
  report,     \*   the report it is building or has found
  spent       \* what the bounds have used

vars == <<settings, rows, cache, at, content, stage, used, report, spent>>
memory == <<at, content, stage, used, report>>   \* of the calls
------------------------------------------------------------------------------
NORMALIZE == 1
STATIC_EXTRACTION == 2
AGENT_EXECUTION == 3
RAG_RETRIEVAL == 4
XGB_INFERENCE == 5
DEBATE == 6
FINAL_DECISION == 7
PERSIST == 8

Pipe == INSTANCE PipelineStages WITH N <- 8, status <- stage

Ended(st) == \A s \in 1..8 : st[s] \in Pipe!Terminal

\* A report: the call it is of, the content and whether Engine C ran for it (its
\* id digests both), the signature recorded and the models that were called,
\* whether all stages are terminal in its snapshot and, when it reuses history,
\* the call whose report it copies.
Report == [run: Calls \cup {NoCall}, content: Contents, executed: BOOLEAN, signature: Models,
           used: SUBSET Models, ended: BOOLEAN, source: Calls \cup {NoCall}]
Blank == [run |-> NoCall, content |-> CHOOSE k \in Contents : TRUE, executed |-> FALSE,
          signature |-> CHOOSE m \in Models : TRUE, used |-> {}, ended |-> FALSE,
          source |-> NoCall]
Id(r) == <<r.content, r.executed>>
\* A row of report_cache; written orders created_at, 0 means there is no row.
CacheRow == [report: Report, written: Nat, expired: BOOLEAN]
NoRow == [report |-> Blank, written |-> 0, expired |-> FALSE]

\* The six stages that compute, the place of each in the code and what follows.
Computes == [static |-> STATIC_EXTRACTION, agents |-> AGENT_EXECUTION, rag |-> RAG_RETRIEVAL,
             xgb |-> XGB_INFERENCE, debate |-> DEBATE, decision |-> FINAL_DECISION]
After == [static |-> "lookup", agents |-> "rag", rag |-> "xgb", xgb |-> "debate",
          debate |-> "decision", decision |-> "persist"]
Ends == {"idle", "done", "failed", "crashed", "stageError"}
Places == Ends \cup DOMAIN Computes \cup
          {"normalize", "lookup", "md5Lookup", "skipHit", "reuse", "skipAll", "skipInsert",
           "skipTrace", "persist", "build", "insert", "close", "finalInsert", "setCache"}

TypeOK ==
  /\ settings \in Models
  /\ rows \in [Contents \X BOOLEAN -> Report]
  /\ cache \in [Contents \X Models -> CacheRow]
  /\ at \in [Calls -> Places]
  /\ content \in [Calls -> Contents]
  /\ stage \in [Calls -> [1..8 -> Pipe!StageStatus]]
  /\ used \in [Calls -> SUBSET Models]
  /\ report \in [Calls -> Report]
  /\ spent \in [faults: Nat, settings: Nat, expiry: Nat, written: Nat]

Init ==
  /\ settings \in Models
  /\ rows = [i \in Contents \X BOOLEAN |-> Blank]
  /\ cache = [k \in Contents \X Models |-> NoRow]
  /\ at = [c \in Calls |-> "idle"]
  /\ content \in [Calls -> Contents]
  /\ stage = [c \in Calls |-> Pipe!Pending]
  /\ used = [c \in Calls |-> {}]
  /\ report = [c \in Calls |-> Blank]
  /\ spent = [faults |-> 0, settings |-> 0, expiry |-> 0, written |-> 0]
------------------------------------------------------------------------------
Go(c, place) == at' = [at EXCEPT ![c] = place]
Fault == /\ spent.faults < MaxFaults
         /\ spent' = [spent EXCEPT !.faults = @ + 1]
SetStage(c, s, st) == stage' = [stage EXCEPT ![c][s] = st]

\* pipeline.start: a refused call raises RuntimeError.
StartStage(c, s, place) ==
  /\ IF Pipe!CanEnter(stage[c], s)
     THEN SetStage(c, s, "started") /\ Go(c, place)
     ELSE Go(c, "stageError") /\ UNCHANGED stage
  /\ UNCHANGED <<settings, rows, cache, content, report, spent>>

Begin(c) ==
  /\ at[c] = "idle"
  /\ StartStage(c, NORMALIZE, "normalize")
  /\ UNCHANGED used

\* NORMALIZE ends: the sample is refused, Engine C admits it or does not.
Normalize(c) ==
  /\ at[c] = "normalize"
  /\ \/ Fault /\ SetStage(c, NORMALIZE, "failed") /\ Go(c, "failed")
     \/ SetStage(c, NORMALIZE, "completed") /\ Go(c, "static") /\ UNCHANGED spent
     \/ Go(c, "skipAll") /\ UNCHANGED <<stage, spent>>
  /\ UNCHANGED <<settings, rows, cache, content, used, report>>

\* The stages that compute. Agents and debate call the models of the settings.
EnterStage(c) ==
  /\ at[c] \in DOMAIN Computes
  /\ stage[c][Computes[at[c]]] # "started"
  /\ StartStage(c, Computes[at[c]], at[c])
  /\ used' = IF at[c] \in {"agents", "debate"}
             THEN [used EXCEPT ![c] = @ \cup {settings}] ELSE used

\* How a stage may end without raising though not complete: a part of it failed,
\* or XGBoost is switched off. Both count as faults.
Degraded(place) ==
  (IF place \in {"agents", "rag", "xgb", "decision"} THEN {"degraded"} ELSE {})
  \cup (IF place = "xgb" THEN {"skipped"} ELSE {})

LeaveStage(c) ==
  /\ at[c] \in DOMAIN Computes
  /\ stage[c][Computes[at[c]]] = "started"
  /\ \/ SetStage(c, Computes[at[c]], "completed") /\ Go(c, After[at[c]]) /\ UNCHANGED spent
     \/ /\ \E ending \in Degraded(at[c]) : SetStage(c, Computes[at[c]], ending)
        /\ Fault /\ Go(c, After[at[c]])
     \/ /\ at[c] \in {"static", "agents", "debate", "decision"}
        /\ Fault /\ SetStage(c, Computes[at[c]], "failed") /\ Go(c, "failed")
  /\ UNCHANGED <<settings, rows, cache, content, used, report>>

\* cached_report_usable: a skipped report lacks the analyses it asks for. What else it
\* compares is not in a Report, and may turn out either way (fits): the orchestration
\* mode, tool runtime and schema version, the learned scores the call needs, and the
\* analyses and the trace that an executed report may lack too.
Usable(row, withSignature, fits) ==
  /\ row.written > 0 /\ row.report.executed
  /\ withSignature => row.report.signature = settings
  /\ fits

\* get_cached_report: by the key of this content and the current models.
Lookup(c) ==
  LET row == cache[<<content[c], settings>>] IN
  /\ at[c] = "lookup"
  /\ \E fits \in BOOLEAN :
       IF Usable(row, FALSE, fits)
       THEN report' = [report EXCEPT ![c] = row.report] /\ Go(c, "skipHit")
       ELSE Go(c, "md5Lookup") /\ UNCHANGED report
  /\ UNCHANGED <<settings, rows, cache, content, stage, used, spent>>

\* get_latest_cached_report_by_md5: the latest unexpired row of any content.
Latest ==
  LET live == {k \in Contents \X Models : cache[k].written > 0 /\ ~cache[k].expired}
  IN {k \in live : \A l \in live : cache[l].written <= cache[k].written}

Md5Lookup(c) ==
  /\ at[c] = "md5Lookup"
  /\ \E fits \in BOOLEAN :
       \/ \E k \in Latest : /\ Usable(cache[k], TRUE, fits)
                            /\ report' = [report EXCEPT ![c] = cache[k].report]
                            /\ Go(c, "skipHit")
       \/ /\ \A k \in Latest : ~Usable(cache[k], TRUE, fits)
          /\ Go(c, "agents") /\ UNCHANGED report
  /\ UNCHANGED <<settings, rows, cache, content, stage, used, spent>>

\* The loops that skip stages: all of them, or those after a cache hit. Mutant:
\* the list of a hit leaves one out.
SkipList_NoXgb(place) == IF place = "skipAll" THEN 1..8 ELSE {3, 4, 6, 7, 8}
SkipList(place) == IF place = "skipAll" THEN 1..8 ELSE AGENT_EXECUTION..PERSIST

SkipStage(c) ==
  LET todo == {s \in SkipList(at[c]) : stage[c][s] \notin Pipe!Terminal} IN
  /\ at[c] \in {"skipAll", "skipHit"}
  /\ \/ todo = {} /\ Go(c, IF at[c] = "skipAll" THEN "skipInsert" ELSE "reuse") /\ UNCHANGED stage
     \/ \E s \in todo :
          /\ \A t \in todo : s <= t
          /\ IF Pipe!CanSkip(stage[c], s)
             THEN SetStage(c, s, "skipped") /\ UNCHANGED at
             ELSE Go(c, "stageError") /\ UNCHANGED stage
  /\ UNCHANGED <<settings, rows, cache, content, used, report, spent>>

\* mark_history_reused, then an insert whose failure is only noted in the report.
Copy(c) == [report[c] EXCEPT !.run = c, !.source = report[c].run, !.ended = Ended(stage[c])]

Reuse(c) ==
  /\ at[c] = "reuse"
  /\ report' = [report EXCEPT ![c] = Copy(c)]
  /\ \/ rows' = [rows EXCEPT ![Id(Copy(c))] = Copy(c)] /\ UNCHANGED spent
     \/ Fault /\ UNCHANGED rows
  /\ Go(c, "done")
  /\ UNCHANGED <<settings, cache, content, stage, used>>
------------------------------------------------------------------------------
\* A report is built from the stages, models and settings of this moment.
Built(c, executed) ==
  [run |-> c, content |-> content[c], executed |-> executed, signature |-> settings,
   used |-> used[c], ended |-> Ended(stage[c]), source |-> NoCall]

Store(c, r) == report' = [report EXCEPT ![c] = r] /\ rows' = [rows EXCEPT ![Id(r)] = r]

\* build_engine_c_skipped_report: build and insert, then insert once more with
\* the trace (a failure is only noted), then cache.
SkipInsert(c) ==
  /\ at[c] = "skipInsert"
  /\ Store(c, Built(c, FALSE))
  /\ Go(c, "skipTrace")
  /\ UNCHANGED <<settings, cache, content, stage, used, spent>>

SkipTrace(c) ==
  /\ at[c] = "skipTrace"
  /\ \/ Store(c, report[c]) /\ UNCHANGED spent
     \/ Fault /\ UNCHANGED <<report, rows>>
  /\ Go(c, "setCache")
  /\ UNCHANGED <<settings, cache, content, stage, used>>

EnterPersist(c) == at[c] = "persist" /\ StartStage(c, PERSIST, "build") /\ UNCHANGED used

Build(c) ==
  /\ at[c] = "build"
  /\ report' = [report EXCEPT ![c] = Built(c, TRUE)]
  /\ Go(c, "insert")
  /\ UNCHANGED <<settings, rows, cache, content, stage, used, spent>>

\* The first insert.
Insert(c) ==
  /\ at[c] = "insert"
  /\ \/ Store(c, report[c]) /\ Go(c, "close") /\ UNCHANGED <<stage, spent>>
     \/ Fault /\ SetStage(c, PERSIST, "failed") /\ Go(c, "failed") /\ UNCHANGED <<rows, report>>
  /\ UNCHANGED <<settings, cache, content, used>>

\* PERSIST completes and the report takes a new snapshot. Mutant: it keeps the old.
Close_OldSnapshot(c) ==
  /\ at[c] = "close"
  /\ SetStage(c, PERSIST, "completed")
  /\ Go(c, "finalInsert")
  /\ UNCHANGED <<settings, rows, cache, content, used, report, spent>>

Close(c) ==
  /\ at[c] = "close"
  /\ SetStage(c, PERSIST, "completed")
  /\ report' = [report EXCEPT ![c].ended = Ended(stage'[c])]
  /\ Go(c, "finalInsert")
  /\ UNCHANGED <<settings, rows, cache, content, used, spent>>

FinalInsert(c) ==
  /\ at[c] = "finalInsert"
  /\ Store(c, report[c])
  /\ Go(c, "setCache")
  /\ UNCHANGED <<settings, cache, content, stage, used, spent>>

\* set_cached_report: the key takes the settings of this moment.
SetCache(c) ==
  /\ at[c] = "setCache"
  /\ cache' = [cache EXCEPT ![<<content[c], settings>>] =
       [report |-> report[c], written |-> spent.written + 1, expired |-> FALSE]]
  /\ spent' = [spent EXCEPT !.written = @ + 1]
  /\ Go(c, "done")
  /\ UNCHANGED <<settings, rows, content, stage, used, report>>
------------------------------------------------------------------------------
\* An exception where the pipeline has no handler: the call fails and its stages
\* stay as they are.
Raise(c) ==
  /\ \/ at[c] \in {"lookup", "md5Lookup", "reuse", "skipInsert", "build", "finalInsert",
                   "setCache"}
     \/ at[c] \in {"rag", "debate"} /\ stage[c][Computes[at[c]]] = "pending"
  /\ Fault /\ Go(c, "failed")
  /\ UNCHANGED <<settings, rows, cache, content, stage, used, report>>

Crash ==
  /\ Fault
  /\ \E c \in Calls : at[c] \notin Ends
  /\ at' = [c \in Calls |-> IF at[c] \in Ends THEN at[c] ELSE "crashed"]
  /\ UNCHANGED <<settings, rows, cache, content, stage, used, report>>

\* POST /api/model/settings; and a cached row becomes older than its 24 hours.
ChangeSettings ==
  /\ spent.settings < MaxSettings
  /\ \E m \in Models \ {settings} : settings' = m
  /\ spent' = [spent EXCEPT !.settings = @ + 1]
  /\ UNCHANGED <<rows, cache, memory>>

Expire ==
  /\ spent.expiry < MaxExpiry
  /\ \E k \in DOMAIN cache :
       /\ cache[k].written > 0 /\ ~cache[k].expired
       /\ cache' = [cache EXCEPT ![k].expired = TRUE]
  /\ spent' = [spent EXCEPT !.expiry = @ + 1]
  /\ UNCHANGED <<settings, rows, memory>>

CallStep(c) ==
  \/ Begin(c) \/ Normalize(c) \/ EnterStage(c) \/ LeaveStage(c) \/ Lookup(c) \/ Md5Lookup(c)
  \/ SkipStage(c) \/ Reuse(c) \/ SkipInsert(c) \/ SkipTrace(c) \/ EnterPersist(c) \/ Build(c)
  \/ Insert(c) \/ Close(c) \/ FinalInsert(c) \/ SetCache(c) \/ Raise(c)
Next == (\E c \in Calls : CallStep(c)) \/ Crash \/ ChangeSettings \/ Expire
Spec == Init /\ [][Next]_vars
------------------------------------------------------------------------------
\* The driver never trips over its own state machine (no start, skip or finish is
\* refused), and a call that answers has taken every stage to an end without a
\* failure, on each of the paths: executed, not admitted, history reused.
CompletePass == \A c \in Calls :
  /\ at[c] # "stageError"
  /\ at[c] = "done" => \A s \in 1..8 : stage[c][s] \in Pipe!Terminal \ {"failed"}

\* What the cache may hand to a later call is a report that its own call
\* finished: nothing of a call that failed or crashed, and a snapshot in which
\* every stage has ended.
CachedIsFinished == \A k \in DOMAIN cache : cache[k].written > 0 =>
  /\ at[cache[k].report.run] = "done"
  /\ cache[k].report.ended

\* A cached report is in the judgements table: under its id there is a row.
CachedIsStored == \A k \in DOMAIN cache : cache[k].written > 0 =>
  rows[Id(cache[k].report)].run # NoCall

==============================================================================
