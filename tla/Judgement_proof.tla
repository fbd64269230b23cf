---------------------------- MODULE Judgement_proof ----------------------------
(***************************************************************************)
(* What the report cache may hold, for any calls, contents, models, faults *)
(* and changes of settings. CachedIsFinished is not inductive: it needs    *)
(* what a call has reached where it stands (Reached), which in turn needs  *)
(* the order that PipelineStages enforces, so that "PERSIST may start"     *)
(* means that the seven stages before it are terminal.                     *)
(* That the driver ends all eight stages needs the other half: where in    *)
(* the order a call is at each of its places (Passing). The machine by     *)
(* itself, for any number of stages and any caller, comes last.            *)
(***************************************************************************)
EXTENDS Judgement, PipelineStages, TLAPS

Spents == [faults: Nat, settings: Nat, expiry: Nat, written: Nat]
StageMaps == [1..8 -> Pipe!StageStatus]
------------------------------------------------------------------------------
LEMMA Reports ==
  ASSUME TypeOK, NEW c \in Calls
  PROVE  /\ Copy(c) \in Report /\ Copy(c).run = c
         /\ \A executed \in BOOLEAN :
              /\ Built(c, executed) \in Report
              /\ Built(c, executed).run = c
              /\ Built(c, executed).ended = Ended(stage[c])
         /\ \A e \in BOOLEAN : LET r == [report[c] EXCEPT !.ended = e] IN
              r \in Report /\ r.run = report[c].run /\ r.ended = e /\ Id(r) = Id(report[c])
<1>1. report[c] \in Report /\ settings \in Models /\ content[c] \in Contents
      /\ used[c] \in SUBSET Models
  BY DEF TypeOK
<1>2. Ended(stage[c]) \in BOOLEAN
  BY DEF Ended
<1>3. Copy(c) \in Report /\ Copy(c).run = c
  BY <1>1, <1>2 DEF Copy, Report
<1>4. ASSUME NEW executed \in BOOLEAN
      PROVE  /\ Built(c, executed) \in Report
             /\ Built(c, executed).run = c
             /\ Built(c, executed).ended = Ended(stage[c])
  BY <1>1, <1>2 DEF Built, Report
<1>5. ASSUME NEW e \in BOOLEAN
      PROVE  LET r == [report[c] EXCEPT !.ended = e] IN
             r \in Report /\ r.run = report[c].run /\ r.ended = e /\ Id(r) = Id(report[c])
  BY <1>1 DEF Report, Id
<1> QED
  BY <1>3, <1>4, <1>5

LEMMA Ids == \A r \in Report : Id(r) \in Contents \X BOOLEAN
  BY DEF Id, Report

LEMMA Spending ==
  ASSUME spent \in Spents
  PROVE  /\ Fault => spent' \in Spents
         /\ [spent EXCEPT !.settings = @ + 1] \in Spents
         /\ [spent EXCEPT !.expiry = @ + 1] \in Spents
         /\ [spent EXCEPT !.written = @ + 1] \in Spents
  BY DEF Spents, Fault

\* A step of a stage's machine keeps the statuses.
LEMMA Staging ==
  ASSUME stage \in [Calls -> StageMaps], NEW c \in Calls, NEW s \in 1..8,
         NEW st \in Pipe!StageStatus, SetStage(c, s, st)
  PROVE  /\ stage' \in [Calls -> StageMaps]
         /\ stage'[c] = [stage[c] EXCEPT ![s] = st]
         /\ \A d \in Calls \ {c} : stage'[d] = stage[d]
<1>1. stage[c] \in StageMaps
  OBVIOUS
<1>2. [stage[c] EXCEPT ![s] = st] \in StageMaps
  BY <1>1 DEF StageMaps
<1> QED
  BY <1>2 DEF SetStage

LEMMA Going ==
  ASSUME at \in [Calls -> Places], NEW c \in Calls, NEW p \in Places, Go(c, p)
  PROVE  at' \in [Calls -> Places] /\ at'[c] = p /\ \A d \in Calls \ {c} : at'[d] = at[d]
  BY DEF Go
------------------------------------------------------------------------------
LEMMA TypeInit == Init => TypeOK
<1> SUFFICES ASSUME Init PROVE TypeOK
  OBVIOUS
<1>1. Blank \in Report
  BY JudgementAssumption DEF Init, Blank, Report
<1>2. NoRow \in CacheRow
  BY <1>1 DEF NoRow, CacheRow
<1>3. Pipe!Pending \in StageMaps
  BY DEF Pipe!Pending, StageMaps, Pipe!StageStatus, Pipe!Stages
<1>4. [faults |-> 0, settings |-> 0, expiry |-> 0, written |-> 0] \in Spents
  BY DEF Spents
<1>5. "idle" \in Places
  BY DEF Places, Ends
<1> QED
  BY <1>1, <1>2, <1>3, <1>4, <1>5 DEF Init, TypeOK, Spents, StageMaps
------------------------------------------------------------------------------
\* What holds of a call where it stands, and of the row under its report's id.
Reached(c) ==
  /\ at[c] \in {"build", "insert", "close"} => \A s \in 1..7 : stage[c][s] \in Pipe!Terminal
  /\ at[c] = "skipInsert" => Ended(stage[c])
  /\ at[c] \in {"insert", "close", "skipTrace", "finalInsert", "setCache"} => report[c].run = c
  /\ at[c] \in {"skipTrace", "finalInsert", "setCache"} => report[c].ended
RowOf(c) == at[c] \in {"close", "skipTrace", "finalInsert", "setCache"} =>
  rows[Id(report[c])].run # NoCall

CachedOfCall == \A k \in DOMAIN cache : cache[k].written > 0 => cache[k].report.run \in Calls

IInv ==
  /\ TypeOK
  /\ \A c \in Calls : Reached(c) /\ RowOf(c)
  /\ CachedOfCall /\ CachedIsFinished /\ CachedIsStored

LEMMA InvInit == Init => IInv
<1> SUFFICES ASSUME Init PROVE IInv
  OBVIOUS
<1>1. TypeOK
  BY TypeInit
<1>2. \A c \in Calls : Reached(c) /\ RowOf(c)
  BY DEF Init, Reached, RowOf
<1>3. \A k \in DOMAIN cache : ~(cache[k].written > 0)
  BY DEF Init, NoRow
<1> QED
  BY <1>1, <1>2, <1>3 DEF IInv, CachedOfCall, CachedIsFinished, CachedIsStored
------------------------------------------------------------------------------
\* A stored row is replaced by a stored row.
RowsKept == \A i \in Contents \X BOOLEAN : rows[i].run # NoCall => rows'[i].run # NoCall

\* What a step of one call leaves alone: the other calls and the cache.
Others(c) == \A d \in Calls \ {c} :
  at'[d] = at[d] /\ stage'[d] = stage[d] /\ report'[d] = report[d]

LEMMA Frame ==
  ASSUME IInv, NEW c \in Calls, TypeOK', Others(c), RowsKept, UNCHANGED cache,
         at[c] # "done", Reached(c)', RowOf(c)'
  PROVE  IInv'
<1>1. ASSUME NEW d \in Calls PROVE Reached(d)' /\ RowOf(d)'
  <2>1. CASE d = c
    BY <2>1
  <2>2. CASE d # c
    <3>1. at'[d] = at[d] /\ stage'[d] = stage[d] /\ report'[d] = report[d]
      BY <2>2 DEF Others
    <3>2. Reached(d)'
      BY <3>1 DEF IInv, Reached, Ended
    <3>3. Id(report[d]) \in Contents \X BOOLEAN /\ Id(report'[d]) = Id(report[d])
      BY <3>1, Ids DEF IInv, TypeOK
    <3>4. RowOf(d)'
      BY <3>1, <3>3 DEF IInv, RowOf, RowsKept
    <3> QED
      BY <3>2, <3>4
  <2> QED
    BY <2>1, <2>2
<1>2. ASSUME NEW k \in DOMAIN cache, cache[k].written > 0
      PROVE  /\ cache[k].report.run \in Calls
             /\ at'[cache[k].report.run] = "done" /\ cache[k].report.ended
             /\ rows'[Id(cache[k].report)].run # NoCall
  <2>1. /\ cache[k].report.run \in Calls /\ at[cache[k].report.run] = "done"
        /\ cache[k].report.ended /\ rows[Id(cache[k].report)].run # NoCall
    BY <1>2 DEF IInv, CachedOfCall, CachedIsFinished, CachedIsStored
  <2>2. at'[cache[k].report.run] = "done"
    BY <2>1 DEF Others
  <2>3. Id(cache[k].report) \in Contents \X BOOLEAN
    BY Ids DEF IInv, TypeOK, CacheRow
  <2> QED
    BY <2>1, <2>2, <2>3 DEF RowsKept
<1> QED
  BY <1>1, <1>2 DEF IInv, CachedOfCall, CachedIsFinished, CachedIsStored

\* A store writes a row of a call.
LEMMA Storing ==
  ASSUME TypeOK, NEW r \in Report, r.run # NoCall, rows' = [rows EXCEPT ![Id(r)] = r]
  PROVE  /\ rows' \in [Contents \X BOOLEAN -> Report] /\ RowsKept
         /\ rows'[Id(r)].run # NoCall
<1>1. Id(r) \in Contents \X BOOLEAN
  BY Ids
<1> QED
  BY <1>1 DEF TypeOK, RowsKept

LEMMA Reporting ==
  ASSUME TypeOK, NEW c \in Calls, NEW r \in Report, report' = [report EXCEPT ![c] = r]
  PROVE  /\ report' \in [Calls -> Report] /\ report'[c] = r
         /\ \A d \in Calls \ {c} : report'[d] = report[d]
  BY DEF TypeOK

\* pipeline.start succeeds only behind terminal stages.
LEMMA Starting ==
  ASSUME TypeOK, NEW c \in Calls, NEW s \in 1..8, NEW p \in Places, StartStage(c, s, p)
  PROVE  /\ at' \in [Calls -> Places] /\ stage' \in [Calls -> StageMaps]
         /\ \A d \in Calls \ {c} : at'[d] = at[d] /\ stage'[d] = stage[d]
         /\ \/ at'[c] = "stageError"
            \/ /\ at'[c] = p
               /\ \A t \in 1..8 : t < s => stage'[c][t] \in Pipe!Terminal
<1> USE DEF TypeOK, StageMaps
<1>1. CASE Pipe!CanEnter(stage[c], s)
  <2>1. SetStage(c, s, "started") /\ Go(c, p)
    BY <1>1 DEF StartStage
  <2>2. "started" \in Pipe!StageStatus
    BY DEF Pipe!StageStatus
  <2>3. /\ at' \in [Calls -> Places] /\ at'[c] = p
        /\ \A d \in Calls \ {c} : at'[d] = at[d]
    BY <2>1, Going
  <2>4. /\ stage' \in [Calls -> StageMaps] /\ stage'[c] = [stage[c] EXCEPT ![s] = "started"]
        /\ \A d \in Calls \ {c} : stage'[d] = stage[d]
    BY <2>1, <2>2, Staging
  <2>5. \A t \in 1..8 : t < s => stage[c][t] \in Pipe!Terminal
    BY <1>1 DEF Pipe!CanEnter, Pipe!Stages
  <2> QED
    BY <2>3, <2>4, <2>5
<1>2. CASE ~Pipe!CanEnter(stage[c], s)
  <2>1. Go(c, "stageError") /\ UNCHANGED stage
    BY <1>2 DEF StartStage
  <2>2. "stageError" \in Places
    BY DEF Places, Ends
  <2> QED
    BY <2>1, <2>2, Going
<1> QED
  BY <1>1, <1>2
------------------------------------------------------------------------------
\* The steps of a call, each by what it changes.
LEMMA StartSteps ==
  ASSUME IInv, NEW c \in Calls, Begin(c) \/ EnterStage(c) \/ EnterPersist(c)
  PROVE  IInv'
<1> USE DEF IInv
<1>1. /\ UNCHANGED <<settings, rows, cache, content, report, spent>>
      /\ at[c] # "done" /\ used' \in [Calls -> SUBSET Models]
  BY DEF Begin, EnterStage, EnterPersist, StartStage, Computes, TypeOK
<1>2. PICK s \in 1..8, p \in Places :
        /\ StartStage(c, s, p)
        /\ p \notin {"insert", "close", "skipInsert", "skipTrace", "finalInsert", "setCache"}
        /\ p = "build" => s = 8
  <2> USE DEF NORMALIZE, PERSIST, Places, Ends, Computes, STATIC_EXTRACTION, AGENT_EXECUTION,
             RAG_RETRIEVAL, XGB_INFERENCE, DEBATE, FINAL_DECISION
  <2>1. CASE Begin(c)
    BY <2>1 DEF Begin
  <2>2. CASE EnterStage(c)
    <3>1. at[c] \in DOMAIN Computes /\ Computes[at[c]] \in 1..8
      BY <2>2 DEF EnterStage
    <3>2. at[c] \in Places
      BY DEF TypeOK
    <3> QED
      BY <2>2, <3>1, <3>2 DEF EnterStage
  <2>3. CASE EnterPersist(c)
    BY <2>3 DEF EnterPersist
  <2> QED
    BY <2>1, <2>2, <2>3
<1>3. /\ at' \in [Calls -> Places] /\ stage' \in [Calls -> StageMaps]
      /\ \A d \in Calls \ {c} : at'[d] = at[d] /\ stage'[d] = stage[d]
      /\ \/ at'[c] = "stageError"
         \/ at'[c] = p /\ \A t \in 1..8 : t < s => stage'[c][t] \in Pipe!Terminal
  BY <1>2, Starting
<1>4. TypeOK'
  BY <1>1, <1>3 DEF TypeOK, StageMaps, Spents
<1>5. Reached(c)' /\ RowOf(c)'
  BY <1>2, <1>3 DEF Reached, RowOf
<1>6. Others(c) /\ RowsKept
  BY <1>1, <1>3 DEF Others, RowsKept
<1> QED
  BY <1>1, <1>4, <1>5, <1>6, Frame

LEMMA MoveSteps ==
  ASSUME IInv, NEW c \in Calls,
         Normalize(c) \/ LeaveStage(c) \/ SkipStage(c) \/ Lookup(c) \/ Md5Lookup(c) \/ Raise(c)
  PROVE  IInv'
<1> USE DEF IInv
<1>1. UNCHANGED <<settings, rows, cache, content, used>> /\ at[c] # "done"
  BY DEF Normalize, LeaveStage, SkipStage, Lookup, Md5Lookup, Raise, Computes
<1>2. spent' \in Spents
  BY Spending DEF Normalize, LeaveStage, SkipStage, Lookup, Md5Lookup, Raise, TypeOK, Spents
<1>3. /\ report' \in [Calls -> Report]
      /\ \A d \in Calls \ {c} : report'[d] = report[d]
  <2>1. ASSUME NEW row \in CacheRow, report' = [report EXCEPT ![c] = row.report]
        PROVE  /\ report' \in [Calls -> Report]
               /\ \A d \in Calls \ {c} : report'[d] = report[d]
    BY <2>1, Reporting DEF CacheRow
  <2>2. CASE Lookup(c)
    <3>1. cache[<<content[c], settings>>] \in CacheRow
      BY DEF TypeOK
    <3> QED
      BY <2>1, <2>2, <3>1 DEF Lookup, TypeOK
  <2>3. CASE Md5Lookup(c)
    <3>1. \A k \in Latest : cache[k] \in CacheRow
      BY DEF Latest, TypeOK
    <3> QED
      BY <2>1, <2>3, <3>1 DEF Md5Lookup, TypeOK
  <2> QED
    BY <2>2, <2>3 DEF Normalize, LeaveStage, SkipStage, Raise, TypeOK
\* Where the call goes, and the one stage that may change under it.
<1>4. PICK p \in Places :
        /\ Go(c, p)
        /\ p \notin {"build", "insert", "close", "skipTrace", "finalInsert", "setCache"}
        /\ \/ UNCHANGED stage /\ (p = "skipInsert" => Ended(stage[c]))
           \/ p # "skipInsert" /\ \E s \in 1..8, st \in Pipe!StageStatus : SetStage(c, s, st)
  <2> DEFINE Quiet == Places \ {"build", "insert", "close", "skipInsert", "skipTrace",
                               "finalInsert", "setCache"}
             Moved == \E p \in Places :
               /\ Go(c, p)
               /\ p \notin {"build", "insert", "close", "skipTrace", "finalInsert", "setCache"}
               /\ \/ UNCHANGED stage /\ (p = "skipInsert" => Ended(stage[c]))
                  \/ p # "skipInsert"
                     /\ \E s \in 1..8, st \in Pipe!StageStatus : SetStage(c, s, st)
  <2>a. ASSUME NEW p \in Quiet, Go(c, p), UNCHANGED stage PROVE Moved
    BY <2>a
  <2>b. ASSUME NEW p \in Quiet, Go(c, p), NEW s \in 1..8, NEW st \in Pipe!StageStatus,
               SetStage(c, s, st)
        PROVE  Moved
    BY <2>b
  <2> HIDE DEF Moved
  <2> USE DEF Places, Ends
  <2>1. CASE Normalize(c)
    <3>1. {"failed", "static", "skipAll"} \subseteq Quiet /\ NORMALIZE \in 1..8
          /\ {"failed", "completed"} \subseteq Pipe!StageStatus
      BY DEF NORMALIZE, Pipe!StageStatus, Pipe!Terminal, Computes
    <3> QED
      BY <2>1, <3>1, <2>a, <2>b DEF Normalize
  <2>2. CASE LeaveStage(c)
    <3>1. at[c] \in DOMAIN Computes /\ Computes[at[c]] \in 1..8 /\ After[at[c]] \in Places
          /\ After[at[c]] \in {"lookup", "rag", "xgb", "debate", "decision", "persist"}
      BY <2>2 DEF LeaveStage, Computes, After, STATIC_EXTRACTION, AGENT_EXECUTION,
                  RAG_RETRIEVAL, XGB_INFERENCE, DEBATE, FINAL_DECISION
    <3>2. \A ending \in Degraded(at[c]) : ending \in Pipe!StageStatus
      BY DEF Degraded, Pipe!StageStatus, Pipe!Terminal
    <3>3. {"completed", "failed"} \subseteq Pipe!StageStatus
      BY DEF Pipe!StageStatus, Pipe!Terminal
    <3>4. "failed" \in Quiet /\ After[at[c]] \in Quiet
      BY <3>1
    <3> QED
      BY <2>2, <3>1, <3>2, <3>3, <3>4, <2>b DEF LeaveStage
  <2>3. CASE SkipStage(c)
    <3> DEFINE todo == {s \in SkipList(at[c]) : stage[c][s] \notin Pipe!Terminal}
    <3>1. CASE todo = {}
      <4>1. at[c] = "skipAll" => Ended(stage[c])
        BY <3>1 DEF SkipList, Ended
      <4>2. Go(c, IF at[c] = "skipAll" THEN "skipInsert" ELSE "reuse") /\ UNCHANGED stage
        BY <2>3, <3>1 DEF SkipStage
      <4>3. CASE at[c] = "skipAll"
        BY <4>1, <4>2, <4>3 DEF Moved
      <4>4. CASE at[c] # "skipAll"
        <5>1. "reuse" \in Quiet
          OBVIOUS
        <5> QED
          BY <4>2, <4>4, <5>1, <2>a
      <4> QED
        BY <4>3, <4>4
    <3>2. CASE todo # {}
      <4>1. todo \subseteq 1..8
        BY DEF SkipList, AGENT_EXECUTION, PERSIST
      <4>2. "skipped" \in Pipe!StageStatus
        BY DEF Pipe!StageStatus, Pipe!Terminal
      <4>3. at[c] \in {"skipAll", "skipHit"} /\ at \in [Calls -> Places]
        BY <2>3 DEF SkipStage, TypeOK
      <4>4. UNCHANGED at => Go(c, at[c])
        BY <4>3 DEF Go
      <4> QED
        <5>1. at[c] \in Quiet /\ "stageError" \in Quiet
          BY <4>3
        <5>2. PICK s \in todo :
                \/ SetStage(c, s, "skipped") /\ UNCHANGED at
                \/ Go(c, "stageError") /\ UNCHANGED stage
          BY <2>3, <3>2 DEF SkipStage
        <5> QED
          BY <4>1, <4>2, <4>4, <5>1, <5>2, <2>a, <2>b
    <3> QED
      BY <3>1, <3>2
  <2>4. CASE Lookup(c)
    <3>1. {"skipHit", "md5Lookup", "agents", "failed"} \subseteq Quiet
      BY DEF Computes
    <3> QED
      BY <2>4, <3>1, <2>a DEF Lookup
  <2>5. CASE Md5Lookup(c)
    <3>1. {"skipHit", "md5Lookup", "agents", "failed"} \subseteq Quiet
      BY DEF Computes
    <3> QED
      BY <2>5, <3>1, <2>a DEF Md5Lookup
  <2>6. CASE Raise(c)
    <3>1. {"skipHit", "md5Lookup", "agents", "failed"} \subseteq Quiet
      BY DEF Computes
    <3> QED
      BY <2>6, <3>1, <2>a DEF Raise
  <2> QED
    <3>1. Moved
      BY <2>1, <2>2, <2>3, <2>4, <2>5, <2>6 DEF Moved
    <3> QED
      BY <3>1 DEF Moved
<1>5. /\ at' \in [Calls -> Places] /\ at'[c] = p
      /\ \A d \in Calls \ {c} : at'[d] = at[d]
  BY <1>4, Going DEF TypeOK
<1>6. stage' \in [Calls -> StageMaps] /\ \A d \in Calls \ {c} : stage'[d] = stage[d]
  BY <1>4, Staging DEF TypeOK, StageMaps
<1>7. TypeOK'
  BY <1>1, <1>2, <1>3, <1>5, <1>6 DEF TypeOK, StageMaps, Spents
<1>8. Reached(c)' /\ RowOf(c)'
  BY <1>4, <1>5 DEF Reached, RowOf, Ended
<1>9. Others(c) /\ RowsKept
  BY <1>1, <1>3, <1>5, <1>6 DEF Others, RowsKept
<1> QED
  BY <1>1, <1>7, <1>8, <1>9, Frame

\* The steps that build, copy or store a report.
LEMMA ReportSteps ==
  ASSUME IInv, NEW c \in Calls,
         \/ Reuse(c) \/ SkipInsert(c) \/ SkipTrace(c) \/ Build(c)
         \/ Insert(c) \/ Close(c) \/ FinalInsert(c)
  PROVE  IInv'
<1> USE DEF IInv
<1>1. UNCHANGED <<settings, cache, content, used>> /\ at[c] # "done"
  BY DEF Reuse, SkipInsert, SkipTrace, Build, Insert, Close, FinalInsert
<1>2. spent' \in Spents
  BY Spending DEF Reuse, SkipInsert, SkipTrace, Build, Insert, Close, FinalInsert, TypeOK, Spents
<1>3. /\ at' \in [Calls -> Places] /\ \A d \in Calls \ {c} : at'[d] = at[d]
      /\ Reuse(c) => at'[c] = "done"
      /\ SkipInsert(c) => at'[c] = "skipTrace"
      /\ SkipTrace(c) => at'[c] = "setCache"
      /\ Build(c) => at'[c] = "insert"
      /\ Insert(c) => (at'[c] = "failed" \/ (at'[c] = "close" /\ Store(c, report[c]) /\ UNCHANGED stage))
      /\ Close(c) => at'[c] = "finalInsert"
      /\ FinalInsert(c) => at'[c] = "setCache"
  <2>1. {"done", "skipTrace", "setCache", "insert", "close", "failed", "finalInsert"} \subseteq Places
    BY DEF Places, Ends
  <2>2. \A p \in Places : Go(c, p) =>
          at' \in [Calls -> Places] /\ at'[c] = p /\ \A d \in Calls \ {c} : at'[d] = at[d]
    BY Going DEF TypeOK
  <2>3. /\ Reuse(c) => Go(c, "done")
        /\ SkipInsert(c) => Go(c, "skipTrace")
        /\ SkipTrace(c) => Go(c, "setCache")
        /\ Build(c) => Go(c, "insert")
        /\ Insert(c) => (Go(c, "failed") \/ (Go(c, "close") /\ Store(c, report[c]) /\ UNCHANGED stage))
        /\ Close(c) => Go(c, "finalInsert")
        /\ FinalInsert(c) => Go(c, "setCache")
    BY DEF Reuse, SkipInsert, SkipTrace, Build, Insert, Close, FinalInsert
  <2>4. at' \in [Calls -> Places] /\ \A d \in Calls \ {c} : at'[d] = at[d]
    BY <2>1, <2>2, <2>3
  <2>5. /\ Reuse(c) => at'[c] = "done"
        /\ SkipInsert(c) => at'[c] = "skipTrace"
        /\ SkipTrace(c) => at'[c] = "setCache"
        /\ Build(c) => at'[c] = "insert"
    BY <2>1, <2>2, <2>3
  <2>6. /\ Insert(c) => (at'[c] = "failed" \/ (at'[c] = "close" /\ Store(c, report[c]) /\ UNCHANGED stage))
        /\ Close(c) => at'[c] = "finalInsert"
        /\ FinalInsert(c) => at'[c] = "setCache"
    BY <2>1, <2>2, <2>3
  <2> QED
    BY <2>4, <2>5, <2>6
<1>4. /\ stage' \in [Calls -> StageMaps] /\ \A d \in Calls \ {c} : stage'[d] = stage[d]
      /\ Close(c) => stage'[c] = [stage[c] EXCEPT ![PERSIST] = "completed"]
  <2>1. PERSIST \in 1..8 /\ {"completed", "failed"} \subseteq Pipe!StageStatus
    BY DEF PERSIST, Pipe!StageStatus, Pipe!Terminal
  <2>2. stage \in [Calls -> StageMaps]
    BY DEF TypeOK, StageMaps
  <2>3. UNCHANGED stage \/ SetStage(c, PERSIST, "completed") \/ SetStage(c, PERSIST, "failed")
    BY DEF Reuse, SkipInsert, SkipTrace, Build, Insert, Close, FinalInsert
  <2>4. Close(c) => SetStage(c, PERSIST, "completed")
    BY DEF Close
  <2>5. \A s \in 1..8, st \in Pipe!StageStatus : SetStage(c, s, st) =>
          /\ stage' \in [Calls -> StageMaps] /\ stage'[c] = [stage[c] EXCEPT ![s] = st]
          /\ \A d \in Calls \ {c} : stage'[d] = stage[d]
    BY <2>2, Staging
  <2> QED
    BY <2>1, <2>2, <2>3, <2>4, <2>5
\* The report of the call afterwards, and what became of the rows.
<1>5. PICK r \in Report :
        /\ report' = [report EXCEPT ![c] = r]
        /\ r.run = c \/ at'[c] \in {"done", "failed"}
        /\ at'[c] \in {"skipTrace", "setCache", "finalInsert"} => r.ended
        /\ \/ rows' = [rows EXCEPT ![Id(r)] = r] /\ r.run = c
           \/ /\ UNCHANGED rows
              /\ at'[c] \in {"skipTrace", "close", "finalInsert", "setCache"} =>
                   at[c] \in {"skipTrace", "close"} /\ Id(r) = Id(report[c])
  <2>1. report[c] \in Report /\ report = [report EXCEPT ![c] = report[c]]
    BY DEF TypeOK
  <2>2. CASE Reuse(c)
    <3>1. Copy(c) \in Report /\ Copy(c).run = c
      BY Reports
    <3> QED
      BY <2>2, <3>1, <1>3 DEF Reuse
  <2>3. CASE SkipInsert(c)
    <3>1. Built(c, FALSE) \in Report /\ Built(c, FALSE).run = c
          /\ Built(c, FALSE).ended = Ended(stage[c])
      BY Reports
    <3>2. Ended(stage[c])
      BY <2>3 DEF SkipInsert, Reached
    <3> QED
      BY <2>3, <3>1, <3>2 DEF SkipInsert, Store
  <2>4. CASE SkipTrace(c)
    <3>1. report[c].run = c /\ report[c].ended
      BY <2>4 DEF SkipTrace, Reached
    <3> QED
      BY <2>1, <2>4, <3>1 DEF SkipTrace, Store
  <2>5. CASE Build(c)
    <3>1. Built(c, TRUE) \in Report /\ Built(c, TRUE).run = c
      BY Reports
    <3> QED
      BY <2>5, <3>1, <1>3 DEF Build
  <2>6. CASE Insert(c)
    <3>1. report[c].run = c
      BY <2>6 DEF Insert, Reached
    <3> QED
      BY <2>1, <2>6, <3>1, <1>3 DEF Insert, Store
  <2>7. CASE Close(c)
    <3>1. report[c].run = c /\ \A s \in 1..7 : stage[c][s] \in Pipe!Terminal
      BY <2>7 DEF Close, Reached
    <3>2. Ended(stage'[c])
      BY <3>1, <2>7, <1>4 DEF Ended, PERSIST, Pipe!Terminal, TypeOK, StageMaps
    <3>3. LET r == [report[c] EXCEPT !.ended = TRUE] IN
            r \in Report /\ r.run = report[c].run /\ r.ended = TRUE /\ Id(r) = Id(report[c])
      BY Reports
    <3>4. /\ report' = [report EXCEPT ![c] = [report[c] EXCEPT !.ended = TRUE]] /\ UNCHANGED rows
      BY <2>7, <3>2 DEF Close, TypeOK
    <3> QED
      BY <2>7, <3>1, <3>3, <3>4, <1>3 DEF Close
  <2>8. CASE FinalInsert(c)
    <3>1. report[c].run = c /\ report[c].ended
      BY <2>8 DEF FinalInsert, Reached
    <3> QED
      BY <2>1, <2>8, <3>1 DEF FinalInsert, Store
  <2> QED
    BY <2>2, <2>3, <2>4, <2>5, <2>6, <2>7, <2>8
<1>6. report' \in [Calls -> Report] /\ report'[c] = r
      /\ \A d \in Calls \ {c} : report'[d] = report[d]
  BY <1>5, Reporting
<1>7. rows' \in [Contents \X BOOLEAN -> Report] /\ RowsKept /\ RowOf(c)'
  <2>1. CASE rows' = [rows EXCEPT ![Id(r)] = r] /\ r.run = c
    <3>1. r.run # NoCall
      BY <2>1, JudgementAssumption
    <3> QED
      BY <2>1, <3>1, <1>6, Storing DEF RowOf
  <2>2. CASE UNCHANGED rows
             /\ (at'[c] \in {"skipTrace", "close", "finalInsert", "setCache"} =>
                   at[c] \in {"skipTrace", "close"} /\ Id(r) = Id(report[c]))
    BY <2>2, <1>6 DEF RowOf, RowsKept, TypeOK
  <2> QED
    BY <1>5, <2>1, <2>2
<1>8. Reached(c)'
  <2>1. CASE Insert(c) /\ at'[c] = "close"
    <3>1. UNCHANGED stage
      BY <2>1, <1>3
    <3> QED
      BY <2>1, <3>1, <1>5, <1>6 DEF Reached, Insert
  <2>2. CASE Build(c)
    BY <2>2, <1>3, <1>5, <1>6 DEF Reached, Build
  <2>3. CASE ~Build(c) /\ ~(Insert(c) /\ at'[c] = "close")
    BY <2>3, <1>3, <1>5, <1>6 DEF Reached
  <2> QED
    BY <2>1, <2>2, <2>3
<1>9. TypeOK'
  BY <1>1, <1>2, <1>3, <1>4, <1>6, <1>7 DEF TypeOK, StageMaps, Spents
<1>10. Others(c)
  BY <1>3, <1>4, <1>6 DEF Others
<1> QED
  BY <1>1, <1>7, <1>8, <1>9, <1>10, Frame

LEMMA SetCacheStep ==
  ASSUME IInv, NEW c \in Calls, SetCache(c)
  PROVE  IInv'
<1> USE DEF IInv
<1> DEFINE row == [report |-> report[c], written |-> spent.written + 1, expired |-> FALSE]
           key == <<content[c], settings>>
<1>1. at[c] = "setCache" /\ report[c] \in Report /\ report[c].run = c /\ report[c].ended
      /\ rows[Id(report[c])].run # NoCall
  BY DEF SetCache, Reached, RowOf, TypeOK
<1>2. /\ UNCHANGED <<settings, rows, content, stage, used, report>>
      /\ cache' = [cache EXCEPT ![key] = row]
      /\ spent' = [spent EXCEPT !.written = @ + 1] /\ Go(c, "done")
  BY DEF SetCache
<1>3. row \in CacheRow /\ key \in Contents \X Models /\ spent' \in Spents
  BY <1>1, <1>2, Spending DEF CacheRow, TypeOK, Spents
<1>4. /\ at' \in [Calls -> Places] /\ at'[c] = "done"
      /\ \A d \in Calls \ {c} : at'[d] = at[d]
  BY <1>2, Going DEF TypeOK, Places, Ends
<1>5. TypeOK'
  BY <1>2, <1>3, <1>4 DEF TypeOK, Spents
<1>6. \A d \in Calls : Reached(d)' /\ RowOf(d)'
  BY <1>2, <1>4 DEF Reached, RowOf, Ended
<1>7. ASSUME NEW k \in DOMAIN cache', cache'[k].written > 0
      PROVE  /\ cache'[k].report.run \in Calls
             /\ at'[cache'[k].report.run] = "done" /\ cache'[k].report.ended
             /\ rows'[Id(cache'[k].report)].run # NoCall
  <2>1. CASE k = key
    <3>1. cache'[k].report = report[c]
      BY <2>1, <1>2, <1>3 DEF TypeOK
    <3> QED
      BY <3>1, <1>1, <1>2, <1>4
  <2>2. CASE k # key
    <3>1. k \in DOMAIN cache /\ cache'[k] = cache[k]
      BY <2>2, <1>2, <1>3 DEF TypeOK
    <3>2. /\ cache[k].report.run \in Calls /\ at[cache[k].report.run] = "done"
          /\ cache[k].report.ended /\ rows[Id(cache[k].report)].run # NoCall
      BY <3>1, <1>7 DEF CachedOfCall, CachedIsFinished, CachedIsStored
    <3> QED
      BY <3>1, <3>2, <1>1, <1>2, <1>4
  <2> QED
    BY <2>1, <2>2
<1> QED
  BY <1>5, <1>6, <1>7 DEF CachedOfCall, CachedIsFinished, CachedIsStored

LEMMA EnvironmentSteps ==
  ASSUME IInv, Crash \/ ChangeSettings \/ Expire
  PROVE  IInv'
<1> USE DEF IInv
<1>1. UNCHANGED <<rows, stage, report, content, used>>
  BY DEF Crash, ChangeSettings, Expire, memory
<1>2. spent' \in Spents
  BY Spending DEF Crash, ChangeSettings, Expire, TypeOK, Spents
<1>3. /\ at' \in [Calls -> Places]
      /\ \A c \in Calls : at'[c] = at[c] \/ (at[c] # "done" /\ at'[c] = "crashed")
  BY DEF Crash, ChangeSettings, Expire, memory, TypeOK, Places, Ends
<1>4. /\ cache' \in [Contents \X Models -> CacheRow]
      /\ \A k \in Contents \X Models : /\ cache'[k].report = cache[k].report
                                       /\ cache'[k].written = cache[k].written
  <2>1. CASE UNCHANGED cache
    BY <2>1 DEF TypeOK
  <2>2. CASE Expire
    <3>1. PICK k \in DOMAIN cache : cache' = [cache EXCEPT ![k].expired = TRUE]
      BY <2>2 DEF Expire
    <3>2. cache[k] \in CacheRow
      BY DEF TypeOK
    <3>3. LET row == [cache[k] EXCEPT !.expired = TRUE] IN
            row \in CacheRow /\ row.report = cache[k].report /\ row.written = cache[k].written
      BY <3>2 DEF CacheRow
    <3> QED
      BY <3>1, <3>3 DEF TypeOK
  <2> QED
    BY <2>1, <2>2 DEF Crash, ChangeSettings
<1>5. settings' \in Models
  BY DEF Crash, ChangeSettings, Expire, TypeOK
<1>6. TypeOK'
  BY <1>1, <1>2, <1>3, <1>4, <1>5 DEF TypeOK, Spents
<1>7. \A c \in Calls : Reached(c)' /\ RowOf(c)'
  BY <1>1, <1>3 DEF Reached, RowOf, Ended
<1>8. DOMAIN cache' = DOMAIN cache
  BY <1>4 DEF TypeOK
<1>9. ASSUME NEW k \in DOMAIN cache, cache'[k].written > 0
      PROVE  /\ cache'[k].report.run \in Calls
             /\ at'[cache'[k].report.run] = "done" /\ cache'[k].report.ended
             /\ rows'[Id(cache'[k].report)].run # NoCall
  <2>1. cache'[k].report = cache[k].report /\ cache[k].written > 0
    BY <1>4, <1>9 DEF TypeOK
  <2>2. /\ cache[k].report.run \in Calls /\ at[cache[k].report.run] = "done"
        /\ cache[k].report.ended /\ rows[Id(cache[k].report)].run # NoCall
    BY <2>1 DEF CachedOfCall, CachedIsFinished, CachedIsStored
  <2> QED
    BY <2>1, <2>2, <1>1, <1>3
<1>10. CachedOfCall' /\ CachedIsFinished' /\ CachedIsStored'
  BY <1>8, <1>9 DEF CachedOfCall, CachedIsFinished, CachedIsStored
<1> QED
  BY <1>6, <1>7, <1>10
------------------------------------------------------------------------------
LEMMA InvStep == IInv /\ [Next]_vars => IInv'
<1> SUFFICES ASSUME IInv, [Next]_vars PROVE IInv'
  OBVIOUS
<1>1. ASSUME NEW c \in Calls, CallStep(c) PROVE IInv'
  BY <1>1, StartSteps, MoveSteps, ReportSteps, SetCacheStep DEF CallStep
<1>2. CASE UNCHANGED vars
  BY <1>2 DEF vars, IInv, TypeOK, Reached, RowOf, CachedOfCall, CachedIsFinished,
              CachedIsStored, Ended
<1> QED
  BY <1>1, <1>2, EnvironmentSteps DEF Next

\* Whatever the calls, faults, crashes and changes of settings: every cached
\* report is of a call that ran to its end, and all its stages have ended.
THEOREM CacheFinished == Spec => []CachedIsFinished
<1>1. IInv => CachedIsFinished
  BY DEF IInv
<1> QED
  BY <1>1, InvInit, InvStep, PTL DEF Spec

\* Every cached report has its row in the judgements table.
THEOREM CacheStored == Spec => []CachedIsStored
<1>1. IInv => CachedIsStored
  BY DEF IInv
<1> QED
  BY <1>1, InvInit, InvStep, PTL DEF Spec
------------------------------------------------------------------------------
\* How far a call has come: the stages before k are over without a failure, those
\* after k are untouched, and k itself (9: there is none left) stands as the place
\* asks. Nothing is said of a call that has failed or crashed.
Good == Pipe!Terminal \ {"failed"}
Split(st, k) == \A s \in 1..8 : (s < k => st[s] \in Good) /\ (s > k => st[s] = "pending")

Working == {"normalize", "build", "insert", "close"}
Spot(p, k) ==
  /\ p # "stageError"
  /\ p \in DOMAIN Computes => k = Computes[p]
  /\ p \in {"idle", "normalize"} => k = 1
  /\ p \in {"lookup", "md5Lookup"} => k = 3
  /\ p = "skipHit" => k >= 3
  /\ p \in {"persist", "build", "insert", "close"} => k = 8
  /\ p \in {"reuse", "skipInsert", "skipTrace", "finalInsert", "setCache", "done"} => k = 9
Front(p, st) ==
  IF p \in Working THEN st = "started"
  ELSE st = "pending" \/ (st = "started" /\ p \in DOMAIN Computes \cup {"skipAll"})

OnPass(p, st) ==
  \/ p \in {"failed", "crashed"}
  \/ \E k \in 1..9 : Split(st, k) /\ Spot(p, k) /\ (k < 9 => Front(p, st[k]))
Passing == \A c \in Calls : OnPass(at[c], stage[c])

\* The machine lets a call enter or skip the stage it has come to.
LEMMA Machine ==
  ASSUME NEW st \in StageMaps, NEW k \in 1..8, Split(st, k), st[k] \in {"pending", "started"}
  PROVE  /\ st[k] = "pending" => Pipe!CanEnter(st, k)
         /\ Pipe!CanSkip(st, k)
         /\ \A s \in 1..8 : st[s] \notin Pipe!Terminal <=> s >= k
         /\ Split([st EXCEPT ![k] = "started"], k)
         /\ \A out \in Good : Split([st EXCEPT ![k] = out], k + 1)
<1> USE DEF Split, Good, Pipe!Terminal, StageMaps, Pipe!StageStatus
<1>1. st[k] = "pending" => Pipe!CanEnter(st, k)
  BY DEF Pipe!CanEnter, Pipe!NoneActive, Pipe!Stages
<1>2. Pipe!CanSkip(st, k)
  BY <1>1 DEF Pipe!CanSkip
<1>3. \A s \in 1..8 : st[s] \notin Pipe!Terminal <=> s >= k
  OBVIOUS
<1>4. Split([st EXCEPT ![k] = "started"], k)
  OBVIOUS
<1>5. \A out \in Good : Split([st EXCEPT ![k] = out], k + 1)
  OBVIOUS
<1> QED
  BY <1>1, <1>2, <1>3, <1>4, <1>5

\* Where all stages are behind, all are terminal.
LEMMA Behind == ASSUME NEW st \in StageMaps, Split(st, 9)
                PROVE  \A s \in 1..8 : st[s] \in Good
  BY DEF Split

LEMMA PassInit == Init => Passing
<1> SUFFICES ASSUME Init, NEW c \in Calls PROVE OnPass(at[c], stage[c])
  BY DEF Passing
<1>1. at[c] = "idle" /\ stage[c] = [s \in 1..8 |-> "pending"]
  BY DEF Init, Pipe!Pending, Pipe!Stages
<1>2. Split(stage[c], 1) /\ Spot("idle", 1) /\ Front("idle", stage[c][1])
  BY <1>1 DEF Split, Spot, Front, Working, Computes
<1> QED
  BY <1>1, <1>2 DEF OnPass

\* A step of one call.
LEMMA PassFrame ==
  ASSUME Passing, NEW c \in Calls, OnPass(at'[c], stage'[c]),
         \A d \in Calls \ {c} : at'[d] = at[d] /\ stage'[d] = stage[d]
  PROVE  Passing'
  BY DEF Passing

LEMMA PassStart ==
  ASSUME TypeOK, NEW c \in Calls, NEW k \in 1..8, NEW p \in Places,
         Split(stage[c], k), stage[c][k] = "pending",
         StartStage(c, k, p), Spot(p, k), Front(p, "started")
  PROVE  /\ OnPass(at'[c], stage'[c])
         /\ \A d \in Calls \ {c} : at'[d] = at[d] /\ stage'[d] = stage[d]
<1>0. stage \in [Calls -> StageMaps] /\ stage[c] \in StageMaps /\ at \in [Calls -> Places]
  BY DEF TypeOK, StageMaps
<1>1. Pipe!CanEnter(stage[c], k) /\ Split([stage[c] EXCEPT ![k] = "started"], k)
  BY <1>0, Machine
<1>2. SetStage(c, k, "started") /\ Go(c, p)
  BY <1>1 DEF StartStage
<1>3. "started" \in Pipe!StageStatus
  BY DEF Pipe!StageStatus
<1>4. /\ stage'[c] = [stage[c] EXCEPT ![k] = "started"]
      /\ \A d \in Calls \ {c} : stage'[d] = stage[d]
  BY <1>0, <1>2, <1>3, Staging
<1>5. at'[c] = p /\ \A d \in Calls \ {c} : at'[d] = at[d]
  BY <1>0, <1>2, Going
<1>6. stage'[c][k] = "started"
  BY <1>0, <1>4 DEF StageMaps
<1>7. k \in 1..9 /\ Split(stage'[c], k) /\ Spot(at'[c], k) /\ Front(at'[c], stage'[c][k])
  BY <1>1, <1>4, <1>5, <1>6
<1> QED
  BY <1>4, <1>5, <1>7 DEF OnPass

\* The stage the call has come to ends, or nothing of the stages changes.
LEMMA PassEnd ==
  ASSUME TypeOK, NEW c \in Calls, NEW k \in 1..8, NEW p \in Places,
         Split(stage[c], k), stage[c][k] \in {"pending", "started"},
         NEW out \in Good, SetStage(c, k, out), Go(c, p),
         Spot(p, k + 1), k < 8 => Front(p, "pending")
  PROVE  /\ OnPass(at'[c], stage'[c])
         /\ \A d \in Calls \ {c} : at'[d] = at[d] /\ stage'[d] = stage[d]
<1>0. stage \in [Calls -> StageMaps] /\ stage[c] \in StageMaps /\ at \in [Calls -> Places]
  BY DEF TypeOK, StageMaps
<1>1. Split([stage[c] EXCEPT ![k] = out], k + 1)
  BY <1>0, Machine
<1>2. out \in Pipe!StageStatus
  BY DEF Pipe!StageStatus, Good
<1>3. /\ stage'[c] = [stage[c] EXCEPT ![k] = out]
      /\ \A d \in Calls \ {c} : stage'[d] = stage[d]
  BY <1>0, <1>2, Staging
<1>4. at'[c] = p /\ \A d \in Calls \ {c} : at'[d] = at[d]
  BY <1>0, Going
<1>5. k < 8 => stage'[c][k + 1] = "pending"
  BY <1>0, <1>3 DEF StageMaps, Split
<1>6. k + 1 \in 1..9
  OBVIOUS
<1> QED
  BY <1>1, <1>3, <1>4, <1>5, <1>6 DEF OnPass

LEMMA PassMove ==
  ASSUME TypeOK, NEW c \in Calls, NEW k \in 1..9, NEW p \in Places,
         Split(stage[c], k), UNCHANGED stage, Go(c, p),
         Spot(p, k), k < 9 => Front(p, stage[c][k])
  PROVE  /\ OnPass(at'[c], stage'[c])
         /\ \A d \in Calls \ {c} : at'[d] = at[d] /\ stage'[d] = stage[d]
<1>1. at \in [Calls -> Places]
  BY DEF TypeOK
<1>2. at'[c] = p /\ \A d \in Calls \ {c} : at'[d] = at[d]
  BY <1>1, Going
<1> QED
  BY <1>2 DEF OnPass

\* A call that fails.
LEMMA PassFail ==
  ASSUME TypeOK, NEW c \in Calls, Go(c, "failed"),
         UNCHANGED stage \/ \E s \in 1..8 : SetStage(c, s, "failed")
  PROVE  /\ OnPass(at'[c], stage'[c])
         /\ \A d \in Calls \ {c} : at'[d] = at[d] /\ stage'[d] = stage[d]
<1>1. stage \in [Calls -> StageMaps] /\ at \in [Calls -> Places]
      /\ "failed" \in Pipe!StageStatus /\ "failed" \in Places
  BY DEF TypeOK, StageMaps, Pipe!StageStatus, Pipe!Terminal, Places, Ends
<1>2. at'[c] = "failed" /\ \A d \in Calls \ {c} : at'[d] = at[d]
  BY <1>1, Going
<1>3. \A d \in Calls \ {c} : stage'[d] = stage[d]
  BY <1>1, Staging
<1> QED
  BY <1>2, <1>3 DEF OnPass

LEMMA PassCall ==
  ASSUME TypeOK, Passing, NEW c \in Calls, CallStep(c)
  PROVE  Passing'
<1> DEFINE Goal == /\ OnPass(at'[c], stage'[c])
                   /\ \A d \in Calls \ {c} : at'[d] = at[d] /\ stage'[d] = stage[d]
<1> SUFFICES Goal
  BY PassFrame
<1> HIDE DEF Goal
<1>0. /\ at[c] \in Places /\ stage[c] \in StageMaps /\ stage \in [Calls -> StageMaps]
      /\ at \in [Calls -> Places]
  BY DEF TypeOK, StageMaps
<1>1. at[c] \notin {"failed", "crashed"}
  BY DEF CallStep, Begin, Normalize, EnterStage, LeaveStage, Lookup, Md5Lookup, SkipStage,
         Reuse, SkipInsert, SkipTrace, EnterPersist, Build, Insert, Close, FinalInsert,
         SetCache, Raise, Computes
<1>2. PICK k \in 1..9 : /\ Split(stage[c], k) /\ Spot(at[c], k)
                        /\ k < 9 => Front(at[c], stage[c][k])
  BY <1>1 DEF Passing, OnPass
<1>3. k < 9 => k \in 1..8 /\ stage[c][k] \in {"pending", "started"}
  BY <1>2 DEF Front
<1>a. ASSUME k < 9, NEW p \in Places, StartStage(c, k, p), Spot(p, k), Front(p, "started"),
             stage[c][k] = "pending"
      PROVE  Goal
  BY <1>a, <1>2, <1>3, PassStart DEF Goal
<1>b. ASSUME k < 9, NEW p \in Places, NEW out \in Good, SetStage(c, k, out), Go(c, p),
             Spot(p, k + 1), k < 8 => Front(p, "pending")
      PROVE  Goal
  BY <1>b, <1>2, <1>3, PassEnd DEF Goal
<1>c. ASSUME NEW p \in Places, UNCHANGED stage, Go(c, p), Spot(p, k),
             k < 9 => Front(p, stage[c][k])
      PROVE  Goal
  BY <1>c, <1>2, PassMove DEF Goal
<1>d. ASSUME Go(c, "failed"), UNCHANGED stage \/ \E s \in 1..8 : SetStage(c, s, "failed")
      PROVE  Goal
  BY <1>d, PassFail DEF Goal
<1>n. /\ NORMALIZE = 1 /\ STATIC_EXTRACTION = 2 /\ AGENT_EXECUTION = 3 /\ RAG_RETRIEVAL = 4
      /\ XGB_INFERENCE = 5 /\ DEBATE = 6 /\ FINAL_DECISION = 7 /\ PERSIST = 8
  BY DEF NORMALIZE, STATIC_EXTRACTION, AGENT_EXECUTION, RAG_RETRIEVAL, XGB_INFERENCE, DEBATE,
         FINAL_DECISION, PERSIST
<1>g. {"completed", "degraded", "skipped"} \subseteq Good
  BY DEF Good, Pipe!Terminal
\* The computing stages, and where a call goes after them.
<1>s. ASSUME NEW p \in DOMAIN Computes, k = Computes[p]
      PROVE  /\ k \in 2..7 /\ p \in Places /\ p \notin Working
             /\ After[p] \in Places /\ Spot(After[p], k + 1) /\ Front(After[p], "pending")
  <2>1. CASE p = "static"
    BY <2>1, <1>s, <1>n DEF Computes, After, Spot, Front, Working, Places, Ends
  <2>2. CASE p = "agents"
    BY <2>2, <1>s, <1>n DEF Computes, After, Spot, Front, Working, Places, Ends
  <2>3. CASE p = "rag"
    BY <2>3, <1>s, <1>n DEF Computes, After, Spot, Front, Working, Places, Ends
  <2>4. CASE p = "xgb"
    BY <2>4, <1>s, <1>n DEF Computes, After, Spot, Front, Working, Places, Ends
  <2>5. CASE p = "debate"
    BY <2>5, <1>s, <1>n DEF Computes, After, Spot, Front, Working, Places, Ends
  <2>6. CASE p = "decision"
    BY <2>6, <1>s, <1>n DEF Computes, After, Spot, Front, Working, Places, Ends
  <2> QED
    BY <2>1, <2>2, <2>3, <2>4, <2>5, <2>6 DEF Computes
<1>4. CASE Begin(c)
  <2>1. k = 1 /\ stage[c][k] = "pending"
    BY <1>4, <1>2 DEF Begin, Spot, Front, Working, Computes
  <2>2. StartStage(c, k, "normalize")
    BY <1>4, <2>1, <1>n DEF Begin
  <2>3. "normalize" \in Places /\ Spot("normalize", k) /\ Front("normalize", "started")
    BY <2>1 DEF Places, Spot, Front, Working, Computes
  <2> QED
    BY <1>a, <2>1, <2>2, <2>3
<1>5. CASE Normalize(c)
  <2>1. k = 1 /\ stage[c][k] = "started"
    BY <1>5, <1>2 DEF Normalize, Spot, Front, Working, Computes
  <2>2. CASE SetStage(c, NORMALIZE, "failed") /\ Go(c, "failed")
    BY <2>2, <1>d, <1>n
  <2>3. CASE SetStage(c, NORMALIZE, "completed") /\ Go(c, "static")
    <3>1. "static" \in Places /\ Spot("static", k + 1) /\ Front("static", "pending")
      BY <2>1, <1>n DEF Places, Spot, Front, Working, Computes
    <3> QED
      BY <2>1, <2>3, <3>1, <1>b, <1>g, <1>n
  <2>4. CASE Go(c, "skipAll") /\ UNCHANGED stage
    <3>1. "skipAll" \in Places /\ Spot("skipAll", k) /\ Front("skipAll", stage[c][k])
      BY <2>1 DEF Places, Spot, Front, Working, Computes
    <3> QED
      BY <2>4, <3>1, <1>c
  <2> QED
    BY <1>5, <2>2, <2>3, <2>4 DEF Normalize
<1>6. CASE EnterStage(c)
  <2>1. /\ at[c] \in DOMAIN Computes /\ k = Computes[at[c]]
        /\ stage[c][k] # "started" /\ StartStage(c, k, at[c])
    BY <1>6, <1>2 DEF EnterStage, Spot
  <2>2. k \in 2..7 /\ at[c] \in Places /\ at[c] \notin Working
    BY <2>1, <1>s
  <2>3. stage[c][k] = "pending" /\ Spot(at[c], k) /\ Front(at[c], "started")
    BY <2>1, <2>2, <1>2 DEF Front
  <2> QED
    BY <2>1, <2>2, <2>3, <1>a
<1>7. CASE LeaveStage(c)
  <2>1. at[c] \in DOMAIN Computes /\ k = Computes[at[c]]
    BY <1>7, <1>2 DEF LeaveStage, Spot
  <2>2. /\ k \in 2..7 /\ After[at[c]] \in Places /\ Spot(After[at[c]], k + 1)
        /\ Front(After[at[c]], "pending")
    BY <2>1, <1>s
  <2>3. CASE SetStage(c, k, "failed") /\ Go(c, "failed")
    BY <2>2, <2>3, <1>d
  <2>4. CASE \E out \in Good : SetStage(c, k, out) /\ Go(c, After[at[c]])
    BY <2>2, <2>4, <1>b
  <2>5. Degraded(at[c]) \subseteq Good
    BY <1>g DEF Degraded
  <2> QED
    BY <1>7, <1>g, <2>1, <2>3, <2>4, <2>5 DEF LeaveStage
<1>8. CASE Lookup(c) \/ Md5Lookup(c)
  <2>0. at[c] \in {"lookup", "md5Lookup"}
    BY <1>8 DEF Lookup, Md5Lookup
  <2>1. k = 3 /\ stage[c][k] = "pending"
    BY <2>0, <1>2 DEF Spot, Front, Working, Computes
  <2>2. UNCHANGED stage /\ \E p \in {"skipHit", "md5Lookup", "agents"} : Go(c, p)
    BY <1>8 DEF Lookup, Md5Lookup
  <2>3. ASSUME NEW p \in {"skipHit", "md5Lookup", "agents"}
        PROVE  p \in Places /\ Spot(p, k) /\ Front(p, stage[c][k])
    BY <2>1, <1>n DEF Places, Spot, Front, Working, Computes
  <2> QED
    BY <2>2, <2>3, <1>c
<1>9. CASE SkipStage(c)
  <2> DEFINE todo == {s \in SkipList(at[c]) : stage[c][s] \notin Pipe!Terminal}
  <2>0. at[c] \in {"skipAll", "skipHit"}
    BY <1>9 DEF SkipStage
  <2>1. SkipList(at[c]) \subseteq 1..8 /\ (k < 9 => k \in SkipList(at[c]))
    BY <2>0, <1>2, <1>n DEF SkipList, Spot
  <2>2. CASE k = 9
    <3>1. todo = {}
      BY <2>1, <2>2, <1>0, <1>2, Behind DEF Good
    <3>2. UNCHANGED stage /\ Go(c, IF at[c] = "skipAll" THEN "skipInsert" ELSE "reuse")
      BY <1>9, <3>1 DEF SkipStage
    <3>3. \A p \in {"skipInsert", "reuse"} : p \in Places /\ Spot(p, k)
      BY <2>2 DEF Places, Spot, Computes
    <3> QED
      BY <2>2, <3>2, <3>3, <1>c
  <2>3. CASE k < 9
    <3>1. /\ Pipe!CanSkip(stage[c], k)
          /\ \A s \in 1..8 : stage[c][s] \notin Pipe!Terminal <=> s >= k
      BY <2>3, <1>0, <1>2, <1>3, Machine
    <3>2. k \in todo /\ \A s \in todo : k <= s
      BY <3>1, <2>1, <2>3, <1>3
    <3>3. PICK s \in todo :
            /\ \A t \in todo : s <= t
            /\ IF Pipe!CanSkip(stage[c], s)
               THEN SetStage(c, s, "skipped") /\ UNCHANGED at
               ELSE Go(c, "stageError") /\ UNCHANGED stage
      BY <1>9, <3>2 DEF SkipStage
    <3>4. s = k
      BY <2>1, <3>2, <3>3
    <3>5. SetStage(c, k, "skipped") /\ Go(c, at[c])
      BY <3>1, <3>3, <3>4, <1>0 DEF Go
    <3>6. Spot(at[c], k + 1) /\ Front(at[c], "pending")
      BY <2>0, <2>3, <1>2 DEF Spot, Front, Working, Computes
    <3> QED
      BY <2>3, <3>5, <3>6, <1>0, <1>b, <1>g
  <2> QED
    BY <2>2, <2>3
<1>10. CASE Reuse(c) \/ SkipInsert(c) \/ SkipTrace(c) \/ FinalInsert(c) \/ SetCache(c)
  <2>1. k = 9
    BY <1>10, <1>2 DEF Reuse, SkipInsert, SkipTrace, FinalInsert, SetCache, Spot
  <2>2. UNCHANGED stage /\ \E p \in {"done", "skipTrace", "setCache"} : Go(c, p)
    BY <1>10 DEF Reuse, SkipInsert, SkipTrace, FinalInsert, SetCache
  <2>3. \A p \in {"done", "skipTrace", "setCache"} : p \in Places /\ Spot(p, k)
    BY <2>1 DEF Places, Ends, Spot, Computes
  <2> QED
    BY <2>1, <2>2, <2>3, <1>c
<1>11. CASE EnterPersist(c)
  <2>1. k = 8 /\ stage[c][k] = "pending"
    BY <1>11, <1>2 DEF EnterPersist, Spot, Front, Working, Computes
  <2>2. StartStage(c, k, "build")
    BY <1>11, <2>1, <1>n DEF EnterPersist
  <2>3. "build" \in Places /\ Spot("build", k) /\ Front("build", "started")
    BY <2>1 DEF Places, Spot, Front, Working, Computes
  <2> QED
    BY <1>a, <2>1, <2>2, <2>3
<1>12. CASE Build(c) \/ Insert(c)
  <2>0. at[c] \in {"build", "insert"}
    BY <1>12 DEF Build, Insert
  <2>1. k = 8 /\ stage[c][k] = "started"
    BY <2>0, <1>2 DEF Spot, Front, Working, Computes
  <2>2. CASE SetStage(c, PERSIST, "failed") /\ Go(c, "failed")
    BY <2>2, <1>d, <1>n
  <2>3. CASE UNCHANGED stage /\ \E p \in {"insert", "close"} : Go(c, p)
    <3>1. \A p \in {"insert", "close"} : p \in Places /\ Spot(p, k) /\ Front(p, stage[c][k])
      BY <2>1 DEF Places, Spot, Front, Working, Computes
    <3> QED
      BY <2>3, <3>1, <1>c
  <2> QED
    BY <1>12, <2>2, <2>3 DEF Build, Insert
<1>13. CASE Close(c)
  <2>1. k = 8
    BY <1>13, <1>2 DEF Close, Spot
  <2>2. SetStage(c, k, "completed") /\ Go(c, "finalInsert")
    BY <1>13, <2>1, <1>n DEF Close
  <2>3. "finalInsert" \in Places /\ Spot("finalInsert", k + 1)
    BY <2>1 DEF Places, Spot, Computes
  <2> QED
    BY <2>1, <2>2, <2>3, <1>b, <1>g
<1>14. CASE Raise(c)
  BY <1>14, <1>d DEF Raise
<1> QED
  BY <1>4, <1>5, <1>6, <1>7, <1>8, <1>9, <1>10, <1>11, <1>12, <1>13, <1>14 DEF CallStep

LEMMA PassStep == IInv /\ Passing /\ [Next]_vars => Passing'
<1> SUFFICES ASSUME IInv, Passing, [Next]_vars PROVE Passing'
  OBVIOUS
<1>1. ASSUME NEW c \in Calls, CallStep(c) PROVE Passing'
  BY <1>1, PassCall DEF IInv
<1>2. CASE Crash
  <2>1. UNCHANGED stage /\ \A c \in Calls : at'[c] = at[c] \/ at'[c] = "crashed"
    BY <1>2 DEF Crash
  <2> QED
    BY <2>1 DEF Passing, OnPass
<1>3. CASE ChangeSettings \/ Expire \/ UNCHANGED vars
  BY <1>3 DEF ChangeSettings, Expire, memory, vars, Passing
<1> QED
  BY <1>1, <1>2, <1>3 DEF Next

\* For any calls, contents, faults and crashes: the driver's own order of calls to
\* the pipeline is never refused, and a call that answers has ended all eight
\* stages and failed none, whether it computed, was not admitted or reused history.
THEOREM PassIsComplete == Spec => []CompletePass
<1>1. IInv /\ Passing => CompletePass
  <2> SUFFICES ASSUME IInv, Passing, NEW c \in Calls
               PROVE  /\ at[c] # "stageError"
                      /\ at[c] = "done" => \A s \in 1..8 : stage[c][s] \in Pipe!Terminal \ {"failed"}
    BY DEF CompletePass
  <2>1. stage[c] \in StageMaps
    BY DEF IInv, TypeOK, StageMaps
  <2> QED
    BY <2>1, Behind DEF Passing, OnPass, Spot, Good
<1> QED
  BY <1>1, InvInit, InvStep, PassInit, PassStep, PTL DEF Spec
------------------------------------------------------------------------------
(* PipelineStages by itself. The prefix property is inductive with the     *)
(* type: start and skip require the earlier stages to be terminal, and no  *)
(* call leaves a terminal status.                                          *)

StagesInv == StatusOK /\ EnteredInOrder

LEMMA StagesInductive == StagesInit /\ [][StagesNext]_status => []StagesInv
<1>1. StagesInit => StagesInv
  BY DEF StagesInit, StagesInv, StatusOK, EnteredInOrder, Pending, StageStatus
<1>2. StagesInv /\ [StagesNext]_status => StagesInv'
  <2> SUFFICES ASSUME StagesInv, [StagesNext]_status PROVE StagesInv'
    OBVIOUS
  <2> USE DEF StagesInv, StatusOK, EnteredInOrder, StageStatus, Terminal
  <2>1. ASSUME NEW s \in Stages, Start(s) PROVE StagesInv'
    BY <2>1 DEF Start, CanEnter, Stages
  <2>2. ASSUME NEW s \in Stages, Skip(s) PROVE StagesInv'
    BY <2>2 DEF Skip, CanSkip, CanEnter, Stages
  <2>3. ASSUME NEW s \in Stages, NEW outcome \in {"completed", "failed", "degraded"},
               Finish(s, outcome)
        PROVE  StagesInv'
    BY <2>3 DEF Finish, Stages
  <2>4. CASE UNCHANGED status
    BY <2>4
  <2> QED
    BY <2>1, <2>2, <2>3, <2>4 DEF StagesNext
<1> QED
  BY <1>1, <1>2, PTL

\* For any number of stages and any calls in any order, the stages entered are a
\* prefix of the order and all but the last of them are finished.
THEOREM PrefixOfStages == StagesSpec => []EnteredInOrder
<1>1. StagesInv => EnteredInOrder
  BY DEF StagesInv
<1> QED
  BY <1>1, StagesInductive, PTL DEF StagesSpec

\* No call of the state machine rewrites the outcome of a stage.
THEOREM OutcomesStand == StagesSpec => OutcomeFinal
<1> DEFINE Keeps == \A s \in Stages : status[s] \in Terminal => status'[s] = status[s]
<1>1. StagesInv /\ [StagesNext]_status => [Keeps]_status
  <2> SUFFICES ASSUME StagesInv, StagesNext PROVE Keeps
    OBVIOUS
  <2> USE DEF StagesInv, StatusOK, Terminal
  <2>1. ASSUME NEW s \in Stages, Start(s) PROVE Keeps
    BY <2>1 DEF Start, CanEnter
  <2>2. ASSUME NEW s \in Stages, Skip(s) PROVE Keeps
    BY <2>2 DEF Skip, CanSkip, CanEnter
  <2>3. ASSUME NEW s \in Stages, NEW outcome \in {"completed", "failed", "degraded"},
               Finish(s, outcome)
        PROVE  Keeps
    BY <2>3 DEF Finish
  <2> QED
    BY <2>1, <2>2, <2>3 DEF StagesNext
<1> QED
  BY <1>1, StagesInductive, PTL DEF StagesSpec, OutcomeFinal
==============================================================================
